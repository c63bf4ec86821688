--------------------------- MODULE ProtocolProofs ---------------------------
(***************************************************************************)
(* What the operators of protocol.rs compute. Its encodings (Varint,       *)
(* WireFormat): what get_varint and parse read, and that they read back    *)
(* what was written. Its fragments (Fragmentation): what StartOver, Store, *)
(* Drain, Assemble and Feed make of the slots and the counter, how a       *)
(* payload is cut up, and that its fragments make the message again.       *)
(*                                                                         *)
(* What a recursive function computes is proved by induction over a set of *)
(* numbers: NatSet.                                                        *)
(***************************************************************************)
EXTENDS WireFormat, WellFoundedInduction, TLAPS

(* A nonempty set of numbers has a least element. *)
LEMMA LeastElement ==
    ASSUME NEW S \in SUBSET Nat, S # {}
    PROVE  \E i \in S : \A j \in S : i <= j
<1> DEFINE R == {p \in Nat \X Nat : p[1] < p[2]}
<1>1. IsWellFoundedOn(R, Nat)
  BY NatLessThanWellFounded, SMT DEF OpToRel
<1>2. PICK x \in S : \A y \in S : <<y, x>> \notin R
  BY <1>1, WFMin, Zenon
<1>3. \A y \in S : ~(y < x)
  <2> TAKE y \in S
  <2>1. <<y, x>> \in Nat \X Nat /\ <<y, x>>[1] = y /\ <<y, x>>[2] = x
    OBVIOUS
  <2>2. QED
    BY <1>2, <2>1
<1>4. QED
  BY <1>3

(* Induction over numbers: a set with 0 and every successor is Nat. *)
LEMMA NatSet ==
    ASSUME NEW T \in SUBSET Nat, 0 \in T, \A n \in T : n + 1 \in T
    PROVE  T = Nat
<1> SUFFICES ASSUME T # Nat PROVE FALSE
  OBVIOUS
<1>1. PICK i \in Nat \ T : \A j \in Nat \ T : i <= j
  <2>1. Nat \ T # {} /\ Nat \ T \in SUBSET Nat
    BY Zenon
  <2>2. QED
    BY <2>1, LeastElement, Zenon
<1>2. i - 1 \in T
  BY <1>1
<1>3. QED
  BY <1>1, <1>2

(* What a part of a sequence is. *)
LEMMA PartFacts ==
    ASSUME NEW S, NEW w \in Seq(S), NEW i \in 0..Len(w), NEW j \in i..Len(w)
    PROVE  /\ SubSeq(w, i+1, j) \in Seq(S)
           /\ Len(SubSeq(w, i+1, j)) = j - i
           /\ \A k \in 1 .. j-i : SubSeq(w, i+1, j)[k] = w[i+k]
  OBVIOUS

(* Sequences with the same elements are equal. *)
LEMMA SeqsEqual ==
    ASSUME NEW S, NEW s \in Seq(S), NEW t \in Seq(S),
           Len(s) = Len(t), \A i \in 1..Len(s) : s[i] = t[i]
    PROVE  s = t
  OBVIOUS

(* A part of a prefix is a part of the whole. *)
LEMMA PartOfPrefix ==
    ASSUME NEW S, NEW w \in Seq(S), NEW m \in 0..Len(w), NEW i \in 0..m, NEW j \in i..m
    PROVE  SubSeq(SubSeq(w, 1, m), i+1, j) = SubSeq(w, i+1, j)
<1> DEFINE p == SubSeq(w, 1, m)
           a == SubSeq(p, i+1, j)
           b == SubSeq(w, i+1, j)
<1>1. p \in Seq(S) /\ Len(p) = m /\ \A k \in 1..m : p[k] = w[k]
  <2>1. 0 \in 0..Len(w) /\ m \in 0..Len(w) /\ 0+1 = 1 /\ m-0 = m
    OBVIOUS
  <2>2. /\ SubSeq(w, 0+1, m) \in Seq(S) /\ Len(SubSeq(w, 0+1, m)) = m-0
        /\ \A k \in 1..m-0 : SubSeq(w, 0+1, m)[k] = w[0+k]
    BY <2>1, PartFacts
  <2>3. QED
    BY <2>1, <2>2
<1> HIDE DEF p
<1>2. a \in Seq(S) /\ Len(a) = j-i /\ \A k \in 1..j-i : a[k] = p[i+k]
  <2>1. i \in 0..Len(p) /\ j \in i..Len(p)
    BY <1>1
  <2>2. QED
    BY <1>1, <2>1, PartFacts
<1>3. b \in Seq(S) /\ Len(b) = j-i /\ \A k \in 1..j-i : b[k] = w[i+k]
  <2>1. i \in 0..Len(w) /\ j \in i..Len(w)
    OBVIOUS
  <2>2. QED
    BY <2>1, PartFacts
<1>4. \A k \in 1..j-i : a[k] = b[k]
  BY <1>1, <1>2, <1>3, SMTT(30)
<1> HIDE DEF a, b
<1>5. a = b
  BY <1>2, <1>3, <1>4, SeqsEqual
<1>6. QED
  BY <1>5 DEF a, b, p

(* What a prefix is. *)
LEMMA PrefixFacts ==
    ASSUME NEW S, NEW w \in Seq(S), NEW m \in 0..Len(w)
    PROVE  /\ SubSeq(w, 1, m) \in Seq(S) /\ Len(SubSeq(w, 1, m)) = m
           /\ \A k \in 1..m : SubSeq(w, 1, m)[k] = w[k]
<1>1. 0 \in 0..Len(w) /\ m \in 0..Len(w) /\ 0+1 = 1 /\ m-0 = m
  OBVIOUS
<1>2. /\ SubSeq(w, 0+1, m) \in Seq(S) /\ Len(SubSeq(w, 0+1, m)) = m-0
      /\ \A k \in 1..m-0 : SubSeq(w, 0+1, m)[k] = w[0+k]
  BY <1>1, PartFacts
<1>3. QED
  BY <1>1, <1>2

-----------------------------------------------------------------------------
(* Variable-length integers.                                               *)

(* Radix and LowRange are positive. *)
LEMMA RadixType == Radix \in Nat /\ Radix > 0 /\ LowRange \in Nat /\ LowRange > 0
  BY LowRangeAssumption DEF Radix

(* Division with remainder. *)
LEMMA Euclid ==
    ASSUME NEW r \in Nat, r > 0
    PROVE  /\ \A a \in Nat : a \div r \in Nat /\ a % r \in 0 .. r-1 /\ a = (a \div r) * r + (a % r)
           /\ \A q \in Nat, b \in 0 .. r-1 : (q * r + b) \div r = q /\ (q * r + b) % r = b
<1>1. \A a \in Nat : a \div r \in Nat /\ a % r \in 0 .. r-1 /\ a = (a \div r) * r + (a % r)
  OBVIOUS
<1>2. \A q \in Nat, b \in 0 .. r-1 : (q * r + b) \div r = q
  OBVIOUS
<1>3. \A q \in Nat, b \in 0 .. r-1 : (q * r + b) % r = b
  OBVIOUS
<1>4. QED
  BY <1>1, <1>2, <1>3

(* q holds v shifted by 0, 1, ..., j bytes. *)
Shifts(q, v, j) == q = [i \in 0..j |-> IF i = 0 THEN v ELSE q[i-1] \div Radix]

(* A shift by j bytes is the last of those values. *)
LEMMA ShiftIsLast ==
    ASSUME NEW v, NEW j
    PROVE  Shift(v, j) = (CHOOSE q : Shifts(q, v, j))[j]
  BY DEF Shift, Shifts

(* There are such values, whatever the number of bytes. *)
LEMMA ShiftsExists ==
    ASSUME NEW v
    PROVE  \A j \in Nat : \E q : Shifts(q, v, j)
<1> DEFINE P(j) == \E q : Shifts(q, v, j)
           T    == {j \in Nat : P(j)}
<1>1. P(0)
  <2> DEFINE q == [i \in 0..0 |-> v]
  <2>1. q = [i \in 0..0 |-> IF i = 0 THEN v ELSE q[i-1] \div Radix]
    OBVIOUS
  <2> HIDE DEF q
  <2>2. QED
    BY <2>1 DEF Shifts
<1>2. ASSUME NEW j \in Nat, P(j) PROVE P(j+1)
  <2>1. PICK q : Shifts(q, v, j)
    BY <1>2
  <2> DEFINE r == [i \in 0..j+1 |-> IF i = j+1 THEN q[j] \div Radix ELSE q[i]]
  <2>2. ASSUME NEW i \in 0..j+1 PROVE r[i] = IF i = 0 THEN v ELSE r[i-1] \div Radix
    <3>1. CASE i = j+1
      <4>1. i - 1 = j /\ j \in 0..j+1 /\ j # j+1 /\ i # 0
        BY <3>1
      <4>2. QED
        BY <3>1, <4>1
    <3>2. CASE i # j+1
      <4>1. i \in 0..j
        BY <3>2
      <4>2. q[i] = IF i = 0 THEN v ELSE q[i-1] \div Radix
        BY <2>1, <4>1 DEF Shifts
      <4>3. i # 0 => i-1 \in 0..j+1 /\ i-1 # j+1
        BY <4>1
      <4>4. QED
        BY <3>2, <4>2, <4>3
    <3>3. QED
      BY <3>1, <3>2
  <2>3. r = [i \in 0..j+1 |-> IF i = 0 THEN v ELSE r[i-1] \div Radix]
    BY <2>2
  <2> HIDE DEF r
  <2>4. Shifts(r, v, j+1)
    BY <2>3 DEF Shifts
  <2>5. QED
    BY <2>4
<1> HIDE DEF P
<1>3. T \in SUBSET Nat /\ 0 \in T /\ \A j \in T : j+1 \in T
  BY <1>1, <1>2
<1> HIDE DEF T
<1>4. T = Nat
  BY <1>3, NatSet
<1>5. QED
  BY <1>4 DEF T, P

(* Shifting by one more byte divides once more. *)
LEMMA ShiftFacts ==
    ASSUME NEW v \in Nat
    PROVE  /\ Shift(v, 0) = v
           /\ \A j \in Nat : Shift(v, j) \in Nat /\ Shift(v, j+1) = Shift(v, j) \div Radix
<1>1. \A j \in Nat : Shifts(CHOOSE q : Shifts(q, v, j), v, j)
  BY ShiftsExists
<1>2. ASSUME NEW j \in Nat, NEW q, Shifts(q, v, j), NEW r, Shifts(r, v, j+1)
      PROVE  \A i \in 0..j : q[i] = r[i] /\ q[i] \in Nat
  <2> DEFINE P(i) == i <= j => q[i] = r[i] /\ q[i] \in Nat
             T    == {i \in Nat : P(i)}
  <2>1. \A i \in 0..j : q[i] = IF i = 0 THEN v ELSE q[i-1] \div Radix
    BY <1>2 DEF Shifts
  <2>2. \A i \in 0..j+1 : r[i] = IF i = 0 THEN v ELSE r[i-1] \div Radix
    BY <1>2 DEF Shifts
  <2>3. P(0)
    BY <2>1, <2>2
  <2>4. ASSUME NEW i \in Nat, P(i) PROVE P(i+1)
    <3> SUFFICES ASSUME i+1 <= j PROVE q[i+1] = r[i+1] /\ q[i+1] \in Nat
      OBVIOUS
    <3>1. q[i] = r[i] /\ q[i] \in Nat
      BY <2>4
    <3>2. q[i+1] = q[i] \div Radix /\ r[i+1] = r[i] \div Radix
      BY <2>1, <2>2
    <3>3. QED
      BY <3>1, <3>2, Euclid, RadixType
  <2> HIDE DEF P
  <2>5. T \in SUBSET Nat /\ 0 \in T /\ \A i \in T : i+1 \in T
    BY <2>3, <2>4
  <2> HIDE DEF T
  <2>6. T = Nat
    BY <2>5, NatSet
  <2>7. QED
    BY <2>6 DEF T, P
<1>3. ASSUME NEW j \in Nat PROVE Shift(v, j) \in Nat /\ Shift(v, j+1) = Shift(v, j) \div Radix
  <2> DEFINE q == CHOOSE q : Shifts(q, v, j)
             r == CHOOSE r : Shifts(r, v, j+1)
  <2>1. Shifts(q, v, j) /\ Shifts(r, v, j+1)
    BY <1>1
  <2>2. Shift(v, j) = q[j] /\ Shift(v, j+1) = r[j+1]
    BY ShiftIsLast
  <2> HIDE DEF q, r
  <2>3. q[j] = r[j] /\ q[j] \in Nat
    BY <1>2, <2>1
  <2>4. r[j+1] = r[j] \div Radix
    BY <2>1 DEF Shifts
  <2>5. QED
    BY <2>2, <2>3, <2>4
<1>4. Shift(v, 0) = v
  <2> DEFINE q == CHOOSE q : Shifts(q, v, 0)
  <2>1. Shifts(q, v, 0) /\ Shift(v, 0) = q[0]
    BY <1>1, ShiftIsLast
  <2> HIDE DEF q
  <2>2. QED
    BY <2>1 DEF Shifts
<1>5. QED
  BY <1>3, <1>4

(* f holds the values of the first 1, 2, ..., n bytes of s, the tag taken off. *)
Values(f, s, n) ==
    f = [k \in 1..n |-> IF k = 1 THEN s[1] % LowRange ELSE f[k-1] * Radix + s[k]]

(* There are such values, whatever the number of bytes. *)
LEMMA ValuesExist ==
    ASSUME NEW s
    PROVE  \A n \in Nat : \E f : Values(f, s, n)
<1> DEFINE P(n) == \E f : Values(f, s, n)
           T    == {n \in Nat : P(n)}
<1>1. P(0)
  <2>1. Values(<< >>, s, 0)
    BY DEF Values
  <2>2. QED
    BY <2>1
<1>2. ASSUME NEW n \in Nat, P(n) PROVE P(n+1)
  <2>1. PICK f : Values(f, s, n)
    BY <1>2
  <2> DEFINE x == IF n = 0 THEN s[1] % LowRange ELSE f[n] * Radix + s[n+1]
             g == [k \in 1..n+1 |-> IF k = n+1 THEN x ELSE f[k]]
  <2>2. ASSUME NEW k \in 1..n+1
        PROVE  g[k] = IF k = 1 THEN s[1] % LowRange ELSE g[k-1] * Radix + s[k]
    <3>1. CASE k = n+1
      <4>1. g[k] = x
        BY <3>1
      <4>2. CASE n = 0
        BY <3>1, <4>1, <4>2
      <4>3. CASE n # 0
        <5>1. k - 1 = n /\ n \in 1..n+1 /\ n # n+1 /\ k # 1
          BY <3>1, <4>3
        <5>2. g[k-1] = f[n]
          BY <5>1
        <5>3. x = f[n] * Radix + s[k]
          BY <3>1, <4>3
        <5> HIDE DEF g, x
        <5>4. QED
          BY <4>1, <5>1, <5>2, <5>3
      <4>4. QED
        BY <4>2, <4>3
    <3>2. CASE k # n+1
      <4>1. k \in 1..n
        BY <3>2
      <4>2. f[k] = IF k = 1 THEN s[1] % LowRange ELSE f[k-1] * Radix + s[k]
        BY <2>1, <4>1 DEF Values
      <4>3. k # 1 => k-1 \in 1..n+1 /\ k-1 # n+1
        BY <4>1
      <4>4. g[k] = f[k] /\ (k # 1 => g[k-1] = f[k-1])
        BY <3>2, <4>3
      <4> HIDE DEF g, x
      <4>5. QED
        BY <4>2, <4>4
    <3>3. QED
      BY <3>1, <3>2
  <2>3. g = [k \in 1..n+1 |-> IF k = 1 THEN s[1] % LowRange ELSE g[k-1] * Radix + s[k]]
    BY <2>2
  <2> HIDE DEF g
  <2>4. QED
    BY <2>3 DEF Values
<1> HIDE DEF P
<1>3. T \in SUBSET Nat /\ 0 \in T /\ \A n \in T : n+1 \in T
  BY <1>1, <1>2
<1> HIDE DEF T
<1>4. T = Nat
  BY <1>3, NatSet
<1>5. QED
  BY <1>4 DEF T, P

(* A byte is a number. *)
LEMMA ByteIsNat == Byte \in SUBSET Nat
  BY RadixType DEF Byte

(* What get_varint accumulates is a number at every byte. *)
LEMMA ValuesType ==
    ASSUME NEW s \in Seq(Byte), NEW n \in Nat, n <= Len(s), NEW f, Values(f, s, n)
    PROVE  \A k \in 1..n : f[k] \in Nat
<1> DEFINE P(k) == k \in 1..n => f[k] \in Nat
           T    == {k \in Nat : P(k)}
<1>0. \A k \in 1..n : s[k] \in Byte
  OBVIOUS
<1>1. \A k \in 1..n : f[k] = IF k = 1 THEN s[1] % LowRange ELSE f[k-1] * Radix + s[k]
  BY DEF Values
<1>2. P(0)
  OBVIOUS
<1>3. ASSUME NEW k \in Nat, P(k) PROVE P(k+1)
  <2> SUFFICES ASSUME k+1 \in 1..n PROVE f[k+1] \in Nat
    OBVIOUS
  <2>1. CASE k = 0
    <3>1. f[1] = s[1] % LowRange
      BY <1>1, <2>1
    <3>2. s[1] \in Byte
      BY <1>0, <2>1
    <3>3. s[1] \in Nat
      BY <3>2, ByteIsNat, Zenon
    <3>4. QED
      BY <2>1, <3>1, <3>3, RadixType, Euclid
  <2>2. CASE k # 0
    <3>1. f[k+1] = f[k] * Radix + s[k+1]
      BY <1>1, <2>2
    <3>2. f[k] \in Nat
      BY <1>3, <2>2
    <3>3. s[k+1] \in Byte
      BY <1>0
    <3>4. s[k+1] \in Nat
      BY <3>3, ByteIsNat, Zenon
    <3>5. QED
      BY <3>1, <3>2, <3>4, RadixType
  <2>3. QED
    BY <2>1, <2>2
<1> HIDE DEF P
<1>4. T \in SUBSET Nat /\ 0 \in T /\ \A k \in T : k+1 \in T
  BY <1>2, <1>3
<1> HIDE DEF T
<1>5. T = Nat
  BY <1>4, NatSet
<1>6. QED
  BY <1>5 DEF T, P

(* Dropping the last bytes of a value leaves the value of the first ones. *)
LEMMA ValuesShift ==
    ASSUME NEW s \in Seq(Byte), NEW n \in Nat, 1 <= n, n <= Len(s), NEW f, Values(f, s, n)
    PROVE  \A k \in 1..n : Shift(f[n], n-k) = f[k]
<1> DEFINE P(j) == j \in 0..n-1 => Shift(f[n], j) = f[n-j]
           T    == {j \in Nat : P(j)}
<1>0. \A k \in 1..n : s[k] \in Byte
  OBVIOUS
<1>1. \A k \in 1..n : s[k] \in 0..Radix-1 /\ f[k] \in Nat
  BY <1>0, ValuesType DEF Byte
<1>2. \A k \in 2..n : f[k] = f[k-1] * Radix + s[k]
  BY DEF Values
<1>3. P(0)
  <2>1. f[n] \in Nat /\ n - 0 = n
    BY <1>1
  <2>2. Shift(f[n], 0) = f[n]
    BY <2>1, ShiftFacts, Zenon
  <2>3. QED
    BY <2>1, <2>2
<1>4. ASSUME NEW j \in Nat, P(j) PROVE P(j+1)
  <2> SUFFICES ASSUME j+1 \in 0..n-1 PROVE Shift(f[n], j+1) = f[n-(j+1)]
    OBVIOUS
  <2>1. Shift(f[n], j) = f[n-j]
    BY <1>4
  <2>2. n-j \in 2..n /\ n-j-1 = n-(j+1) /\ n-(j+1) \in 1..n /\ n \in 1..n
    OBVIOUS
  <2>3. f[n-j] = f[n-(j+1)] * Radix + s[n-j]
    BY <1>2, <2>2
  <2>4. f[n-(j+1)] \in Nat /\ s[n-j] \in 0..Radix-1 /\ f[n] \in Nat
    BY <1>1, <2>2
  <2>5. f[n-j] \div Radix = f[n-(j+1)]
    <3>1. \A q \in Nat, b \in 0 .. Radix-1 : (q * Radix + b) \div Radix = q
      BY Euclid, RadixType
    <3>2. QED
      BY <2>3, <2>4, <3>1
  <2>6. Shift(f[n], j+1) = Shift(f[n], j) \div Radix
    BY <2>4, ShiftFacts, Zenon
  <2>7. QED
    BY <2>1, <2>5, <2>6
<1> HIDE DEF P
<1>5. T \in SUBSET Nat /\ 0 \in T /\ \A j \in T : j+1 \in T
  BY <1>3, <1>4
<1> HIDE DEF T
<1>6. T = Nat
  BY <1>5, NatSet
<1>7. \A j \in 0..n-1 : Shift(f[n], j) = f[n-j]
  BY <1>6 DEF T, P
<1>8. QED
  BY <1>7

(* The four lengths of a varint. *)
LEMMA TwoTo == \A t \in 0..3 : 2^t \in {1, 2, 4, 8}
<1> SUFFICES ASSUME NEW t \in 0..3 PROVE 2^t \in {1, 2, 4, 8}
  BY Zenon
<1>1. t = 0 \/ t = 1 \/ t = 2 \/ t = 3
  OBVIOUS
<1>2. 2^0 = 1 /\ 2^1 = 2 /\ 2^2 = 4 /\ 2^3 = 8
  OBVIOUS
<1>3. QED
  BY <1>1, <1>2, Zenon

(* The top two bits of a byte and the rest of it. *)
LEMMA TagType == \A b \in Byte : b \div LowRange \in 0..3 /\ b % LowRange \in 0..LowRange-1
                                 /\ b = (b \div LowRange) * LowRange + (b % LowRange)
<1> SUFFICES ASSUME NEW b \in Byte
             PROVE  b \div LowRange \in 0..3 /\ b % LowRange \in 0..LowRange-1
                                 /\ b = (b \div LowRange) * LowRange + (b % LowRange)
  OBVIOUS
<1>1. b \in Nat /\ b < 4 * LowRange
  BY RadixType DEF Byte, Radix
<1>2. b \div LowRange \in Nat /\ b % LowRange \in 0..LowRange-1
        /\ b = (b \div LowRange) * LowRange + (b % LowRange)
  BY <1>1, RadixType, Euclid
<1>3. b \div LowRange < 4
  BY <1>1, <1>2, RadixType
<1>4. QED
  BY <1>2, <1>3

(* get_varint returns the last of those values. *)
LEMMA GetVarintIsLast ==
    ASSUME NEW s, s # << >>, NEW n, n = 2 ^ (s[1] \div LowRange)
    PROVE  GetVarint(s) = IF Len(s) < n THEN << >>
                          ELSE << (CHOOSE f : Values(f, s, n))[n], n >>
  BY DEF GetVarint, Values

(* b is v in 2^t bytes, and no other value is. *)
IsOnly(b, t, v) == VarintIn(v, t) = b /\ \A u \in Nat : VarintIn(u, t) = b => u = v

(* get_varint reads the one value that the first bytes encode under their  *)
(* own tag, or nothing if there are fewer bytes than the tag says.         *)
LEMMA VarintDecodes ==
    ASSUME NEW s \in Seq(Byte), s # << >>, NEW t, t = s[1] \div LowRange, NEW n, n = 2^t
    PROVE  /\ t \in 0..3 /\ n \in {1, 2, 4, 8}
           /\ Len(s) < n => GetVarint(s) = << >>
           /\ Len(s) >= n =>
                 \E v \in Nat : GetVarint(s) = <<v, n>> /\ IsOnly(SubSeq(s, 1, n), t, v)
<1>1. Len(s) \in Nat /\ Len(s) >= 1 /\ \A k \in 1..Len(s) : s[k] \in Byte
  OBVIOUS
<1>2. /\ t \in 0..3
      /\ s[1] % LowRange \in 0..LowRange-1
      /\ s[1] = t * LowRange + (s[1] % LowRange)
  BY <1>1, TagType
<1>3. n \in {1, 2, 4, 8}
  BY <1>2, TwoTo, Zenon
<1>4. Len(s) < n => GetVarint(s) = << >>
  BY GetVarintIsLast
<1>5. ASSUME Len(s) >= n
      PROVE  \E v \in Nat : GetVarint(s) = <<v, n>> /\ IsOnly(SubSeq(s, 1, n), t, v)
  <2> DEFINE f == CHOOSE f : Values(f, s, n)
  <2>1. n \in Nat /\ 1 <= n /\ n <= Len(s)
    BY <1>1, <1>3, <1>5
  <2>2. Values(f, s, n)
    BY <2>1, ValuesExist
  <2>3. GetVarint(s) = <<f[n], n>>
    <3>1. ~(Len(s) < n)
      BY <1>1, <2>1
    <3>2. QED
      BY <3>1, GetVarintIsLast, Zenon
  <2> HIDE DEF f
  <2>4. \A k \in 1..n : f[k] \in Nat
    BY <2>1, <2>2, ValuesType
  <2>5. \A k \in 1..n : Shift(f[n], n-k) = f[k]
    BY <2>1, <2>2, ValuesShift
  <2>6. f[1] = s[1] % LowRange
    BY <2>1, <2>2 DEF Values
  <2>7. \A k \in 2..n : f[k] = f[k-1] * Radix + s[k]
    BY <2>1, <2>2 DEF Values
  <2>8. \A k \in 1..n : s[k] \in 0..Radix-1
    BY <1>1, <2>1 DEF Byte
  <2>9. \A q \in Nat, b \in 0 .. Radix-1 : (q * Radix + b) % Radix = b
    BY Euclid, RadixType
  <2> DEFINE g(u) == [k \in 1..n |-> IF k = 1 THEN Shift(u, n - 1) + t * LowRange
                                               ELSE Shift(u, n - k) % Radix]
  <2>10. \A u : VarintIn(u, t) = g(u)
    BY DEF VarintIn
  <2>11. SubSeq(s, 1, n) = [k \in 1..n |-> s[k]]
    BY <2>1, SMTT(30)
  <2>12. g(f[n]) = [k \in 1..n |-> s[k]]
    <3> SUFFICES ASSUME NEW k \in 1..n PROVE g(f[n])[k] = s[k]
      BY Zenon
    <3>1. CASE k = 1
      <4>1. Shift(f[n], n - 1) = f[1]
        BY <2>1, <2>5
      <4>2. f[1] + t * LowRange = s[1]
        BY <1>2, <2>6, RadixType
      <4>3. QED
        BY <3>1, <4>1, <4>2
    <3>2. CASE k # 1
      <4>1. k \in 2..n /\ k-1 \in 1..n
        BY <3>2, <2>1
      <4>2. Shift(f[n], n - k) = f[k-1] * Radix + s[k]
        BY <2>5, <2>7, <4>1
      <4>3. f[k-1] \in Nat /\ s[k] \in 0..Radix-1
        BY <2>4, <2>8, <4>1
      <4>4. Shift(f[n], n - k) % Radix = s[k]
        BY <2>9, <4>2, <4>3
      <4>5. QED
        BY <3>2, <4>4
    <3>3. QED
      BY <3>1, <3>2, Zenon
  <2>13. ASSUME NEW u \in Nat, g(u) = [k \in 1..n |-> s[k]] PROVE u = f[n]
    <3> DEFINE P(k) == k \in 1..n => Shift(u, n-k) = f[k]
               T    == {k \in Nat : P(k)}
    <3>0. \A k \in 1..n : g(u)[k] = s[k]
      BY <2>13
    <3>1. Shift(u, n-1) + t * LowRange = s[1]
      <4>1. 1 \in 1..n
        BY <2>1
      <4>2. g(u)[1] = Shift(u, n-1) + t * LowRange
        BY <4>1
      <4>3. QED
        BY <3>0, <4>1, <4>2, Zenon
    <3>2. ASSUME NEW k \in 2..n PROVE Shift(u, n-k) % Radix = s[k]
      <4>1. k \in 1..n /\ k # 1
        OBVIOUS
      <4>2. QED
        BY <3>0, <4>1, Zenon
    <3> HIDE DEF g
    <3>3. P(0)
      OBVIOUS
    <3>4. ASSUME NEW k \in Nat, P(k) PROVE P(k+1)
      <4> SUFFICES ASSUME k+1 \in 1..n PROVE Shift(u, n-(k+1)) = f[k+1]
        OBVIOUS
      <4>1. CASE k = 0
        <5>1. n-1 \in Nat
          BY <2>1
        <5>2. Shift(u, n-1) \in Nat
          BY <5>1, ShiftFacts, Zenon
        <5>3. Shift(u, n-1) = s[1] % LowRange
          <6>1. \A a, b, c \in Nat : a + c = c + b => a = b
            OBVIOUS
          <6>2. t * LowRange \in Nat /\ s[1] % LowRange \in Nat
            <7>1. \A a, b \in Nat : a * b \in Nat
              OBVIOUS
            <7>2. (\A a \in 0..3 : a \in Nat) /\ (\A a \in 0..LowRange-1 : a \in Nat)
              OBVIOUS
            <7>3. t \in Nat /\ LowRange \in Nat /\ s[1] % LowRange \in Nat
              BY <1>2, <7>2, RadixType, Zenon
            <7>4. QED
              BY <7>1, <7>3, Zenon
          <6>3. QED
            BY <1>2, <3>1, <5>2, <6>1, <6>2
        <5>4. QED
          BY <2>6, <4>1, <5>3
      <4>2. CASE k # 0
        <5>1. n-(k+1) \in Nat /\ (n-(k+1))+1 = n-k /\ k \in 1..n /\ k+1 \in 2..n /\ (k+1)-1 = k
          BY <2>1, <4>2
        <5>2. Shift(u, n-k) = f[k]
          BY <3>4, <5>1
        <5>3. Shift(u, n-(k+1)) \in Nat /\ Shift(u, n-k) = Shift(u, n-(k+1)) \div Radix
          <6>1. \A j \in Nat : Shift(u, j) \in Nat /\ Shift(u, j+1) = Shift(u, j) \div Radix
            BY ShiftFacts, Zenon
          <6>2. QED
            BY <5>1, <6>1
        <5>4. Shift(u, n-(k+1)) % Radix = s[k+1]
          BY <3>2, <5>1
        <5>5. \A a \in Nat : a = (a \div Radix) * Radix + (a % Radix)
          BY Euclid, RadixType
        <5>6. Shift(u, n-(k+1)) = f[k] * Radix + s[k+1]
          BY <5>2, <5>3, <5>4, <5>5
        <5>7. f[k+1] = f[k] * Radix + s[k+1]
          BY <2>7, <5>1
        <5>8. QED
          BY <5>6, <5>7
      <4>3. QED
        BY <4>1, <4>2
    <3> HIDE DEF P
    <3>5. T \in SUBSET Nat /\ 0 \in T /\ \A k \in T : k+1 \in T
      BY <3>3, <3>4
    <3> HIDE DEF T
    <3>6. T = Nat
      BY <3>5, NatSet, Zenon
    <3>7. P(n)
      BY <2>1, <3>6 DEF T
    <3>8. Shift(u, n-n) = f[n] /\ n-n = 0
      BY <2>1, <3>7 DEF P
    <3>9. QED
      BY <3>8, ShiftFacts, Zenon
  <2>14. f[n] \in Nat
    BY <2>1, <2>4
  <2> HIDE DEF g
  <2>15. VarintIn(f[n], t) = SubSeq(s, 1, n)
    BY <2>10, <2>11, <2>12
  <2>16. \A u \in Nat : VarintIn(u, t) = SubSeq(s, 1, n) => u = f[n]
    BY <2>10, <2>11, <2>13, Zenon
  <2>17. IsOnly(SubSeq(s, 1, n), t, f[n])
    BY <2>15, <2>16 DEF IsOnly
  <2>18. QED
    BY <2>3, <2>14, <2>17
<1>6. QED
  BY <1>2, <1>3, <1>4, <1>5

-----------------------------------------------------------------------------
(* What is encoded decodes to the same.                                    *)

(* A shift of a smaller number is smaller. *)
LEMMA DivBelow ==
    ASSUME NEW a \in Nat, NEW b \in Nat, a < b * Radix
    PROVE  a \div Radix < b
<1>1. a \div Radix \in Nat /\ a % Radix \in 0..Radix-1 /\ a = (a \div Radix) * Radix + (a % Radix)
  BY Euclid, RadixType
<1>2. \A q, x, r \in Nat : r > 0 /\ q * r < x * r => q < x
  OBVIOUS
<1>3. (a \div Radix) * Radix <= a
  BY <1>1, RadixType
<1> DEFINE q == a \div Radix
<1>4. q * Radix < b * Radix
  BY <1>1, <1>3, RadixType
<1> HIDE DEF q
<1>5. QED
  BY <1>1, <1>2, <1>4, RadixType DEF q

(* The function that from_be_bytes is the last value of. *)
Sums(f, s, n) == f = [k \in 0..n |-> IF k = 0 THEN 0 ELSE f[k-1] * Radix + s[k]]

LEMMA SumsExist ==
    ASSUME NEW s
    PROVE  \A n \in Nat : \E f : Sums(f, s, n)
<1> DEFINE P(n) == \E f : Sums(f, s, n)
           T    == {n \in Nat : P(n)}
<1>1. P(0)
  <2> DEFINE f == [k \in 0..0 |-> 0]
  <2>1. f = [k \in 0..0 |-> IF k = 0 THEN 0 ELSE f[k-1] * Radix + s[k]]
    OBVIOUS
  <2> HIDE DEF f
  <2>2. QED
    BY <2>1 DEF Sums
<1>2. ASSUME NEW n \in Nat, P(n) PROVE P(n+1)
  <2>1. PICK f : Sums(f, s, n)
    BY <1>2
  <2> DEFINE x == f[n] * Radix + s[n+1]
             g == [k \in 0..n+1 |-> IF k = n+1 THEN x ELSE f[k]]
  <2>2. ASSUME NEW k \in 0..n+1 PROVE g[k] = IF k = 0 THEN 0 ELSE g[k-1] * Radix + s[k]
    <3>1. CASE k = n+1
      <4>1. g[k] = x /\ k # 0
        BY <3>1
      <4>2. k-1 = n /\ n \in 0..n+1 /\ n # n+1
        BY <3>1
      <4>3. g[k-1] = f[n]
        BY <4>2
      <4>4. x = f[n] * Radix + s[k]
        BY <3>1
      <4> HIDE DEF g, x
      <4>5. QED
        BY <4>1, <4>3, <4>4
    <3>2. CASE k # n+1
      <4>1. k \in 0..n
        BY <3>2
      <4>2. f[k] = IF k = 0 THEN 0 ELSE f[k-1] * Radix + s[k]
        BY <2>1, <4>1 DEF Sums
      <4>3. k # 0 => k-1 \in 0..n+1 /\ k-1 # n+1
        BY <4>1
      <4>4. g[k] = f[k] /\ (k # 0 => g[k-1] = f[k-1])
        BY <3>2, <4>3
      <4> HIDE DEF g, x
      <4>5. QED
        BY <4>2, <4>4
    <3>3. QED
      BY <3>1, <3>2
  <2>3. g = [k \in 0..n+1 |-> IF k = 0 THEN 0 ELSE g[k-1] * Radix + s[k]]
    BY <2>2
  <2> HIDE DEF g
  <2>4. QED
    BY <2>3 DEF Sums
<1> HIDE DEF P
<1>3. T \in SUBSET Nat /\ 0 \in T /\ \A n \in T : n+1 \in T
  BY <1>1, <1>2
<1> HIDE DEF T
<1>4. T = Nat
  BY <1>3, NatSet
<1>5. QED
  BY <1>4 DEF T, P

LEMMA FromBigEndianIsLast ==
    ASSUME NEW s
    PROVE  FromBigEndian(s) = (CHOOSE f : Sums(f, s, Len(s)))[Len(s)]
  BY DEF FromBigEndian, Sums

(* What to_be_bytes writes. *)
LEMMA BigEndianType ==
    ASSUME NEW v \in Nat, NEW n \in Nat
    PROVE  /\ BigEndian(v, n) \in Seq(Byte) /\ Len(BigEndian(v, n)) = n
           /\ \A k \in 1..n : BigEndian(v, n)[k] = Shift(v, n-k) % Radix
<1>1. ASSUME NEW k \in 1..n PROVE Shift(v, n-k) % Radix \in Byte
  <2>1. n-k \in Nat
    OBVIOUS
  <2>2. Shift(v, n-k) \in Nat
    BY <2>1, ShiftFacts
  <2>3. QED
    BY <2>2, Euclid, RadixType DEF Byte
<1>2. [k \in 1..n |-> Shift(v, n-k) % Radix] \in Seq(Byte)
  BY <1>1
<1>3. QED
  BY <1>2 DEF BigEndian

(* from_be_bytes undoes to_be_bytes, for a number that fits. *)
LEMMA BigEndianRoundTrip ==
    ASSUME NEW v \in Nat, NEW n \in Nat, Shift(v, n) = 0
    PROVE  FromBigEndian(BigEndian(v, n)) = v
<1> DEFINE s == BigEndian(v, n)
           f == CHOOSE f : Sums(f, s, n)
<1>1. Len(s) = n /\ \A k \in 1..n : s[k] = Shift(v, n-k) % Radix
  BY BigEndianType
<1>2. Sums(f, s, n)
  BY SumsExist
<1>3. FromBigEndian(s) = f[n]
  BY <1>1, FromBigEndianIsLast
<1> HIDE DEF f, s
<1>4. \A k \in 0..n : f[k] = IF k = 0 THEN 0 ELSE f[k-1] * Radix + s[k]
  BY <1>2 DEF Sums
<1> DEFINE P(k) == k \in 0..n => f[k] = Shift(v, n-k)
           T    == {k \in Nat : P(k)}
<1>5. P(0)
  <2>1. f[0] = 0 /\ n-0 = n
    BY <1>4
  <2>2. QED
    BY <2>1
<1>6. ASSUME NEW k \in Nat, P(k) PROVE P(k+1)
  <2> SUFFICES ASSUME k+1 \in 0..n PROVE f[k+1] = Shift(v, n-(k+1))
    OBVIOUS
  <2>1. k \in 0..n /\ n-(k+1) \in Nat /\ (n-(k+1))+1 = n-k /\ k+1 # 0 /\ (k+1)-1 = k /\ k+1 \in 1..n
    OBVIOUS
  <2>2. f[k+1] = f[k] * Radix + s[k+1]
    BY <1>4, <2>1
  <2>3. f[k] = Shift(v, n-k)
    BY <1>6, <2>1
  <2>4. s[k+1] = Shift(v, n-(k+1)) % Radix
    BY <1>1, <2>1
  <2>5. Shift(v, n-(k+1)) \in Nat /\ Shift(v, n-k) = Shift(v, n-(k+1)) \div Radix
    <3>1. \A j \in Nat : Shift(v, j) \in Nat /\ Shift(v, j+1) = Shift(v, j) \div Radix
      BY ShiftFacts, Zenon
    <3>2. QED
      BY <2>1, <3>1
  <2>6. \A a \in Nat : a = (a \div Radix) * Radix + (a % Radix)
    BY Euclid, RadixType
  <2>7. QED
    BY <2>2, <2>3, <2>4, <2>5, <2>6
<1> HIDE DEF P
<1>7. T \in SUBSET Nat /\ 0 \in T /\ \A k \in T : k+1 \in T
  BY <1>5, <1>6
<1> HIDE DEF T
<1>8. T = Nat
  BY <1>7, NatSet
<1>9. P(n)
  BY <1>8 DEF T
<1>10. f[n] = Shift(v, n-n) /\ n-n = 0
  BY <1>9 DEF P
<1>11. QED
  BY <1>3, <1>10, ShiftFacts DEF s

(* One shift more. *)
LEMMA ShiftOnce ==
    ASSUME NEW v \in Nat, NEW j \in Nat, NEW i, i = j+1
    PROVE  /\ Shift(v, j) \in Nat /\ Shift(v, i) \in Nat
           /\ Shift(v, i) = Shift(v, j) \div Radix
  BY ShiftFacts

(* varint_len leaves room for the tag: the top byte is below LowRange. *)
LEMMA VarintTop ==
    ASSUME NEW v \in Nat, Shift(v, 7) < LowRange
    PROVE  /\ VarintLen(v) \in {1, 2, 4, 8}
           /\ Shift(v, VarintLen(v) - 1) < LowRange
<1> USE RadixType
<1>0. Shift(v, 0) = v
  BY ShiftFacts
<1>1. Shift(v, 1) \in Nat /\ Shift(v, 1) = Shift(v, 0) \div Radix
  BY ShiftOnce
<1>2. Shift(v, 2) \in Nat /\ Shift(v, 2) = Shift(v, 1) \div Radix
  BY ShiftOnce
<1>3. Shift(v, 3) \in Nat /\ Shift(v, 3) = Shift(v, 2) \div Radix
  BY ShiftOnce
<1>4. \A a, b \in Nat : a * b \in Nat
  OBVIOUS
<1>5. LowRange * Radix \in Nat /\ LowRange * Radix * Radix \in Nat
  BY <1>4
<1>6. CASE v < LowRange
  <2>1. VarintLen(v) = 1
    BY <1>6 DEF VarintLen
  <2>2. QED
    BY <1>0, <1>6, <2>1
<1>7. CASE ~(v < LowRange) /\ v < LowRange * Radix
  <2>1. VarintLen(v) = 2
    BY <1>7 DEF VarintLen
  <2>2. Shift(v, 1) < LowRange
    BY <1>0, <1>1, <1>7, DivBelow
  <2>3. QED
    BY <2>1, <2>2
<1>8. CASE ~(v < LowRange) /\ ~(v < LowRange * Radix) /\ v < LowRange * Radix * Radix * Radix
  <2>1. VarintLen(v) = 4
    BY <1>8 DEF VarintLen
  <2>2. Shift(v, 1) < LowRange * Radix * Radix
    BY <1>0, <1>1, <1>5, <1>8, DivBelow
  <2>3. Shift(v, 2) < LowRange * Radix
    BY <1>1, <1>2, <1>5, <2>2, DivBelow
  <2>4. Shift(v, 3) < LowRange
    BY <1>2, <1>3, <2>3, DivBelow
  <2>5. QED
    BY <2>1, <2>4
<1>9. CASE ~(v < LowRange) /\ ~(v < LowRange * Radix) /\ ~(v < LowRange * Radix * Radix * Radix)
  <2>1. VarintLen(v) = 8
    BY <1>9 DEF VarintLen
  <2>2. QED
    BY <2>1
<1>10. QED
  BY <1>6, <1>7, <1>8, <1>9

(* The bytes of put_varint: as many as varint_len says, the tag on top of  *)
(* the first.                                                              *)
LEMMA VarintInType ==
    ASSUME NEW v \in Nat, NEW t \in 0..3, NEW n, n = 2^t, Shift(v, n-1) < LowRange
    PROVE  /\ VarintIn(v, t) \in Seq(Byte) /\ Len(VarintIn(v, t)) = n
           /\ VarintIn(v, t)[1] \div LowRange = t
<1>1. n \in {1, 2, 4, 8}
  BY TwoTo, Zenon
<1>2. n \in Nat /\ n >= 1 /\ n-1 \in Nat
  BY <1>1
<1> DEFINE a == Shift(v, n-1)
<1>3. a \in Nat
  BY <1>2, ShiftFacts
<1> DEFINE g == [k \in 1..n |-> IF k = 1 THEN Shift(v, n - 1) + t * LowRange
                                          ELSE Shift(v, n - k) % Radix]
<1>4. VarintIn(v, t) = g
  BY DEF VarintIn
<1>5. a + t * LowRange \in Byte /\ (a + t * LowRange) \div LowRange = t
  <2> HIDE DEF a
  <2>0. a < LowRange
    BY DEF a
  <2>1. a + t * LowRange \in Nat /\ a + t * LowRange < 4 * LowRange
    <3>1. t = 0 \/ t = 1 \/ t = 2 \/ t = 3
      OBVIOUS
    <3>2. QED
      BY <1>3, <2>0, <3>1, RadixType
  <2>2. \A q \in Nat, b \in 0 .. LowRange-1 : (q * LowRange + b) \div LowRange = q
    BY Euclid, RadixType
  <2>3. a \in 0..LowRange-1 /\ t \in Nat
    BY <1>3, <2>0, RadixType
  <2>4. a + t * LowRange = t * LowRange + a
    <3>1. \A x, y \in Nat : x * y \in Nat
      OBVIOUS
    <3>2. t * LowRange \in Nat
      BY <2>3, <3>1, RadixType, Zenon
    <3>3. QED
      BY <1>3, <3>2
  <2>5. (a + t * LowRange) \div LowRange = t
    BY <2>2, <2>3, <2>4
  <2>6. QED
    BY <2>1, <2>5, RadixType DEF Byte, Radix
<1>6. ASSUME NEW k \in 1..n PROVE g[k] \in Byte
  <2>1. CASE k = 1
    BY <1>5, <2>1
  <2>2. CASE k # 1
    <3>1. n-k \in Nat
      BY <1>2
    <3>2. Shift(v, n-k) \in Nat
      BY <3>1, ShiftFacts, Zenon
    <3>3. Shift(v, n-k) % Radix \in Byte
      BY <3>2, Euclid, RadixType DEF Byte
    <3>4. QED
      BY <2>2, <3>3
  <2>3. QED
    BY <2>1, <2>2
<1>7. g \in Seq(Byte) /\ Len(g) = n
  BY <1>2, <1>6
<1>8. g[1] = a + t * LowRange
  BY <1>2
<1> HIDE DEF g, a
<1>9. QED
  BY <1>4, <1>5, <1>7, <1>8

(* put_varint picks the tag of varint_len. *)
LEMMA PutVarintTag ==
    ASSUME NEW v \in Nat, Shift(v, 7) < LowRange
    PROVE  \E t \in 0..3 : /\ 2^t = VarintLen(v) /\ PutVarint(v) = VarintIn(v, t)
                           /\ Shift(v, 2^t - 1) < LowRange
<1>1. VarintLen(v) \in {1, 2, 4, 8} /\ Shift(v, VarintLen(v) - 1) < LowRange
  BY VarintTop
<1>2. 2^0 = 1 /\ 2^1 = 2 /\ 2^2 = 4 /\ 2^3 = 8
  OBVIOUS
<1>3. \E t \in 0..3 : 2^t = VarintLen(v)
  <2>1. 0 \in 0..3 /\ 1 \in 0..3 /\ 2 \in 0..3 /\ 3 \in 0..3
    OBVIOUS
  <2>2. QED
    BY <1>1, <1>2, <2>1
<1> DEFINE t == CHOOSE t \in 0..3 : 2^t = VarintLen(v)
<1>4. t \in 0..3 /\ 2^t = VarintLen(v)
  BY <1>3, Zenon
<1>5. PutVarint(v) = VarintIn(v, t)
  BY DEF PutVarint
<1> HIDE DEF t
<1>6. QED
  BY <1>1, <1>4, <1>5, Zenon

(* What put_varint writes has the length that varint_len announces.        *)
LEMMA PutVarintType ==
    ASSUME NEW v \in Nat, Shift(v, 7) < LowRange
    PROVE  /\ PutVarint(v) \in Seq(Byte) /\ Len(PutVarint(v)) = VarintLen(v)
           /\ VarintLen(v) \in {1, 2, 4, 8}
<1>1. PICK t \in 0..3 : /\ 2^t = VarintLen(v) /\ PutVarint(v) = VarintIn(v, t)
                        /\ Shift(v, 2^t - 1) < LowRange
  BY PutVarintTag
<1>2. QED
  BY <1>1, VarintInType, VarintTop, Zenon

(* Whatever follows a varint that put_varint wrote, get_varint reads the   *)
(* value and consumes exactly its bytes. The hypothesis says that the      *)
(* value is one of the 62-bit integers QUIC can encode.                    *)
THEOREM VarintRoundTrip ==
    ASSUME NEW v \in Nat, Shift(v, 7) < LowRange, NEW rest \in Seq(Byte)
    PROVE  GetVarint(PutVarint(v) \o rest) = <<v, VarintLen(v)>>
<1>1. PICK t \in 0..3 : /\ 2^t = VarintLen(v) /\ PutVarint(v) = VarintIn(v, t)
                        /\ Shift(v, 2^t - 1) < LowRange
  BY PutVarintTag
<1>2. PICK p : p = VarintIn(v, t)
  OBVIOUS
<1>3. PICK n : n = VarintLen(v)
  OBVIOUS
<1>4. p \in Seq(Byte) /\ Len(p) = n /\ p[1] \div LowRange = t
  BY <1>1, <1>2, <1>3, VarintInType, Zenon
<1>5. n \in {1, 2, 4, 8} /\ n = 2^t
  BY <1>1, <1>3, TwoTo, Zenon
<1>6. PICK s : s = p \o rest
  BY Zenon
<1>7. s \in Seq(Byte) /\ Len(s) >= n /\ s # << >> /\ s[1] = p[1] /\ SubSeq(s, 1, n) = p
  <2>1. s \in Seq(Byte) /\ Len(s) = Len(p) + Len(rest) /\ \A i \in 1..Len(p) : s[i] = p[i]
    BY <1>4, <1>6
  <2>2. Len(s) >= n /\ s # << >> /\ s[1] = p[1]
    BY <1>4, <1>5, <2>1
  <2>3. SubSeq(s, 1, n) = [k \in 1..n |-> s[k]]
    BY <1>5, <2>1, <2>2
  <2>4. p = [k \in 1..n |-> p[k]]
    BY <1>4
  <2>5. [k \in 1..n |-> s[k]] = [k \in 1..n |-> p[k]]
    BY <1>4, <2>1
  <2>6. QED
    BY <2>1, <2>2, <2>3, <2>4, <2>5, Zenon
<1>8. t = s[1] \div LowRange
  BY <1>4, <1>7
<1>9. PICK u \in Nat : GetVarint(s) = <<u, n>> /\ IsOnly(SubSeq(s, 1, n), t, u)
  BY <1>5, <1>7, <1>8, VarintDecodes
<1>10. v = u
  BY <1>2, <1>7, <1>9, Zenon DEF IsOnly
<1>11. QED
  BY <1>1, <1>2, <1>3, <1>6, <1>9, <1>10

(* Two sequences joined. *)
LEMMA JoinType ==
    ASSUME NEW S, NEW p \in Seq(S), NEW q \in Seq(S)
    PROVE  /\ p \o q \in Seq(S)
           /\ Len(p \o q) = Len(p) + Len(q)
           /\ \A i \in 1..Len(p) : (p \o q)[i] = p[i]
           /\ \A i \in 1..Len(q) : (p \o q)[Len(p) + i] = q[i]
  OBVIOUS

(* Joining with nothing. *)
LEMMA JoinEmpty ==
    ASSUME NEW S, NEW p \in Seq(S)
    PROVE  p \o << >> = p /\ << >> \o p = p
  OBVIOUS

(* Joining is associative. *)
Regroups(p, q, r) == (p \o q) \o r = p \o (q \o r)

LEMMA JoinAssoc ==
    ASSUME NEW S, NEW p \in Seq(S), NEW q \in Seq(S), NEW r \in Seq(S)
    PROVE  Regroups(p, q, r)
<1> DEFINE s == (p \o q) \o r
           t == p \o (q \o r)
<1>1. s \in Seq(S) /\ t \in Seq(S) /\ Len(s) = Len(t)
  OBVIOUS
<1>2. ASSUME NEW i \in 1..Len(s) PROVE s[i] = t[i]
  <2>1. Len(p) \in Nat /\ Len(q) \in Nat /\ Len(r) \in Nat /\ i \in 1 .. Len(p) + Len(q) + Len(r)
    OBVIOUS
  <2>2. CASE i <= Len(p)
    BY <2>1, <2>2
  <2>3. CASE i > Len(p) /\ i <= Len(p) + Len(q)
    BY <2>1, <2>3
  <2>4. CASE i > Len(p) + Len(q)
    BY <2>1, <2>4
  <2>5. \/ i <= Len(p)
        \/ i > Len(p) /\ i <= Len(p) + Len(q)
        \/ i > Len(p) + Len(q)
    <3> HIDE DEF s, t
    <3> QED
      BY <2>1
  <2> QED
    BY <2>2, <2>3, <2>4, <2>5, Zenon
<1> HIDE DEF s, t
<1>3. s = t
  BY <1>1, <1>2, SeqsEqual
<1>4. QED
  BY <1>3, Zenon DEF s, t, Regroups

(* Adjacent parts of a sequence. *)
LEMMA PartsJoin ==
    ASSUME NEW S, NEW w \in Seq(S), NEW i \in 0..Len(w), NEW j \in i..Len(w), NEW k \in j..Len(w)
    PROVE  SubSeq(w, i+1, j) \o SubSeq(w, j+1, k) = SubSeq(w, i+1, k)
  OBVIOUS

(* A prefix and the part that follows it. *)
LEMMA PrefixGrows ==
    ASSUME NEW S, NEW w \in Seq(S), NEW i \in 0..Len(w), NEW j \in i..Len(w)
    PROVE  SubSeq(w, 1, i) \o SubSeq(w, i+1, j) = SubSeq(w, 1, j)
  OBVIOUS

(* The middle of three pieces. *)
LEMMA JoinMiddle ==
    ASSUME NEW S, NEW p \in Seq(S), NEW q \in Seq(S), NEW r \in Seq(S)
    PROVE  SubSeq(p \o (q \o r), Len(p) + 1, Len(p) + Len(q)) = q
<1> DEFINE s == p \o (q \o r)
           j == Len(p) + Len(q)
<1>1. Len(p) \in Nat /\ Len(q) \in Nat /\ Len(r) \in Nat
  OBVIOUS
<1>2. /\ s \in Seq(S) /\ Len(s) = Len(p) + Len(q) + Len(r)
      /\ \A k \in 1..Len(q) : s[Len(p) + k] = q[k]
  OBVIOUS
<1> HIDE DEF s
<1>3. /\ SubSeq(s, Len(p)+1, j) \in Seq(S) /\ Len(SubSeq(s, Len(p)+1, j)) = j - Len(p)
      /\ \A k \in 1..j-Len(p) : SubSeq(s, Len(p)+1, j)[k] = s[Len(p)+k]
  <2>1. Len(p) <= j /\ j \in Nat /\ j <= Len(s)
    BY <1>1, <1>2
  <2> HIDE DEF j
  <2>2. QED
    BY <1>1, <1>2, <2>1, PartFacts, SMTT(30)
<1>4. j - Len(p) = Len(q)
  BY <1>1
<1> HIDE DEF j
<1>5. SubSeq(s, Len(p)+1, j) = q
  BY <1>2, <1>3, <1>4, SeqsEqual, Zenon
<1>6. QED
  BY <1>5 DEF s, j

(* The first of two pieces. *)
LEMMA JoinFront ==
    ASSUME NEW S, NEW p \in Seq(S), NEW q \in Seq(S)
    PROVE  SubSeq(p \o q, 1, Len(p)) = p
<1>1. << >> \in Seq(S) /\ p \o q \in Seq(S)
  BY JoinType
<1>2. << >> \o (p \o q) = p \o q
  BY <1>1, JoinEmpty
<1>3. Len(<< >>) + 1 = 1 /\ Len(<< >>) + Len(p) = Len(p)
  OBVIOUS
<1>4. SubSeq(<< >> \o (p \o q), Len(<< >>) + 1, Len(<< >>) + Len(p)) = p
  BY <1>1, JoinMiddle
<1>5. QED
  BY <1>2, <1>3, <1>4

(* The last of two pieces. *)
LEMMA JoinBack ==
    ASSUME NEW S, NEW p \in Seq(S), NEW q \in Seq(S)
    PROVE  SubSeq(p \o q, Len(p) + 1, Len(p \o q)) = q
<1>1. Len(p \o q) = Len(p) + Len(q)
  BY JoinType
<1>2. << >> \in Seq(S) /\ q \o << >> = q
  BY JoinEmpty
<1>3. SubSeq(p \o (q \o << >>), Len(p) + 1, Len(p) + Len(q)) = q
  BY <1>2, JoinMiddle
<1>4. QED
  BY <1>1, <1>2, <1>3

(* The six pieces of a datagram, and where they lie in it. *)
Joined(G, K, C, D, A, F) == G \o K \o C \o D \o A \o F

PiecesLie(G, K, C, D, A, F) ==
    LET b == Joined(G, K, C, D, A, F)
        h == Len(G) + Len(K) + Len(C)
    IN
    /\ Len(b) = h + Len(D) + Len(A) + Len(F)
    /\ SubSeq(b, 1, Len(G)) = G
    /\ SubSeq(b, Len(G) + 1, Len(G) + Len(K)) = K
    /\ \A i \in 1..Len(C) : b[Len(G) + Len(K) + i] = C[i]
    /\ SubSeq(b, h + 1, Len(b)) = D \o (A \o F)
    /\ SubSeq(b, h + Len(D) + 1, h + Len(D) + Len(A)) = A
    /\ SubSeq(b, h + Len(D) + Len(A) + 1, Len(b)) = F

LEMMA SixPieces ==
    ASSUME NEW S, NEW G, NEW K, NEW C, NEW D, NEW A, NEW F
    PROVE  /\ G \in Seq(S) /\ K \in Seq(S) /\ C \in Seq(S)
           /\ D \in Seq(S) /\ A \in Seq(S) /\ F \in Seq(S)
           =>
           PiecesLie(G, K, C, D, A, F)
<1> DEFINE GK == G \o K
           H  == GK \o C
           E  == A \o F
           L  == D \o E
           M  == C \o L
           N  == K \o M
           HD == H \o D
           X  == HD \o A
           b  == Joined(G, K, C, D, A, F)
           h  == Len(G) + Len(K) + Len(C)
<1> HIDE DEF GK, H, E, L, M, N, HD, X, b, h
<1>0. SUFFICES ASSUME G \in Seq(S), K \in Seq(S), C \in Seq(S),
                      D \in Seq(S), A \in Seq(S), F \in Seq(S)
               PROVE  /\ Len(b) = h + Len(D) + Len(A) + Len(F)
                      /\ SubSeq(b, 1, Len(G)) = G
                      /\ SubSeq(b, Len(G) + 1, Len(G) + Len(K)) = K
                      /\ \A i \in 1..Len(C) : b[Len(G) + Len(K) + i] = C[i]
                      /\ SubSeq(b, h + 1, Len(b)) = D \o (A \o F)
                      /\ SubSeq(b, h + Len(D) + 1, h + Len(D) + Len(A)) = A
                      /\ SubSeq(b, h + Len(D) + Len(A) + 1, Len(b)) = F
  BY Zenon DEF b, h, PiecesLie
<1>1. GK \in Seq(S) /\ E \in Seq(S)
  BY <1>0, JoinType DEF GK, E
<1>2. H \in Seq(S) /\ L \in Seq(S)
  BY <1>0, <1>1, JoinType DEF H, L
<1>3. HD \in Seq(S) /\ M \in Seq(S)
  BY <1>0, <1>2, JoinType DEF HD, M
<1>4. X \in Seq(S) /\ N \in Seq(S)
  BY <1>0, <1>3, JoinType DEF X, N
<1>5. b = X \o F
  BY DEF X, HD, H, GK, b, Joined
<1>6. X \o F = HD \o E
  <2>0. HD \in Seq(S) /\ A \in Seq(S) /\ F \in Seq(S)
    BY <1>0, <1>3
  <2>1. Regroups(HD, A, F)
    BY <2>0, JoinAssoc, Zenon
  <2>2. QED
    BY <1>0, <2>1, Zenon DEF X, E, Regroups
<1>7. HD \o E = H \o L
  <2>0. H \in Seq(S) /\ D \in Seq(S) /\ E \in Seq(S)
    BY <1>0, <1>1, <1>2
  <2>1. Regroups(H, D, E)
    BY <2>0, JoinAssoc, Zenon
  <2>2. QED
    BY <1>0, <2>1, Zenon DEF HD, L, Regroups
<1>8. H \o L = GK \o M
  <2>0. GK \in Seq(S) /\ C \in Seq(S) /\ L \in Seq(S)
    BY <1>0, <1>1, <1>2
  <2>1. Regroups(GK, C, L)
    BY <2>0, JoinAssoc, Zenon
  <2>2. QED
    BY <1>0, <2>1, Zenon DEF H, M, Regroups
<1>9. GK \o M = G \o N
  <2>0. G \in Seq(S) /\ K \in Seq(S) /\ M \in Seq(S)
    BY <1>0, <1>3
  <2>1. Regroups(G, K, M)
    BY <2>0, JoinAssoc, Zenon
  <2>2. QED
    BY <1>0, <2>1, Zenon DEF GK, N, Regroups
<1>10. SubSeq(G \o N, 1, Len(G)) = G
  BY <1>0, <1>4, JoinFront
<1>11. SubSeq(G \o N, Len(G) + 1, Len(G) + Len(K)) = K
  BY <1>0, <1>3, JoinMiddle, Zenon DEF N
<1>12. SubSeq(H \o L, Len(H) + 1, Len(H \o L)) = L
  BY <1>0, <1>2, JoinBack
<1>13. SubSeq(HD \o E, Len(HD) + 1, Len(HD) + Len(A)) = A
  BY <1>0, <1>3, JoinMiddle, Zenon DEF E
<1>14. SubSeq(X \o F, Len(X) + 1, Len(X \o F)) = F
  BY <1>0, <1>4, JoinBack
<1>15. \A i \in 1..Len(C) : (GK \o C)[Len(GK) + i] = C[i]
  BY <1>0, <1>1, JoinType
<1>16. \A i \in 1..Len(H) : (H \o L)[i] = H[i]
  BY <1>0, <1>2, JoinType
<1>17. Len(GK) = Len(G) + Len(K)
  BY <1>0, JoinType DEF GK
<1>18. Len(H) = Len(GK) + Len(C)
  BY <1>0, <1>1, JoinType DEF H
<1>19. Len(HD) = Len(H) + Len(D)
  BY <1>0, <1>2, JoinType DEF HD
<1>20. Len(X) = Len(HD) + Len(A)
  BY <1>0, <1>3, JoinType DEF X
<1>21. Len(X \o F) = Len(X) + Len(F)
  BY <1>0, <1>4, JoinType
<1>22. Len(H) = h /\ Len(HD) = h + Len(D) /\ Len(X) = h + Len(D) + Len(A)
  BY <1>0, <1>17, <1>18, <1>19, <1>20 DEF h
<1>23. ASSUME NEW i \in 1..Len(C) PROVE b[Len(G) + Len(K) + i] = C[i]
  <2>1. H[Len(GK) + i] = C[i]
    BY <1>0, <1>15 DEF H
  <2>2. Len(GK) + i \in 1..Len(H)
    <3>1. Len(G) \in Nat /\ Len(K) \in Nat /\ Len(C) \in Nat
      BY <1>0
    <3>2. QED
      BY <1>0, <1>17, <1>18, <3>1
  <2>3. QED
    BY <1>0, <1>5, <1>6, <1>7, <1>16, <1>17, <2>1, <2>2
<1>24. Len(b) = h + Len(D) + Len(A) + Len(F)
  BY <1>0, <1>5, <1>21, <1>22
<1>25. SubSeq(b, 1, Len(G)) = G /\ SubSeq(b, Len(G) + 1, Len(G) + Len(K)) = K
  BY <1>0, <1>5, <1>6, <1>7, <1>8, <1>9, <1>10, <1>11, Zenon
<1>26. SubSeq(b, h + 1, Len(b)) = D \o (A \o F)
  BY <1>0, <1>5, <1>6, <1>7, <1>12, <1>22, Zenon DEF L, E
<1>27. SubSeq(b, h + Len(D) + 1, h + Len(D) + Len(A)) = A
  BY <1>0, <1>5, <1>6, <1>13, <1>22, Zenon
<1>28. SubSeq(b, h + Len(D) + Len(A) + 1, Len(b)) = F
  BY <1>0, <1>5, <1>14, <1>22, Zenon
<1>29. QED
  BY <1>0, <1>23, <1>24, <1>25, <1>26, <1>27, <1>28, Zenon
(* parse reads back what serialize wrote, and refuses exactly the messages *)
(* whose address is empty, too long or not UTF-8 and those with no data.   *)
(* The hypotheses are the widths of the fields: a u32, a u16 and a length  *)
(* that a varint can hold.                                                 *)
THEOREM MessageRoundTrip ==
    ASSUME NEW m \in UdpMessage, m.addr \in Seq(Byte), m.data \in Seq(Byte),
           Shift(m.session_id, 4) = 0, Shift(m.packet_id, 2) = 0,
           Shift(Len(m.addr), 7) < LowRange
    PROVE  /\ Len(Serialize(m)) = Size(m)
           /\ Parse(Serialize(m)) =
                IF Len(m.addr) \in 1..MaxAddrLength /\ IsUtf8(m.addr) /\ m.data # << >>
                THEN m ELSE None
<1> DEFINE G == BigEndian(m.session_id, 4)
           K == BigEndian(m.packet_id, 2)
           C == <<m.frag_id, m.frag_count>>
           D == PutVarint(Len(m.addr))
           A == m.addr
           F == m.data
           n == VarintLen(Len(m.addr))
<1>0. PICK S : S = Nat
  BY Zenon
<1>1. /\ m.session_id \in Nat /\ m.packet_id \in Nat
      /\ m.frag_id \in Nat /\ m.frag_count \in Nat /\ Len(m.addr) \in Nat
  BY U8Assumption DEF UdpMessage
<1>2. \A s \in Seq(Byte) : s \in Seq(S)
  <2>1. \A x \in Byte : x \in Nat
    BY ByteIsNat
  <2>2. QED
    BY <1>0, <2>1
<1>3. G \in Seq(S) /\ Len(G) = 4 /\ FromBigEndian(G) = m.session_id
  BY <1>1, <1>2, BigEndianType, BigEndianRoundTrip, Zenon
<1>4. K \in Seq(S) /\ Len(K) = 2 /\ FromBigEndian(K) = m.packet_id
  BY <1>1, <1>2, BigEndianType, BigEndianRoundTrip, Zenon
<1>5. C \in Seq(S) /\ Len(C) = 2 /\ C[1] = m.frag_id /\ C[2] = m.frag_count
  BY <1>0, <1>1
<1>6. /\ D \in Seq(S) /\ D \in Seq(Byte) /\ Len(D) = n
      /\ n \in {1, 2, 4, 8}
  BY <1>1, <1>2, PutVarintType
<1>7. A \in Seq(Byte) /\ F \in Seq(Byte) /\ A \in Seq(S) /\ F \in Seq(S) /\ A \o F \in Seq(Byte)
  BY <1>2
<1>8. GetVarint(D \o (A \o F)) = <<Len(A), n>>
  BY <1>1, <1>7, VarintRoundTrip, Zenon
<1>9. Serialize(m) = G \o K \o C \o D \o A \o F
  BY DEF Serialize, PutVarintSlice
<1>10. m = [session_id |-> m.session_id, packet_id |-> m.packet_id, frag_id |-> m.frag_id,
            frag_count |-> m.frag_count, addr |-> A, data |-> F]
  BY DEF UdpMessage
<1>11. Size(m) = 8 + n + Len(A) + Len(F)
  <2>1. Len(A) \in Nat /\ Len(F) \in Nat
    BY <1>7
  <2>2. QED
    BY <1>6, <2>1 DEF Size, HeaderSize
<1> HIDE DEF G, K, C, D, A, F, n
<1> DEFINE b == Joined(G, K, C, D, A, F)
           h == Len(G) + Len(K) + Len(C)
<1> HIDE DEF b, h
<1>12. /\ Len(b) = h + Len(D) + Len(A) + Len(F)
       /\ SubSeq(b, 1, Len(G)) = G
       /\ SubSeq(b, Len(G) + 1, Len(G) + Len(K)) = K
       /\ \A i \in 1..Len(C) : b[Len(G) + Len(K) + i] = C[i]
       /\ SubSeq(b, h + 1, Len(b)) = D \o (A \o F)
       /\ SubSeq(b, h + Len(D) + 1, h + Len(D) + Len(A)) = A
       /\ SubSeq(b, h + Len(D) + Len(A) + 1, Len(b)) = F
  <2>1. /\ G \in Seq(S) /\ K \in Seq(S) /\ C \in Seq(S)
        /\ D \in Seq(S) /\ A \in Seq(S) /\ F \in Seq(S)
    BY <1>3, <1>4, <1>5, <1>6, <1>7
  <2>2. PiecesLie(G, K, C, D, A, F)
    BY <2>1, SixPieces
  <2>3. QED
    BY <2>2, Zenon DEF PiecesLie, b, h
<1>13. h = 8 /\ Len(G) + 1 = 5 /\ Len(G) + Len(K) = 6 /\ h + 1 = 9
  BY <1>3, <1>4, <1>5 DEF h
<1>14. Len(b) = 8 + n + Len(A) + Len(F) /\ Len(A) \in Nat /\ Len(F) \in Nat /\ n \in Nat
  BY <1>6, <1>7, <1>12, <1>13
<1>15. b[7] = m.frag_id /\ b[8] = m.frag_count
  <2>1. b[6 + 1] = C[1] /\ b[6 + 2] = C[2]
    BY <1>5, <1>12, <1>13
  <2>2. 6 + 1 = 7 /\ 6 + 2 = 8
    OBVIOUS
  <2>3. QED
    BY <1>5, <2>1, <2>2
<1>16. SubSeq(b, 1, 4) = G /\ SubSeq(b, 5, 6) = K
  BY <1>3, <1>12, <1>13, Zenon
<1>17. SubSeq(b, 8 + n + 1, 8 + n + Len(A)) = A /\ SubSeq(b, 8 + n + Len(A) + 1, Len(b)) = F
  BY <1>6, <1>12, <1>13, Zenon
<1>18. GetVarint(SubSeq(b, 9, Len(b))) = <<Len(A), n>>
  BY <1>8, <1>12, <1>13, Zenon
<1>19. <<Len(A), n>> # << >> /\ <<Len(A), n>>[1] = Len(A) /\ <<Len(A), n>>[2] = n
  OBVIOUS
<1>20. ~(Len(b) < 8) /\ (Len(b) <= 8 + n + Len(A) <=> F = << >>)
  BY <1>6, <1>7, <1>14
<1>21. Parse(b) =
         IF Len(A) = 0 \/ Len(A) > MaxAddrLength THEN None
         ELSE IF F = << >> \/ ~IsUtf8(A) THEN None
         ELSE m
  <2>1. Parse(b) =
         IF <<Len(A), n>> = << >> \/ Len(A) = 0 \/ Len(A) > MaxAddrLength THEN None
         ELSE IF Len(b) <= 8 + n + Len(A) \/ ~IsUtf8(SubSeq(b, 8 + n + 1, 8 + n + Len(A))) THEN None
         ELSE [session_id |-> FromBigEndian(SubSeq(b, 1, 4)),
               packet_id  |-> FromBigEndian(SubSeq(b, 5, 6)),
               frag_id    |-> b[7],
               frag_count |-> b[8],
               addr       |-> SubSeq(b, 8 + n + 1, 8 + n + Len(A)),
               data       |-> SubSeq(b, 8 + n + Len(A) + 1, Len(b))]
    BY <1>18, <1>19, <1>20, Zenon DEF Parse
  <2>2. QED
    BY <1>3, <1>4, <1>10, <1>15, <1>16, <1>17, <1>19, <1>20, <2>1, Zenon
<1>22. Len(A) \in 1..MaxAddrLength <=> ~(Len(A) = 0 \/ Len(A) > MaxAddrLength)
  BY <1>14, MaxAddrAssumption
<1>23. Serialize(m) = b
  BY <1>9, Zenon DEF b, Joined
<1>24. Len(b) = Size(m)
  BY <1>11, <1>14
<1>25. QED
  BY <1>21, <1>22, <1>23, <1>24, Zenon DEF A, F

-----------------------------------------------------------------------------
(* Fragments.                                                              *)

(* Defragger::default() is a defragmenter. *)
LEMMA NewDefraggerType == NewDefragger \in DefraggerState /\ DOMAIN NewDefragger.frags = {}
<1>1. 0 \in 0..U8-1 /\ 0 \in Nat
  BY U8Assumption
<1>2. << >> \in Seq(UdpMessage \cup {None}) /\ DOMAIN << >> = {}
  OBVIOUS
<1>3. QED
  BY <1>1, <1>2 DEF NewDefragger, DefraggerState

-----------------------------------------------------------------------------

(* f numbers elements of S from 1 to n, none of them twice. *)
OneToOne(f, n, S) ==
    f \in [1..n -> S] /\ \A i, j \in 1..n : f[i] = f[j] => i = j

(* S has n elements. *)
HasSize(S, n) == \E f : OneToOne(f, n, S) /\ \A y \in S : \E i \in 1..n : f[i] = y

(* One element more. *)
LEMMA SizeGrows ==
    ASSUME NEW S, NEW n \in Nat, HasSize(S, n), NEW k, k \notin S
    PROVE  HasSize(S \cup {k}, n+1)
<1>1. PICK f : OneToOne(f, n, S) /\ \A y \in S : \E i \in 1..n : f[i] = y
  BY DEF HasSize
<1> DEFINE g == [i \in 1..n+1 |-> IF i = n+1 THEN k ELSE f[i]]
<1>2. \A i \in 1..n : i \in 1..n+1 /\ g[i] = f[i] /\ f[i] \in S
  BY <1>1 DEF OneToOne
<1>3. n+1 \in 1..n+1 /\ g[n+1] = k
  OBVIOUS
<1>4. \A i \in 1..n+1 : i \in 1..n \/ i = n+1
  OBVIOUS
<1>5. g \in [1..n+1 -> S \cup {k}]
  BY <1>2, <1>4, Zenon
<1> HIDE DEF g
<1>6. \A i, j \in 1..n+1 : g[i] = g[j] => i = j
  <2> SUFFICES ASSUME NEW i \in 1..n+1, NEW j \in 1..n+1, g[i] = g[j] PROVE i = j
    OBVIOUS
  <2>1. (i \in 1..n \/ i = n+1) /\ (j \in 1..n \/ j = n+1)
    BY <1>4
  <2>2. CASE i \in 1..n /\ j \in 1..n
    BY <1>1, <1>2, <2>2 DEF OneToOne
  <2>3. QED
    BY <1>2, <1>3, <2>1, <2>2
<1>7. \A y \in S \cup {k} : \E i \in 1..n+1 : g[i] = y
  BY <1>1, <1>2, <1>3
<1>8. QED
  BY <1>5, <1>6, <1>7, SMTT(30) DEF HasSize, OneToOne

(* No more than m numbers of 1..m are different, and m of them are all. *)
LEMMA Pigeonhole ==
    ASSUME NEW m \in Nat, NEW n \in Nat, NEW f, OneToOne(f, n, 1..m)
    PROVE  n <= m /\ (n = m => \A y \in 1..m : \E i \in 1..n : f[i] = y)
<1> DEFINE Fits(l) == \A q \in Nat : \A g : OneToOne(g, q, 1..l) =>
                        q <= l /\ (q = l => \A y \in 1..l : \E i \in 1..q : g[i] = y)
           T == {l \in Nat : Fits(l)}
<1>1. Fits(0)
  <2> SUFFICES ASSUME NEW q \in Nat, NEW g, OneToOne(g, q, 1..0) PROVE q <= 0
    OBVIOUS
  <2>1. 1..0 = {}
    OBVIOUS
  <2>2. QED
    BY <2>1 DEF OneToOne
<1>2. ASSUME NEW l \in Nat, Fits(l) PROVE Fits(l+1)
  <2> SUFFICES ASSUME NEW q \in Nat, NEW g, OneToOne(g, q, 1..l+1)
               PROVE  q <= l+1 /\ (q = l+1 => \A y \in 1..l+1 : \E i \in 1..q : g[i] = y)
    OBVIOUS
  <2>1. g \in [1..q -> 1..l+1] /\ \A i, j \in 1..q : g[i] = g[j] => i = j
    BY DEF OneToOne
  <2>2. CASE \A i \in 1..q : g[i] # l+1
    <3>1. \A i \in 1..q : g[i] \in 1..l
      BY <2>1, <2>2
    <3>2. OneToOne(g, q, 1..l)
      BY <2>1, <3>1 DEF OneToOne
    <3>3. q <= l
      BY <1>2, <3>2
    <3>4. QED
      BY <3>3
  <2>3. CASE \E i \in 1..q : g[i] = l+1
    <3>1. PICK a \in 1..q : g[a] = l+1
      BY <2>3
    <3>2. q-1 \in Nat /\ q \in 1..q /\ \A i \in 1..q-1 : i \in 1..q /\ i # q
      OBVIOUS
    <3> DEFINE h == [i \in 1..q-1 |-> IF i = a THEN g[q] ELSE g[i]]
               from(i) == IF i = a THEN q ELSE i
    <3>3. \A i \in 1..q-1 : h[i] = g[from(i)] /\ from(i) \in 1..q /\ from(i) # a
      BY <3>2
    <3>4. \A i, j \in 1..q-1 : from(i) = from(j) => i = j
      BY <3>2
    <3>5. h \in [1..q-1 -> 1..l]
      <4>1. \A i \in 1..q-1 : h[i] \in 1..l
        BY <2>1, <3>1, <3>3
      <4>2. QED
        BY <4>1
    <3>6. \A i \in 1..q : i # a => \E j \in 1..q-1 : from(j) = i
      <4> SUFFICES ASSUME NEW i \in 1..q, i # a PROVE \E j \in 1..q-1 : from(j) = i
        BY Zenon
      <4>1. CASE i = q
        <5>1. a \in 1..q-1 /\ from(a) = q
          BY <4>1
        <5>2. QED
          BY <4>1, <5>1
      <4>2. CASE i # q
        <5>1. i \in 1..q-1 /\ from(i) = i
          BY <4>2
        <5>2. QED
          BY <5>1
      <4>3. QED
        BY <4>1, <4>2
    <3> HIDE DEF h, from
    <3>7. \A i, j \in 1..q-1 : h[i] = h[j] => i = j
      BY <2>1, <3>3, <3>4
    <3>8. OneToOne(h, q-1, 1..l)
      BY <3>5, <3>7 DEF OneToOne
    <3>9. q-1 <= l /\ (q-1 = l => \A y \in 1..l : \E i \in 1..q-1 : h[i] = y)
      BY <1>2, <3>2, <3>8
    <3>10. ASSUME q = l+1, NEW y \in 1..l+1 PROVE \E i \in 1..q : g[i] = y
      <4>1. CASE y = l+1
        BY <3>1, <4>1
      <4>2. CASE y # l+1
        <5>1. y \in 1..l /\ q-1 = l
          BY <3>10, <4>2
        <5>2. QED
          BY <3>3, <3>9, <5>1, Zenon
      <4>3. QED
        BY <4>1, <4>2
    <3>11. QED
      BY <3>9, <3>10
  <2>4. QED
    BY <2>2, <2>3
<1> HIDE DEF Fits
<1>3. T \in SUBSET Nat /\ 0 \in T /\ \A l \in T : l+1 \in T
  BY <1>1, <1>2
<1> HIDE DEF T
<1>4. T = Nat
  BY <1>3, NatSet, SMTT(30)
<1>5. Fits(m)
  BY <1>4 DEF T
<1>6. QED
  BY <1>5 DEF Fits

(* StartOver makes slots for every fragment and fills the first one fed. *)
LEMMA StartOverFacts ==
    ASSUME NEW m \in UdpMessage, ~Whole(m), ~BadFragId(m)
    PROVE  /\ StartOver(m) \in DefraggerState
           /\ Len(StartOver(m).frags) = m.frag_count
           /\ m.frag_count \in 2 .. U8 - 1
           /\ m.frag_id \in 0 .. m.frag_count - 1
           /\ \A i \in 1 .. m.frag_count :
                StartOver(m).frags[i] # None <=> i - 1 = m.frag_id
           /\ Filled(StartOver(m)) = {m.frag_id + 1}
<1> DEFINE s == StartOver(m)
<1> USE U8Assumption, NoneAssumption
<1>1. m.frag_count \in 2 .. U8 - 1 /\ m.frag_id \in 0 .. m.frag_count - 1
  BY DEF UdpMessage, Whole, BadFragId
<1>2. s.frags = [i \in 1 .. m.frag_count |-> IF i = m.frag_id + 1 THEN m ELSE None]
  BY DEF StartOver
<1>3. s.frags \in Seq(UdpMessage \cup {None}) /\ Len(s.frags) = m.frag_count
  BY <1>1, <1>2
<1>4. Len(m.data) \in Nat /\ m.packet_id \in Nat
  BY DEF UdpMessage
<1>5. s \in DefraggerState
  BY <1>3, <1>4 DEF StartOver, DefraggerState
<1>6. \A i \in 1 .. m.frag_count : s.frags[i] # None <=> i - 1 = m.frag_id
  BY <1>1, <1>2
<1>7. Filled(s) = {m.frag_id + 1}
  BY <1>1, <1>2, <1>6 DEF Filled
<1>8. QED
  BY <1>1, <1>3, <1>5, <1>6, <1>7

(* Store fills one more slot and counts it, modulo U8. *)
LEMMA StoreFacts ==
    ASSUME NEW x \in DefraggerState, NEW m \in UdpMessage,
           ~BadFragId(m), m.frag_count = Len(x.frags), SlotFree(x, m)
    PROVE  /\ Store(x, m) \in DefraggerState
           /\ Len(Store(x, m).frags) = Len(x.frags)
           /\ DOMAIN Store(x, m).frags = DOMAIN x.frags
           /\ \A i \in DOMAIN x.frags :
                Store(x, m).frags[i] # None <=> x.frags[i] # None \/ i - 1 = m.frag_id
           /\ Filled(Store(x, m)) = Filled(x) \cup {m.frag_id + 1}
           /\ m.frag_id + 1 \notin Filled(x)
           /\ Store(x, m).count = WrapInc(x.count)
<1> DEFINE s == Store(x, m)
           k == m.frag_id + 1
<1> USE U8Assumption, NoneAssumption
<1>1. k \in 1 .. Len(x.frags) /\ x.frags \in Seq(UdpMessage \cup {None})
  BY SMTT(30) DEF UdpMessage, BadFragId, DefraggerState
<1>2. s.frags = [x.frags EXCEPT ![k] = m] /\ s.count = WrapInc(x.count)
  BY DEF Store, DefraggerState
<1>3. s.frags \in Seq(UdpMessage \cup {None}) /\ Len(s.frags) = Len(x.frags)
  BY <1>1, <1>2
<1>4. WrapInc(x.count) \in 0 .. U8 - 1
  BY DEF WrapInc, DefraggerState
<1>5. x.size + Len(m.data) \in Nat
  BY DEF UdpMessage, DefraggerState
<1>6. s \in DefraggerState
  BY <1>2, <1>3, <1>4, <1>5, Zenon DEF Store, DefraggerState
<1>7. \A i \in DOMAIN x.frags : s.frags[i] # None <=> x.frags[i] # None \/ i - 1 = m.frag_id
  <2>1. m.frag_id \in Int /\ DOMAIN x.frags = 1 .. Len(x.frags)
    BY <1>1 DEF UdpMessage
  <2>2. QED
    BY <1>1, <1>2, <2>1
<1>8. Filled(s) = Filled(x) \cup {k} /\ k \notin Filled(x)
  BY <1>1, <1>2 DEF Filled, SlotFree
<1>9. DOMAIN s.frags = DOMAIN x.frags
  BY <1>1, <1>2
<1>10. QED
  BY <1>2, <1>3, <1>6, <1>7, <1>8, <1>9

(* Drain empties every slot and leaves the counter alone. *)
LEMMA DrainFacts ==
    ASSUME NEW x \in DefraggerState
    PROVE  /\ Drain(x) \in DefraggerState
           /\ Len(Drain(x).frags) = Len(x.frags)
           /\ Drain(x).count = x.count
           /\ Filled(Drain(x)) = {}
<1>1. Drain(x).frags = [i \in DOMAIN x.frags |-> None] /\ Drain(x).count = x.count
  BY DEF Drain, DefraggerState
<1>2. x.frags \in Seq(UdpMessage \cup {None})
  BY DEF DefraggerState
<1>3. Drain(x).frags \in Seq(UdpMessage \cup {None}) /\ Len(Drain(x).frags) = Len(x.frags)
  BY <1>1, <1>2
<1>4. Drain(x) \in DefraggerState
  BY <1>3, SMTT(30) DEF Drain, DefraggerState
<1>5. Filled(Drain(x)) = {}
  BY <1>1 DEF Filled
<1>6. QED
  BY <1>1, <1>3, <1>4, <1>5

(* With a filled slot there is a packet to return. *)
LEMMA AssembleReturns ==
    ASSUME NEW x, Filled(x) # {}
    PROVE  Assemble(x) # << >>
  BY DEF Assemble

-----------------------------------------------------------------------------

(* All the fragments a Defragger holds are of session i. *)
HoldsOnly(x, i) == \A k \in DOMAIN x.frags : x.frags[k] # None => x.frags[k].session_id = i

(* What is put together from fragments of session i is of session i. *)
LEMMA AssembleSession ==
    ASSUME NEW x \in DefraggerState, NEW i, HoldsOnly(x, i)
    PROVE  \A k \in DOMAIN Assemble(x) : Assemble(x)[k].session_id = i
<1>1. CASE Filled(x) = {}
  BY <1>1 DEF Assemble
<1>2. CASE Filled(x) # {}
  <2> DEFINE f == CHOOSE k \in Filled(x) : \A j \in Filled(x) : k <= j
  <2>1. Filled(x) \subseteq Nat /\ x.frags \in Seq(UdpMessage \cup {None})
    BY DEF Filled, DefraggerState
  <2>2. f \in Filled(x)
    BY <1>2, <2>1, LeastElement
  <2> HIDE DEF f
  <2>3. x.frags[f] \in UdpMessage /\ x.frags[f].session_id = i
    <3>1. f \in DOMAIN x.frags /\ x.frags[f] # None
      BY <2>2 DEF Filled
    <3>2. QED
      BY <2>1, <3>1 DEF HoldsOnly
  <2>4. \A data : [x.frags[f] EXCEPT !.data = data, !.frag_id = 0, !.frag_count = 1].session_id = i
    BY <2>3 DEF UdpMessage
  <2>5. PICK data : Assemble(x)
          = <<[x.frags[f] EXCEPT !.data = data, !.frag_id = 0, !.frag_count = 1]>>
    BY <1>2, Zenon DEF Assemble, f
  <2>6. \E r : Assemble(x) = <<r>> /\ r.session_id = i
    BY <2>4, <2>5, Zenon
  <2>7. QED
    BY <2>6
<1>3. QED
  BY <1>1, <1>2

(* Feeding a message of the session whose fragments are held keeps the     *)
(* Defragger well-formed and free of other sessions, and returns nothing   *)
(* of another session.                                                     *)
LEMMA FeedSession ==
    ASSUME NEW x \in DefraggerState, NEW m \in UdpMessage, HoldsOnly(x, m.session_id)
    PROVE  /\ Feed(x, m)[1] \in DefraggerState
           /\ HoldsOnly(Feed(x, m)[1], m.session_id)
           /\ \A k \in DOMAIN Feed(x, m)[2] : Feed(x, m)[2][k].session_id = m.session_id
<1> DEFINE s == Store(x, m)
<1>1. CASE Whole(m)
  BY <1>1 DEF Feed
<1>2. CASE ~Whole(m) /\ BadFragId(m)
  BY <1>2 DEF Feed
<1>3. CASE ~Whole(m) /\ ~BadFragId(m) /\ StartsPacket(x, m)
  <2>1. Feed(x, m) = <<StartOver(m), << >>>>
    BY <1>3 DEF Feed
  <2>2. HoldsOnly(StartOver(m), m.session_id)
    BY DEF HoldsOnly, StartOver
  <2>3. QED
    BY <1>3, <2>1, <2>2, StartOverFacts
<1>4. CASE ~Whole(m) /\ ~BadFragId(m) /\ ~StartsPacket(x, m) /\ ~SlotFree(x, m)
  BY <1>4 DEF Feed
<1>5. CASE ~Whole(m) /\ ~BadFragId(m) /\ ~StartsPacket(x, m) /\ SlotFree(x, m)
  <2>1. s \in DefraggerState
    BY <1>5, StoreFacts DEF StartsPacket
  <2>2. HoldsOnly(s, m.session_id)
    BY DEF HoldsOnly, Store, DefraggerState
  <2>3. Drain(s) \in DefraggerState /\ HoldsOnly(Drain(s), m.session_id)
    BY <2>1, DrainFacts, Zenon DEF HoldsOnly, Drain, DefraggerState
  <2>4. \A k \in DOMAIN Assemble(s) : Assemble(s)[k].session_id = m.session_id
    BY <2>1, <2>2, AssembleSession
  <2> HIDE DEF s
  <2>5. Feed(x, m) = <<Drain(s), Assemble(s)>> \/ Feed(x, m) = <<s, << >>>>
    BY <1>5 DEF Feed, s
  <2>6. QED
    BY <2>1, <2>2, <2>3, <2>4, <2>5
<1>6. QED
  BY <1>1, <1>2, <1>3, <1>4, <1>5

-----------------------------------------------------------------------------

(* f holds the concatenations of the first 1, 2, ..., n members of s. *)
Flattens(f, s, n) == f = [i \in 1..n |-> IF i = 1 THEN s[i] ELSE f[i-1] \o s[i]]

(* Concat is the last of these. *)
LEMMA FlattenIsLast ==
    ASSUME NEW s, Len(s) # 0
    PROVE  Concat(s) = (CHOOSE f : Flattens(f, s, Len(s)))[Len(s)]
  BY DEF Concat, Flattens

(* There are such concatenations, by induction on n. *)
LEMMA FlattensExists ==
    ASSUME NEW S, NEW s \in Seq(Seq(S))
    PROVE  \A n \in 0..Len(s) : \E f \in [1..n -> Seq(S)] : Flattens(f, s, n)
<1> DEFINE P(n) == n <= Len(s) => \E f \in [1..n -> Seq(S)] : Flattens(f, s, n)
           T    == {n \in Nat : P(n)}
<1>1. P(0)
  <2> DEFINE f == [i \in 1..0 |-> s[i]]
  <2>1. f \in [1..0 -> Seq(S)] /\ f = [i \in 1..0 |-> IF i = 1 THEN s[i] ELSE f[i-1] \o s[i]]
    OBVIOUS
  <2>2. Flattens(f, s, 0)
    BY <2>1 DEF Flattens
  <2>3. QED
    BY <2>1, <2>2, Zenon
<1>2. ASSUME NEW n \in Nat, P(n) PROVE P(n+1)
  <2> SUFFICES ASSUME n + 1 <= Len(s)
               PROVE  \E f \in [1..n+1 -> Seq(S)] : Flattens(f, s, n+1)
    OBVIOUS
  <2>1. PICK f \in [1..n -> Seq(S)] : Flattens(f, s, n)
    BY <1>2
  <2> DEFINE g == [i \in 1..n+1 |-> IF i \in 1..n THEN f[i] ELSE IF n = 0 THEN s[i] ELSE f[n] \o s[i]]
  <2>2. s[n+1] \in Seq(S)
    OBVIOUS
  <2>3. ASSUME NEW i \in 1..n+1 PROVE g[i] \in Seq(S) /\ g[i] = IF i = 1 THEN s[i] ELSE g[i-1] \o s[i]
    <3>1. CASE i \in 1..n
      <4>1. g[i] = f[i]
        BY <3>1
      <4>2. i # 1 => g[i-1] = f[i-1]
        BY <3>1, <2>2
      <4>3. f[i] = IF i = 1 THEN s[i] ELSE f[i-1] \o s[i]
        BY <2>1, <3>1, Zenon DEF Flattens
      <4>4. QED
        BY <3>1, <4>1, <4>2, <4>3, Zenon
    <3>2. CASE i = n+1 /\ n = 0
      BY <3>2, <2>2
    <3>3. CASE i = n+1 /\ n # 0
      <4>1. n \in 1..n /\ i - 1 = n /\ i \notin 1..n /\ n \in 1..n+1 /\ i # 1
        BY <3>3
      <4>2. g[i] = f[n] \o s[i] /\ g[i-1] = f[n] /\ f[n] \in Seq(S)
        BY <3>3, <4>1, SMTT(30)
      <4>3. f[n] \o s[i] \in Seq(S)
        BY <2>2, <3>3, <4>2
      <4>4. QED
        BY <4>1, <4>2, <4>3, Zenon
    <3>4. QED
      BY <3>1, <3>2, <3>3
  <2>d. DOMAIN g = 1..n+1 /\ g = [i \in 1..n+1 |-> g[i]]
    BY Zenon
  <2> HIDE DEF g
  <2>4. g \in [1..n+1 -> Seq(S)]
    BY <2>3, <2>d, Zenon
  <2>5. Flattens(g, s, n+1)
    <3>1. g = [i \in 1..n+1 |-> IF i = 1 THEN s[i] ELSE g[i-1] \o s[i]]
      BY <2>3, <2>d, Zenon
    <3>2. QED
      BY <3>1, Zenon DEF Flattens
  <2>6. QED
    BY <2>4, <2>5, Zenon
<1> HIDE DEF P
<1>3. T = Nat
  <2>1. T \in SUBSET Nat /\ 0 \in T /\ \A n \in T : n + 1 \in T
    BY <1>1, <1>2
  <2> HIDE DEF T
  <2>2. QED
    BY <2>1, NatSet, Zenon
<1>4. \A n \in Nat : P(n)
  BY <1>3
<1>5. QED
  BY <1>4 DEF P

(* Flattening sequences over S gives a sequence over S. *)
LEMMA FlattenType ==
    ASSUME NEW S, NEW s \in Seq(Seq(S))
    PROVE  Concat(s) \in Seq(S)
<1>1. CASE Len(s) = 0
  <2>1. Concat(s) = << >>
    BY <1>1 DEF Concat
  <2>2. QED
    BY <2>1
<1>2. CASE Len(s) # 0
  <2> DEFINE f == CHOOSE f : Flattens(f, s, Len(s))
  <2>1. Flattens(f, s, Len(s))
    BY FlattensExists
  <2> HIDE DEF f
  <2>2. \A i \in 1..Len(s) : f[i] = IF i = 1 THEN s[i] ELSE f[i-1] \o s[i]
    BY <2>1, Zenon DEF Flattens
  <2> DEFINE P(n) == n \in 1..Len(s) => f[n] \in Seq(S)
             T    == {n \in Nat : P(n)}
  <2>3. ASSUME NEW n \in Nat, P(n) PROVE P(n+1)
    <3> SUFFICES ASSUME n + 1 \in 1..Len(s) PROVE f[n+1] \in Seq(S)
      OBVIOUS
    <3>1. s[n+1] \in Seq(S)
      OBVIOUS
    <3>2. CASE n = 0
      BY <2>2, <3>1, <3>2
    <3>3. CASE n # 0
      <4>1. n \in 1..Len(s) /\ n + 1 # 1 /\ (n + 1) - 1 = n
        BY <3>3
      <4>2. f[n] \in Seq(S) /\ f[n+1] = f[n] \o s[n+1]
        BY <2>2, <2>3, <4>1, Zenon
      <4>3. QED
        BY <3>1, <4>2
    <3>4. QED
      BY <3>2, <3>3
  <2>4. P(0)
    OBVIOUS
  <2> HIDE DEF P
  <2>5. T \in SUBSET Nat /\ 0 \in T /\ \A n \in T : n + 1 \in T
    BY <2>3, <2>4
  <2> HIDE DEF T
  <2>a. T = Nat
    BY <2>5, NatSet, Zenon
  <2>6. \A n \in Nat : P(n)
    BY <2>a DEF T
  <2>7. f[Len(s)] \in Seq(S)
    BY <1>2, <2>6 DEF P
  <2>8. QED
    BY <1>2, <2>7, FlattenIsLast DEF f
<1>3. QED
  BY <1>1, <1>2

(* A packet put together is a message. *)
LEMMA AssembleType ==
    ASSUME NEW x \in DefraggerState
    PROVE  Assemble(x) \in Seq(UdpMessage)
<1>1. CASE Filled(x) = {}
  BY <1>1 DEF Assemble
<1>2. CASE Filled(x) # {}
  <2> DEFINE f     == CHOOSE k \in Filled(x) : \A j \in Filled(x) : k <= j
             parts == [i \in DOMAIN x.frags |-> IF x.frags[i] = None THEN << >> ELSE x.frags[i].data]
  <2>1. Filled(x) \subseteq Nat /\ x.frags \in Seq(UdpMessage \cup {None})
    BY DEF Filled, DefraggerState
  <2>2. f \in Filled(x)
    BY <1>2, <2>1, LeastElement, SMTT(30)
  <2> HIDE DEF f
  <2>3. x.frags[f] \in UdpMessage
    <3>1. f \in DOMAIN x.frags /\ x.frags[f] # None
      BY <2>2 DEF Filled
    <3>2. QED
      BY <2>1, <3>1
  <2>4. parts \in Seq(Seq(Nat))
    <3>1. \A i \in 1..Len(x.frags) : (IF x.frags[i] = None THEN << >> ELSE x.frags[i].data) \in Seq(Nat)
      BY <2>1 DEF UdpMessage
    <3>2. DOMAIN x.frags = 1..Len(x.frags) /\ Len(x.frags) \in Nat
      BY <2>1
    <3>3. QED
      BY <3>1, <3>2
  <2> DEFINE data == Concat(parts)
  <2>5. data \in Seq(Nat)
    BY <2>4, FlattenType
  <2> HIDE DEF data
  <2>6. [x.frags[f] EXCEPT !.data = data, !.frag_id = 0, !.frag_count = 1] \in UdpMessage
    <3>1. 0 \in 0 .. U8 - 1 /\ 1 \in 0 .. U8 - 1
      BY U8Assumption
    <3> DEFINE y == x.frags[f]
    <3>2. y \in UdpMessage
      BY <2>3
    <3> HIDE DEF y
    <3>3. [y EXCEPT !.data = data, !.frag_id = 0, !.frag_count = 1] \in UdpMessage
      BY <2>5, <3>1, <3>2, Zenon DEF UdpMessage
    <3>4. QED
      BY <3>3 DEF y
  <2>7. Assemble(x) = <<[x.frags[f] EXCEPT !.data = data, !.frag_id = 0, !.frag_count = 1]>>
    BY <1>2 DEF Assemble, f, data
  <2>8. QED
    BY <2>6, <2>7
<1>3. QED
  BY <1>1, <1>2

(* feed returns messages only. *)
LEMMA FeedType ==
    ASSUME NEW x \in DefraggerState, NEW m \in UdpMessage
    PROVE  Feed(x, m)[2] \in Seq(UdpMessage)
<1> DEFINE s == Store(x, m)
<1>1. CASE Feed(x, m)[2] = << >> \/ Feed(x, m)[2] = <<m>>
  <2>1. << >> \in Seq(UdpMessage) /\ <<m>> \in Seq(UdpMessage)
    OBVIOUS
  <2>2. QED
    BY <1>1, <2>1, Zenon
<1>2. CASE ~BadFragId(m) /\ ~StartsPacket(x, m) /\ SlotFree(x, m) /\ Feed(x, m)[2] = Assemble(s)
  <2>1. s \in DefraggerState
    BY <1>2, StoreFacts DEF StartsPacket
  <2>2. QED
    BY <1>2, <2>1, AssembleType
<1>3. QED
  BY <1>1, <1>2 DEF Feed

-----------------------------------------------------------------------------
(* The fragments of a message.                                             *)

ByteMessage == {m \in UdpMessage : m.addr \in Seq(Byte) /\ m.data \in Seq(Byte)}

(* f is the k-th of n fragments of m. *)
IsPart(f, m, k, n) ==
    /\ f \in UdpMessage /\ f.session_id = m.session_id /\ f.packet_id = m.packet_id
    /\ f.frag_id = k - 1 /\ f.frag_count = n
    /\ f.addr = m.addr /\ f.data \in Seq(Byte)

(* s is m cut into at least two fragments that can be told apart, ... *)
IsCut(s, m) ==
    /\ s \in Seq(UdpMessage) /\ Len(s) \in 2 .. U8-1
    /\ \A k \in 1..Len(s) : IsPart(s[k], m, k, Len(s))
    /\ Concat([k \in 1..Len(s) |-> s[k].data]) = m.data

(* ... or m itself. *)
IsSplit(s, m) == s = <<m>> \/ IsCut(s, m)

(* d reassembles the packet id out of s, of which the first q fragments    *)
(* were sent and W is on the wire. A fragment it holds will not come       *)
(* again; and once it has returned the message, none will.                 *)
Reassembles(d, s, q, id, W) ==
    /\ d.pkt_id = id /\ Len(d.frags) = Len(s)
    /\ \A i \in 1..Len(s) : d.frags[i] \in {None, s[i]}
    /\ \A i \in Filled(d) : i <= q /\ s[i] \notin W
    /\ \/ HasSize(Filled(d), d.count) /\ d.count < Len(s)
       \/ Filled(d) = {} /\ Len(s) <= q /\ \A i \in 1..Len(s) : s[i] \notin W
-----------------------------------------------------------------------------
(* Cutting a payload.                                                      *)

(* Pieces of at most p bytes of len, and where the k-th one ends. *)
Cuts(len, p) == (len + p - 1) \div p

CutEnd(len, p, k) == IF k * p < len THEN k * p ELSE len

LEMMA CutPoints ==
    ASSUME NEW len \in Nat, NEW p \in Nat, p > 0
    PROVE  /\ Cuts(len, p) \in Nat
           /\ len > p => Cuts(len, p) >= 2
           /\ CutEnd(len, p, 0) = 0
           /\ CutEnd(len, p, Cuts(len, p)) = len
           /\ \A k \in 1..Cuts(len, p) : /\ CutEnd(len, p, k-1) = (k-1) * p
                                         /\ CutEnd(len, p, k-1) \in Nat
                                         /\ CutEnd(len, p, k) \in Nat
                                         /\ CutEnd(len, p, k-1) <= CutEnd(len, p, k)
                                         /\ CutEnd(len, p, k) <= len
<1> DEFINE n == Cuts(len, p)
           a == len + p - 1
           r == a % p
<1>1. a \in Nat
  OBVIOUS
<1>2. n \in Nat /\ r \in 0..p-1 /\ a = n * p + r
  BY <1>1, Euclid DEF Cuts
<1>0. \A x, y \in Nat : x * y \in Nat
  OBVIOUS
<1>3. n * p \in Nat
  BY <1>0, <1>2, Zenon
<1> HIDE DEF n, r
<1>4. n * p >= len /\ n * p <= len + p - 1
  BY <1>2, <1>3
<1>5. len > p => n >= 2
  <2> SUFFICES ASSUME len > p, n < 2 PROVE FALSE
    BY <1>2
  <2>1. n = 0 \/ n = 1
    BY <1>2
  <2>2. 0 * p = 0 /\ 1 * p = p
    OBVIOUS
  <2>3. QED
    BY <1>4, <2>1, <2>2
<1>6. CutEnd(len, p, 0) = 0
  <2>1. 0 * p = 0
    OBVIOUS
  <2>2. QED
    BY <2>1 DEF CutEnd
<1>7. CutEnd(len, p, n) = len
  BY <1>3, <1>4 DEF CutEnd
<1>8. ASSUME NEW k \in 1..n
      PROVE  /\ CutEnd(len, p, k-1) = (k-1) * p
             /\ CutEnd(len, p, k-1) \in Nat
             /\ CutEnd(len, p, k) \in Nat
             /\ CutEnd(len, p, k-1) <= CutEnd(len, p, k)
             /\ CutEnd(len, p, k) <= len
  <2>1. k \in Nat /\ k-1 \in Nat /\ n-k \in Nat
    BY <1>2
  <2>2. (k-1) * p \in Nat /\ k * p \in Nat /\ (n-k) * p \in Nat
    BY <1>0, <2>1, Zenon
  <2>3. k * p = (k-1) * p + p /\ n * p = k * p + (n-k) * p
    BY <1>2, <2>1
  <2>4. (k-1) * p < len
    BY <1>3, <1>4, <2>2, <2>3
  <2>5. QED
    BY <2>2, <2>3, <2>4 DEF CutEnd
<1>9. QED
  BY <1>2, <1>5, <1>6, <1>7, <1>8 DEF n

(* The pieces put together again are the whole. *)
LEMMA PiecesFlatten ==
    ASSUME NEW S, NEW w \in Seq(S), NEW p \in Nat, p > 0, Len(w) > 0
    PROVE  LET n == Cuts(Len(w), p)
               e(k) == CutEnd(Len(w), p, k)
           IN  Concat([k \in 1..n |-> SubSeq(w, e(k-1) + 1, e(k))]) = w
<1> DEFINE n    == Cuts(Len(w), p)
           e(k) == CutEnd(Len(w), p, k)
           s    == [k \in 1..n |-> SubSeq(w, e(k-1) + 1, e(k))]
           f    == CHOOSE f : Flattens(f, s, n)
<1>0. Len(w) \in Nat
  OBVIOUS
<1>1. /\ n \in Nat /\ e(0) = 0 /\ e(n) = Len(w)
      /\ \A k \in 1..n : /\ e(k-1) \in Nat /\ e(k) \in Nat
                         /\ e(k-1) <= e(k) /\ e(k) <= Len(w)
  BY <1>0, CutPoints, Zenon
<1> HIDE DEF n, e
<1>2. n # 0
  BY <1>0, <1>1
<1>3. ASSUME NEW k \in 1..n
      PROVE  e(k-1) \in 0..Len(w) /\ e(k) \in e(k-1)..Len(w)
  BY <1>0, <1>1
<1>4. ASSUME NEW k \in 1..n PROVE SubSeq(w, e(k-1) + 1, e(k)) \in Seq(S)
  BY <1>3, PartFacts
<1>5. s \in Seq(Seq(S)) /\ Len(s) = n
  BY <1>1, <1>4
<1>6. \A k \in 1..n : s[k] = SubSeq(w, e(k-1) + 1, e(k))
  BY Zenon
<1> HIDE DEF s
<1>7. Flattens(f, s, n)
  BY <1>1, <1>5, FlattensExists
<1>8. Concat(s) = f[n]
  BY <1>2, <1>5, FlattenIsLast
<1> HIDE DEF f
<1>9. \A k \in 1..n : f[k] = IF k = 1 THEN s[k] ELSE f[k-1] \o s[k]
  BY <1>7, Zenon DEF Flattens
<1> DEFINE P(k) == k \in 1..n => f[k] = SubSeq(w, 1, e(k))
           T    == {k \in Nat : P(k)}
<1>10. P(0)
  OBVIOUS
<1>11. ASSUME NEW k \in Nat, P(k) PROVE P(k+1)
  <2> SUFFICES ASSUME k+1 \in 1..n PROVE f[k+1] = SubSeq(w, 1, e(k+1))
    OBVIOUS
  <2>0. (k+1)-1 = k
    OBVIOUS
  <2>1. s[k+1] = SubSeq(w, e(k) + 1, e(k+1)) /\ e(k) \in 0..Len(w) /\ e(k+1) \in e(k)..Len(w)
    BY <1>3, <1>6, <2>0
  <2>2. CASE k = 0
    <3>1. e(k) + 1 = 1 /\ k + 1 = 1
      BY <1>1, <2>2
    <3>2. f[k+1] = s[k+1]
      BY <1>9, <3>1
    <3>3. QED
      BY <2>1, <3>1, <3>2, SMTT(30)
  <2>3. CASE k # 0
    <3>1. k \in 1..n /\ k + 1 # 1
      BY <1>1, <2>3
    <3>2. f[k+1] = f[k] \o s[k+1]
      BY <1>9, <2>0, <3>1, Zenon
    <3>3. f[k] = SubSeq(w, 1, e(k))
      BY <1>11, <3>1
    <3>4. SubSeq(w, 1, e(k)) \o SubSeq(w, e(k) + 1, e(k+1)) = SubSeq(w, 1, e(k+1))
      BY <2>1, PrefixGrows, Zenon
    <3>5. QED
      BY <2>1, <3>2, <3>3, <3>4, Zenon
  <2>4. QED
    BY <2>2, <2>3
<1> HIDE DEF P
<1>12. T \in SUBSET Nat /\ 0 \in T /\ \A k \in T : k+1 \in T
  BY <1>10, <1>11
<1> HIDE DEF T
<1>13. T = Nat
  BY <1>12, NatSet
<1>14. f[n] = SubSeq(w, 1, e(n))
  BY <1>1, <1>2, <1>13, SMTT(30) DEF T, P
<1>15. SubSeq(w, 1, Len(w)) = w
  OBVIOUS
<1>16. QED
  BY <1>1, <1>8, <1>14, <1>15 DEF s, n, e

LEMMA SizeType ==
    ASSUME NEW m \in ByteMessage
    PROVE  HeaderSize(m) \in Nat /\ Size(m) \in Nat
<1>1. Len(m.addr) \in Nat /\ Len(m.data) \in Nat
  BY DEF ByteMessage, UdpMessage
<1>2. PICK v : v = VarintLen(Len(m.addr))
  OBVIOUS
<1>3. v \in {1, 2, 4, 8}
  BY <1>2, Zenon DEF VarintLen
<1>4. v \in Nat
  BY <1>3
<1>5. HeaderSize(m) \in Nat
  BY <1>1, <1>2, <1>4 DEF HeaderSize
<1>6. QED
  BY <1>1, <1>5 DEF Size

(* frag_udp_message cuts the payload at multiples of the room that the     *)
(* header leaves.                                                          *)
LEMMA FragmentFacts ==
    ASSUME NEW m \in ByteMessage, NEW l \in Nat, Size(m) > l, MaxPayload(m, l) # 0
    PROVE  LET p == MaxPayload(m, l)
               n == Cuts(Len(m.data), p)
               e(k) == CutEnd(Len(m.data), p, k)
           IN  /\ p \in Nat /\ p > 0 /\ Len(m.data) \in Nat /\ Len(m.data) > p
               /\ FragCount(m, l) = n /\ n \in Nat /\ n >= 2
               /\ \A k \in 1..n :
                    /\ Fragment(m, l, k) \in UdpMessage
                    /\ Fragment(m, l, k).session_id = m.session_id
                    /\ Fragment(m, l, k).packet_id = m.packet_id
                    /\ Fragment(m, l, k).addr = m.addr
                    /\ Fragment(m, l, k).frag_id = (k-1) % U8
                    /\ Fragment(m, l, k).frag_count = n % U8
                    /\ Fragment(m, l, k).data = SubSeq(m.data, e(k-1) + 1, e(k))
                    /\ Fragment(m, l, k).data \in Seq(Byte)
<1> DEFINE p    == MaxPayload(m, l)
           len  == Len(m.data)
           n    == Cuts(len, p)
           e(k) == CutEnd(len, p, k)
<1>1. m \in UdpMessage /\ m.data \in Seq(Byte) /\ m.addr \in Seq(Byte)
  BY DEF ByteMessage
<1>2. len \in Nat /\ Len(m.addr) \in Nat
  BY <1>1
<1>3. HeaderSize(m) \in Nat
  BY SizeType
<1>4. p \in Nat /\ p > 0 /\ len > p
  BY <1>2, <1>3 DEF MaxPayload, SaturatingSub, Size
<1>5. FragCount(m, l) = n
  BY DEF FragCount, Cuts
<1> HIDE DEF p, len
<1>6. /\ n \in Nat /\ n >= 2
      /\ \A k \in 1..n : /\ e(k-1) = (k-1) * p
                         /\ e(k-1) \in Nat /\ e(k) \in Nat /\ e(k-1) <= e(k) /\ e(k) <= len
  BY <1>2, <1>4, CutPoints, SMTT(30)
<1>7. ASSUME NEW k \in 1..n
      PROVE  Fragment(m, l, k) = [m EXCEPT !.frag_id    = (k-1) % U8,
                                           !.frag_count = n % U8,
                                           !.data       = SubSeq(m.data, e(k-1) + 1, e(k))]
  BY <1>5, <1>6, Zenon DEF Fragment, CutEnd, p, len
<1> HIDE DEF n, e
<1>8. ASSUME NEW k \in 1..n
      PROVE  /\ (k-1) % U8 \in 0..U8-1 /\ n % U8 \in 0..U8-1
             /\ SubSeq(m.data, e(k-1) + 1, e(k)) \in Seq(Byte)
             /\ SubSeq(m.data, e(k-1) + 1, e(k)) \in Seq(Nat)
  <2>1. k-1 \in Nat /\ n \in Nat
    BY <1>6
  <2>2. (k-1) % U8 \in 0..U8-1 /\ n % U8 \in 0..U8-1
    BY <2>1, U8Assumption, Euclid
  <2>3. e(k-1) \in 0..Len(m.data) /\ e(k) \in e(k-1)..Len(m.data)
    BY <1>2, <1>6 DEF len
  <2>4. SubSeq(m.data, e(k-1) + 1, e(k)) \in Seq(Byte)
    BY <1>1, <2>3, PartFacts
  <2>5. \A s \in Seq(Byte) : s \in Seq(Nat)
    <3>1. \A x \in Byte : x \in Nat
      BY ByteIsNat
    <3>2. QED
      BY <3>1
  <2>6. QED
    BY <2>2, <2>4, <2>5, Zenon
<1>9. ASSUME NEW k \in 1..n
      PROVE  /\ Fragment(m, l, k) \in UdpMessage
             /\ Fragment(m, l, k).session_id = m.session_id
             /\ Fragment(m, l, k).packet_id = m.packet_id
             /\ Fragment(m, l, k).addr = m.addr
             /\ Fragment(m, l, k).frag_id = (k-1) % U8
             /\ Fragment(m, l, k).frag_count = n % U8
             /\ Fragment(m, l, k).data = SubSeq(m.data, e(k-1) + 1, e(k))
             /\ Fragment(m, l, k).data \in Seq(Byte)
  <2> DEFINE i == (k-1) % U8
             c == n % U8
             d == SubSeq(m.data, e(k-1) + 1, e(k))
  <2>1. i \in 0..U8-1 /\ c \in 0..U8-1 /\ d \in Seq(Byte) /\ d \in Seq(Nat)
    BY <1>8
  <2>2. Fragment(m, l, k) = [m EXCEPT !.frag_id = i, !.frag_count = c, !.data = d]
    BY <1>7, Zenon
  <2> HIDE DEF i, c, d
  <2>3. /\ Fragment(m, l, k) \in UdpMessage
        /\ Fragment(m, l, k).session_id = m.session_id
        /\ Fragment(m, l, k).packet_id = m.packet_id
        /\ Fragment(m, l, k).addr = m.addr
        /\ Fragment(m, l, k).frag_id = i
        /\ Fragment(m, l, k).frag_count = c
        /\ Fragment(m, l, k).data = d
    BY <1>1, <2>1, <2>2, Zenon DEF UdpMessage
  <2>4. QED
    BY <1>1, <2>1, <2>3 DEF i, c, d
<1>10. QED
  BY <1>2, <1>4, <1>5, <1>6, <1>9 DEF p, len, n, e

(* What frag_udp_message returns: the message itself, nothing, or its      *)
(* fragments.                                                              *)
LEMMA FragmentsType ==
    ASSUME NEW m \in ByteMessage, NEW l \in Nat
    PROVE  FragUdpMessage(m, l) \in Seq(UdpMessage)
<1>1. CASE Size(m) <= l
  <2>1. m \in UdpMessage
    BY DEF ByteMessage
  <2>2. FragUdpMessage(m, l) = <<m>>
    BY <1>1 DEF FragUdpMessage
  <2>3. QED
    BY <2>1, <2>2
<1>2. CASE ~(Size(m) <= l) /\ MaxPayload(m, l) = 0
  BY <1>2 DEF FragUdpMessage
<1>3. CASE ~(Size(m) <= l) /\ MaxPayload(m, l) # 0
  <2>0. Size(m) > l
    BY <1>3, SizeType
  <2> DEFINE n == FragCount(m, l)
             g == [k \in 1..n |-> Fragment(m, l, k)]
  <2>1. n \in Nat /\ \A k \in 1..n : Fragment(m, l, k) \in UdpMessage
    BY <1>3, <2>0, FragmentFacts
  <2>2. FragUdpMessage(m, l) = g
    BY <1>3 DEF FragUdpMessage
  <2> HIDE DEF n
  <2>3. g \in Seq(UdpMessage)
    BY <2>1
  <2>4. QED
    BY <2>2, <2>3
<1>4. QED
  BY <1>1, <1>2, <1>3

(* Where the payload fits, the fragments are the message cut up. *)
LEMMA FragmentsSplit ==
    ASSUME NEW m \in ByteMessage, NEW l \in Nat,
           Size(m) > l => MaxPayload(m, l) > 0 /\ FragCount(m, l) < U8
    PROVE  IsSplit(FragUdpMessage(m, l), m)
<1>1. CASE Size(m) <= l
  BY <1>1 DEF FragUdpMessage, IsSplit
<1>2. CASE ~(Size(m) <= l)
  <2>0. Size(m) > l
    BY <1>2, SizeType
  <2>1. MaxPayload(m, l) # 0
    BY <2>0
  <2> DEFINE p == MaxPayload(m, l)
             n == Cuts(Len(m.data), p)
             e(k) == CutEnd(Len(m.data), p, k)
             g == [k \in 1..n |-> Fragment(m, l, k)]
  <2>2. /\ p \in Nat /\ p > 0 /\ Len(m.data) \in Nat /\ Len(m.data) > p
        /\ FragCount(m, l) = n /\ n \in Nat /\ n >= 2
        /\ \A k \in 1..n :
             /\ Fragment(m, l, k) \in UdpMessage
             /\ Fragment(m, l, k).session_id = m.session_id
             /\ Fragment(m, l, k).packet_id = m.packet_id
             /\ Fragment(m, l, k).addr = m.addr
             /\ Fragment(m, l, k).frag_id = (k-1) % U8
             /\ Fragment(m, l, k).frag_count = n % U8
             /\ Fragment(m, l, k).data = SubSeq(m.data, e(k-1) + 1, e(k))
             /\ Fragment(m, l, k).data \in Seq(Byte)
    BY <2>0, <2>1, FragmentFacts
  <2>3. FragUdpMessage(m, l) = g
    BY <1>2, <2>1, <2>2 DEF FragUdpMessage
  <2>4. Concat([k \in 1..n |-> SubSeq(m.data, e(k-1) + 1, e(k))]) = m.data
    <3>1. m.data \in Seq(Byte)
      BY DEF ByteMessage
    <3>2. Len(m.data) > 0
      BY <2>2
    <3> HIDE DEF p
    <3>3. QED
      BY <2>2, <3>1, <3>2, PiecesFlatten, Zenon
  <2>5. n < U8
    BY <2>0, <2>2
  <2> HIDE DEF p, n, e
  <2>6. g \in Seq(UdpMessage) /\ Len(g) = n /\ \A k \in 1..n : g[k] = Fragment(m, l, k)
    BY <2>2
  <2> HIDE DEF g
  <2>7. ASSUME NEW k \in 1..n PROVE (k-1) % U8 = k-1 /\ n % U8 = n
    <3>1. \A a \in 0..U8-1 : a % U8 = a
      BY U8Assumption
    <3>2. k-1 \in 0..U8-1 /\ n \in 0..U8-1
      BY <2>2, <2>5, U8Assumption
    <3>3. QED
      BY <3>1, <3>2
  <2>8. [k \in 1..n |-> g[k].data] = [k \in 1..n |-> SubSeq(m.data, e(k-1) + 1, e(k))]
    BY <2>2, <2>6, SMTT(30)
  <2>9. \A k \in 1..Len(g) : IsPart(g[k], m, k, Len(g))
    BY <2>2, <2>6, <2>7 DEF IsPart
  <2>10. Len(g) \in 2..U8-1
    BY <2>2, <2>5, <2>6, U8Assumption
  <2>11. Concat([k \in 1..Len(g) |-> g[k].data]) = m.data
    BY <2>4, <2>6, <2>8, Zenon
  <2>12. QED
    BY <2>3, <2>6, <2>9, <2>10, <2>11 DEF IsSplit, IsCut
<1>3. QED
  BY <1>1, <1>2

-----------------------------------------------------------------------------
(* The peer.                                                               *)

(* What is put together from all the fragments of m. *)
LEMMA AssembleCut ==
    ASSUME NEW d \in DefraggerState, NEW m, NEW s, IsCut(s, m), Len(d.frags) = Len(s),
           \A i \in 1..Len(s) : d.frags[i] = s[i]
    PROVE  \E r : /\ Assemble(d) = <<r>> /\ SameContent(r, m) /\ r.packet_id = m.packet_id
<1> DEFINE n == Len(s)
           f == d.frags
           data == Concat([k \in 1..n |-> s[k].data])
           r == [s[1] EXCEPT !.data = data, !.frag_id = 0, !.frag_count = 1]
<1>1. n \in Nat /\ n >= 2 /\ s \in Seq(UdpMessage) /\ DOMAIN f = 1..n /\ DOMAIN s = 1..n
  BY U8Assumption DEF IsCut, DefraggerState
<1>2. \A i \in 1..n : s[i] \in UdpMessage /\ f[i] = s[i] /\ f[i] # None
  BY <1>1, NoneAssumption
<1>3. Filled(d) = 1..n
  BY <1>1, <1>2 DEF Filled
<1>4. (CHOOSE i \in Filled(d) : \A j \in Filled(d) : i <= j) = 1
  <2> DEFINE c == CHOOSE i \in 1..n : \A j \in 1..n : i <= j
  <2>1. 1 \in 1..n /\ \A j \in 1..n : 1 <= j
    BY <1>1
  <2>2. c \in 1..n /\ \A j \in 1..n : c <= j
    BY <2>1
  <2> HIDE DEF c
  <2>3. c = 1
    BY <1>1, <2>1, <2>2
  <2>4. QED
    BY <1>3, <2>3 DEF c
<1>5. [i \in DOMAIN d.frags |-> IF d.frags[i] = None THEN << >> ELSE d.frags[i].data]
        = [k \in 1..n |-> s[k].data]
  BY <1>1, <1>2
<1>6. Filled(d) # {} /\ d.frags[1] = s[1]
  BY <1>1, <1>2, <1>3
<1>7. Assemble(d) = <<r>>
  BY <1>4, <1>5, <1>6, Zenon DEF Assemble
<1>8. data = m.data
  BY DEF IsCut
<1>9. s[1].addr = m.addr /\ s[1].packet_id = m.packet_id /\ s[1] \in UdpMessage
  BY <1>1 DEF IsCut, IsPart
<1> HIDE DEF data
<1>10. r.addr = m.addr /\ r.packet_id = m.packet_id /\ r.data = m.data
  BY <1>8, <1>9 DEF UdpMessage
<1> HIDE DEF r
<1>11. QED
  BY <1>7, <1>10 DEF SameContent

(* A fragment is neither a whole message nor out of range. *)
LEMMA PartFits ==
    ASSUME NEW m, NEW s, IsCut(s, m), NEW k \in 1..Len(s)
    PROVE  /\ s[k] \in UdpMessage /\ s[k] # None /\ ~Whole(s[k]) /\ ~BadFragId(s[k])
           /\ s[k].packet_id = m.packet_id /\ s[k].frag_id + 1 = k /\ s[k].frag_id = k-1
           /\ s[k].frag_count = Len(s) /\ Len(s) \in 2..U8-1
<1>1. Len(s) \in 2..U8-1 /\ IsPart(s[k], m, k, Len(s))
  BY DEF IsCut
<1>2. QED
  BY <1>1, U8Assumption, NoneAssumption DEF IsPart, Whole, BadFragId

(* The first fragment of another packet makes the peer start over. *)
LEMMA FeedStarts ==
    ASSUME NEW d \in DefraggerState, NEW m, NEW s, IsCut(s, m), NEW k \in 1..Len(s),
           NEW q \in Nat, k <= q, NEW W, s[k] \notin W,
           d.pkt_id # m.packet_id \/ Len(d.frags) # Len(s)
    PROVE  /\ Feed(d, s[k]) = <<StartOver(s[k]), << >>>>
           /\ StartOver(s[k]) \in DefraggerState
           /\ Reassembles(StartOver(s[k]), s, q, m.packet_id, W)
<1> DEFINE x == StartOver(s[k])
<1>1. /\ s[k] \in UdpMessage /\ s[k] # None /\ ~Whole(s[k]) /\ ~BadFragId(s[k])
      /\ s[k].packet_id = m.packet_id /\ s[k].frag_id + 1 = k
      /\ s[k].frag_count = Len(s) /\ Len(s) \in 2..U8-1
  BY PartFits
<1>2. Feed(d, s[k]) = <<x, << >>>>
  BY <1>1 DEF Feed, StartsPacket
<1>3. x \in DefraggerState /\ Len(x.frags) = Len(s)
  BY <1>1, StartOverFacts
<1>4. /\ x.pkt_id = m.packet_id /\ x.count = 1
      /\ x.frags = [i \in 1..Len(s) |-> IF i = k THEN s[k] ELSE None]
  BY <1>1 DEF StartOver
<1> HIDE DEF x
<1>5. Filled(x) = {k}
  BY <1>1, <1>4 DEF Filled
<1>6. \A i \in 1..Len(s) : x.frags[i] \in {None, s[i]}
  BY <1>4
<1>7. HasSize(Filled(x), x.count)
  <2>1. HasSize({}, 0)
    <3> DEFINE f == [i \in 1..0 |-> i]
    <3>1. 1..0 = {} /\ f \in [1..0 -> {}]
      OBVIOUS
    <3> HIDE DEF f
    <3>2. QED
      BY <3>1, Zenon DEF HasSize, OneToOne
  <2>2. HasSize({} \cup {k}, 0+1)
    BY <2>1, SizeGrows, Zenon
  <2>3. {} \cup {k} = {k} /\ 0+1 = 1
    OBVIOUS
  <2>4. QED
    BY <1>4, <1>5, <2>2, <2>3
<1>8. Reassembles(x, s, q, m.packet_id, W)
  BY <1>1, <1>3, <1>4, <1>5, <1>6, <1>7, U8Assumption DEF Reassembles
<1>9. QED
  BY <1>2, <1>3, <1>8 DEF x

(* The peer, in the course of reassembling s, took its fragment f. *)
GoesOn(d, m, s, f, q, W) ==
    /\ Feed(d, f)[1] \in DefraggerState
    /\ Reassembles(Feed(d, f)[1], s, q, m.packet_id, W \ {f})
    /\ \/ Feed(d, f)[2] = << >>
       \/ Len(s) <= q /\ \E r : /\ Feed(d, f)[2] = <<r>> /\ SameContent(r, m)
                                /\ r.packet_id = m.packet_id

(* A further fragment of the packet fills its slot, and the last one makes *)
(* the peer return the message.                                            *)
LEMMA FeedGoesOn ==
    ASSUME NEW d \in DefraggerState, NEW m, NEW s, IsCut(s, m), NEW k \in 1..Len(s),
           NEW q \in Nat, k <= q, NEW W, s[k] \in W, Reassembles(d, s, q, m.packet_id, W)
    PROVE  GoesOn(d, m, s, s[k], q, W)
<1> DEFINE n == Len(s)
           x == Store(d, s[k])
           V == W \ {s[k]}
<1>1. /\ s[k] \in UdpMessage /\ s[k] # None /\ ~Whole(s[k]) /\ ~BadFragId(s[k])
      /\ s[k].packet_id = m.packet_id /\ s[k].frag_id + 1 = k /\ s[k].frag_id = k-1
      /\ s[k].frag_count = n /\ n \in 2..U8-1
  BY PartFits
<1>2. /\ d.pkt_id = m.packet_id /\ Len(d.frags) = n
      /\ \A i \in 1..n : d.frags[i] \in {None, s[i]}
      /\ \A i \in Filled(d) : i <= q /\ s[i] \notin W
      /\ \/ HasSize(Filled(d), d.count) /\ d.count < n
         \/ Filled(d) = {} /\ n <= q /\ \A i \in 1..n : s[i] \notin W
  BY DEF Reassembles
<1>3. DOMAIN d.frags = 1..n /\ n \in Nat /\ k \in 1..n /\ ~StartsPacket(d, s[k])
  BY <1>1, <1>2, U8Assumption DEF DefraggerState, StartsPacket
<1>4. k \notin Filled(d) /\ SlotFree(d, s[k])
  BY <1>1, <1>2, <1>3 DEF Filled, SlotFree
<1>5. HasSize(Filled(d), d.count) /\ d.count < n
  BY <1>2, <1>3
<1>6. d.count \in 0..U8-1
  BY SMTT(30) DEF DefraggerState
<1>7. /\ x \in DefraggerState /\ Len(x.frags) = n /\ DOMAIN x.frags = 1..n
      /\ x.count = WrapInc(d.count)
  BY <1>1, <1>2, <1>3, <1>4, StoreFacts
<1>8. x.count = d.count + 1
  BY <1>1, <1>5, <1>6, <1>7, U8Assumption DEF WrapInc
<1>9. x.frags = [d.frags EXCEPT ![k] = s[k]] /\ x.pkt_id = d.pkt_id
  BY <1>1 DEF Store, DefraggerState
<1>10. Feed(d, s[k]) = IF x.count = Len(x.frags) THEN <<Drain(x), Assemble(x)>> ELSE <<x, << >>>>
  BY <1>1, <1>3, <1>4 DEF Feed
<1> HIDE DEF x, V
<1>11. Filled(x) = Filled(d) \cup {k}
  BY <1>1, <1>3, <1>7, <1>9 DEF Filled
<1>12. \A i \in 1..n : x.frags[i] \in {None, s[i]}
  BY <1>2, <1>3, <1>9
<1>13. /\ \A i \in Filled(x) : i <= q /\ s[i] \notin V
       /\ HasSize(Filled(x), x.count)
  <2>1. HasSize(Filled(d) \cup {k}, d.count + 1)
    BY <1>4, <1>5, <1>6, SizeGrows
  <2>2. QED
    BY <1>2, <1>8, <1>11, <2>1 DEF V
<1>14. CASE x.count = n
  <2>1. Feed(d, s[k]) = <<Drain(x), Assemble(x)>>
    BY <1>7, <1>10, <1>14
  <2>2. Filled(x) = 1..n
    <3>1. Filled(x) \subseteq 1..n
      BY <1>7 DEF Filled
    <3>2. PICK f : OneToOne(f, n, Filled(x)) /\ \A y \in Filled(x) : \E i \in 1..n : f[i] = y
      BY <1>13, <1>14 DEF HasSize
    <3>3. OneToOne(f, n, 1..n)
      BY <3>1, <3>2 DEF OneToOne
    <3>4. \A y \in 1..n : \E i \in 1..n : f[i] = y
      BY <1>3, <3>3, Pigeonhole
    <3>5. 1..n \subseteq Filled(x)
      <4>1. \A i \in 1..n : f[i] \in Filled(x)
        BY <3>2 DEF OneToOne
      <4>2. QED
        BY <3>4, <4>1, Zenon
    <3>6. QED
      BY <3>1, <3>5, Zenon
  <2>3. \A i \in 1..n : x.frags[i] = s[i]
    BY <1>7, <1>12, <2>2 DEF Filled
  <2>4. n \in Filled(x) /\ n <= q
    BY <1>1, <1>13, <2>2, U8Assumption
  <2>5. PICK r : Assemble(x) = <<r>> /\ SameContent(r, m) /\ r.packet_id = m.packet_id
    BY <1>7, <2>3, AssembleCut
  <2>6. Drain(x) \in DefraggerState /\ Len(Drain(x).frags) = n
    BY <1>7, DrainFacts
  <2>7. Drain(x).pkt_id = m.packet_id /\ Drain(x).frags = [i \in 1..n |-> None]
    BY <1>2, <1>7, <1>9 DEF Drain, DefraggerState
  <2> DEFINE y == Drain(x)
  <2> HIDE DEF y
  <2>8. Filled(y) = {}
    BY <2>7 DEF Filled, y
  <2>9. \A i \in 1..n : y.frags[i] \in {None, s[i]}
    BY <2>7 DEF y
  <2>10. Reassembles(y, s, q, m.packet_id, V)
    BY <1>13, <2>2, <2>4, <2>6, <2>7, <2>8, <2>9 DEF Reassembles, y
  <2>11. QED
    BY <2>1, <2>4, <2>5, <2>6, <2>10 DEF y, V, GoesOn
<1>15. CASE x.count # n
  <2>1. Feed(d, s[k]) = <<x, << >>>>
    BY <1>7, <1>10, <1>15
  <2>2. HasSize(Filled(x), x.count) /\ x.count < n
    BY <1>3, <1>5, <1>6, <1>8, <1>13, <1>15
  <2>3. Reassembles(x, s, q, m.packet_id, V)
    BY <1>2, <1>7, <1>9, <1>12, <1>13, <2>2 DEF Reassembles
  <2>4. QED
    BY <1>7, <2>1, <2>3 DEF V, GoesOn
<1>16. QED
  BY <1>14, <1>15

-----------------------------------------------------------------------------
(* A Defragger that is fed all the fragments in order.                     *)

Feeds(f, s, n) ==
    f = [k \in 0..n |-> IF k = 0 THEN <<NewDefragger, << >>>> ELSE Feed(f[k-1][1], s[k])]

LEMMA LastFedIsLast ==
    ASSUME NEW s
    PROVE  LastFed(s) = (CHOOSE f : Feeds(f, s, Len(s)))[Len(s)][2]
  BY DEF LastFed, Feeds

LEMMA FeedsExist ==
    ASSUME NEW s
    PROVE  \A n \in Nat : \E f : Feeds(f, s, n)
<1> DEFINE P(n) == \E f : Feeds(f, s, n)
           T    == {n \in Nat : P(n)}
<1>1. P(0)
  <2> DEFINE f == [k \in 0..0 |-> <<NewDefragger, << >>>>]
  <2>1. f = [k \in 0..0 |-> IF k = 0 THEN <<NewDefragger, << >>>> ELSE Feed(f[k-1][1], s[k])]
    OBVIOUS
  <2> HIDE DEF f
  <2>2. QED
    BY <2>1 DEF Feeds
<1>2. ASSUME NEW n \in Nat, P(n) PROVE P(n+1)
  <2>1. PICK f : Feeds(f, s, n)
    BY <1>2
  <2> DEFINE x == Feed(f[n][1], s[n+1])
             g == [k \in 0..n+1 |-> IF k = n+1 THEN x ELSE f[k]]
  <2>2. ASSUME NEW k \in 0..n+1
        PROVE  g[k] = IF k = 0 THEN <<NewDefragger, << >>>> ELSE Feed(g[k-1][1], s[k])
    <3>1. CASE k = n+1
      <4>1. g[k] = x /\ k # 0
        BY <3>1
      <4>2. k-1 = n /\ n \in 0..n+1 /\ n # n+1
        BY <3>1
      <4>3. g[k-1] = f[n]
        BY <4>2
      <4>4. x = Feed(f[n][1], s[k])
        BY <3>1
      <4> HIDE DEF g, x
      <4>5. QED
        BY <4>1, <4>3, <4>4
    <3>2. CASE k # n+1
      <4>1. k \in 0..n
        BY <3>2
      <4>2. f[k] = IF k = 0 THEN <<NewDefragger, << >>>> ELSE Feed(f[k-1][1], s[k])
        BY <2>1, <4>1 DEF Feeds
      <4>3. k # 0 => k-1 \in 0..n+1 /\ k-1 # n+1
        BY <4>1
      <4>4. g[k] = f[k] /\ (k # 0 => g[k-1] = f[k-1])
        BY <3>2, <4>3
      <4> HIDE DEF g, x
      <4>5. QED
        BY <4>2, <4>4
    <3>3. QED
      BY <3>1, <3>2
  <2>3. g = [k \in 0..n+1 |-> IF k = 0 THEN <<NewDefragger, << >>>> ELSE Feed(g[k-1][1], s[k])]
    BY <2>2
  <2> HIDE DEF g
  <2>4. QED
    BY <2>3, SMTT(30) DEF Feeds
<1> HIDE DEF P
<1>3. T \in SUBSET Nat /\ 0 \in T /\ \A n \in T : n+1 \in T
  BY <1>1, <1>2
<1> HIDE DEF T
<1>4. T = Nat
  BY <1>3, NatSet
<1>5. QED
  BY <1>4 DEF T, P

(* d holds the first k fragments of s. *)
HoldsFirst(d, s, id, k) ==
    /\ d \in DefraggerState /\ d.pkt_id = id /\ d.count = k
    /\ d.frags = [i \in 1..Len(s) |-> IF i <= k THEN s[i] ELSE None]

LEMMA FeedInOrder ==
    ASSUME NEW m, NEW s, IsCut(s, m), NEW k \in 1..Len(s)-1, NEW d,
           HoldsFirst(d, s, m.packet_id, k)
    PROVE  IF k+1 < Len(s)
           THEN HoldsFirst(Feed(d, s[k+1])[1], s, m.packet_id, k+1)
           ELSE \E r : Feed(d, s[k+1])[2] = <<r>> /\ SameContent(r, m)
<1> DEFINE n == Len(s)
           j == k+1
           x == Store(d, s[k+1])
<1>0. n \in 2..U8-1 /\ j \in 1..n /\ n \in Nat
  BY U8Assumption DEF IsCut
<1>1. /\ s[j] \in UdpMessage /\ s[j] # None /\ ~Whole(s[j]) /\ ~BadFragId(s[j])
      /\ s[j].packet_id = m.packet_id /\ s[j].frag_id + 1 = j /\ s[j].frag_id = j-1
      /\ s[j].frag_count = n /\ n \in 2..U8-1
  <2> HIDE DEF j
  <2>1. QED
    BY <1>0, PartFits
<1>2. /\ d \in DefraggerState /\ d.pkt_id = m.packet_id /\ d.count = k
      /\ d.frags = [i \in 1..n |-> IF i <= k THEN s[i] ELSE None]
  BY DEF HoldsFirst
<1>3. Len(d.frags) = n /\ DOMAIN d.frags = 1..n
  BY <1>0, <1>2
<1>4. ~StartsPacket(d, s[j]) /\ SlotFree(d, s[j])
  BY <1>0, <1>1, <1>2, <1>3 DEF StartsPacket, SlotFree
<1>5. /\ x \in DefraggerState /\ Len(x.frags) = n /\ DOMAIN x.frags = 1..n
      /\ x.count = WrapInc(d.count)
  BY <1>1, <1>2, <1>3, <1>4, StoreFacts
<1>6. x.count = j
  BY <1>0, <1>2, <1>5, U8Assumption DEF WrapInc
<1>7. x.frags = [d.frags EXCEPT ![j] = s[j]] /\ x.pkt_id = d.pkt_id
  BY <1>1, <1>2, Zenon DEF Store, DefraggerState
<1>8. Feed(d, s[j]) = IF x.count = Len(x.frags) THEN <<Drain(x), Assemble(x)>> ELSE <<x, << >>>>
  BY <1>1, <1>4 DEF Feed
<1> HIDE DEF x
<1>9. \A i \in 1..n : x.frags[i] = IF i <= j THEN s[i] ELSE None
  <2>1. ASSUME NEW i \in 1..n PROVE x.frags[i] = IF i = j THEN s[j] ELSE d.frags[i]
    BY <1>3, <1>7, Zenon
  <2>2. ASSUME NEW i \in 1..n PROVE d.frags[i] = IF i <= k THEN s[i] ELSE None
    BY <1>2, Zenon
  <2>3. ASSUME NEW i \in 1..n PROVE i # j => (i <= j <=> i <= k)
    BY <1>0
  <2>4. j <= j
    BY <1>0
  <2> HIDE DEF j, n
  <2>5. QED
    BY <2>1, <2>2, <2>3, <2>4, Zenon
<1>10. x.frags = [i \in 1..n |-> IF i <= j THEN s[i] ELSE None]
  BY <1>2, <1>5, <1>7, <1>9
<1>11. CASE j < n
  <2>1. Feed(d, s[j]) = <<x, << >>>>
    BY <1>0, <1>5, <1>6, <1>8, <1>11
  <2>2. HoldsFirst(x, s, m.packet_id, j)
    BY <1>2, <1>5, <1>6, <1>7, <1>10 DEF HoldsFirst
  <2>3. QED
    BY <1>11, <2>1, <2>2
<1>12. CASE ~(j < n)
  <2>1. j = n
    BY <1>0, <1>12
  <2>2. Feed(d, s[j]) = <<Drain(x), Assemble(x)>>
    BY <1>5, <1>6, <1>8, <2>1
  <2>3. \A i \in 1..n : x.frags[i] = s[i]
    BY <1>9, <2>1
  <2>4. PICK r : Assemble(x) = <<r>> /\ SameContent(r, m)
    BY <1>5, <2>3, AssembleCut
  <2>5. QED
    BY <1>12, <2>2, <2>4
<1>13. QED
  BY <1>11, <1>12

(* All the fragments are enough. *)
LEMMA LastFedComplete ==
    ASSUME NEW m \in UdpMessage, NEW s, IsSplit(s, m), m.frag_count = 1
    PROVE  \E full \in Range(LastFed(s)) : SameContent(full, m)
<1> DEFINE n == Len(s)
           f == CHOOSE f : Feeds(f, s, n)
<1>1. n \in Nat /\ n >= 1
  BY U8Assumption DEF IsSplit, IsCut
<1>2. Feeds(f, s, n)
  BY <1>1, FeedsExist
<1>3. LastFed(s) = f[n][2]
  BY LastFedIsLast
<1> HIDE DEF f
<1>4. \A k \in 0..n : f[k] = IF k = 0 THEN <<NewDefragger, << >>>> ELSE Feed(f[k-1][1], s[k])
  BY <1>2, Zenon DEF Feeds
<1>5. f[0][1] = NewDefragger
  BY <1>1, <1>4
<1>6. \A k \in 1..n : f[k] = Feed(f[k-1][1], s[k])
  BY <1>1, <1>4
<1>7. f[1] = Feed(NewDefragger, s[1])
  BY <1>1, <1>5, <1>6
<1>8. SUFFICES \E r : LastFed(s) = <<r>> /\ SameContent(r, m)
  BY DEF Range
<1>9. CASE s = <<m>>
  <2>1. n = 1 /\ s[1] = m /\ Whole(m)
    BY <1>9 DEF Whole
  <2>2. Feed(NewDefragger, m) = <<NewDefragger, <<m>>>>
    BY <2>1 DEF Feed
  <2>3. LastFed(s) = <<m>>
    BY <1>3, <1>7, <2>1, <2>2
  <2>4. QED
    BY <2>3 DEF SameContent
<1>10. CASE IsCut(s, m)
  <2>0. n \in 2..U8-1 /\ 1 \in 1..n
    BY <1>1, <1>10 DEF IsCut
  <2>1. /\ s[1] \in UdpMessage /\ s[1] # None /\ ~Whole(s[1]) /\ ~BadFragId(s[1])
        /\ s[1].packet_id = m.packet_id /\ s[1].frag_id + 1 = 1
        /\ s[1].frag_count = n
    BY <1>10, <2>0, PartFits
  <2>2. f[1][1] = StartOver(s[1])
    <3>1. Len(NewDefragger.frags) = 0
      BY DEF NewDefragger
    <3>2. StartsPacket(NewDefragger, s[1])
      BY <2>0, <2>1, <3>1 DEF StartsPacket
    <3>3. QED
      <4>1. f[1] = <<StartOver(s[1]), << >>>>
        BY <1>7, <2>1, <3>2, Zenon DEF Feed
      <4>2. QED
        BY <4>1
  <2>3. HoldsFirst(StartOver(s[1]), s, m.packet_id, 1)
    <3>1. StartOver(s[1]) \in DefraggerState
      BY <2>1, StartOverFacts
    <3>2. \A i \in 1..n : i = s[1].frag_id + 1 <=> i <= 1
      BY <2>1
    <3>3. [i \in 1..n |-> IF i = s[1].frag_id + 1 THEN s[1] ELSE None]
            = [i \in 1..n |-> IF i <= 1 THEN s[i] ELSE None]
      BY <2>1
    <3>4. QED
      BY <2>1, <3>1, <3>3 DEF HoldsFirst, StartOver
  <2> DEFINE P(k) == k+1 \in 1..n-1 => HoldsFirst(f[k+1][1], s, m.packet_id, k+1)
             T    == {k \in Nat : P(k)}
  <2>4. P(0)
    BY <2>2, <2>3
  <2>5. ASSUME NEW k \in Nat, P(k) PROVE P(k+1)
    <3> SUFFICES ASSUME (k+1)+1 \in 1..n-1
                 PROVE  HoldsFirst(f[(k+1)+1][1], s, m.packet_id, (k+1)+1)
      OBVIOUS
    <3> DEFINE j == k+1
    <3>1. j \in 1..n-1 /\ j+1 \in 1..n /\ j+1 < n /\ (j+1)-1 = j
      BY <1>1
    <3>2. HoldsFirst(f[j][1], s, m.packet_id, j)
      BY <2>5, <3>1
    <3>3. f[j+1] = Feed(f[j][1], s[j+1])
      BY <1>6, <3>1
    <3> HIDE DEF j
    <3>4. HoldsFirst(Feed(f[j][1], s[j+1])[1], s, m.packet_id, j+1)
      BY <1>10, <3>1, <3>2, FeedInOrder, Zenon
    <3>5. QED
      BY <3>3, <3>4 DEF j
  <2> HIDE DEF P
  <2>6. T \in SUBSET Nat /\ 0 \in T /\ \A k \in T : k+1 \in T
    BY <2>4, <2>5
  <2> HIDE DEF T
  <2>7. T = Nat
    BY <2>6, NatSet
  <2> DEFINE j == n-1
  <2>8. j \in 1..n-1 /\ j+1 = n /\ ~(j+1 < n) /\ j-1 \in Nat /\ (j-1)+1 = j
    BY <2>0, U8Assumption
  <2>9. HoldsFirst(f[j][1], s, m.packet_id, j)
    <3>1. P(j-1)
      BY <2>7, <2>8 DEF T
    <3>2. QED
      BY <2>8, <3>1 DEF P
  <2>10. f[n] = Feed(f[j][1], s[n])
    BY <1>1, <1>6
  <2> HIDE DEF j
  <2>11. \E r : Feed(f[j][1], s[j+1])[2] = <<r>> /\ SameContent(r, m)
    BY <1>10, <2>8, <2>9, FeedInOrder, Zenon
  <2>12. QED
    BY <1>3, <2>8, <2>10, <2>11
<1>11. QED
  BY <1>9, <1>10 DEF IsSplit
=============================================================================
