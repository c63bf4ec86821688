-------------------------- MODULE TcpStreamProofs --------------------------
(***************************************************************************)
(* BytesConserved and VerdictIsRight of TcpStream, for every set of byte   *)
(* streams, every length guard, every chunk and buffer size. The parser is *)
(* first shown to say of a prefix what the grammar says of the whole       *)
(* stream; what the parser reads at a position is get_varint's value       *)
(* (VarintDecodes). After that, what the client writes on a stream and     *)
(* what it reads of a datagram: TCP requests, parse of any bytes, and      *)
(* Codec, which puts all encodings together.                               *)
(***************************************************************************)
EXTENDS TcpStream, Codec, ProtocolProofs

(* What From is. *)
LEMMA FromFacts ==
    ASSUME NEW S, NEW w \in Seq(S), NEW i \in 0..Len(w)
    PROVE  /\ From(w, i) \in Seq(S)
           /\ Len(From(w, i)) = Len(w) - i
           /\ \A k \in 1 .. Len(w) - i : From(w, i)[k] = w[i+k]
  BY DEF From

(* A part of what follows i is a part of the whole. *)
LEMMA PartOfFrom ==
    ASSUME NEW S, NEW w \in Seq(S), NEW i \in 0..Len(w), NEW n \in 0 .. Len(w)-i
    PROVE  SubSeq(From(w, i), 1, n) = SubSeq(w, i+1, i+n)
<1>1. /\ From(w, i) \in Seq(S)
      /\ Len(From(w, i)) = Len(w) - i
      /\ \A k \in 1 .. Len(w) - i : From(w, i)[k] = w[i+k]
  BY FromFacts
<1> DEFINE a == SubSeq(From(w, i), 1, n)
           b == SubSeq(w, i+1, i+n)
           F == From(w, i)
<1>2. 0 \in 0 .. Len(F) /\ n \in 0 .. Len(F) /\ 0+1 = 1 /\ n-0 = n
  BY <1>1
<1>3. a \in Seq(S) /\ Len(a) = n /\ \A k \in 1..n : a[k] = F[k]
  <2> HIDE DEF F
  <2>1. F \in Seq(S)
    BY <1>1 DEF F
  <2>2. /\ SubSeq(F, 0+1, n) \in Seq(S)
        /\ Len(SubSeq(F, 0+1, n)) = n-0
        /\ \A k \in 1..n-0 : SubSeq(F, 0+1, n)[k] = F[0+k]
    BY <1>2, <2>1, PartFacts
  <2>3. QED
    BY <1>2, <2>2 DEF F
<1>4. b \in Seq(S) /\ Len(b) = n /\ \A k \in 1..n : b[k] = w[i+k]
  <2>1. i+n \in i..Len(w) /\ (i+n)-i = n
    OBVIOUS
  <2>2. QED
    BY <2>1, PartFacts
<1>5. \A k \in 1..n : a[k] = b[k]
  BY <1>1, <1>3, <1>4
<1> HIDE DEF a, b, F
<1>6. a = b
  BY <1>3, <1>4, <1>5, SeqsEqual, Zenon
<1>7. QED
  BY <1>6 DEF a, b

(* The value that get_varint finds after i: what the bytes of w from there *)

(* on encode under the tag of the first of them.                           *)
LEMMA FieldAt ==
    ASSUME NEW w \in Seq(Byte), NEW i \in 0 .. Len(w)-1,
           NEW t, t = w[i+1] \div LowRange, NEW n, n = 2^t
    PROVE  /\ t \in 0..3 /\ n \in {1, 2, 4, 8}
           /\ i + n > Len(w) => GetVarint(From(w, i)) = << >>
           /\ i + n <= Len(w) =>
                 \E v \in Nat : GetVarint(From(w, i)) = <<v, n>> /\ IsOnly(SubSeq(w, i+1, i+n), t, v)
<1> DEFINE s == From(w, i)
<1>1. s \in Seq(Byte) /\ Len(s) = Len(w) - i /\ s[1] = w[i+1]
  <2>1. i \in 0..Len(w) /\ 1 \in 1..Len(w)-i
    OBVIOUS
  <2>2. QED
    BY <2>1, FromFacts
<1>2. n \in 0 .. Len(w)-i => SubSeq(s, 1, n) = SubSeq(w, i+1, i+n)
  <2>1. i \in 0..Len(w)
    OBVIOUS
  <2>2. QED
    BY <2>1, PartOfFrom, Zenon
<1>3. Len(w) \in Nat /\ Len(s) > 0
  BY <1>1
<1> HIDE DEF s
<1>4. s # << >>
  BY <1>1, <1>3
<1>5. /\ t \in 0..3 /\ n \in {1, 2, 4, 8}
      /\ Len(s) < n => GetVarint(s) = << >>
      /\ Len(s) >= n =>
            \E v \in Nat : GetVarint(s) = <<v, n>> /\ IsOnly(SubSeq(s, 1, n), t, v)
  <2>1. t = s[1] \div LowRange
    BY <1>1
  <2>2. QED
    BY <1>1, <1>4, <2>1, VarintDecodes
<1>6. n \in Nat
  BY <1>5
<1>7. i + n > Len(w) => Len(s) < n
  BY <1>1, <1>3, <1>6
<1>8. i + n <= Len(w) => Len(s) >= n /\ n \in 0 .. Len(w)-i
  BY <1>1, <1>3, <1>6
<1>9. QED
  BY <1>2, <1>5, <1>7, <1>8, Zenon DEF s

(* Nothing is read at the end. *)
LEMMA NoFieldAtEnd == ASSUME NEW w \in Seq(Byte) PROVE GetVarint(From(w, Len(w))) = << >>
<1>1. From(w, Len(w)) = << >>
  BY DEF From
<1>2. QED
  BY <1>1 DEF GetVarint

(* What get_varint finds, it finds in a sequence of bytes. *)
LEMMA FieldType ==
    ASSUME NEW w \in Seq(Byte), NEW i \in 0..Len(w),
           NEW f, f = GetVarint(From(w, i)), f # << >>
    PROVE  /\ i < Len(w) /\ f[2] = 2 ^ (w[i+1] \div LowRange)
           /\ f[1] \in Nat /\ f[2] \in {1, 2, 4, 8} /\ i + f[2] <= Len(w) /\ f = <<f[1], f[2]>>
<1> DEFINE t == w[i+1] \div LowRange
           n == 2^t
<1>1. i # Len(w)
  BY NoFieldAtEnd
<1>2. i \in 0 .. Len(w)-1 /\ Len(w) \in Nat
  BY <1>1
<1> HIDE DEF t, n
<1>3. /\ t \in 0..3 /\ n \in {1, 2, 4, 8}
      /\ i + n > Len(w) => GetVarint(From(w, i)) = << >>
      /\ i + n <= Len(w) => \E v \in Nat : GetVarint(From(w, i)) = <<v, n>>
  BY <1>2, FieldAt DEF t, n
<1>4. n \in Nat
  BY <1>3
<1>5. i + n <= Len(w)
  BY <1>2, <1>3, <1>4
<1>6. PICK v \in Nat : f = <<v, n>>
  BY <1>3, <1>5
<1>7. f[1] = v /\ f[2] = n
  BY <1>6
<1>8. QED
  BY <1>2, <1>3, <1>5, <1>6, <1>7 DEF t, n

(* The bytes from i to a encode v just in case get_varint reads v there,   *)
(* from as many bytes.                                                     *)
LEMMA VarintIsRead ==
    ASSUME NEW w \in Seq(Byte), NEW i \in 0..Len(w), NEW a \in i+1 .. Len(w), NEW v \in Nat
    PROVE  IsVarint(SubSeq(w, i+1, a), v) <=> GetVarint(From(w, i)) = <<v, a-i>>
<1> DEFINE s == SubSeq(w, i+1, a)
           t == w[i+1] \div LowRange
           n == 2^t
<1>0. i \in 0 .. Len(w)-1 /\ Len(w) \in Nat /\ a \in i..Len(w) /\ 1 \in 1..a-i
  OBVIOUS
<1>1. s \in Seq(Byte) /\ Len(s) = a-i /\ s[1] = w[i+1]
  BY <1>0, PartFacts
<1> HIDE DEF t, n
<1>2. /\ t \in 0..3 /\ n \in {1, 2, 4, 8}
      /\ i + n > Len(w) => GetVarint(From(w, i)) = << >>
      /\ i + n <= Len(w) =>
            \E x \in Nat : GetVarint(From(w, i)) = <<x, n>> /\ IsOnly(SubSeq(w, i+1, i+n), t, x)
  BY <1>0, FieldAt DEF t, n
<1>3. n \in Nat
  BY <1>2
<1>4. ASSUME IsVarint(s, v) PROVE GetVarint(From(w, i)) = <<v, a-i>>
  <2>1. PICK q \in 0..3 : Len(s) = 2^q /\ s[1] \div LowRange = q /\ s = VarintIn(v, q)
    BY <1>4, Zenon DEF IsVarint
  <2>2. q = t
    BY <1>1, <2>1 DEF t
  <2>3. n = a - i
    BY <1>1, <2>1, <2>2 DEF n
  <2>4. i + n = a /\ i + n <= Len(w)
    BY <1>0, <2>3
  <2>5. VarintIn(v, t) = SubSeq(w, i+1, i+n)
    BY <2>1, <2>2, <2>4
  <2>6. QED
    BY <1>2, <2>3, <2>4, <2>5, Zenon DEF IsOnly
<1>5. ASSUME GetVarint(From(w, i)) = <<v, a-i>> PROVE IsVarint(s, v)
  <2>1. i + n <= Len(w)
    <3>1. <<v, a-i>> # << >>
      OBVIOUS
    <3>2. QED
      BY <1>0, <1>2, <1>3, <1>5, <3>1
  <2>2. PICK x \in Nat : /\ GetVarint(From(w, i)) = <<x, n>>
                         /\ VarintIn(x, t) = SubSeq(w, i+1, i+n)
    BY <1>2, <2>1 DEF IsOnly
  <2>3. x = v /\ n = a-i
    BY <1>5, <2>2
  <2>4. i + n = a
    BY <1>0, <2>3
  <2>5. Len(s) = 2^t /\ s[1] \div LowRange = t /\ s = VarintIn(v, t)
    <3>1. Len(s) = 2^t
      BY <1>1, <2>3 DEF n
    <3>2. s[1] \div LowRange = t
      BY <1>1 DEF t
    <3>3. s = VarintIn(v, t)
      BY <2>2, <2>3, <2>4
    <3>4. QED
      BY <3>1, <3>2, <3>3
  <2> HIDE DEF s
  <2>6. QED
    BY <1>2, <2>5, Zenon DEF IsVarint
<1>6. QED
  BY <1>4, <1>5

(* A field of the grammar is what parse_tcp_response skips ... *)
LEMMA FieldIsRead ==
    ASSUME NEW w \in Seq(Byte), NEW i \in 0..Len(w), NEW j \in 0..Len(w), NEW max \in Nat,
           NEW f, f = GetVarint(From(w, i))
    PROVE  IsField(w, i, j, max) <=> f # << >> /\ f[1] <= max /\ j = i + f[2] + f[1]
<1>1. ASSUME IsField(w, i, j, max)
      PROVE  f # << >> /\ f[1] <= max /\ j = i + f[2] + f[1]
  <2>1. PICK a \in i+1 .. j : IsVarint(SubSeq(w, i+1, a), j-a) /\ j-a <= max
    BY <1>1 DEF IsField
  <2>2. a \in i+1 .. Len(w) /\ j-a \in Nat
    OBVIOUS
  <2>3. f = <<j-a, a-i>>
    BY <2>1, <2>2, VarintIsRead
  <2>4. f # << >> /\ f[1] = j-a /\ f[2] = a-i
    BY <2>3
  <2>5. i + (a-i) + (j-a) = j
    OBVIOUS
  <2>6. QED
    BY <2>1, <2>4, <2>5
<1>2. ASSUME f # << >>, f[1] <= max, j = i + f[2] + f[1]
      PROVE  IsField(w, i, j, max)
  <2>1. f[1] \in Nat /\ f[2] \in {1, 2, 4, 8} /\ i + f[2] <= Len(w) /\ f = <<f[1], f[2]>>
    BY <1>2, FieldType
  <2> DEFINE a == i + f[2]
  <2>2. a \in i+1 .. j /\ a \in i+1 .. Len(w) /\ j-a = f[1] /\ a-i = f[2]
    BY <1>2, <2>1, SMTT(30)
  <2>3. IsVarint(SubSeq(w, i+1, a), j-a)
    <3> HIDE DEF a
    <3>1. GetVarint(From(w, i)) = <<j-a, a-i>> /\ j-a \in Nat
      BY <2>1, <2>2
    <3>2. QED
      BY <2>2, <3>1, VarintIsRead
  <2>4. QED
    BY <1>2, <2>2, <2>3 DEF IsField
<1>3. QED
  BY <1>1, <1>2

(* ... and a field exceeds max where the length it reads does. *)
LEMMA ExcessIsRead ==
    ASSUME NEW w \in Seq(Byte), NEW i \in 0..Len(w), NEW max \in Nat,
           NEW f, f = GetVarint(From(w, i))
    PROVE  ExceedsAt(w, i, max) <=> f # << >> /\ f[1] > max
<1>1. ASSUME NEW a \in i+1 .. Len(w)
      PROVE  SubSeq(w, i+1, a)[1] = w[i+1] /\ Len(SubSeq(w, i+1, a)) = a-i
  <2>1. a \in i..Len(w) /\ 1 \in 1..a-i /\ Len(w) \in Nat
    OBVIOUS
  <2>2. QED
    BY <2>1, PartFacts
<1>2. ASSUME ExceedsAt(w, i, max) PROVE f # << >> /\ f[1] > max
  <2>1. PICK a \in i+1 .. Len(w) :
           /\ Len(SubSeq(w, i+1, a)) = 2 ^ (SubSeq(w, i+1, a)[1] \div LowRange)
           /\ \A v \in 0..max : ~IsVarint(SubSeq(w, i+1, a), v)
    BY <1>2 DEF ExceedsAt
  <2> DEFINE t == w[i+1] \div LowRange
             n == 2^t
  <2>2. n = a-i
    BY <1>1, <2>1
  <2>3. i \in 0..Len(w)-1 /\ Len(w) \in Nat
    OBVIOUS
  <2> HIDE DEF t, n
  <2>4. i + n = a /\ i + n <= Len(w)
    BY <2>2
  <2>5. PICK v \in Nat : GetVarint(From(w, i)) = <<v, n>>
    BY <2>3, <2>4, FieldAt DEF t, n
  <2>6. f # << >> /\ f[1] = v
    BY <2>5
  <2>7. IsVarint(SubSeq(w, i+1, a), v)
    BY <2>2, <2>5, VarintIsRead
  <2>8. v \notin 0..max
    BY <2>1, <2>7
  <2>9. QED
    BY <2>6, <2>8
<1>3. ASSUME f # << >>, f[1] > max PROVE ExceedsAt(w, i, max)
  <2>1. /\ f[2] = 2 ^ (w[i+1] \div LowRange)
        /\ f[1] \in Nat /\ f[2] \in {1, 2, 4, 8} /\ i + f[2] <= Len(w) /\ f = <<f[1], f[2]>>
    BY <1>3, FieldType
  <2> DEFINE a == i + f[2]
  <2>2. a \in i+1 .. Len(w) /\ a-i = f[2]
    BY <2>1
  <2> HIDE DEF a
  <2>3. Len(SubSeq(w, i+1, a)) = 2 ^ (SubSeq(w, i+1, a)[1] \div LowRange)
    BY <1>1, <2>1, <2>2, Zenon
  <2>4. ASSUME NEW v \in 0..max, IsVarint(SubSeq(w, i+1, a), v) PROVE FALSE
    <3>1. v \in Nat /\ v <= max
      OBVIOUS
    <3>2. f = <<v, a-i>>
      BY <2>2, <2>4, <3>1, VarintIsRead
    <3>3. f[1] = v
      BY <3>2
    <3>4. QED
      BY <1>3, <3>1, <3>3
  <2>5. QED
    BY <2>2, <2>3, <2>4 DEF ExceedsAt
<1>4. QED
  BY <1>2, <1>3

(* What get_varint finds in a prefix, it finds in the whole. *)
LEMMA PrefixReads ==
    ASSUME NEW w \in Seq(Byte), NEW m \in 0..Len(w), NEW i \in 0..m,
           NEW g, g = GetVarint(From(SubSeq(w, 1, m), i)), g # << >>
    PROVE  g = GetVarint(From(w, i))
<1> DEFINE p == SubSeq(w, 1, m)
<1>1. p \in Seq(Byte) /\ Len(p) = m
  BY PrefixFacts
<1>2. /\ g[1] \in Nat /\ g[2] \in {1, 2, 4, 8} /\ i + g[2] <= m /\ g = <<g[1], g[2]>>
  <2> HIDE DEF p
  <2>1. g = GetVarint(From(p, i)) /\ i \in 0..Len(p)
    BY <1>1 DEF p
  <2>2. QED
    BY <1>1, <2>1, FieldType
<1> DEFINE a == i + g[2]
<1>3. a \in i+1 .. m /\ a \in i+1 .. Len(w) /\ a-i = g[2] /\ a \in i..m /\ i \in 0..Len(w)
  BY <1>2
<1>4. SubSeq(p, i+1, a) = SubSeq(w, i+1, a)
  BY <1>3, PartOfPrefix
<1>5. IsVarint(SubSeq(p, i+1, a), g[1])
  <2> HIDE DEF p, a
  <2>1. GetVarint(From(p, i)) = <<g[1], a-i>>
    BY <1>2, <1>3 DEF p
  <2>2. i \in 0..Len(p) /\ a \in i+1 .. Len(p)
    BY <1>1, <1>3
  <2>3. QED
    BY <1>1, <1>2, <2>1, <2>2, VarintIsRead
<1> HIDE DEF a, p
<1>6. GetVarint(From(w, i)) = <<g[1], a-i>>
  BY <1>2, <1>3, <1>4, <1>5, VarintIsRead, Zenon
<1>7. QED
  BY <1>2, <1>3, <1>6

(* The result of skipping one field of a prefix, in terms of the whole. *)
LEMMA SkipSays ==
    ASSUME NEW w \in Seq(Byte), NEW m \in 0..Len(w), NEW i \in 0..m, NEW max \in Nat,
           NEW r, r = SkipField(SubSeq(w, 1, m), i, max)
    PROVE  /\ r.kind \in {"At", "Invalid", "NeedMore"}
           /\ r.kind = "At" => /\ r.pos \in i+1 .. m
                               /\ IsField(w, i, r.pos, max)
                               /\ \A j \in 0..Len(w) : IsField(w, i, j, max) => j = r.pos
                               /\ ~ExceedsAt(w, i, max)
           /\ r.kind = "Invalid" => r = Invalid /\ ExceedsAt(w, i, max)
           /\ r.kind = "NeedMore" => r = NeedMore
           /\ r.kind = "NeedMore" /\ m = Len(w) =>
                 /\ \A j \in 0..Len(w) : ~IsField(w, i, j, max)
                 /\ ~ExceedsAt(w, i, max)
<1> DEFINE p == SubSeq(w, 1, m)
           g == GetVarint(From(p, i))
           f == GetVarint(From(w, i))
<1>1. p \in Seq(Byte) /\ Len(p) = m
  BY PrefixFacts
<1>2. i \in 0..Len(w) /\ Len(w) \in Nat
  OBVIOUS
<1>3. g # << >> => /\ g = f /\ g[1] \in Nat /\ g[2] \in {1, 2, 4, 8} /\ i + g[2] <= m
  <2>1. g # << >> => g = f
    BY PrefixReads
  <2>2. ASSUME g # << >> PROVE g[1] \in Nat /\ g[2] \in {1, 2, 4, 8} /\ i + g[2] <= m
    <3> HIDE DEF p
    <3>1. i \in 0..Len(p)
      BY <1>1
    <3>2. QED
      BY <1>1, <2>2, <3>1, FieldType
  <2>3. QED
    BY <2>1, <2>2
<1>4. \A j \in 0..Len(w) : IsField(w, i, j, max) <=> f # << >> /\ f[1] <= max /\ j = i + f[2] + f[1]
  BY <1>2, FieldIsRead
<1>5. ExceedsAt(w, i, max) <=> f # << >> /\ f[1] > max
  BY <1>2, ExcessIsRead
<1>6. r = IF g = << >> THEN NeedMore
          ELSE IF g[1] > max THEN Invalid
          ELSE IF m < i + g[2] + g[1] THEN NeedMore
          ELSE [kind |-> "At", pos |-> i + g[2] + g[1]]
  BY <1>1 DEF SkipField
<1>7. m = Len(w) => p = w
  OBVIOUS
<1>8. m = Len(w) => g = f
  BY <1>7, Zenon
<1> HIDE DEF p, g, f
<1>9. CASE g = << >>
  <2>1. r = NeedMore
    BY <1>6, <1>9
  <2>2. r.kind = "NeedMore"
    BY <2>1 DEF NeedMore
  <2>3. QED
    BY <1>4, <1>5, <1>8, <1>9, <2>1, <2>2
<1>10. CASE g # << >> /\ g[1] > max
  <2>1. r = Invalid
    BY <1>6, <1>10
  <2>2. r.kind = "Invalid"
    BY <2>1 DEF Invalid
  <2>3. QED
    BY <1>3, <1>5, <1>10, <2>1, <2>2
<1>11. CASE g # << >> /\ ~(g[1] > max) /\ m < i + g[2] + g[1]
  <2>1. r = NeedMore
    BY <1>6, <1>11
  <2>2. r.kind = "NeedMore"
    BY <2>1 DEF NeedMore
  <2>3. m = Len(w) => \A j \in 0..Len(w) : j # i + f[2] + f[1]
    BY <1>2, <1>3, <1>8, <1>11
  <2>4. m = Len(w) => \A j \in 0..Len(w) : ~IsField(w, i, j, max)
    BY <1>4, <2>3
  <2>5. ~ExceedsAt(w, i, max)
    BY <1>3, <1>5, <1>11
  <2>6. QED
    BY <2>1, <2>2, <2>4, <2>5
<1>12. CASE g # << >> /\ ~(g[1] > max) /\ ~(m < i + g[2] + g[1])
  <2>1. r = [kind |-> "At", pos |-> i + g[2] + g[1]]
    BY <1>6, <1>12
  <2>2. r.kind = "At" /\ r.pos = i + g[2] + g[1]
    BY <2>1
  <2>3. r.pos \in i+1 .. m /\ r.pos \in 0..Len(w)
    <3>1. g[1] \in Nat /\ g[2] \in Nat /\ g[2] >= 1
      BY <1>3, <1>12
    <3>2. i + g[2] + g[1] <= m
      BY <1>12, <3>1, SMTT(30)
    <3>3. QED
      BY <1>2, <2>2, <3>1, <3>2, SMTT(30)
  <2>4. f # << >> /\ f[1] <= max /\ r.pos = i + f[2] + f[1]
    BY <1>3, <1>12, <2>2
  <2>5. ~ExceedsAt(w, i, max)
    BY <1>3, <1>5, <1>12
  <2>6. IsField(w, i, r.pos, max)
    BY <1>4, <2>3, <2>4
  <2>7. \A j \in 0..Len(w) : IsField(w, i, j, max) => j = r.pos
    BY <1>4, <2>4, Zenon
  <2>8. QED
    BY <2>2, <2>3, <2>5, <2>6, <2>7
<1>13. QED
  BY <1>9, <1>10, <1>11, <1>12

(* What parse_tcp_response says of a prefix is what the grammar says of    *)

(* the whole stream; if it asks for more and there is no more, there is no *)
(* header and no field beyond its guard.                                   *)
LEMMA ParseSays ==
    ASSUME NEW w \in Seq(Byte), NEW m \in 0..Len(w),
           NEW r, r = ParseTcpResponse(SubSeq(w, 1, m))
    PROVE  /\ r.kind = "Done" => /\ r.consumed \in 2..m /\ IsHeader(w, r.consumed)
                                 /\ r.ok <=> w[1] = 0
           /\ r.kind = "Invalid" => Exceeds(w)
           /\ r.kind = "NeedMore" /\ m = Len(w) =>
                 ~Exceeds(w) /\ \A n \in 0..Len(w) : ~IsHeader(w, n)
<1> DEFINE p == SubSeq(w, 1, m)
           msg == SkipField(p, 1, MaxMessageLength)
           pad == SkipField(p, msg.pos, MaxPaddingLength)
<1>1. p \in Seq(Byte) /\ Len(p) = m /\ (m >= 1 => p[1] = w[1])
  BY PrefixFacts
<1>2. Len(w) \in Nat /\ MaxMessageLength \in Nat /\ MaxPaddingLength \in Nat
  BY StreamAssumption
<1>3. p = << >> <=> m = 0
  BY <1>1
<1>4. r = IF p = << >> THEN NeedMore
          ELSE IF msg.kind # "At" THEN msg
          ELSE IF pad.kind # "At" THEN pad ELSE Done(p[1] = 0, pad.pos)
  BY DEF ParseTcpResponse
<1>5. ASSUME m >= 1
      PROVE  /\ msg.kind \in {"At", "Invalid", "NeedMore"}
             /\ msg.kind = "At" => /\ msg.pos \in 2 .. m
                                   /\ IsField(w, 1, msg.pos, MaxMessageLength)
                                   /\ \A j \in 0..Len(w) : IsField(w, 1, j, MaxMessageLength) => j = msg.pos
                                   /\ ~ExceedsAt(w, 1, MaxMessageLength)
             /\ msg.kind = "Invalid" => msg = Invalid /\ ExceedsAt(w, 1, MaxMessageLength)
             /\ msg.kind = "NeedMore" => msg = NeedMore
             /\ msg.kind = "NeedMore" /\ m = Len(w) =>
                   /\ \A j \in 0..Len(w) : ~IsField(w, 1, j, MaxMessageLength)
                   /\ ~ExceedsAt(w, 1, MaxMessageLength)
  <2>1. 1 \in 0..m /\ 1+1 = 2
    BY <1>5
  <2>2. QED
    BY <1>2, <2>1, SkipSays
<1>6. ASSUME m >= 1, msg.kind = "At"
      PROVE  /\ pad.kind \in {"At", "Invalid", "NeedMore"}
             /\ pad.kind = "At" => /\ pad.pos \in msg.pos+1 .. m
                                   /\ IsField(w, msg.pos, pad.pos, MaxPaddingLength)
             /\ pad.kind = "Invalid" => pad = Invalid /\ ExceedsAt(w, msg.pos, MaxPaddingLength)
             /\ pad.kind = "NeedMore" => pad = NeedMore
             /\ pad.kind = "NeedMore" /\ m = Len(w) =>
                   /\ \A j \in 0..Len(w) : ~IsField(w, msg.pos, j, MaxPaddingLength)
                   /\ ~ExceedsAt(w, msg.pos, MaxPaddingLength)
  <2> HIDE DEF msg
  <2>1. msg.pos \in 0..m
    BY <1>5, <1>6
  <2>2. QED
    BY <1>2, <2>1, SkipSays, SMTT(30)
<1>7. msg.pos \in 2..m => msg.pos \in 2..Len(w)
  OBVIOUS
<1> HIDE DEF p, msg, pad
<1>8. CASE m = 0
  <2>1. r = NeedMore /\ r.kind = "NeedMore"
    BY <1>3, <1>4, <1>8 DEF NeedMore
  <2>2. ASSUME m = Len(w) PROVE ~Exceeds(w) /\ \A n \in 0..Len(w) : ~IsHeader(w, n)
    <3>1. Len(w) = 0
      BY <1>8, <2>2
    <3>2. ~Exceeds(w)
      BY <3>1 DEF Exceeds, ExceedsAt
    <3>3. \A n \in 0..Len(w) : ~IsHeader(w, n)
      BY <3>1 DEF IsHeader
    <3>4. QED
      BY <3>2, <3>3
  <2>3. QED
    BY <2>1, <2>2
<1>9. CASE m >= 1 /\ msg.kind = "NeedMore"
  <2>1. r = NeedMore /\ r.kind = "NeedMore"
    BY <1>3, <1>4, <1>5, <1>9 DEF NeedMore
  <2>2. ASSUME m = Len(w) PROVE ~Exceeds(w) /\ \A n \in 0..Len(w) : ~IsHeader(w, n)
    <3>1. ~ExceedsAt(w, 1, MaxMessageLength) /\ \A j \in 0..Len(w) : ~IsField(w, 1, j, MaxMessageLength)
      BY <1>5, <1>9, <2>2
    <3>2. ~Exceeds(w)
      BY <3>1 DEF Exceeds
    <3>3. \A n \in 0..Len(w) : \A b \in 2..n : b \in 0..Len(w)
      OBVIOUS
    <3>4. \A n \in 0..Len(w) : ~IsHeader(w, n)
      BY <3>1, <3>3 DEF IsHeader
    <3>5. QED
      BY <3>2, <3>4
  <2>3. QED
    BY <2>1, <2>2
<1>10. CASE m >= 1 /\ msg.kind = "Invalid"
  <2>1. r = Invalid /\ r.kind = "Invalid"
    BY <1>3, <1>4, <1>5, <1>10 DEF Invalid
  <2>2. Exceeds(w)
    BY <1>5, <1>10, Zenon DEF Exceeds
  <2>3. QED
    BY <2>1, <2>2
<1>11. CASE m >= 1 /\ msg.kind = "At" /\ pad.kind = "NeedMore"
  <2>1. r = NeedMore /\ r.kind = "NeedMore"
    BY <1>3, <1>4, <1>6, <1>11 DEF NeedMore
  <2>2. ASSUME m = Len(w) PROVE ~Exceeds(w) /\ \A n \in 0..Len(w) : ~IsHeader(w, n)
    <3>1. /\ ~ExceedsAt(w, 1, MaxMessageLength)
          /\ \A j \in 0..Len(w) : IsField(w, 1, j, MaxMessageLength) => j = msg.pos
      BY <1>5, <1>11
    <3>2. /\ \A j \in 0..Len(w) : ~IsField(w, msg.pos, j, MaxPaddingLength)
          /\ ~ExceedsAt(w, msg.pos, MaxPaddingLength)
      BY <1>6, <1>11, <2>2
    <3>3. ~Exceeds(w)
      BY <3>1, <3>2 DEF Exceeds
    <3>4. \A n \in 0..Len(w) : \A b \in 2..n : b \in 0..Len(w)
      OBVIOUS
    <3>5. \A n \in 0..Len(w) : ~IsHeader(w, n)
      BY <3>1, <3>2, <3>4, Zenon DEF IsHeader
    <3>6. QED
      BY <3>3, <3>5
  <2>3. QED
    BY <2>1, <2>2
<1>12. CASE m >= 1 /\ msg.kind = "At" /\ pad.kind = "Invalid"
  <2>1. r = Invalid /\ r.kind = "Invalid"
    BY <1>3, <1>4, <1>6, <1>12 DEF Invalid
  <2>2. Exceeds(w)
    BY <1>5, <1>6, <1>7, <1>12 DEF Exceeds
  <2>3. QED
    BY <2>1, <2>2
<1>13. CASE m >= 1 /\ msg.kind = "At" /\ pad.kind = "At"
  <2>1. r = Done(p[1] = 0, pad.pos)
    BY <1>3, <1>4, <1>13
  <2>2. r.kind = "Done" /\ r.ok = (p[1] = 0) /\ r.consumed = pad.pos
    BY <2>1 DEF Done
  <2>3. msg.pos \in 2..m /\ pad.pos \in msg.pos+1 .. m
    BY <1>5, <1>6, <1>13
  <2>4. pad.pos \in 2..m /\ msg.pos \in 2..pad.pos
    BY <2>3
  <2>5. IsHeader(w, pad.pos)
    BY <1>5, <1>6, <1>13, <2>4 DEF IsHeader
  <2>6. QED
    BY <1>1, <1>13, <2>2, <2>4, <2>5, Zenon
<1>14. m = 0 \/ m >= 1
  OBVIOUS
<1>15. QED
  BY <1>5, <1>6, <1>8, <1>9, <1>10, <1>11, <1>12, <1>13, <1>14, Zenon

(* What follows i is what is between i and j and what follows j. *)
LEMMA FromSplits ==
    ASSUME NEW S, NEW w \in Seq(S), NEW i \in 0..Len(w), NEW j \in i..Len(w)
    PROVE  From(w, i) = SubSeq(w, i+1, j) \o From(w, j)
<1>1. Len(w) \in j..Len(w)
  OBVIOUS
<1>2. SubSeq(w, i+1, j) \o SubSeq(w, j+1, Len(w)) = SubSeq(w, i+1, Len(w))
  BY <1>1, PartsJoin, Zenon
<1>3. QED
  BY <1>2, Zenon DEF From

-----------------------------------------------------------------------------

(* What holds between the positions and the buffers in every state. *)
Positions ==
    /\ wire \in Streams
    /\ arrived \in 0 .. Len(wire) /\ taken \in 0 .. arrived
    /\ room \in Nat
    /\ got \in Seq(Byte) /\ leftover \in Seq(Byte) /\ leftover_pos \in 0 .. Len(leftover)
    /\ response_done \in BOOLEAN
    /\ pc = "establish" => ~response_done
    /\ pc = "read" => response_done
    /\ ~response_done => leftover = << >>

(* The inductive invariant. *)
IInv == Positions /\ BytesConserved /\ VerdictIsRight

(* A stream that has just been opened. *)
LEMMA InitIInv == Init => IInv
<1> SUFFICES ASSUME Init PROVE IInv
  OBVIOUS
<1>1. wire \in Seq(Byte)
  BY StreamAssumption DEF Init
<1>2. Positions
  <2>1. Len(wire) \in Nat
    BY <1>1
  <2>2. wire \in Streams /\ arrived \in 0..Len(wire) /\ taken \in 0..arrived /\ room \in Nat
    BY <2>1 DEF Init
  <2>3. got \in Seq(Byte) /\ leftover \in Seq(Byte) /\ leftover_pos \in 0..Len(leftover)
    BY DEF Init
  <2>4. /\ response_done \in BOOLEAN
        /\ pc = "establish" => ~response_done
        /\ pc = "read" => response_done
        /\ ~response_done => leftover = << >>
    BY Zenon DEF Init
  <2>5. QED
    BY <2>2, <2>3, <2>4 DEF Positions
<1>3. SubSeq(wire, 1, 0) = << >>
  BY <1>1
<1>4. BytesConserved
  BY <1>3 DEF Init, BytesConserved
<1>5. VerdictIsRight
  BY DEF Init, VerdictIsRight
<1>6. QED
  BY <1>2, <1>4, <1>5 DEF IInv

(* The grammar says the same as long as the stream is the same. *)
LEMMA WireFixed ==
    ASSUME wire' = wire
    PROVE  /\ \A n : Accepts(wire, n)' <=> Accepts(wire, n)
           /\ HasHeader' <=> HasHeader
           /\ Exceeds(wire)' <=> Exceeds(wire)
           /\ Lengths' = Lengths
<1>1. \A n : Accepts(wire, n)' <=> Accepts(wire, n)
  BY DEF Accepts, IsHeader, IsField, IsVarint, VarintIn, Shift, Radix
<1>2. HasHeader' <=> HasHeader
  BY DEF HasHeader, Lengths, Accepts, IsHeader, IsField, IsVarint, VarintIn, Shift, Radix
<1>3. Exceeds(wire)' <=> Exceeds(wire)
  BY DEF Exceeds, ExceedsAt, IsField, IsVarint, VarintIn, Shift, Radix
<1>4. Lengths' = Lengths
  BY DEF Lengths
<1>5. QED
  BY <1>1, <1>2, <1>3, <1>4

(* BytesConserved holds as long as nothing it is about changes ... *)
LEMMA BytesFixed ==
    ASSUME BytesConserved,
           UNCHANGED <<wire, taken, response_done, scratch, leftover, leftover_pos, got>>
    PROVE  BytesConserved'
<1>1. wire' = wire
  OBVIOUS
<1>2. /\ \A n : Accepts(wire, n)' <=> Accepts(wire, n)
      /\ Lengths' = Lengths
  BY <1>1, WireFixed
<1>3. QED
  BY <1>2, Zenon DEF BytesConserved, From

(* ... and so does VerdictIsRight. *)
LEMMA VerdictFixed ==
    ASSUME VerdictIsRight, UNCHANGED <<wire, ending, last, got>>
    PROVE  VerdictIsRight'
<1>1. wire' = wire
  OBVIOUS
<1>2. /\ \A n : Accepts(wire, n)' <=> Accepts(wire, n)
      /\ HasHeader' <=> HasHeader
      /\ Exceeds(wire)' <=> Exceeds(wire)
      /\ Lengths' = Lengths
  BY <1>1, WireFixed
<1>3. AllRead' <=> AllRead
  BY <1>2 DEF AllRead, From
<1>4. QED
  BY <1>2, <1>3 DEF VerdictIsRight

(* A poll that returns something else than a verdict. *)
LEMMA NoVerdict ==
    ASSUME last' \notin {"refused", "invalid", "unexpected_eof", "eof"}
    PROVE  VerdictIsRight'
  BY DEF VerdictIsRight

(* Steps that leave the bytes and the verdict alone: arrivals, wake-ups    *)

(* and the beginning of a poll.                                            *)
LEMMA OutsideStep ==
    ASSUME IInv, Arrive \/ End \/ Woken \/ Begin \/ UNCHANGED vars
    PROVE  IInv'
<1>0. wire \in Seq(Byte) /\ Len(wire) \in Nat
  BY StreamAssumption DEF IInv, Positions
<1>1. UNCHANGED <<wire, ending, taken, response_done, scratch, leftover, leftover_pos, got, last>>
  BY DEF Arrive, End, Woken, Begin, PollBegins, vars, network, header
<1>2. BytesConserved' /\ VerdictIsRight'
  BY <1>1, BytesFixed, VerdictFixed DEF IInv
<1>3. arrived' \in 0 .. Len(wire) /\ taken \in 0 .. arrived'
  <2>1. CASE Arrive
    BY <1>0, <2>1, SMTT(30) DEF Arrive, IInv, Positions
  <2>2. CASE End \/ Woken \/ Begin \/ UNCHANGED vars
    BY <2>2 DEF End, Woken, Begin, PollBegins, vars, network, IInv, Positions
  <2>3. QED
    BY <2>1, <2>2
<1>4. /\ room' \in Nat
      /\ pc' = "establish" => ~response_done
      /\ pc' = "read" => response_done
  <2>1. CASE Begin
    BY <2>1, StreamAssumption, Zenon DEF Begin, PollBegins, IInv, Positions
  <2>2. CASE Arrive \/ End \/ Woken \/ UNCHANGED vars
    BY <2>2 DEF Arrive, End, Woken, vars, network, IInv, Positions
  <2>3. QED
    BY <2>1, <2>2
<1>5. Positions'
  BY <1>1, <1>3, <1>4 DEF IInv, Positions
<1>6. QED
  BY <1>2, <1>5 DEF IInv

(* While poll_establish runs, scratch is all that was read, and the parser *)

(* says of it what the grammar says of the stream.                         *)
LEMMA Establishing ==
    ASSUME IInv, pc = "establish"
    PROVE  /\ wire \in Seq(Byte) /\ Len(wire) \in Nat /\ taken \in 0..Len(wire)
           /\ ~response_done /\ got = << >> /\ leftover = << >> /\ leftover_pos = 0
           /\ scratch = SubSeq(wire, 1, taken)
           /\ Parsed.kind = "Done" => /\ Parsed.consumed \in 2..taken
                                      /\ IsHeader(wire, Parsed.consumed)
                                      /\ Parsed.ok <=> wire[1] = 0
           /\ Parsed.kind = "Invalid" => Exceeds(wire)
           /\ Parsed.kind = "NeedMore" /\ taken = Len(wire) => ~Exceeds(wire) /\ ~HasHeader
<1>1. wire \in Seq(Byte) /\ Len(wire) \in Nat
  BY StreamAssumption DEF IInv, Positions
<1>2. taken \in 0..Len(wire) /\ ~response_done /\ leftover = << >>
  BY <1>1 DEF IInv, Positions
<1>3. leftover_pos = 0
  <2>1. Len(leftover) = 0
    BY <1>2
  <2>2. QED
    BY <2>1 DEF IInv, Positions
<1>4. got = << >> /\ scratch = SubSeq(wire, 1, taken)
  BY <1>2 DEF IInv, BytesConserved
<1>5. Parsed = ParseTcpResponse(SubSeq(wire, 1, taken))
  BY <1>4 DEF Parsed
<1>6. /\ Parsed.kind = "Done" => /\ Parsed.consumed \in 2..taken
                                 /\ IsHeader(wire, Parsed.consumed)
                                 /\ Parsed.ok <=> wire[1] = 0
      /\ Parsed.kind = "Invalid" => Exceeds(wire)
      /\ Parsed.kind = "NeedMore" /\ taken = Len(wire) =>
            ~Exceeds(wire) /\ \A n \in 0..Len(wire) : ~IsHeader(wire, n)
  BY <1>1, <1>2, <1>5, ParseSays
<1>7. QED
  BY <1>1, <1>2, <1>3, <1>4, <1>6 DEF HasHeader, Lengths

(* poll_establish, the header complete: the rest of scratch is leftover. *)
LEMMA EstablishDoneStep ==
    ASSUME IInv, EstablishDone
    PROVE  IInv'
<1>1. pc = "establish" /\ Parsed.kind = "Done" /\ Parsed.ok
  BY DEF EstablishDone
<1>0. PICK c : c = Parsed.consumed
  OBVIOUS
<1>2. /\ wire \in Seq(Byte) /\ Len(wire) \in Nat /\ taken \in 0..Len(wire)
      /\ got = << >> /\ leftover_pos = 0 /\ scratch = SubSeq(wire, 1, taken)
      /\ c \in 2..taken /\ IsHeader(wire, c) /\ wire[1] = 0
  BY <1>0, <1>1, Establishing
<1>3. /\ UNCHANGED <<wire, ending, arrived, ended, taken, leftover_pos, room, got>>
      /\ leftover' = From(scratch, c) /\ scratch' = << >> /\ response_done' = TRUE
      /\ pc' \in {"read", "idle"} /\ last' \in {last, "ok"}
  BY <1>0 DEF EstablishDone, network, Ready
<1>4. leftover' = SubSeq(wire, c+1, taken)
  <2>1. Len(scratch) = taken
    BY <1>2, PrefixFacts
  <2>2. c \in 0..taken /\ taken \in c..taken
    BY <1>2
  <2>3. SubSeq(SubSeq(wire, 1, taken), c+1, taken) = SubSeq(wire, c+1, taken)
    BY <1>2, <2>2, PartOfPrefix
  <2>4. QED
    BY <1>2, <1>3, <2>1, <2>3 DEF From
<1>5. leftover' \in Seq(Byte) /\ Len(leftover') \in Nat
  <2>1. c \in 0..Len(wire) /\ taken \in c..Len(wire)
    BY <1>2
  <2>2. QED
    BY <1>2, <1>4, <2>1, PartFacts
<1>6. Positions'
  BY <1>2, <1>3, <1>5 DEF IInv, Positions
<1>7. Accepts(wire, c)
  BY <1>2 DEF Accepts
<1>8. From(wire, c) = got' \o From(leftover', leftover_pos') \o From(wire, taken)
  <2>1. c \in 0..Len(wire) /\ taken \in c..Len(wire)
    BY <1>2
  <2>2. From(wire, c) = leftover' \o From(wire, taken)
    BY <1>2, <1>4, <2>1, FromSplits, Zenon
  <2>3. From(leftover', 0) = leftover'
    BY <1>5 DEF From
  <2>4. << >> \o leftover' = leftover'
    BY <1>5, JoinEmpty
  <2>5. QED
    BY <1>2, <1>3, <2>2, <2>3, <2>4
<1>9. BytesConserved'
  <2>1. c \in Lengths'
    BY <1>2, <1>3 DEF Lengths
  <2>2. Accepts(wire, c)'
    <3>1. wire' = wire
      BY <1>3
    <3>2. \A n : Accepts(wire, n)' <=> Accepts(wire, n)
      BY <3>1, WireFixed
    <3>3. QED
      BY <1>7, <3>2
  <2>3. From(wire', c) = got' \o From(leftover', leftover_pos') \o From(wire', taken')
    BY <1>3, <1>8
  <2>4. QED
    BY <1>3, <2>1, <2>2, <2>3, Zenon DEF BytesConserved, From
<1>10. VerdictIsRight'
  <2>1. CASE last' = "ok"
    BY <2>1, NoVerdict
  <2>2. CASE last' = last
    BY <1>3, <2>2, VerdictFixed DEF IInv
  <2>3. QED
    BY <1>3, <2>1, <2>2
<1>11. QED
  BY <1>6, <1>9, <1>10 DEF IInv

(* poll_establish, rejected or malformed. *)
LEMMA EstablishRejectedStep ==
    ASSUME IInv, EstablishRejected
    PROVE  IInv'
<1>1. pc = "establish"
  BY DEF EstablishRejected
<1>2. /\ wire \in Seq(Byte) /\ Len(wire) \in Nat /\ taken \in 0..Len(wire)
      /\ Parsed.kind = "Done" => /\ Parsed.consumed \in 2..taken
                                 /\ IsHeader(wire, Parsed.consumed)
                                 /\ Parsed.ok <=> wire[1] = 0
      /\ Parsed.kind = "Invalid" => Exceeds(wire)
  BY <1>1, Establishing
<1>3. /\ UNCHANGED <<wire, ending, arrived, taken, response_done, scratch, leftover, leftover_pos, room, got>>
      /\ pc' = "idle"
  BY DEF EstablishRejected, network, header, Ready
<1>4. Positions'
  BY <1>3 DEF IInv, Positions
<1>5. BytesConserved'
  BY <1>3, BytesFixed DEF IInv
<1>6. /\ HasHeader' <=> HasHeader
      /\ Exceeds(wire)' <=> Exceeds(wire)
  <2>1. wire' = wire
    BY <1>3
  <2>2. QED
    BY <2>1, WireFixed
<1>7. CASE Parsed.kind = "Done" /\ ~Parsed.ok /\ Ready("refused")
  <2>1. HasHeader /\ wire[1] # 0
    <3>1. Parsed.consumed \in Lengths
      BY <1>2, <1>7 DEF Lengths
    <3>2. QED
      BY <1>2, <1>7, <3>1 DEF HasHeader
  <2>2. last' = "refused"
    BY <1>7 DEF Ready
  <2>3. VerdictIsRight'
    BY <1>3, <1>6, <2>1, <2>2 DEF VerdictIsRight
  <2>4. QED
    BY <1>4, <1>5, <2>3 DEF IInv
<1>8. CASE Parsed.kind = "Invalid" /\ Ready("invalid")
  <2>1. last' = "invalid"
    BY <1>8 DEF Ready
  <2>2. VerdictIsRight'
    BY <1>2, <1>6, <1>8, <2>1 DEF VerdictIsRight
  <2>3. QED
    BY <1>4, <1>5, <2>2 DEF IInv
<1>9. QED
  BY <1>7, <1>8 DEF EstablishRejected

(* poll_establish reads another chunk. *)
LEMMA EstablishReadsStep ==
    ASSUME IInv, EstablishReads
    PROVE  IInv'
<1>1. pc = "establish"
  BY DEF EstablishReads
<1>2. /\ wire \in Seq(Byte) /\ Len(wire) \in Nat /\ taken \in 0..Len(wire)
      /\ ~response_done /\ got = << >> /\ scratch = SubSeq(wire, 1, taken)
  BY <1>1, Establishing
<1>3. UNCHANGED <<wire, ending, arrived, response_done, leftover, leftover_pos, pc, room, got, last>>
  BY DEF EstablishReads, network
<1>4. PICK k \in 1..ChunkSize : /\ k <= Available /\ taken' = taken + k
                                /\ scratch' = scratch \o SubSeq(wire, taken + 1, taken + k)
  BY Zenon DEF EstablishReads, Reads
<1>5. arrived \in 0..Len(wire) /\ taken \in 0..arrived
  BY DEF IInv, Positions
<1>6. k \in Nat /\ taken + k <= arrived
  BY <1>2, <1>4, <1>5, StreamAssumption DEF Available
<1>7. taken' \in 0..arrived /\ taken' \in taken..Len(wire)
  BY <1>2, <1>4, <1>5, <1>6
<1>8. Positions'
  BY <1>3, <1>7 DEF IInv, Positions
<1>9. scratch' = SubSeq(wire, 1, taken')
  <2>1. 1 \in 1..Len(wire)+1 /\ taken \in 1-1..Len(wire)
    BY <1>2
  <2>2. SubSeq(wire, 1, taken) \o SubSeq(wire, taken+1, taken') = SubSeq(wire, 1, taken')
    BY <1>2, <1>7, <2>1, PrefixGrows, Zenon
  <2>3. QED
    BY <1>2, <1>4, <2>2
<1>10. BytesConserved'
  BY <1>2, <1>3, <1>9 DEF BytesConserved
<1>11. VerdictIsRight'
  BY <1>3, VerdictFixed DEF IInv
<1>12. QED
  BY <1>8, <1>10, <1>11 DEF IInv

(* poll_establish at the end of the stream, at a reset, or Pending. *)
LEMMA EstablishEndsStep ==
    ASSUME IInv, EstablishEnds
    PROVE  IInv'
<1>1. pc = "establish" /\ Parsed.kind = "NeedMore"
  BY DEF EstablishEnds
<1>2. taken = Len(wire) => ~Exceeds(wire) /\ ~HasHeader
  BY <1>1, Establishing
<1>3. /\ UNCHANGED <<wire, ending, arrived, taken, response_done, scratch, leftover, leftover_pos, room, got>>
      /\ pc' \in {"idle", "parked"}
  BY DEF EstablishEnds, network, header, Ready
<1>4. Positions'
  BY <1>3 DEF IInv, Positions
<1>5. BytesConserved'
  BY <1>3, BytesFixed DEF IInv
<1>6. /\ HasHeader' <=> HasHeader
      /\ Exceeds(wire)' <=> Exceeds(wire)
  <2>1. wire' = wire
    BY <1>3
  <2>2. QED
    BY <2>1, WireFixed
<1>7. CASE AtFin /\ Ready("unexpected_eof")
  <2>1. last' = "unexpected_eof" /\ ending = "fin" /\ taken = Len(wire)
    BY <1>7 DEF Ready, AtFin
  <2>2. VerdictIsRight'
    BY <1>2, <1>3, <1>6, <2>1 DEF VerdictIsRight
  <2>3. QED
    BY <1>4, <1>5, <2>2 DEF IInv
<1>8. CASE AtReset /\ Ready("reset")
  <2>1. VerdictIsRight'
    BY <1>8, NoVerdict DEF Ready
  <2>2. QED
    BY <1>4, <1>5, <2>1 DEF IInv
<1>9. CASE NothingYet /\ pc' = "parked" /\ UNCHANGED <<holder, last>>
  <2>1. VerdictIsRight'
    BY <1>3, <1>9, VerdictFixed DEF IInv
  <2>2. QED
    BY <1>4, <1>5, <2>1 DEF IInv
<1>10. QED
  BY <1>7, <1>8, <1>9 DEF EstablishEnds

(* What is put into the application's buffer is taken off the bytes still  *)
(* to be given out, from the front.                                        *)
LEMMA GivesOut ==
    ASSUME NEW g \in Seq(Byte), NEW x \in Seq(Byte), NEW l \in Seq(Byte), NEW y
    PROVE  (g \o (x \o l)) \o y = ((g \o x) \o l) \o y
<1>1. Regroups(g, x, l)
  BY JoinAssoc, Zenon
<1>2. QED
  BY <1>1, Zenon DEF Regroups

(* The same when the leftover is exhausted. *)
LEMMA PassesOn ==
    ASSUME NEW g \in Seq(Byte), NEW x \in Seq(Byte), NEW y \in Seq(Byte)
    PROVE  /\ (g \o << >>) \o (x \o y) = ((g \o x) \o << >>) \o y
           /\ (g \o << >>) \o << >> = g
<1>1. g \o << >> = g
  BY JoinEmpty
<1>2. g \o x \in Seq(Byte)
  BY JoinType
<1>3. (g \o x) \o << >> = g \o x
  BY <1>2, JoinEmpty
<1>4. Regroups(g, x, y)
  BY JoinAssoc, Zenon
<1>5. QED
  BY <1>1, <1>3, <1>4, Zenon DEF Regroups

(* poll_read serves the leftover. *)
LEMMA ReadLeftoverStep ==
    ASSUME IInv, ReadLeftover
    PROVE  IInv'
<1>1. /\ wire \in Seq(Byte) /\ Len(wire) \in Nat /\ taken \in 0..Len(wire)
      /\ got \in Seq(Byte) /\ leftover \in Seq(Byte) /\ Len(leftover) \in Nat
      /\ leftover_pos \in 0..Len(leftover) /\ room \in Nat
  BY StreamAssumption DEF IInv, Positions
<1>2. pc = "read" /\ leftover_pos < Len(leftover) /\ response_done
  BY DEF ReadLeftover, IInv, Positions
<1>3. /\ UNCHANGED <<wire, ending, arrived, taken, response_done, scratch, leftover, room>>
      /\ pc' = "idle" /\ last' = "ok"
  BY DEF ReadLeftover, network, header, Put, Ready
<1> DEFINE rest == From(leftover, leftover_pos)
<1>4. PICK n : /\ n = IF Len(rest) < room THEN Len(rest) ELSE room
               /\ got' = got \o SubSeq(rest, 1, n) /\ leftover_pos' = leftover_pos + n
  BY Zenon DEF ReadLeftover, Put
<1>5. Len(rest) = Len(leftover) - leftover_pos
  BY <1>1, FromFacts
<1>6. n \in 0 .. Len(leftover) - leftover_pos /\ leftover_pos' \in leftover_pos .. Len(leftover)
  BY <1>1, <1>2, <1>4, <1>5
<1> DEFINE x == SubSeq(leftover, leftover_pos + 1, leftover_pos')
<1>7. SubSeq(rest, 1, n) = x
  BY <1>1, <1>4, <1>6, PartOfFrom, Zenon
<1>8. x \in Seq(Byte) /\ From(leftover, leftover_pos') \in Seq(Byte) /\ From(wire, taken) \in Seq(Byte)
  <2>1. leftover_pos' \in 0..Len(leftover)
    BY <1>1, <1>6
  <2>2. QED
    BY <1>1, <1>6, <2>1, PartFacts, FromFacts
<1>9. got' = got \o x /\ got' \in Seq(Byte)
  BY <1>1, <1>4, <1>7, <1>8, JoinType, Zenon
<1>10. Positions'
  <2>1. leftover_pos' \in 0..Len(leftover)
    BY <1>1, <1>6
  <2>2. QED
    BY <1>3, <1>9, <2>1 DEF IInv, Positions
<1>11. rest = x \o From(leftover, leftover_pos')
  BY <1>1, <1>6, FromSplits, Zenon
<1>12. got \o rest \o From(wire, taken) = got' \o From(leftover, leftover_pos') \o From(wire, taken)
  <2> DEFINE l == From(leftover, leftover_pos')
             y == From(wire, taken)
  <2> HIDE DEF x, rest, l, y
  <2>1. got \in Seq(Byte) /\ x \in Seq(Byte) /\ l \in Seq(Byte)
    BY <1>1, <1>8 DEF l
  <2>2. (got \o (x \o l)) \o y = ((got \o x) \o l) \o y
    BY <2>1, GivesOut
  <2>3. rest = x \o l /\ got' = got \o x
    BY <1>9, <1>11 DEF l
  <2>4. (got \o rest) \o y = (got' \o l) \o y
    BY <2>2, <2>3
  <2>5. QED
    BY <2>4 DEF l, y
<1>13. PICK c \in Lengths : Accepts(wire, c) /\ From(wire, c) = got \o rest \o From(wire, taken)
  BY <1>2 DEF IInv, BytesConserved
<1>14. BytesConserved'
  <2>1. wire' = wire
    BY <1>3
  <2>2. c \in Lengths' /\ Accepts(wire, c)'
    BY <1>13, <2>1, WireFixed
  <2>3. From(wire', c) = got' \o From(leftover', leftover_pos') \o From(wire', taken')
    BY <1>3, <1>12, <1>13
  <2>4. QED
    BY <1>2, <1>3, <2>2, <2>3, Zenon DEF BytesConserved, From
<1>15. VerdictIsRight'
  BY <1>3, NoVerdict
<1>16. QED
  BY <1>10, <1>14, <1>15 DEF IInv

(* poll_read passes through to quinn. *)
LEMMA PassThroughStep ==
    ASSUME IInv, PassThrough
    PROVE  IInv'
<1>1. /\ wire \in Seq(Byte) /\ Len(wire) \in Nat /\ taken \in 0..Len(wire)
      /\ arrived \in 0..Len(wire) /\ taken \in 0..arrived
      /\ got \in Seq(Byte) /\ leftover \in Seq(Byte) /\ Len(leftover) \in Nat
      /\ leftover_pos \in 0..Len(leftover) /\ room \in Nat
  BY StreamAssumption DEF IInv, Positions
<1>2. pc = "read" /\ leftover_pos >= Len(leftover) /\ response_done
  BY DEF PassThrough, IInv, Positions
<1>3. /\ UNCHANGED <<wire, ending, arrived, response_done, scratch, leftover, leftover_pos, room>>
      /\ pc' \in {"idle", "parked"}
  BY DEF PassThrough, network, header, Put, Ready
<1>4. From(leftover, leftover_pos) = << >>
  <2>1. leftover_pos = Len(leftover)
    BY <1>1, <1>2
  <2>2. QED
    BY <1>1, <2>1 DEF From
<1>5. PICK c \in Lengths : /\ Accepts(wire, c)
                           /\ From(wire, c) = got \o << >> \o From(wire, taken)
  BY <1>2, <1>4 DEF IInv, BytesConserved
<1>6. wire' = wire
  BY <1>3
<1>7. c \in Lengths' /\ Accepts(wire, c)'
  BY <1>5, <1>6, WireFixed
<1>8. CASE \E k \in 1..room : Reads(room, k) /\ Put(SubSeq(wire, taken + 1, taken + k))
  <2>1. PICK k \in 1..room : /\ k <= Available /\ taken' = taken + k /\ last' = "ok"
                             /\ got' = got \o SubSeq(wire, taken + 1, taken + k)
    BY <1>8, Zenon DEF Reads, Put, Ready
  <2>2. taken' \in taken..arrived /\ taken' \in taken..Len(wire) /\ taken' \in 0..Len(wire)
    BY <1>1, <2>1 DEF Available
  <2> DEFINE x == SubSeq(wire, taken + 1, taken')
  <2>3. x \in Seq(Byte) /\ From(wire, taken') \in Seq(Byte) /\ << >> \in Seq(Byte)
    BY <1>1, <2>2, PartFacts, FromFacts
  <2>4. got' = got \o x /\ got' \in Seq(Byte)
    BY <1>1, <2>1, <2>3, JoinType
  <2>5. Positions'
    <3>1. taken' \in 0..arrived
      BY <1>1, <2>2
    <3>2. QED
      BY <1>3, <2>4, <3>1 DEF IInv, Positions
  <2>6. From(wire, taken) = x \o From(wire, taken')
    BY <1>1, <2>2, FromSplits, Zenon
  <2>7. got \o << >> \o (x \o From(wire, taken')) = (got \o x) \o << >> \o From(wire, taken')
    <3> DEFINE y == From(wire, taken')
    <3> HIDE DEF x, y
    <3>1. got \in Seq(Byte) /\ x \in Seq(Byte) /\ y \in Seq(Byte)
      BY <1>1, <2>3 DEF y
    <3>2. (got \o << >>) \o (x \o y) = ((got \o x) \o << >>) \o y
      BY <3>1, PassesOn
    <3>3. QED
      BY <3>2, Zenon DEF y
  <2>8. From(wire', c) = got' \o From(leftover', leftover_pos') \o From(wire', taken')
    <3> HIDE DEF x
    <3>1. QED
      BY <1>3, <1>4, <1>5, <2>4, <2>6, <2>7, Zenon
  <2>9. BytesConserved'
    BY <1>2, <1>3, <1>7, <2>8, Zenon DEF BytesConserved, From
  <2>10. VerdictIsRight'
    BY <2>1, NoVerdict
  <2>11. QED
    BY <2>5, <2>9, <2>10 DEF IInv
<1>9. ASSUME UNCHANGED <<taken, got>>, VerdictIsRight' PROVE IInv'
  <2>1. Positions'
    BY <1>3, <1>9 DEF IInv, Positions
  <2>2. BytesConserved'
    BY <1>3, <1>9, BytesFixed DEF IInv
  <2>3. QED
    BY <1>9, <2>1, <2>2 DEF IInv
<1>10. CASE AtFin /\ Ready("eof") /\ UNCHANGED <<taken, got>>
  <2>1. last' = "eof" /\ ending = "fin" /\ taken = Len(wire)
    BY <1>10 DEF Ready, AtFin
  <2>2. From(wire, taken) = << >>
    BY <1>1, <2>1 DEF From
  <2>3. From(wire, c) = got
    BY <1>1, <1>5, <2>2, PassesOn
  <2>4. AllRead'
    BY <1>6, <1>7, <1>10, <2>3 DEF AllRead, From
  <2>5. VerdictIsRight'
    BY <1>3, <2>1, <2>4 DEF VerdictIsRight
  <2>6. QED
    BY <1>9, <1>10, <2>5
<1>11. CASE AtReset /\ Ready("reset") /\ UNCHANGED <<taken, got>>
  <2>1. VerdictIsRight'
    BY <1>11, NoVerdict DEF Ready
  <2>2. QED
    BY <1>9, <1>11, <2>1
<1>12. CASE NothingYet /\ pc' = "parked" /\ UNCHANGED <<holder, last, taken, got>>
  <2>1. VerdictIsRight'
    BY <1>3, <1>12, VerdictFixed DEF IInv
  <2>2. QED
    BY <1>9, <1>12, <2>1
<1>13. QED
  BY <1>8, <1>10, <1>11, <1>12 DEF PassThrough

(* IInv is inductive. *)
LEMMA NextIInv == IInv /\ [Next]_vars => IInv'
<1> SUFFICES ASSUME IInv, [Next]_vars PROVE IInv'
  OBVIOUS
<1>1. CASE Poll
  BY <1>1, EstablishDoneStep, EstablishRejectedStep, EstablishReadsStep, EstablishEndsStep,
     ReadLeftoverStep, PassThroughStep DEF Poll
<1>2. QED
  BY <1>1, OutsideStep DEF Next

(* However the bytes are cut up, DuplexStream::poll_read loses, repeats    *)
(* and reorders none of those after the header, and gives out none before  *)
(* the header is complete.                                                 *)
THEOREM BytesAreConserved == Spec => []BytesConserved
<1>1. IInv => BytesConserved
  BY DEF IInv
<1>2. QED
  BY <1>1, InitIInv, NextIInv, PTL DEF Spec

(* Wherever the header was cut, poll_establish and poll_read report a      *)
(* rejection, a malformed header, a premature end or the end of the data   *)
(* only if the whole stream says so.                                       *)
THEOREM VerdictsAreRight == Spec => []VerdictIsRight
<1>1. IInv => VerdictIsRight
  BY DEF IInv
<1>2. QED
  BY <1>1, InitIInv, NextIInv, PTL DEF Spec

-----------------------------------------------------------------------------
(* TCPRequest.                                                             *)

(* 0x401 fits a varint whatever LowRange is. *)
LEMMA FrameTypeFits == FrameType \in Nat /\ Shift(FrameType, 7) < LowRange
<1>1. \A a \in Nat : 4 * (a \div Radix) <= a /\ a \div Radix \in Nat
  <2> SUFFICES ASSUME NEW a \in Nat PROVE 4 * (a \div Radix) <= a /\ a \div Radix \in Nat
    OBVIOUS
  <2>1. a \div Radix \in Nat /\ a % Radix \in 0..Radix-1 /\ a = (a \div Radix) * Radix + (a % Radix)
    BY Euclid, RadixType
  <2> DEFINE q == a \div Radix
             r == a % Radix
  <2>2. q \in Nat /\ r \in Nat /\ a = q * (4 * LowRange) + r
    BY <2>1, RadixType DEF Radix
  <2> HIDE DEF q, r
  <2>3. \A x, y, z \in Nat : y >= 1 /\ a = x * (4 * y) + z => 4 * x <= a
    <3> SUFFICES ASSUME NEW x \in Nat, NEW y \in Nat, NEW z \in Nat, y >= 1, a = x * (4 * y) + z
                 PROVE  4 * x <= a
      OBVIOUS
    <3>1. y-1 \in Nat
      OBVIOUS
    <3>2. \A w \in Nat : x * w \in Nat
      OBVIOUS
    <3>3. x * (y-1) \in Nat
      BY <3>1, <3>2
    <3>4. x * (4 * y) = 4 * (x * (y-1)) + 4 * x
      OBVIOUS
    <3>5. QED
      BY <3>3, <3>4
  <2>4. QED
    BY <2>2, <2>3, RadixType DEF q
<1> DEFINE s(j) == Shift(FrameType, j)
<1>2. FrameType = 1025 /\ FrameType \in Nat
  BY DEF FrameType
<1>3. s(0) = 1025
  BY <1>2, ShiftFacts
<1>4. \A j \in Nat : s(j) \in Nat /\ s(j+1) = s(j) \div Radix
  BY <1>2, ShiftFacts
<1> HIDE DEF s
<1>5. \A j \in Nat : s(j) \in Nat /\ s(j+1) \in Nat /\ 4 * s(j+1) <= s(j)
  BY <1>1, <1>4
<1>6. /\ 4 * s(1) <= s(0) /\ 4 * s(2) <= s(1) /\ 4 * s(3) <= s(2) /\ 4 * s(4) <= s(3)
      /\ 4 * s(5) <= s(4) /\ 4 * s(6) <= s(5) /\ 4 * s(7) <= s(6)
  <2>1. 0+1 = 1 /\ 1+1 = 2 /\ 2+1 = 3 /\ 3+1 = 4 /\ 4+1 = 5 /\ 5+1 = 6 /\ 6+1 = 7
    OBVIOUS
  <2>2. /\ 4 * s(0+1) <= s(0) /\ 4 * s(1+1) <= s(1) /\ 4 * s(2+1) <= s(2) /\ 4 * s(3+1) <= s(3)
        /\ 4 * s(4+1) <= s(4) /\ 4 * s(5+1) <= s(5) /\ 4 * s(6+1) <= s(6)
    BY <1>5
  <2>3. QED
    BY <2>1, <2>2
<1>7. /\ s(1) \in Nat /\ s(2) \in Nat /\ s(3) \in Nat /\ s(4) \in Nat
      /\ s(5) \in Nat /\ s(6) \in Nat /\ s(7) \in Nat
  BY <1>4
<1>8. s(7) = 0
  BY <1>3, <1>6, <1>7
<1>9. QED
  BY <1>2, <1>8, RadixType DEF s

RegroupsFive(p, q, a, r, d) == p \o q \o a \o r \o d = p \o (q \o (a \o (r \o d)))

(* Five pieces joined from the left or from the right. *)
LEMMA JoinFive ==
    ASSUME NEW S, NEW p, NEW q, NEW a, NEW r, NEW d
    PROVE  /\ p \in Seq(S) /\ q \in Seq(S) /\ a \in Seq(S) /\ r \in Seq(S) /\ d \in Seq(S)
           => RegroupsFive(p, q, a, r, d)
<1>1. SUFFICES ASSUME p \in Seq(S), q \in Seq(S), a \in Seq(S), r \in Seq(S), d \in Seq(S)
               PROVE  p \o q \o a \o r \o d = p \o (q \o (a \o (r \o d)))
  BY Zenon DEF RegroupsFive
<1> DEFINE pq  == p \o q
           pqa == pq \o a
           rd  == r \o d
           ard == a \o rd
<1> HIDE DEF pq, pqa, rd, ard
<1>2. pq \in Seq(S) /\ rd \in Seq(S)
  BY <1>1, JoinType DEF pq, rd
<1>3. pqa \in Seq(S) /\ ard \in Seq(S)
  BY <1>1, <1>2, JoinType DEF pqa, ard
<1>4. Regroups(pqa, r, d)
  <2>1. pqa \in Seq(S) /\ r \in Seq(S) /\ d \in Seq(S)
    BY <1>1, <1>3
  <2>2. QED
    BY <2>1, JoinAssoc, Zenon
<1>5. Regroups(pq, a, rd)
  <2>1. pq \in Seq(S) /\ a \in Seq(S) /\ rd \in Seq(S)
    BY <1>1, <1>2
  <2>2. QED
    BY <2>1, JoinAssoc, Zenon
<1>6. Regroups(p, q, ard)
  <2>1. p \in Seq(S) /\ q \in Seq(S) /\ ard \in Seq(S)
    BY <1>1, <1>3
  <2>2. QED
    BY <2>1, JoinAssoc, Zenon
<1>7. QED
  BY <1>4, <1>5, <1>6, Zenon DEF pqa, pq, ard, rd, Regroups

(* A varint in front of r: the value, and what is left. *)
LEMMA ReadsVarint ==
    ASSUME NEW v \in Nat, Shift(v, 7) < LowRange, NEW r \in Seq(Byte)
    PROVE  LET b == PutVarint(v) \o r
           IN  /\ b \in Seq(Byte) /\ GetVarint(b)[1] = v
               /\ SubSeq(b, GetVarint(b)[2] + 1, Len(b)) = r
               /\ GetVarint(b)[2] = Len(PutVarint(v))
<1> DEFINE p == PutVarint(v)
<1>1. p \in Seq(Byte) /\ Len(p) = VarintLen(v)
  BY PutVarintType
<1>2. GetVarint(p \o r) = <<v, VarintLen(v)>>
  BY VarintRoundTrip
<1>3. GetVarint(p \o r) = <<v, Len(p)>>
  BY <1>1, <1>2
<1>4. p \in Seq(Byte)
  BY <1>1
<1> HIDE DEF p
<1>5. p \o r \in Seq(Byte)
  BY <1>4
<1>6. SubSeq(p \o r, Len(p) + 1, Len(p \o r)) = r
  BY <1>4, JoinBack
<1>7. QED
  BY <1>3, <1>5, <1>6 DEF p

(* The server reads out of a TCPRequest the frame type, the address and    *)
(* the padding that encode_tcp_request put in, and no byte is left over.   *)
(* The hypotheses say that the lengths are ones a varint can hold.         *)
THEOREM RequestRoundTrip ==
    ASSUME NEW address \in Seq(Byte), NEW pad \in Seq(Byte),
           Shift(Len(address), 7) < LowRange, Shift(Len(pad), 7) < LowRange
    PROVE  DecodeTcpRequest(EncodeTcpRequest(address, pad)) = <<FrameType, address, pad, << >> >>
<1> DEFINE P == PutVarint(FrameType)
           Q == PutVarint(Len(address))
           R == PutVarint(Len(pad))
           b2 == R \o pad
           x  == address \o b2
           b1 == Q \o x
           b  == P \o b1
<1>1. P \in Seq(Byte)
  BY FrameTypeFits, PutVarintType
<1>2. Q \in Seq(Byte) /\ R \in Seq(Byte) /\ Len(address) \in Nat /\ Len(pad) \in Nat
  BY PutVarintType
<1> HIDE DEF P, Q, R
<1>3. b2 \in Seq(Byte)
  BY <1>2, JoinType
<1> HIDE DEF b2
<1>4. x \in Seq(Byte)
  BY <1>3, JoinType
<1> HIDE DEF x
<1>5. b1 \in Seq(Byte)
  BY <1>2, <1>4, JoinType
<1> HIDE DEF b1
<1>6. b \in Seq(Byte)
  BY <1>1, <1>5, JoinType
<1> HIDE DEF b
<1>7. EncodeTcpRequest(address, pad) = b
  <2>1. RegroupsFive(P, Q, address, R, pad)
    BY <1>1, <1>2, JoinFive
  <2>2. QED
    BY <2>1, Zenon DEF RegroupsFive, EncodeTcpRequest, b, b1, x, b2, P, Q, R
<1>8. GetVarint(b)[1] = FrameType /\ SubSeq(b, GetVarint(b)[2] + 1, Len(b)) = b1
  BY <1>5, FrameTypeFits, ReadsVarint, Zenon DEF b, P
<1>9. GetVarint(b1)[1] = Len(address) /\ GetVarint(b1)[2] = Len(Q)
  BY <1>2, <1>4, ReadsVarint, Zenon DEF b1, Q
<1>10. SubSeq(b1, Len(Q) + 1, Len(Q) + Len(address)) = address
  BY <1>2, <1>3, JoinMiddle, Zenon DEF b1, x
<1>11. SubSeq(b1, Len(Q) + Len(address) + 1, Len(b1)) = b2
  <2> DEFINE y == Q \o address
  <2>1. y \in Seq(Byte) /\ Len(y) = Len(Q) + Len(address)
    BY <1>2, JoinType
  <2>2. y \o b2 = b1
    <3>1. Regroups(Q, address, b2)
      BY <1>2, <1>3, JoinAssoc, Zenon
    <3> QED
      BY <3>1, Zenon DEF b1, x, Regroups
  <2>3. y \in Seq(Byte)
    BY <2>1
  <2> HIDE DEF y
  <2>4. SubSeq(y \o b2, Len(y) + 1, Len(y \o b2)) = b2
    BY <1>3, <2>3, JoinBack
  <2>5. QED
    BY <2>1, <2>2, <2>4
<1>12. GetVarint(b2)[1] = Len(pad) /\ GetVarint(b2)[2] = Len(R)
  BY <1>2, ReadsVarint, Zenon DEF b2, R
<1>13. /\ SubSeq(b2, Len(R) + 1, Len(R) + Len(pad)) = pad
       /\ SubSeq(b2, Len(R) + Len(pad) + 1, Len(b2)) = << >>
  <2>1. Len(b2) = Len(R) + Len(pad) /\ SubSeq(b2, Len(R) + 1, Len(b2)) = pad
    BY <1>2, JoinBack, JoinType DEF b2
  <2>2. Len(b2) \in Nat
    BY <1>3
  <2>3. SubSeq(b2, Len(b2) + 1, Len(b2)) = << >>
    BY <1>3, <2>2
  <2> QED
    BY <2>1, <2>3, Zenon
<1>14. QED
  BY <1>7, <1>8, <1>9, <1>10, <1>11, <1>12, <1>13, Zenon DEF DecodeTcpRequest

-----------------------------------------------------------------------------
(* A datagram that parse accepts.                                          *)

(* to_be_bytes undoes from_be_bytes. *)
LEMMA BigEndianInverse ==
    ASSUME NEW s \in Seq(Byte)
    PROVE  FromBigEndian(s) \in Nat /\ BigEndian(FromBigEndian(s), Len(s)) = s
<1> DEFINE n == Len(s)
           f == CHOOSE f : Sums(f, s, n)
<1>1. n \in Nat /\ \A k \in 1..n : s[k] \in Byte
  OBVIOUS
<1>2. Sums(f, s, n)
  BY <1>1, SumsExist, Zenon
<1>3. FromBigEndian(s) = f[n]
  BY FromBigEndianIsLast
<1> HIDE DEF f
<1>4. f[0] = 0 /\ \A k \in 1..n : f[k] = f[k-1] * Radix + s[k]
  BY <1>1, <1>2 DEF Sums
<1>5. \A k \in 0..n : f[k] \in Nat
  <2> DEFINE P(k) == k \in 0..n => f[k] \in Nat
             T    == {k \in Nat : P(k)}
  <2>1. P(0)
    BY <1>4
  <2>2. ASSUME NEW k \in Nat, P(k) PROVE P(k+1)
    <3> SUFFICES ASSUME k+1 \in 0..n PROVE f[k+1] \in Nat
      OBVIOUS
    <3>1. k+1 \in 1..n /\ (k+1)-1 = k /\ k \in 0..n
      BY <1>1
    <3>2. f[k+1] = f[k] * Radix + s[k+1]
      BY <1>4, <3>1
    <3>3. s[k+1] \in Byte
      BY <1>1, <3>1
    <3>4. s[k+1] \in Nat /\ f[k] \in Nat
      BY <2>2, <3>1, <3>3, ByteIsNat, Zenon
    <3>5. QED
      BY <3>2, <3>4, RadixType
  <2> HIDE DEF P
  <2>3. T \in SUBSET Nat /\ 0 \in T /\ \A k \in T : k+1 \in T
    BY <2>1, <2>2
  <2> HIDE DEF T
  <2>4. T = Nat
    BY <2>3, NatSet
  <2>5. QED
    BY <2>4 DEF T, P
<1>6. \A j \in 0..n : Shift(f[n], j) = f[n-j]
  <2> DEFINE P(j) == j \in 0..n => Shift(f[n], j) = f[n-j]
             T    == {j \in Nat : P(j)}
  <2>0. f[n] \in Nat
    BY <1>1, <1>5
  <2>1. P(0)
    <3>1. n - 0 = n
      BY <1>1
    <3>2. Shift(f[n], 0) = f[n]
      BY <2>0, ShiftFacts, Zenon
    <3>3. QED
      BY <3>1, <3>2
  <2>2. ASSUME NEW j \in Nat, P(j) PROVE P(j+1)
    <3> SUFFICES ASSUME j+1 \in 0..n PROVE Shift(f[n], j+1) = f[n-(j+1)]
      OBVIOUS
    <3>1. n-j \in 1..n /\ (n-j)-1 = n-(j+1) /\ n-(j+1) \in 0..n /\ j \in 0..n
      BY <1>1
    <3>2. f[n-j] = f[n-(j+1)] * Radix + s[n-j]
      BY <1>4, <3>1
    <3>3. f[n-(j+1)] \in Nat /\ s[n-j] \in 0..Radix-1
      BY <1>1, <1>5, <3>1, Zenon DEF Byte
    <3>4. \A q \in Nat, b \in 0 .. Radix-1 : (q * Radix + b) \div Radix = q
      BY Euclid, RadixType
    <3>5. f[n-j] \div Radix = f[n-(j+1)]
      BY <3>2, <3>3, <3>4
    <3>6. Shift(f[n], j+1) = Shift(f[n], j) \div Radix /\ Shift(f[n], j) = f[n-j]
      BY <2>0, <2>2, <3>1, ShiftFacts, Zenon
    <3>7. QED
      BY <3>5, <3>6
  <2> HIDE DEF P
  <2>3. T \in SUBSET Nat /\ 0 \in T /\ \A j \in T : j+1 \in T
    BY <2>1, <2>2
  <2> HIDE DEF T
  <2>4. T = Nat
    BY <2>3, NatSet
  <2>5. QED
    BY <2>4 DEF T, P
<1>7. ASSUME NEW k \in 1..n PROVE Shift(f[n], n-k) % Radix = s[k]
  <2>1. n-k \in 0..n /\ n-(n-k) = k /\ k-1 \in 0..n
    BY <1>1
  <2>2. Shift(f[n], n-k) = f[k-1] * Radix + s[k]
    BY <1>4, <1>6, <2>1
  <2>3. f[k-1] \in Nat /\ s[k] \in 0..Radix-1
    BY <1>1, <1>5, <2>1, Zenon DEF Byte
  <2>4. \A q \in Nat, b \in 0 .. Radix-1 : (q * Radix + b) % Radix = b
    BY Euclid, RadixType
  <2>5. QED
    BY <2>2, <2>3, <2>4
<1>8. [k \in 1..n |-> Shift(f[n], n-k) % Radix] = s
  BY <1>7
<1>9. f[n] \in Nat
  BY <1>1, <1>5
<1>10. QED
  BY <1>3, <1>8, <1>9 DEF BigEndian

(* varint_len is the least of the lengths that have room for v. *)
LEMMA VarintShortest ==
    ASSUME NEW v \in Nat, NEW n \in {1, 2, 4, 8}, Shift(v, n-1) < LowRange
    PROVE  VarintLen(v) <= n
<1>0. \A a, b \in Nat : a \div Radix < b => a < b * Radix
  <2> SUFFICES ASSUME NEW a \in Nat, NEW b \in Nat, a \div Radix < b PROVE a < b * Radix
    OBVIOUS
  <2> DEFINE q == a \div Radix
  <2>1. q \in Nat /\ a % Radix \in 0..Radix-1 /\ a = q * Radix + (a % Radix)
    BY Euclid, RadixType
  <2>2. q + 1 <= b
    BY <2>1
  <2> HIDE DEF q
  <2>3. \A x, y, r \in Nat : x <= y => x * r <= y * r
    OBVIOUS
  <2>4. (q+1) * Radix <= b * Radix /\ (q+1) * Radix = q * Radix + Radix
    BY <2>1, <2>2, <2>3, RadixType
  <2>5. QED
    BY <2>1, <2>4, RadixType
<1>1. Shift(v, 0) = v
  BY ShiftFacts
<1>2. Shift(v, 1) \in Nat /\ Shift(v, 1) = Shift(v, 0) \div Radix
  BY ShiftOnce
<1>3. Shift(v, 2) \in Nat /\ Shift(v, 2) = Shift(v, 1) \div Radix
  BY ShiftOnce
<1>4. Shift(v, 3) \in Nat /\ Shift(v, 3) = Shift(v, 2) \div Radix
  BY ShiftOnce
<1>5. LowRange * Radix \in Nat /\ LowRange * Radix * Radix \in Nat /\ LowRange \in Nat
  <2>1. \A a, b \in Nat : a * b \in Nat
    OBVIOUS
  <2>2. QED
    BY <2>1, RadixType
<1>6. VarintLen(v) \in {1, 2, 4, 8}
  BY DEF VarintLen
<1>7. CASE n = 1
  <2>1. v < LowRange
    BY <1>1, <1>7
  <2>2. QED
    BY <1>7, <2>1 DEF VarintLen
<1>8. CASE n = 2
  <2>1. v < LowRange * Radix
    BY <1>0, <1>1, <1>2, <1>5, <1>8, SMTT(30)
  <2>2. VarintLen(v) \in {1, 2}
    BY <2>1 DEF VarintLen
  <2>3. QED
    BY <1>8, <2>2
<1>9. CASE n = 4
  <2>1. Shift(v, 2) < LowRange * Radix
    BY <1>0, <1>3, <1>4, <1>5, <1>9, SMTT(30)
  <2>2. Shift(v, 1) < LowRange * Radix * Radix
    BY <1>0, <1>2, <1>3, <1>5, <2>1, Zenon
  <2>3. v < LowRange * Radix * Radix * Radix
    BY <1>0, <1>1, <1>2, <1>5, <2>2, Zenon
  <2>4. VarintLen(v) \in {1, 2, 4}
    BY <2>3 DEF VarintLen
  <2>5. QED
    BY <1>9, <2>4
<1>10. CASE n = 8
  BY <1>6, <1>10
<1>11. QED
  BY <1>7, <1>8, <1>9, <1>10, Zenon

(* A varint that get_varint has read is no shorter than the one put_varint *)
(* writes, and lies within the bytes.                                      *)
LEMMA VarintRead ==
    ASSUME NEW s \in Seq(Byte), GetVarint(s) # << >>
    PROVE  \E v \in Nat, n \in {1, 2, 4, 8} :
             GetVarint(s) = <<v, n>> /\ n <= Len(s) /\ VarintLen(v) <= n
<1>1. s # << >>
  BY DEF GetVarint
<1>2. PICK t : t = s[1] \div LowRange
  OBVIOUS
<1>3. PICK n : n = 2^t
  OBVIOUS
<1>4. /\ t \in 0..3 /\ n \in {1, 2, 4, 8}
      /\ Len(s) < n => GetVarint(s) = << >>
      /\ Len(s) >= n =>
            \E v \in Nat : GetVarint(s) = <<v, n>> /\ IsOnly(SubSeq(s, 1, n), t, v)
  BY <1>1, <1>2, <1>3, VarintDecodes
<1>5. Len(s) \in Nat /\ Len(s) >= n
  BY <1>4
<1>6. PICK v \in Nat : GetVarint(s) = <<v, n>> /\ IsOnly(SubSeq(s, 1, n), t, v)
  BY <1>4, <1>5
<1>7. Shift(v, n-1) < LowRange
  <2> DEFINE a == Shift(v, n-1)
             r == s[1] % LowRange
  <2>1. n-1 \in Nat /\ 1 \in 1..n
    BY <1>4
  <2>2. a \in Nat
    BY <2>1, ShiftFacts, Zenon
  <2>3. VarintIn(v, t)[1] = a + t * LowRange
    BY <1>3, <2>1 DEF VarintIn
  <2>4. VarintIn(v, t)[1] = s[1]
    <3>1. SubSeq(s, 1, n)[1] = s[1]
      BY <1>4, <1>5
    <3>2. QED
      BY <1>6, <3>1, Zenon DEF IsOnly
  <2>5. s[1] \in Byte
    BY <1>1
  <2>6. s[1] \in Nat
    BY <2>5, ByteIsNat, Zenon
  <2>7. r \in 0..LowRange-1 /\ s[1] = t * LowRange + r
    BY <1>2, <2>6, Euclid, RadixType, Zenon
  <2>8. t * LowRange \in Nat
    <3>1. \A x, y \in Nat : x * y \in Nat
      OBVIOUS
    <3>2. QED
      BY <1>4, <3>1, RadixType
  <2> DEFINE z == t * LowRange
  <2>9. a + z = z + r /\ z \in Nat
    BY <2>3, <2>4, <2>7, <2>8
  <2> HIDE DEF a, r, z
  <2>10. a < LowRange
    BY <2>2, <2>7, <2>9, RadixType
  <2>11. QED
    BY <2>10 DEF a
<1>8. QED
  BY <1>4, <1>5, <1>6, <1>7, VarintShortest, Zenon

LEMMA PartType ==
    ASSUME NEW S, NEW w \in Seq(S), NEW i \in 1..Len(w)+1, NEW j \in 0..Len(w), i <= j + 1
    PROVE  SubSeq(w, i, j) \in Seq(S) /\ Len(SubSeq(w, i, j)) = (j - i) + 1
  OBVIOUS

(* UdpMessage::parse accounts for every byte of a datagram it accepts: the *)
(* first eight are the fixed fields, a varint and as many bytes of address *)
(* as it says follow, and all the rest, at least one byte, is the payload. *)
THEOREM ParsedIsWhole ==
    ASSUME NEW b \in Seq(Byte), NEW m, Parse(b) = m, m # None
    PROVE  /\ m.addr \in Seq(Byte) /\ m.data \in Seq(Byte)
           /\ Len(m.addr) \in 1..MaxAddrLength /\ IsUtf8(m.addr) /\ m.data # << >>
           /\ BigEndian(m.session_id, 4) = SubSeq(b, 1, 4)
           /\ BigEndian(m.packet_id, 2) = SubSeq(b, 5, 6)
           /\ m.frag_id = b[7] /\ m.frag_count = b[8]
           /\ \E n \in {1, 2, 4, 8} :
                /\ GetVarint(SubSeq(b, 9, Len(b))) = <<Len(m.addr), n>>
                /\ m.addr = SubSeq(b, 8 + n + 1, 8 + n + Len(m.addr))
                /\ m.data = SubSeq(b, 8 + n + Len(m.addr) + 1, Len(b))
                /\ Len(b) = 8 + n + Len(m.addr) + Len(m.data)
           /\ Len(b) >= Size(m)
<1> DEFINE s == SubSeq(b, 9, Len(b))
           g == GetVarint(s)
           l == g[1]
           n == g[2]
           L == Len(b)
           addr == SubSeq(b, 8 + n + 1, 8 + n + l)
           data == SubSeq(b, 8 + n + l + 1, L)
           G == SubSeq(b, 1, 4)
           K == SubSeq(b, 5, 6)
<1>0. /\ ~(L < 8) /\ g # << >> /\ l # 0 /\ ~(l > MaxAddrLength)
      /\ ~(L <= 8 + n + l) /\ IsUtf8(addr)
      /\ m = [session_id |-> FromBigEndian(G), packet_id |-> FromBigEndian(K),
              frag_id |-> b[7], frag_count |-> b[8], addr |-> addr, data |-> data]
  BY Zenon DEF Parse
<1>1. L >= 8
  BY <1>0
<1>2. L \in Nat /\ MaxAddrLength \in Nat
  BY MaxAddrAssumption
<1>3. s \in Seq(Byte) /\ Len(s) = L - 8
  <2>1. 9 \in 1..L+1 /\ L \in 0..L /\ 9 <= L + 1
    BY <1>1, <1>2
  <2>2. SubSeq(b, 9, L) \in Seq(Byte) /\ Len(SubSeq(b, 9, L)) = (L - 9) + 1
    BY <2>1, PartType, Zenon
  <2>3. (L - 9) + 1 = L - 8
    BY <1>2
  <2>4. QED
    BY <2>2, <2>3, Zenon
<1>4. G \in Seq(Byte) /\ Len(G) = 4 /\ K \in Seq(Byte) /\ Len(K) = 2
  <2>1. /\ 1 \in 1..L+1 /\ 4 \in 0..L /\ 1 <= 4 + 1 /\ (4 - 1) + 1 = 4
        /\ 5 \in 1..L+1 /\ 6 \in 0..L /\ 5 <= 6 + 1 /\ (6 - 5) + 1 = 2
    BY <1>1, <1>2
  <2>2. SubSeq(b, 1, 4) \in Seq(Byte) /\ Len(SubSeq(b, 1, 4)) = (4 - 1) + 1
    BY <2>1, PartType, Zenon
  <2>3. SubSeq(b, 5, 6) \in Seq(Byte) /\ Len(SubSeq(b, 5, 6)) = (6 - 5) + 1
    BY <2>1, PartType, Zenon
  <2>4. QED
    BY <2>1, <2>2, <2>3, Zenon
<1>5. g = <<l, n>> /\ l \in Nat /\ n \in {1, 2, 4, 8} /\ VarintLen(l) <= n
  <2> HIDE DEF s
  <2>1. PICK v \in Nat, k \in {1, 2, 4, 8} : g = <<v, k>> /\ k <= Len(s) /\ VarintLen(v) <= k
    BY <1>0, <1>3, VarintRead, Zenon
  <2>2. QED
    BY <2>1
<1> HIDE DEF s, g, l, n, addr, data, G, K, L
<1>a. l \in 1..MaxAddrLength /\ n \in Nat /\ 8 + n + l < L
  <2>1. l # 0 /\ ~(l > MaxAddrLength) /\ ~(L <= 8 + n + l)
    BY <1>0, Zenon
  <2>2. QED
    BY <1>2, <1>5, <2>1
<1>6. /\ addr \in Seq(Byte) /\ Len(addr) = l /\ data \in Seq(Byte) /\ Len(data) = L - (8 + n + l)
  <2>1. n \in Nat /\ l \in Nat /\ l >= 1 /\ 8 + n + l < L
    BY <1>2, <1>a
  <2>2. PICK i, j, k : i = 8 + n + 1 /\ j = 8 + n + l /\ k = 8 + n + l + 1
    OBVIOUS
  <2>3. /\ i \in 1..L+1 /\ j \in 0..L /\ i <= j + 1 /\ (j - i) + 1 = l
        /\ k \in 1..L+1 /\ L \in 0..L /\ k <= L + 1 /\ (L - k) + 1 = L - (8 + n + l)
    BY <1>2, <2>1, <2>2
  <2>4. SubSeq(b, i, j) \in Seq(Byte) /\ Len(SubSeq(b, i, j)) = (j - i) + 1
    BY <2>3, PartType, Zenon DEF L
  <2>5. SubSeq(b, k, L) \in Seq(Byte) /\ Len(SubSeq(b, k, L)) = (L - k) + 1
    BY <2>3, PartType, Zenon DEF L
  <2>6. addr = SubSeq(b, i, j) /\ data = SubSeq(b, k, L)
    BY <2>2, Zenon DEF addr, data
  <2>7. QED
    BY <2>3, <2>4, <2>5, <2>6, Zenon
<1>7. BigEndian(FromBigEndian(G), 4) = G /\ BigEndian(FromBigEndian(K), 2) = K
  BY <1>4, BigEndianInverse, Zenon
<1>8. /\ m.addr = addr /\ m.data = data /\ m.session_id = FromBigEndian(G)
      /\ m.packet_id = FromBigEndian(K) /\ m.frag_id = b[7] /\ m.frag_count = b[8]
  <2>1. m = [session_id |-> FromBigEndian(G), packet_id |-> FromBigEndian(K),
             frag_id |-> b[7], frag_count |-> b[8], addr |-> addr, data |-> data]
    BY <1>0, Zenon
  <2>2. QED
    BY <2>1
<1>9. Len(m.addr) \in 1..MaxAddrLength /\ IsUtf8(m.addr) /\ m.data # << >>
  <2>1. L - (8 + n + l) # 0
    BY <1>2, <1>a
  <2>2. Len(data) # 0
    BY <1>6, <2>1, Zenon
  <2>3. data # << >>
    BY <2>2
  <2>4. QED
    BY <1>0, <1>6, <1>8, <1>a, <2>3, Zenon
<1>10. L >= Size(m)
  <2>1. Size(m) = 8 + VarintLen(l) + l + Len(data)
    BY <1>6, <1>8 DEF Size, HeaderSize
  <2>2. VarintLen(l) \in Nat
    BY DEF VarintLen
  <2>3. Len(data) = L - (8 + n + l) /\ VarintLen(l) <= n
    BY <1>5, <1>6, Zenon
  <2>4. QED
    BY <1>2, <1>a, <2>1, <2>2, <2>3
<1>11. /\ GetVarint(SubSeq(b, 9, Len(b))) = <<Len(m.addr), n>>
       /\ m.addr = SubSeq(b, 8 + n + 1, 8 + n + Len(m.addr))
       /\ m.data = SubSeq(b, 8 + n + Len(m.addr) + 1, Len(b))
       /\ Len(b) = 8 + n + Len(m.addr) + Len(m.data)
  <2>1. Len(m.addr) = l
    BY <1>6, <1>8
  <2>2. GetVarint(SubSeq(b, 9, Len(b))) = <<l, n>>
    BY <1>5, Zenon DEF g, s
  <2>3. m.addr = SubSeq(b, 8 + n + 1, 8 + n + l) /\ m.data = SubSeq(b, 8 + n + l + 1, Len(b))
    BY <1>8, Zenon DEF addr, data, L
  <2>4. L = 8 + n + l + Len(m.data)
    <3>1. Len(m.data) = L - (8 + n + l)
      BY <1>6, <1>8, Zenon
    <3>2. QED
      BY <1>2, <1>a, <3>1
  <2>5. QED
    BY <2>1, <2>2, <2>3, <2>4, Zenon DEF L
<1>12. BigEndian(m.session_id, 4) = SubSeq(b, 1, 4) /\ BigEndian(m.packet_id, 2) = SubSeq(b, 5, 6)
  BY <1>7, <1>8, Zenon DEF G, K
<1>13. QED
  <2>1. \E k \in {1, 2, 4, 8} :
          /\ GetVarint(SubSeq(b, 9, Len(b))) = <<Len(m.addr), k>>
          /\ m.addr = SubSeq(b, 8 + k + 1, 8 + k + Len(m.addr))
          /\ m.data = SubSeq(b, 8 + k + Len(m.addr) + 1, Len(b))
          /\ Len(b) = 8 + k + Len(m.addr) + Len(m.data)
    BY <1>5, <1>11, Zenon
  <2>2. Len(b) >= Size(m)
    BY <1>10, Zenon DEF L
  <2>3. QED
    BY <1>6, <1>8, <1>9, <1>12, <2>1, <2>2, Zenon

-----------------------------------------------------------------------------
(* Codec.                                                                  *)

LEMMA BytesAreNats == ASSUME NEW s \in Seq(Byte) PROVE s \in Seq(Nat)
<1>1. \A i \in 1..Len(s) : s[i] \in Byte
  OBVIOUS
<1>2. \A i \in 1..Len(s) : s[i] \in Nat
  BY <1>1, ByteIsNat, Zenon
<1>3. Len(s) \in Nat /\ s = [i \in 1..Len(s) |-> s[i]]
  OBVIOUS
<1> QED
  BY <1>2, <1>3

(* put_varint writes numbers whatever v is. *)
LEMMA PutVarintNat == ASSUME NEW v \in Nat PROVE PutVarint(v) \in Seq(Nat)
<1> DEFINE t == CHOOSE t \in 0..3 : 2^t = VarintLen(v)
           n == 2^t
           c(k) == IF k = 1 THEN Shift(v, n - 1) + t * LowRange ELSE Shift(v, n - k) % Radix
<1>1. \E u \in 0..3 : 2^u = VarintLen(v)
  <2>1. 2^0 = 1 /\ 2^1 = 2 /\ 2^2 = 4 /\ 2^3 = 8
    OBVIOUS
  <2>2. VarintLen(v) \in {1, 2, 4, 8}
    BY DEF VarintLen
  <2>3. 0 \in 0..3 /\ 1 \in 0..3 /\ 2 \in 0..3 /\ 3 \in 0..3
    OBVIOUS
  <2> QED
    BY <2>1, <2>2, <2>3, Zenon
<1>2. t \in 0..3
  BY <1>1, Zenon
<1>3. PutVarint(v) = [k \in 1..n |-> c(k)]
  BY Zenon DEF PutVarint, VarintIn
<1> HIDE DEF t
<1>4. n \in {1, 2, 4, 8}
  BY <1>2, TwoTo, Zenon
<1> HIDE DEF n
<1>5. ASSUME NEW k \in 1..n PROVE c(k) \in Nat
  <2>1. n - 1 \in Nat /\ n - k \in Nat
    BY <1>4
  <2>2. Shift(v, n - 1) \in Nat /\ Shift(v, n - k) \in Nat
    BY <2>1, ShiftFacts, Zenon
  <2>3. Shift(v, n - k) % Radix \in Nat
    BY <2>2, Euclid, RadixType
  <2>4. \A x, y \in Nat : x * y \in Nat /\ x + y \in Nat
    OBVIOUS
  <2>5. Shift(v, n - 1) + t * LowRange \in Nat
    BY <1>2, <2>2, <2>4, RadixType
  <2> QED
    BY <2>3, <2>5, Zenon
<1>6. n \in Nat
  BY <1>4
<1> HIDE DEF c
<1>7. [k \in 1..n |-> c(k)] \in Seq(Nat)
  BY <1>5, <1>6
<1> QED
  BY <1>3, <1>7, Zenon

RegroupsFour(p, q, a, d) == p \o q \o a \o d = p \o (q \o (a \o d))

LEMMA JoinFour ==
    ASSUME NEW S, NEW p, NEW q, NEW a, NEW d
    PROVE  p \in Seq(S) /\ q \in Seq(S) /\ a \in Seq(S) /\ d \in Seq(S) => RegroupsFour(p, q, a, d)
<1>1. SUFFICES ASSUME p \in Seq(S), q \in Seq(S), a \in Seq(S), d \in Seq(S)
               PROVE  p \o q \o a \o d = p \o (q \o (a \o d))
  BY Zenon DEF RegroupsFour
<1> DEFINE pq == p \o q
           ad == a \o d
<1> HIDE DEF pq, ad
<1>2. pq \in Seq(S) /\ ad \in Seq(S)
  BY <1>1, JoinType DEF pq, ad
<1>3. Regroups(pq, a, d)
  <2>1. pq \in Seq(S) /\ a \in Seq(S) /\ d \in Seq(S)
    BY <1>1, <1>2
  <2>2. QED
    BY <2>1, JoinAssoc, Zenon
<1>4. Regroups(p, q, ad)
  <2>1. p \in Seq(S) /\ q \in Seq(S) /\ ad \in Seq(S)
    BY <1>1, <1>2
  <2>2. QED
    BY <2>1, JoinAssoc, Zenon
<1>5. QED
  BY <1>3, <1>4, Zenon DEF pq, ad, Regroups

LEMMA TwoInARow ==
    ASSUME NEW S, NEW w \in Seq(S), NEW i \in 1..Len(w), NEW j \in 1..Len(w), j = i + 1
    PROVE  SubSeq(w, i, j) = <<w[i], w[j]>>
<1> DEFINE v == SubSeq(w, i, j)
<1>1. v \in Seq(S) /\ Len(v) = 2 /\ v[1] = w[i] /\ v[2] = w[j]
  OBVIOUS
<1>2. <<w[i], w[j]>> \in Seq(S)
  OBVIOUS
<1> HIDE DEF v
<1>3. v = <<w[i], w[j]>>
  BY <1>1, <1>2
<1>4. QED
  BY <1>3 DEF v

(* The eight bytes of fixed fields are the ones serialize would write for  *)
(* the message parsed.                                                     *)
LEMMA FixedFields ==
    ASSUME NEW b \in Seq(Byte), NEW m, Parse(b) = m, m # None
    PROVE  SubSeq(Serialize(m), 1, 8) = SubSeq(b, 1, 8)
<1> DEFINE G == SubSeq(b, 1, 4)
           K == SubSeq(b, 5, 6)
           C == SubSeq(b, 7, 8)
           H == SubSeq(b, 1, 8)
           P == PutVarint(Len(m.addr))
<1>1. Len(b) \in Nat /\ Len(b) >= 8
  BY SMTT(30) DEF Parse
<1>2. /\ BigEndian(m.session_id, 4) = G /\ BigEndian(m.packet_id, 2) = K
      /\ m.frag_id = b[7] /\ m.frag_count = b[8]
  BY ParsedIsWhole, Zenon
<1>3. G \o K = SubSeq(b, 1, 6) /\ SubSeq(b, 1, 6) \o C = H
  <2>1. 4 \in 0..Len(b) /\ 6 \in 4..Len(b) /\ 6 \in 0..Len(b) /\ 8 \in 6..Len(b)
    BY <1>1
  <2>2. G \o SubSeq(b, 4+1, 6) = SubSeq(b, 1, 6) /\ SubSeq(b, 1, 6) \o SubSeq(b, 6+1, 8) = H
    BY <2>1, PrefixGrows
  <2> QED
    BY <2>2
<1>4. <<m.frag_id, m.frag_count>> = C
  <2>1. 7 \in 1..Len(b) /\ 8 \in 1..Len(b) /\ 8 = 7 + 1
    BY <1>1
  <2>2. C = <<b[7], b[8]>>
    BY <2>1, TwoInARow, Zenon
  <2> QED
    BY <1>2, <2>2, Zenon
<1>5. H \in Seq(Nat) /\ Len(H) = 8
  <2>1. 1 \in 1..Len(b)+1 /\ 8 \in 0..Len(b) /\ 1 <= 8 + 1 /\ (8 - 1) + 1 = 8
    BY <1>1
  <2>2. H \in Seq(Byte) /\ Len(H) = (8 - 1) + 1
    BY <2>1, PartType, Zenon
  <2> QED
    BY <2>1, <2>2, BytesAreNats, Zenon
<1>6. PICK A, D : A = m.addr /\ D = m.data
  OBVIOUS
<1>7. A \in Seq(Nat) /\ D \in Seq(Nat) /\ P \in Seq(Nat)
  <2>1. A \in Seq(Byte) /\ D \in Seq(Byte)
    BY <1>6, ParsedIsWhole, Zenon
  <2>2. A \in Seq(Nat) /\ D \in Seq(Nat)
    BY <2>1, BytesAreNats, Zenon
  <2> QED
    BY <1>6, <2>2, PutVarintNat
<1>8. Serialize(m) = ((H \o P) \o A) \o D
  BY <1>2, <1>3, <1>4, <1>6, Zenon DEF Serialize, PutVarintSlice
<1> HIDE DEF G, K, C, H, P
<1>9. RegroupsFour(H, P, A, D)
  BY <1>5, <1>7, JoinFour, Zenon
<1> DEFINE PAD == P \o (A \o D)
<1>10. Serialize(m) = H \o PAD
  BY <1>8, <1>9, Zenon DEF RegroupsFour
<1>11. PAD \in Seq(Nat)
  <2>1. A \o D \in Seq(Nat)
    BY <1>7
  <2> QED
    BY <1>7, <2>1, JoinType
<1> HIDE DEF PAD
<1>12. SubSeq(Serialize(m), 1, Len(H)) = H
  BY <1>5, <1>10, <1>11, JoinFront, Zenon
<1> QED
  BY <1>5, <1>12, Zenon DEF H

(* What parse makes of a datagram, as ParsedIsAllOfIt puts it.             *)
LEMMA ParsedIsSuffix ==
    ASSUME NEW b \in Seq(Byte), NEW m, Parse(b) = m, m # None
    PROVE  m.addr \o m.data = SubSeq(b, Len(b) - Len(m.addr) - Len(m.data) + 1, Len(b))
<1> DEFINE a == Len(m.addr)
           d == Len(m.data)
           L == Len(b)
<1>1. PICK n \in {1, 2, 4, 8} : /\ m.addr = SubSeq(b, 8 + n + 1, 8 + n + a)
                                /\ m.data = SubSeq(b, 8 + n + a + 1, L)
                                /\ L = 8 + n + a + d
  BY ParsedIsWhole, Zenon
<1>2. a \in Nat /\ d \in Nat /\ L \in Nat
  <2>1. m.addr \in Seq(Byte) /\ m.data \in Seq(Byte)
    BY ParsedIsWhole, Zenon
  <2> QED
    BY <2>1
<1> HIDE DEF a, d, L
<1>3. 8 + n \in 0..L /\ 8 + n + a \in (8 + n)..L /\ L \in (8 + n + a)..L /\ L - a - d = 8 + n
  BY <1>1, <1>2
<1>4. SubSeq(b, 8 + n + 1, 8 + n + a) \o SubSeq(b, 8 + n + a + 1, L) = SubSeq(b, 8 + n + 1, L)
  <2>1. PICK i, j : i = 8 + n /\ j = 8 + n + a
    OBVIOUS
  <2>2. SubSeq(b, i + 1, j) \o SubSeq(b, j + 1, L) = SubSeq(b, i + 1, L)
    BY <1>3, <2>1, PartsJoin, Zenon DEF L
  <2> QED
    BY <2>1, <2>2, Zenon
<1>5. m.addr \o m.data = SubSeq(b, 8 + n + 1, L)
  BY <1>1, <1>4, Zenon
<1> QED
  BY <1>3, <1>5, Zenon DEF a, d, L

CodecInv == RoundTrips /\ ParsedIsAllOfIt

LEMMA CodecStep == CodecInv /\ [CodecNext]_cvars => CodecInv'
<1> SUFFICES ASSUME CodecInv, [CodecNext]_cvars PROVE CodecInv'
  OBVIOUS
<1>1. CASE Varints
  <2>1. PICK v \in Numbers, rest \in Paddings :
          /\ job' = [kind |-> "varint", value |-> v]
          /\ bytes' = PutVarint(v) /\ back' = GetVarint(bytes' \o rest)
    BY <1>1, Zenon DEF Varints
  <2>2. v \in Nat /\ Shift(v, 7) < LowRange /\ rest \in Seq(Byte)
    BY CodecAssumption, Zenon
  <2>3. GetVarint(PutVarint(v) \o rest) = <<v, VarintLen(v)>> /\ Len(PutVarint(v)) = VarintLen(v)
    BY <2>2, VarintRoundTrip, PutVarintType
  <2>4. job'.kind = "varint" /\ job'.value = v
    BY <2>1
  <2>5. RoundTrips'
    BY <2>1, <2>3, <2>4, Zenon DEF RoundTrips
  <2> QED
    BY <2>4, <2>5 DEF CodecInv, ParsedIsAllOfIt
<1>2. CASE UdpMessages
  <2>1. PICK m \in Messages :
          job' = [kind |-> "udp", value |-> m] /\ bytes' = Serialize(m) /\ back' = <<Parse(bytes')>>
    BY <1>2, Zenon DEF UdpMessages
  <2>2. /\ m \in UdpMessage /\ m.addr \in Seq(Byte) /\ m.data \in Seq(Byte) /\ IsUtf8(m.addr)
        /\ Shift(m.session_id, 4) = 0 /\ Shift(m.packet_id, 2) = 0
        /\ Shift(Len(m.addr), 7) < LowRange
    BY CodecAssumption, Zenon
  <2>3. /\ Len(Serialize(m)) = Size(m)
        /\ Parse(Serialize(m)) = IF Len(m.addr) \in 1..MaxAddrLength /\ m.data # << >> THEN m ELSE None
    BY <2>2, MessageRoundTrip, Zenon
  <2>4. job'.kind = "udp" /\ job'.value = m
    BY <2>1
  <2>5. RoundTrips'
    BY <2>1, <2>3, <2>4, Zenon DEF RoundTrips
  <2> QED
    BY <2>4, <2>5 DEF CodecInv, ParsedIsAllOfIt
<1>3. CASE TcpRequests
  <2>1. PICK a \in Addresses, p \in Paddings :
          /\ job' = [kind |-> "tcp", value |-> <<FrameType, a, p, << >> >>]
          /\ bytes' = EncodeTcpRequest(a, p) /\ back' = DecodeTcpRequest(bytes')
    BY <1>3, Zenon DEF TcpRequests
  <2>2. /\ a \in Seq(Byte) /\ p \in Seq(Byte)
        /\ Shift(Len(a), 7) < LowRange /\ Shift(Len(p), 7) < LowRange
    BY CodecAssumption, Zenon
  <2>3. DecodeTcpRequest(EncodeTcpRequest(a, p)) = <<FrameType, a, p, << >> >>
    BY <2>2, RequestRoundTrip, Zenon
  <2>4. job'.kind = "tcp" /\ job'.value = <<FrameType, a, p, << >> >>
    BY <2>1
  <2>5. RoundTrips'
    BY <2>1, <2>3, <2>4, Zenon DEF RoundTrips
  <2> QED
    BY <2>4, <2>5 DEF CodecInv, ParsedIsAllOfIt
<1>4. CASE RawDatagrams
  <2>1. PICK b \in Datagrams : job' = [kind |-> "raw", value |-> b] /\ bytes' = b /\ back' = <<Parse(b)>>
    BY <1>4, Zenon DEF RawDatagrams
  <2>2. b \in Seq(Byte)
    BY CodecAssumption, Zenon
  <2>3. job'.kind = "raw"
    BY <2>1
  <2>4. PICK m : m = Parse(b)
    OBVIOUS
  <2>5. ASSUME m # None
        PROVE  /\ m.addr # << >> /\ m.data # << >> /\ Len(b) >= Size(m)
               /\ m.addr \o m.data = SubSeq(b, Len(b) - Len(m.addr) - Len(m.data) + 1, Len(b))
               /\ SubSeq(b, 1, 8) = SubSeq(Serialize(m), 1, 8)
    <3>1. Len(m.addr) \in 1..MaxAddrLength /\ m.data # << >> /\ Len(b) >= Size(m)
      BY <2>2, <2>4, <2>5, ParsedIsWhole, Zenon
    <3>2. m.addr # << >>
      BY <3>1
    <3> QED
      BY <2>2, <2>4, <2>5, <3>1, <3>2, ParsedIsSuffix, FixedFields, Zenon
  <2>6. ParsedIsAllOfIt'
    <3>1. <<m>>[1] = m
      OBVIOUS
    <3>2. back'[1] = m /\ bytes' = b
      BY <2>1, <2>4, <3>1, Zenon
    <3> QED
      BY <2>5, <3>2, Zenon DEF ParsedIsAllOfIt
  <2> QED
    BY <2>3, <2>6 DEF CodecInv, RoundTrips
<1>5. CASE Clear
  <2>1. job'.kind = "none"
    BY <1>5, Zenon DEF Clear
  <2> QED
    BY <2>1 DEF CodecInv, RoundTrips, ParsedIsAllOfIt
<1>6. CASE UNCHANGED cvars
  BY <1>6, Zenon DEF cvars, CodecInv, RoundTrips, ParsedIsAllOfIt
<1> QED
  BY <1>1, <1>2, <1>3, <1>4, <1>5, <1>6, Zenon DEF CodecNext

LEMMA CodecAlways == CodecSpec => []CodecInv
<1>1. CodecInit => CodecInv
  BY DEF CodecInit, CodecInv, RoundTrips, ParsedIsAllOfIt
<1> QED
  BY <1>1, CodecStep, PTL DEF CodecSpec

(* For every number a varint can hold, every UDP message and every TCP     *)
(* request, of any length, and for every width of a byte: what get_varint, *)
(* parse and the server read back is what was written, and serialize       *)
(* writes size() bytes.                                                    *)
THEOREM EncodingsRoundTrip == CodecSpec => []RoundTrips
<1>1. CodecInv => RoundTrips
  BY DEF CodecInv
<1> QED
  BY <1>1, CodecAlways, PTL

(* For every datagram that comes in: a message that parse accepts accounts *)
(* for all of its bytes.                                                   *)
THEOREM ParsedAccountsForAll == CodecSpec => []ParsedIsAllOfIt
<1>1. CodecInv => ParsedIsAllOfIt
  BY DEF CodecInv
<1> QED
  BY <1>1, CodecAlways, PTL
=============================================================================
