---------------------------- MODULE BrutalProofs ----------------------------
(***************************************************************************)
(* What holds of the Brutal congestion controller, whatever the rates, the *)
(* round-trip times, the losses and the pauses between them are.           *)
(***************************************************************************)
EXTENDS Brutal, FiniteSetTheorems, WellFoundedInduction, TLAPS

Counts == [ack : Nat, loss : Nat]

NoPackets == [ack |-> 0, loss |-> 0]

Types ==
    /\ now \in 0 .. MaxTime /\ recorded \in 0 .. now
    /\ slots \in [0 .. SlotCount - 1 -> [ts : Nat, ack : Nat, loss : Nat]]
    /\ hist \in [0 .. MaxTime -> Counts]
    /\ srtt \in Nat /\ mtu \in Mtus
    /\ rate \in Nat /\ use_bbr \in BOOLEAN /\ server_rx \in Nat

(* The rate is within what the configuration and the server allow. *)
RateInv == rate <= TxBps /\ (~use_bbr /\ server_rx # 0 => rate <= server_rx)

(* Slot i holds the counts of the last of its seconds in which anything    *)
(* happened, or is still empty.                                            *)
SlotInv(i) ==
    /\ slots[i].ts <= recorded
    /\ \/ /\ slots[i].ts % SlotCount = i
          /\ slots[i].ack = hist[slots[i].ts].ack /\ slots[i].loss = hist[slots[i].ts].loss
          /\ \A t \in 0 .. MaxTime : t % SlotCount = i /\ t > slots[i].ts => hist[t] = NoPackets
       \/ /\ slots[i].ack = 0 /\ slots[i].loss = 0
          /\ \A t \in 0 .. MaxTime : t % SlotCount = i => hist[t] = NoPackets

RingInv ==
    /\ \A i \in 0 .. SlotCount - 1 : SlotInv(i)
    /\ slots[recorded % SlotCount].ts = recorded
    /\ ack_rate = UpdatedAckRate(slots, recorded)

IInv == Types /\ RateInv /\ RingInv

-----------------------------------------------------------------------------
(* Sums.                                                                   *)

(* A nonempty set of numbers has a least element. *)
LEMMA LeastElement ==
    ASSUME NEW S \in SUBSET Nat, S # {}
    PROVE  \E i \in S : \A j \in S : i <= j
<1> DEFINE R == {p \in Nat \X Nat : p[1] < p[2]}
<1>1. IsWellFoundedOn(R, Nat)
  BY NatLessThanWellFounded, SMT DEF OpToRel
<1>2. PICK x \in S : \A y \in S : <<y, x>> \notin R
  BY <1>1, WFMin, Zenon
<1>3. \A y \in S : ~(y < x)
  <2> TAKE y \in S
  <2>1. <<y, x>> \in Nat \X Nat /\ <<y, x>>[1] = y /\ <<y, x>>[2] = x
    OBVIOUS
  <2>2. QED
    BY <1>2, <2>1
<1>4. QED
  BY <1>3

(* Induction over numbers: a set with 0 and every successor is Nat. *)
LEMMA NatSet ==
    ASSUME NEW T \in SUBSET Nat, 0 \in T, \A n \in T : n + 1 \in T
    PROVE  T = Nat
<1> SUFFICES ASSUME T # Nat PROVE FALSE
  OBVIOUS
<1>1. PICK i \in Nat \ T : \A j \in Nat \ T : i <= j
  <2>1. Nat \ T # {} /\ Nat \ T \in SUBSET Nat
    BY Zenon
  <2>2. QED
    BY <2>1, LeastElement, Zenon
<1>2. i - 1 \in T
  BY <1>1
<1>3. QED
  BY <1>1, <1>2

Any(s) == CHOOSE x \in s : TRUE

(* it adds f up over every subset of S, in the order of Any. *)
Adds(it, f, S) ==
    it = [s \in SUBSET S |-> IF s = {} THEN 0 ELSE f[Any(s)] + it[s \ {Any(s)}]]

LEMMA SumIsLast ==
    ASSUME NEW f
    PROVE  SumFunction(f) = (CHOOSE it : Adds(it, f, DOMAIN f))[DOMAIN f]
  BY DEF SumFunction, SumFunctionOnSet, FoldFunctionOnSet, MapThenFoldSet, Adds, Any

(* A part of a finite set without one of its elements. *)
LEMMA OneLess ==
    ASSUME NEW S, IsFiniteSet(S), NEW s \in SUBSET S, NEW x \in s
    PROVE  /\ s \ {x} \in SUBSET S /\ IsFiniteSet(s) /\ Cardinality(s) \in Nat
           /\ Cardinality(s \ {x}) \in Nat /\ Cardinality(s) = Cardinality(s \ {x}) + 1
<1>1. IsFiniteSet(s)
  BY FS_Subset
<1>2. IsFiniteSet(s \ {x}) /\ Cardinality(s) \in Nat /\ Cardinality(s \ {x}) = Cardinality(s) - 1
  BY <1>1, FS_CardinalityType, FS_RemoveElement
<1>3. Cardinality(s \ {x}) \in Nat
  BY <1>2, FS_CardinalityType
<1>4. QED
  BY <1>1, <1>2, <1>3

LEMMA AnyIsIn ==
    ASSUME NEW s, s # {}
    PROVE  Any(s) \in s
  BY DEF Any

(* h adds f up over the subsets of S of at most n elements. *)
AddsTo(h, f, S, n) ==
    /\ h = [s \in SUBSET S |-> h[s]]
    /\ \A s \in SUBSET S : Cardinality(s) <= n =>
         h[s] = IF s = {} THEN 0 ELSE f[Any(s)] + h[s \ {Any(s)}]

LEMMA AddsExist ==
    ASSUME NEW S, IsFiniteSet(S), NEW f
    PROVE  \E it : Adds(it, f, S)
<1> DEFINE P(n) == \E h : AddsTo(h, f, S, n)
           T == {n \in Nat : P(n)}
<1>1. P(0)
  <2> DEFINE h == [s \in SUBSET S |-> 0]
  <2>1. \A s \in SUBSET S : Cardinality(s) <= 0 => s = {}
    <3> SUFFICES ASSUME NEW s \in SUBSET S, Cardinality(s) <= 0 PROVE s = {}
      OBVIOUS
    <3>1. IsFiniteSet(s) /\ Cardinality(s) \in Nat
      BY FS_Subset, FS_CardinalityType
    <3>2. Cardinality(s) = 0
      BY <3>1
    <3>3. QED
      BY <3>1, <3>2, FS_EmptySet
  <2>2. AddsTo(h, f, S, 0)
    BY <2>1 DEF AddsTo
  <2>3. QED
    BY <2>2
<1>2. ASSUME NEW n \in Nat, P(n) PROVE P(n + 1)
  <2>1. PICK h : AddsTo(h, f, S, n)
    BY <1>2
  <2> DEFINE g == [s \in SUBSET S |-> IF s = {} THEN 0 ELSE f[Any(s)] + h[s \ {Any(s)}]]
  <2>2. \A s \in SUBSET S : Cardinality(s) <= n => g[s] = h[s]
    BY <2>1, Zenon DEF AddsTo
  <2>3. ASSUME NEW s \in SUBSET S, Cardinality(s) <= n + 1
        PROVE  g[s] = IF s = {} THEN 0 ELSE f[Any(s)] + g[s \ {Any(s)}]
    <3>1. CASE s = {}
      BY <3>1
    <3>2. CASE s # {}
      <4>1. Any(s) \in s
        BY <3>2, AnyIsIn
      <4>2. s \ {Any(s)} \in SUBSET S /\ Cardinality(s \ {Any(s)}) <= n
        BY <2>3, <4>1, OneLess
      <4>3. g[s \ {Any(s)}] = h[s \ {Any(s)}]
        BY <2>2, <4>2, Zenon
      <4>4. g[s] = f[Any(s)] + h[s \ {Any(s)}]
        BY <3>2
      <4> HIDE DEF g
      <4>5. QED
        BY <3>2, <4>3, <4>4
    <3>3. QED
      BY <3>1, <3>2
  <2>4. g = [s \in SUBSET S |-> g[s]]
    OBVIOUS
  <2> HIDE DEF g
  <2>5. AddsTo(g, f, S, n + 1)
    BY <2>3, <2>4, Zenon DEF AddsTo
  <2>6. QED
    BY <2>5
<1> HIDE DEF P
<1>3. T = Nat
  <2>1. T \in SUBSET Nat /\ 0 \in T /\ \A n \in T : n + 1 \in T
    BY <1>1, <1>2
  <2> HIDE DEF T
  <2>2. QED
    BY <2>1, NatSet
<1>4. Cardinality(S) \in Nat
  BY FS_CardinalityType
<1>5. PICK h : AddsTo(h, f, S, Cardinality(S))
  BY <1>3, <1>4 DEF P
<1>6. \A s \in SUBSET S : Cardinality(s) <= Cardinality(S)
  BY FS_Subset
<1> DEFINE e == [s \in SUBSET S |-> IF s = {} THEN 0 ELSE f[Any(s)] + h[s \ {Any(s)}]]
<1>7. \A s \in SUBSET S : h[s] = e[s]
  BY <1>5, <1>6, Zenon DEF AddsTo
<1>8. h = [s \in SUBSET S |-> h[s]]
  BY <1>5 DEF AddsTo
<1>9. QED
  BY <1>7, <1>8, Zenon DEF Adds

(* What holds of a set if it holds of all those with one element less,     *)
(* holds of every finite set: Q is the set of the sets it holds of.        *)
LEMMA SetInduction ==
    ASSUME NEW S, IsFiniteSet(S), NEW Q,
           \A s \in SUBSET S : (\A x \in s : s \ {x} \in Q) => s \in Q
    PROVE  \A s \in SUBSET S : s \in Q
<1> DEFINE P(n) == \A s \in SUBSET S : Cardinality(s) = n => s \in Q
           T == {n \in Nat : P(n)}
<1>1. P(0)
  <2> SUFFICES ASSUME NEW s \in SUBSET S, Cardinality(s) = 0 PROVE s \in Q
    OBVIOUS
  <2>1. s = {}
    BY FS_Subset, FS_EmptySet
  <2>2. QED
    BY <2>1
<1>2. ASSUME NEW n \in Nat, P(n) PROVE P(n + 1)
  <2> SUFFICES ASSUME NEW s \in SUBSET S, Cardinality(s) = n + 1 PROVE s \in Q
    OBVIOUS
  <2>1. ASSUME NEW x \in s PROVE s \ {x} \in Q
    <3>1. s \ {x} \in SUBSET S /\ Cardinality(s \ {x}) \in Nat /\ n + 1 = Cardinality(s \ {x}) + 1
      BY OneLess
    <3>2. Cardinality(s \ {x}) = n
      BY <3>1
    <3>3. QED
      BY <1>2, <3>1, <3>2
  <2>2. QED
    BY <2>1
<1> HIDE DEF P
<1>3. T = Nat
  <2>1. T \in SUBSET Nat /\ 0 \in T /\ \A n \in T : n + 1 \in T
    BY <1>1, <1>2
  <2> HIDE DEF T
  <2>2. QED
    BY <2>1, NatSet
<1>4. ASSUME NEW s \in SUBSET S PROVE s \in Q
  <2>1. Cardinality(s) \in Nat
    BY FS_Subset, FS_CardinalityType
  <2>2. P(Cardinality(s))
    BY <1>3, <2>1
  <2>3. QED
    BY <2>2 DEF P
<1>5. QED
  BY <1>4

Unfolds(it, f, S) ==
    it[{}] = 0 /\ \A s \in SUBSET S : s # {} => it[s] = f[Any(s)] + it[s \ {Any(s)}]

LEMMA AddsUnfold ==
    ASSUME NEW S, NEW f, NEW it, Adds(it, f, S)
    PROVE  Unfolds(it, f, S)
<1> DEFINE e == [s \in SUBSET S |-> IF s = {} THEN 0 ELSE f[Any(s)] + it[s \ {Any(s)}]]
<1>1. it = e
  BY Zenon DEF Adds
<1>2. e[{}] = 0 /\ \A s \in SUBSET S : s # {} => e[s] = f[Any(s)] + it[s \ {Any(s)}]
  OBVIOUS
<1> HIDE DEF e
<1>3. QED
  BY <1>1, <1>2, Zenon DEF Unfolds

LEMMA AddsType ==
    ASSUME NEW S, IsFiniteSet(S), NEW f \in [S -> Nat], NEW it, Adds(it, f, S)
    PROVE  \A s \in SUBSET S : it[s] \in Nat
<1> DEFINE Q == {s \in SUBSET S : it[s] \in Nat}
<1>0. Unfolds(it, f, S)
  BY AddsUnfold
<1>1. ASSUME NEW s \in SUBSET S, \A x \in s : s \ {x} \in Q PROVE s \in Q
  <2>1. CASE s = {}
    BY <1>0, <2>1 DEF Unfolds
  <2>2. CASE s # {}
    <3>1. Any(s) \in s
      BY <2>2, AnyIsIn
    <3>2. it[s] = f[Any(s)] + it[s \ {Any(s)}]
      BY <1>0, <2>2 DEF Unfolds
    <3>3. it[s \ {Any(s)}] \in Nat /\ f[Any(s)] \in Nat
      BY <1>1, <3>1
    <3>4. QED
      BY <3>2, <3>3
  <2>3. QED
    BY <2>1, <2>2
<1> HIDE DEF Q
<1>2. \A s \in SUBSET S : s \in Q
  BY <1>1, SetInduction, Zenon
<1>3. QED
  BY <1>2 DEF Q

(* The order does not matter. *)
LEMMA AddsInAnyOrder ==
    ASSUME NEW S, IsFiniteSet(S), NEW f \in [S -> Nat], NEW it, Adds(it, f, S)
    PROVE  \A s \in SUBSET S : \A x \in s : it[s] = f[x] + it[s \ {x}]
<1> DEFINE Q == {s \in SUBSET S : \A x \in s : it[s] = f[x] + it[s \ {x}]}
<1>0. Unfolds(it, f, S)
  BY AddsUnfold
<1>1. ASSUME NEW s \in SUBSET S, \A x \in s : s \ {x} \in Q PROVE s \in Q
  <2>1. CASE s = {}
    BY <2>1
  <2>2. CASE s # {}
    <3> DEFINE c == Any(s)
    <3>1. c \in s
      BY <2>2, AnyIsIn
    <3>2. it[s] = f[c] + it[s \ {c}]
      BY <1>0, <2>2 DEF Unfolds
    <3> HIDE DEF c
    <3>3. ASSUME NEW x \in s, x # c PROVE it[s] = f[x] + it[s \ {x}]
      <4> DEFINE u == (s \ {c}) \ {x}
      <4>1. u = (s \ {x}) \ {c}
        OBVIOUS
      <4>2. it[s \ {c}] = f[x] + it[u]
        BY <1>1, <3>1, <3>3
      <4>3. it[s \ {x}] = f[c] + it[u]
        BY <1>1, <3>1, <3>3, <4>1
      <4>4. it[u] \in Nat
        BY AddsType
      <4>5. f[x] \in Nat /\ f[c] \in Nat
        BY <3>1
      <4> HIDE DEF u
      <4>6. QED
        BY <3>2, <4>2, <4>3, <4>4, <4>5
    <3>4. QED
      BY <3>2, <3>3, Zenon
  <2>3. QED
    BY <2>1, <2>2
<1> HIDE DEF Q
<1>2. \A s \in SUBSET S : s \in Q
  BY <1>1, SetInduction, Zenon
<1>3. QED
  BY <1>2, Zenon DEF Q

(* The sum over a part depends on the values in it only. *)
LEMMA AddsAgree ==
    ASSUME NEW S, IsFiniteSet(S), NEW T \in SUBSET S, NEW f, NEW g, \A x \in T : g[x] = f[x],
           NEW a, Adds(a, f, S), NEW b, Adds(b, g, T)
    PROVE  \A s \in SUBSET T : a[s] = b[s]
<1> DEFINE Q == {s \in SUBSET T : a[s] = b[s]}
<1>0. IsFiniteSet(T)
  BY FS_Subset
<1>1. ASSUME NEW s \in SUBSET T, \A x \in s : s \ {x} \in Q PROVE s \in Q
  <2>1. CASE s = {}
    <3>1. a[{}] = 0 /\ b[{}] = 0
      BY AddsUnfold DEF Unfolds
    <3>2. QED
      BY <2>1, <3>1
  <2>2. CASE s # {}
    <3>1. Any(s) \in s
      BY <2>2, AnyIsIn
    <3>2. a[s] = f[Any(s)] + a[s \ {Any(s)}] /\ b[s] = g[Any(s)] + b[s \ {Any(s)}]
      BY <2>2, AddsUnfold DEF Unfolds
    <3>3. a[s \ {Any(s)}] = b[s \ {Any(s)}] /\ f[Any(s)] = g[Any(s)]
      BY <1>1, <3>1
    <3>4. QED
      BY <3>2, <3>3
  <2>3. QED
    BY <2>1, <2>2
<1> HIDE DEF Q
<1>2. \A s \in SUBSET T : s \in Q
  BY <1>0, <1>1, SetInduction, Zenon
<1>3. QED
  BY <1>2 DEF Q

LEMMA SumEmpty ==
    ASSUME NEW f, DOMAIN f = {}
    PROVE  SumFunction(f) = 0
<1> DEFINE it == CHOOSE it : Adds(it, f, {})
<1>1. Adds(it, f, {})
  BY AddsExist, FS_EmptySet
<1>2. SumFunction(f) = it[{}]
  BY SumIsLast
<1> HIDE DEF it
<1>3. QED
  BY <1>1, <1>2, AddsUnfold DEF Unfolds

LEMMA SumStep ==
    ASSUME NEW S, IsFiniteSet(S), NEW f \in [S -> Nat]
    PROVE  /\ SumFunction(f) \in Nat
           /\ \A x \in S : SumFunction(f) = f[x] + SumFunction([i \in S \ {x} |-> f[i]])
<1> DEFINE a == CHOOSE it : Adds(it, f, S)
<1>1. Adds(a, f, S)
  BY AddsExist
<1>2. SumFunction(f) = a[S]
  BY SumIsLast
<1> HIDE DEF a
<1>3. SumFunction(f) \in Nat
  BY <1>1, <1>2, AddsType
<1>4. ASSUME NEW x \in S PROVE SumFunction(f) = f[x] + SumFunction([i \in S \ {x} |-> f[i]])
  <2> DEFINE T == S \ {x}
             g == [i \in T |-> f[i]]
             b == CHOOSE it : Adds(it, g, T)
  <2>1. T \in SUBSET S /\ IsFiniteSet(T) /\ DOMAIN g = T /\ \A i \in T : g[i] = f[i]
    BY FS_Subset
  <2> HIDE DEF T, g
  <2>2. Adds(b, g, T)
    BY <2>1, AddsExist
  <2>3. SumFunction(g) = b[T]
    BY <2>1, SumIsLast
  <2> HIDE DEF b
  <2>4. a[T] = b[T]
    BY <1>1, <2>1, <2>2, AddsAgree
  <2>5. a[S] = f[x] + a[T]
    BY <1>1, AddsInAnyOrder DEF T
  <2>6. QED
    BY <1>2, <2>3, <2>4, <2>5 DEF T, g
<1>5. QED
  BY <1>3, <1>4

(* f on the part s of its domain. *)
Part(f, s) == [i \in s |-> f[i]]

LEMMA PartStep ==
    ASSUME NEW S, IsFiniteSet(S), NEW f \in [S -> Nat], NEW s \in SUBSET S
    PROVE  /\ SumFunction(Part(f, s)) \in Nat
           /\ \A x \in s : SumFunction(Part(f, s)) = f[x] + SumFunction(Part(f, s \ {x}))
<1> DEFINE g == Part(f, s)
<1>1. IsFiniteSet(s) /\ g \in [s -> Nat]
  BY FS_Subset DEF Part
<1>2. \A x \in s : g[x] = f[x]
  BY DEF Part
<1>3. \A x \in s : [i \in s \ {x} |-> g[i]] = Part(f, s \ {x})
  BY DEF Part
<1> HIDE DEF g
<1>4. /\ SumFunction(g) \in Nat
      /\ \A x \in s : SumFunction(g) = g[x] + SumFunction([i \in s \ {x} |-> g[i]])
  BY <1>1, SumStep
<1>5. QED
  BY <1>2, <1>3, <1>4, Zenon DEF g

LEMMA SumOneOff ==
    ASSUME NEW S, IsFiniteSet(S), NEW f \in [S -> Nat], NEW x \in S
    PROVE  /\ SumFunction(f) = f[x] + SumFunction(Part(f, S \ {x}))
           /\ SumFunction(f) \in Nat /\ SumFunction(Part(f, S \ {x})) \in Nat
<1>1. Part(f, S) = f /\ S \in SUBSET S /\ S \ {x} \in SUBSET S
  BY DEF Part
<1>2. QED
  BY <1>1, PartStep

(* Terms of zero can be left out. *)
LEMMA SumDropsZeros ==
    ASSUME NEW S, IsFiniteSet(S), NEW f \in [S -> Nat], NEW I \in SUBSET S,
           \A i \in S \ I : f[i] = 0
    PROVE  SumFunction(f) = SumFunction(Part(f, I))
<1> DEFINE Q == {s \in SUBSET (S \ I) : SumFunction(Part(f, I \cup s)) = SumFunction(Part(f, I))}
<1>1. ASSUME NEW s \in SUBSET (S \ I), \A x \in s : s \ {x} \in Q PROVE s \in Q
  <2>1. CASE s = {}
    BY <2>1
  <2>2. CASE s # {}
    <3>1. PICK x \in s : TRUE
      BY <2>2
    <3>2. I \cup s \in SUBSET S /\ x \in I \cup s /\ (I \cup s) \ {x} = I \cup (s \ {x}) /\ f[x] = 0
      BY <3>1
    <3>3. SumFunction(Part(f, I \cup s)) = f[x] + SumFunction(Part(f, (I \cup s) \ {x}))
      BY <3>2, PartStep
    <3>4. SumFunction(Part(f, I \cup (s \ {x}))) = SumFunction(Part(f, I)) /\ SumFunction(Part(f, I)) \in Nat
      BY <1>1, PartStep
    <3>5. QED
      BY <3>2, <3>3, <3>4
  <2>3. QED
    BY <2>1, <2>2
<1> HIDE DEF Q
<1>2. IsFiniteSet(S \ I)
  BY FS_Subset
<1>3. S \ I \in Q
  <2> DEFINE U == S \ I
  <2>1. IsFiniteSet(U) /\ \A s \in SUBSET U : (\A x \in s : s \ {x} \in Q) => s \in Q
    BY <1>1, <1>2
  <2> HIDE DEF U
  <2>2. \A s \in SUBSET U : s \in Q
    BY <2>1, SetInduction, Zenon
  <2>3. QED
    BY <2>2 DEF U
<1>4. I \cup (S \ I) = S /\ Part(f, S) = f
  BY DEF Part
<1>5. QED
  BY <1>3, <1>4 DEF Q

(* b finds every term of g among those of f, and all others are zero. *)
Matches(b, g, T, f, S) ==
    /\ g \in [T -> Nat] /\ f \in [S -> Nat] /\ b \in [T -> S]
    /\ \A t, u \in T : b[t] = b[u] => t = u
    /\ \A t \in T : f[b[t]] = g[t]
    /\ \A i \in S : (\A t \in T : b[t] # i) => f[i] = 0

LEMMA SumMatch ==
    ASSUME NEW T, IsFiniteSet(T), NEW S, IsFiniteSet(S), NEW f, NEW g, NEW b, Matches(b, g, T, f, S)
    PROVE  SumFunction(f) = SumFunction(g)
<1>0. /\ g \in [T -> Nat] /\ f \in [S -> Nat] /\ b \in [T -> S]
      /\ \A t, u \in T : b[t] = b[u] => t = u
      /\ \A t \in T : f[b[t]] = g[t]
      /\ \A i \in S : (\A t \in T : b[t] # i) => f[i] = 0
  BY DEF Matches
<1> DEFINE Im(s) == {b[t] : t \in s}
           Q == {s \in SUBSET T : SumFunction(Part(f, Im(s))) = SumFunction(Part(g, s))}
<1>1. ASSUME NEW s \in SUBSET T, \A x \in s : s \ {x} \in Q PROVE s \in Q
  <2>1. CASE s = {}
    <3>1. DOMAIN Part(f, Im(s)) = {} /\ DOMAIN Part(g, s) = {}
      BY <2>1 DEF Part
    <3>2. QED
      BY <3>1, SumEmpty
  <2>2. CASE s # {}
    <3>1. PICK x \in s : TRUE
      BY <2>2
    <3>2. Im(s) \in SUBSET S /\ b[x] \in Im(s) /\ Im(s) \ {b[x]} = Im(s \ {x}) /\ f[b[x]] = g[x]
      BY <1>0, <3>1
    <3> HIDE DEF Im
    <3>3. SumFunction(Part(f, Im(s))) = f[b[x]] + SumFunction(Part(f, Im(s) \ {b[x]}))
      BY <1>0, <3>2, PartStep
    <3>4. SumFunction(Part(g, s)) = g[x] + SumFunction(Part(g, s \ {x}))
      BY <1>0, PartStep
    <3>5. SumFunction(Part(f, Im(s \ {x}))) = SumFunction(Part(g, s \ {x}))
      BY <1>1
    <3>6. QED
      BY <3>2, <3>3, <3>4, <3>5
  <2>3. QED
    BY <2>1, <2>2
<1>2. Im(T) \in SUBSET S /\ \A i \in S \ Im(T) : f[i] = 0
  BY <1>0
<1>3. Part(g, T) = g
  BY <1>0 DEF Part
<1> HIDE DEF Q, Im
<1>4. T \in Q
  <2>1. \A s \in SUBSET T : (\A x \in s : s \ {x} \in Q) => s \in Q
    BY <1>1, Zenon
  <2>2. \A s \in SUBSET T : s \in Q
    BY <2>1, SetInduction
  <2>3. QED
    BY <2>2, Zenon
<1>5. SumFunction(f) = SumFunction(Part(f, Im(T)))
  BY <1>0, <1>2, SumDropsZeros
<1>6. QED
  BY <1>3, <1>4, <1>5 DEF Q

-----------------------------------------------------------------------------
(* The ring.                                                               *)

(* Numbers with the same remainder are at least a divisor apart. *)
LEMMA SameRemainder ==
    ASSUME NEW n \in Nat, n > 0, NEW a \in Nat, NEW b \in Nat
    PROVE  /\ a % n \in 0 .. n - 1
           /\ (a + n) % n = a % n
           /\ a % n = b % n /\ a < b => a + n <= b
<1>1. \A x \in Nat : x \div n \in Nat /\ x % n \in 0 .. n - 1 /\ x = (x \div n) * n + (x % n)
  OBVIOUS
<1>2. \A q \in Nat, r \in 0 .. n - 1 : (q * n + r) % n = r
  OBVIOUS
<1> DEFINE p == a \div n
           q == b \div n
           r == a % n
<1>3. p \in Nat /\ r \in 0 .. n - 1 /\ a = p * n + r /\ q \in Nat /\ b = q * n + (b % n)
  BY <1>1
<1>0. \A x, y \in Nat : x * y \in Nat
  OBVIOUS
<1> HIDE DEF p, q
<1>4. p * n \in Nat /\ q * n \in Nat
  BY <1>0, <1>3, Zenon
<1>5. (a + n) % n = r
  <2>1. (p + 1) * n = p * n + n
    BY <1>3
  <2>2. a + n = (p + 1) * n + r
    BY <1>3, <1>4, <2>1
  <2>3. p + 1 \in Nat
    BY <1>3
  <2>4. ((p + 1) * n + r) % n = r
    BY <1>2, <1>3, <2>3, Zenon
  <2>5. QED
    BY <2>2, <2>4
<1>6. ASSUME r = b % n, a < b PROVE a + n <= b
  <2>1. p * n < q * n
    BY <1>3, <1>4, <1>6
  <2>2. \A x, y, z \in Nat : z > 0 /\ x * z < y * z => x * z + z <= y * z
    <3> SUFFICES ASSUME NEW x \in Nat, NEW y \in Nat, NEW z \in Nat, z > 0, x * z < y * z
                 PROVE  x * z + z <= y * z
      OBVIOUS
    <3>1. x < y
      <4>1. \A u, v \in Nat : u >= v => u * z >= v * z
        OBVIOUS
      <4>2. x * z \in Nat /\ y * z \in Nat
        OBVIOUS
      <4>3. QED
        BY <4>1, <4>2
    <3>2. PICK d \in Nat : y = x + 1 + d
      <4>1. y - x - 1 \in Nat /\ y = x + 1 + (y - x - 1)
        BY <3>1
      <4>2. QED
        BY <4>1
    <3>3. y * z = x * z + z + d * z
      BY <3>2
    <3>4. d * z \in Nat /\ x * z \in Nat
      OBVIOUS
    <3>5. QED
      BY <3>3, <3>4
  <2>3. p * n + n <= q * n
    BY <1>3, <2>1, <2>2
  <2>4. QED
    BY <1>3, <1>4, <1>6, <2>3
<1>7. QED
  BY <1>3, <1>5, <1>6

(* val[i] is what slot i holds of the counts h, as SlotInv has it. *)
Holds(ts, val, h, i) ==
    \/ /\ ts % SlotCount = i /\ val = h[ts]
       /\ \A t \in 0 .. MaxTime : t % SlotCount = i /\ t > ts => h[t] = 0
    \/ val = 0 /\ \A t \in 0 .. MaxTime : t % SlotCount = i => h[t] = 0

AddUpAlike(ts, val, h, r) ==
    SumFunction([i \in {j \in 0 .. SlotCount - 1 : ts[j] + SlotCount >= r} |-> val[i]])
      = SumFunction([t \in {u \in 0 .. MaxTime : u <= r /\ u + SlotCount > r} |-> h[t]])

AllHold(ts, val, h, r) ==
    \A i \in 0 .. SlotCount - 1 : ts[i] <= r /\ Holds(ts[i], val[i], h, i)

(* The fresh slots add up to the last SlotCount seconds. *)
LEMMA FreshIsRecent ==
    ASSUME NEW ts \in [0 .. SlotCount - 1 -> Nat], NEW val \in [0 .. SlotCount - 1 -> Nat],
           NEW h \in [0 .. MaxTime -> Nat], NEW r \in 0 .. MaxTime,
           AllHold(ts, val, h, r), ts[r % SlotCount] = r
    PROVE  AddUpAlike(ts, val, h, r)
<1> USE DEF AllHold
<1> DEFINE S == 0 .. SlotCount - 1
           T == {u \in 0 .. MaxTime : u <= r /\ u + SlotCount > r}
           F == {j \in S : ts[j] + SlotCount >= r}
           g == [t \in T |-> h[t]]
           f == [i \in S |-> IF i \in F THEN val[i] ELSE 0]
           b == [t \in T |-> t % SlotCount]
<1>0. SlotCount \in Nat /\ SlotCount > 0 /\ MaxTime \in Nat /\ r \in Nat
  BY BrutalAssumption
<1>1. IsFiniteSet(S) /\ IsFiniteSet(T)
  <2>1. IsFiniteSet(0 .. SlotCount - 1) /\ IsFiniteSet(0 .. MaxTime)
    BY <1>0, FS_Interval
  <2>2. T \in SUBSET (0 .. MaxTime)
    OBVIOUS
  <2>3. QED
    BY <2>1, <2>2, FS_Subset, Zenon
<1>2. \A t \in T : t \in Nat /\ t \in 0 .. MaxTime /\ t <= r /\ t + SlotCount > r /\ t % SlotCount \in S
  <2>1. \A t \in Nat : t % SlotCount \in S
    BY <1>0, SameRemainder
  <2>2. QED
    BY <1>0, <2>1
<1>3. g \in [T -> Nat] /\ f \in [S -> Nat] /\ b \in [T -> S]
  BY <1>2
<1>4. ASSUME NEW t \in T, NEW u \in T, t % SlotCount = u % SlotCount PROVE t = u
  <2>1. (t < u => t + SlotCount <= u) /\ (u < t => u + SlotCount <= t)
    BY <1>0, <1>2, <1>4, SameRemainder, Zenon
  <2>2. QED
    BY <1>0, <1>2, <2>1
<1>5. ASSUME NEW t \in T PROVE f[t % SlotCount] = h[t]
  <2> DEFINE i == t % SlotCount
             x == ts[i]
  <2>1. /\ i \in S /\ t \in Nat /\ t \in 0 .. MaxTime /\ t <= r /\ t + SlotCount > r
        /\ x \in Nat /\ x <= r /\ Holds(x, val[i], h, i)
    BY <1>2
  <2>2. f[i] = IF x + SlotCount >= r THEN val[i] ELSE 0
    BY <2>1
  <2>3. r % SlotCount = i => x = r
    OBVIOUS
  <2>4. x % SlotCount = i => (x < t => x + SlotCount <= t) /\ (t < x => t + SlotCount <= x)
    BY <1>0, <2>1, SameRemainder, Zenon
  <2>5. t = r => r % SlotCount = i
    OBVIOUS
  <2> HIDE DEF x, i, f
  <2>6. CASE val[i] = 0 /\ h[t] = 0
    BY <2>2, <2>6 DEF i
  <2>7. CASE x % SlotCount = i /\ val[i] = h[x] /\ (t > x => h[t] = 0)
    <3>1. CASE x = t
      BY <1>0, <2>1, <2>2, <2>7, <3>1 DEF i
    <3>2. CASE x < t
      <4>1. ~(x + SlotCount >= r)
        BY <1>0, <2>1, <2>3, <2>4, <2>5, <2>7, <3>2
      <4>2. QED
        BY <2>1, <2>2, <2>7, <3>2, <4>1 DEF i
    <3>3. CASE x > t
      BY <1>0, <2>1, <2>4, <2>7, <3>3
    <3>4. QED
      BY <2>1, <3>1, <3>2, <3>3
  <2>8. QED
    BY <2>1, <2>6, <2>7 DEF Holds, i
<1>6. ASSUME NEW i \in S, \A t \in T : t % SlotCount # i PROVE f[i] = 0
  <2>1. ts[i] \in Nat /\ ts[i] <= r /\ Holds(ts[i], val[i], h, i)
    OBVIOUS
  <2>2. CASE val[i] = 0
    BY <2>2
  <2>3. CASE ts[i] % SlotCount = i
    <3>0. r \in T
      BY <1>0
    <3>1. ts[i] \notin T
      BY <1>6, <2>3
    <3>2. ~(ts[i] + SlotCount > r)
      BY <1>0, <2>1, <3>1
    <3>3. ts[i] + SlotCount # r
      BY <1>0, <1>6, <2>1, <2>3, <3>0, SameRemainder, Zenon
    <3>4. ~(ts[i] + SlotCount >= r)
      <4> DEFINE x == ts[i] + SlotCount
      <4>1. x \in Nat
        BY <1>0, <2>1, SMTT(30)
      <4>0. ~(x > r) /\ x # r
        BY <3>2, <3>3, Zenon
      <4> HIDE DEF x
      <4>2. ~(x >= r)
        BY <1>0, <4>0, <4>1
      <4>3. QED
        BY <4>2, Zenon DEF x
    <3>5. QED
      BY <3>4
  <2>4. QED
    BY <2>1, <2>2, <2>3 DEF Holds
<1>7. F \in SUBSET S /\ (\A i \in S \ F : f[i] = 0) /\ Part(f, F) = [i \in F |-> val[i]]
  BY DEF Part
<1>8. /\ \A t, u \in T : b[t] = b[u] => t = u
      /\ \A t \in T : f[b[t]] = g[t]
      /\ \A i \in S : (\A t \in T : b[t] # i) => f[i] = 0
  <2> HIDE DEF f
  <2>1. QED
    BY <1>4, <1>5, <1>6
<1> HIDE DEF S, T, F, f, g, b
<1>9. SumFunction(f) = SumFunction(g)
  <2>1. Matches(b, g, T, f, S)
    BY <1>3, <1>8 DEF Matches
  <2>2. QED
    BY <1>1, <2>1, SumMatch
<1>10. SumFunction(f) = SumFunction([i \in F |-> val[i]])
  <2>1. SumFunction(f) = SumFunction(Part(f, F))
    BY <1>1, <1>3, <1>7, SumDropsZeros, Zenon
  <2>2. QED
    BY <1>7, <2>1
<1>11. QED
  BY <1>9, <1>10 DEF F, T, S, g, AddUpAlike

-----------------------------------------------------------------------------
(* The rate and the window.                                                *)

LEMMA Products ==
    /\ \A a, b \in Nat : a * b \in Nat /\ a * b = b * a
    /\ \A a, b, c \in Nat : a * b * c = a * c * b
    /\ \A a, b, c \in Nat : a <= b => a * c <= b * c
    /\ \A a, b, c \in Nat : c > 0 /\ a * c <= b * c => a <= b
    /\ \A a, b \in Nat : a > 0 /\ b > 0 => a * b > 0
<1>1. \A a, b \in Nat : a * b \in Nat /\ a * b = b * a
  OBVIOUS
<1>2. \A a, b, c \in Nat : a * b * c = a * c * b
  OBVIOUS
<1>3. \A a, b, c \in Nat : a <= b => a * c <= b * c
  OBVIOUS
<1>4. \A a, b, c \in Nat : c > 0 /\ a * c <= b * c => a <= b
  OBVIOUS
<1>5. \A a, b \in Nat : a > 0 /\ b > 0 => a * b > 0
  OBVIOUS
<1>6. QED
  BY <1>1, <1>2, <1>3, <1>4, <1>5

LEMMA DivIff ==
    ASSUME NEW y \in Nat, NEW n \in Nat, n > 0, NEW q \in Nat
    PROVE  y \div n \in Nat /\ (q <= y \div n <=> q * n <= y)
<1> DEFINE k == y \div n
           r == y % n
<1>1. k \in Nat /\ r \in 0 .. n - 1 /\ y = k * n + r
  OBVIOUS
<1> HIDE DEF k, r
<1>2. k * n \in Nat /\ q * n \in Nat
  BY <1>1, Products
<1>3. q <= k => q * n <= k * n
  BY <1>1, Products
<1>4. ASSUME q >= k + 1 PROVE q * n >= k * n + n
  <2>1. (k + 1) * n <= q * n
    BY <1>1, <1>4, Products
  <2>2. (k + 1) * n = k * n + n
    BY <1>1
  <2>3. QED
    BY <2>1, <2>2
<1>5. QED
  BY <1>1, <1>2, <1>3, <1>4 DEF k

(* Dividing by the ACK rate d / n of at most 1 does not make x smaller,    *)
(* nor larger than dividing by m / k does, if the rate is at least m / k.  *)
LEMMA DividedByRate ==
    ASSUME NEW x \in Nat, NEW n \in Nat, NEW d \in Nat, NEW m \in Nat, NEW k \in Nat,
           n > 0, n <= d, d * m <= n * k
    PROVE  /\ (x * d) \div n \in Nat /\ (x * d) \div n >= x
           /\ ((x * d) \div n) * m <= x * k
<1> DEFINE y == x * d
           w == y \div n
<1>1. y \in Nat /\ x * n <= y
  <2>1. n * x <= d * x
    BY Products
  <2>2. n * x = x * n /\ d * x = y /\ y \in Nat
    BY Products
  <2>3. QED
    BY <2>1, <2>2
<1> HIDE DEF y
<1>2. w \in Nat /\ x <= w /\ w * n <= y
  <2>1. w \in Nat /\ (x <= w <=> x * n <= y)
    BY <1>1, DivIff
  <2>2. w <= w <=> w * n <= y
    BY <1>1, <2>1, DivIff
  <2>3. QED
    BY <1>1, <2>1, <2>2
<1> HIDE DEF w
<1>3. w * n * m <= y * m
  <2>1. w * n \in Nat
    BY <1>2, Products
  <2>2. QED
    BY <1>1, <1>2, <2>1, Products
<1>4. y * m <= n * k * x
  <2>1. d * m \in Nat /\ n * k \in Nat
    BY Products
  <2>2. d * m * x <= n * k * x
    BY <2>1, Products
  <2>3. y = d * x /\ d * x * m = d * m * x
    BY Products DEF y
  <2>4. QED
    BY <2>2, <2>3
<1>5. n * k * x = x * k * n
  <2>1. n * k * x = n * x * k /\ n * x = x * n /\ x * n * k = x * k * n
    BY Products
  <2>2. QED
    BY <2>1, Zenon
<1>6. w * m * n = w * n * m
  BY <1>2, Products
<1>7. w * m * n <= x * k * n
  <2>1. w * n * m \in Nat /\ y * m \in Nat /\ n * k * x \in Nat
    <3>1. w * n \in Nat /\ n * k \in Nat
      BY <1>2, Products
    <3>2. QED
      BY <1>1, <3>1, Products
  <2> DEFINE a == w * n * m
             b == y * m
             c == n * k * x
  <2>2. a <= b /\ b <= c /\ a \in Nat /\ b \in Nat /\ c \in Nat
    BY <1>3, <1>4, <2>1
  <2> HIDE DEF a, b, c
  <2>3. a <= c
    BY <2>2
  <2>4. QED
    BY <1>5, <1>6, <2>3, Zenon DEF a, c
<1>8. w * m <= x * k
  <2>1. w * m \in Nat /\ x * k \in Nat
    BY <1>2, Products
  <2>2. QED
    BY <1>7, <2>1, Products
<1>9. QED
  BY <1>1, <1>2, <1>8 DEF w, y

(* Dividing by a smaller rate gives no less. *)
LEMMA DividedByLess ==
    ASSUME NEW x \in Nat, NEW n \in Nat, NEW d \in Nat, NEW p \in Nat, NEW e \in Nat,
           n > 0, p > 0, d * p <= e * n
    PROVE  /\ (x * d) \div n \in Nat /\ (x * e) \div p \in Nat
           /\ (x * d) \div n <= (x * e) \div p
<1> DEFINE y == x * d
           z == x * e
           q == y \div n
<1>1. y \in Nat /\ z \in Nat
  BY Products
<1>2. y = d * x /\ z = e * x
  BY Products
<1> HIDE DEF y, z
<1>3. q \in Nat /\ q * n <= y
  <2>1. q \in Nat
    BY <1>1, DivIff
  <2>2. q <= q <=> q * n <= y
    BY <1>1, <2>1, DivIff
  <2>3. QED
    BY <2>1, <2>2
<1> HIDE DEF q
<1>4. q * n * p <= y * p
  <2>1. q * n \in Nat
    BY <1>3, Products
  <2>2. QED
    BY <1>1, <1>3, <2>1, Products
<1>5. y * p <= z * n
  <2>1. d * p \in Nat /\ e * n \in Nat
    BY Products
  <2>2. d * p * x <= e * n * x
    BY <2>1, Products
  <2>3. d * x * p = d * p * x /\ e * x * n = e * n * x
    BY Products
  <2>4. QED
    BY <1>2, <2>2, <2>3
<1>6. q * p * n = q * n * p
  BY <1>3, Products
<1>7. q * p * n <= z * n
  <2>1. q * n * p \in Nat /\ y * p \in Nat /\ z * n \in Nat
    <3>1. q * n \in Nat
      BY <1>3, Products
    <3>2. QED
      BY <1>1, <3>1, Products
  <2> DEFINE a == q * n * p
             b == y * p
             c == z * n
  <2>2. a <= b /\ b <= c /\ a \in Nat /\ b \in Nat /\ c \in Nat
    BY <1>4, <1>5, <2>1
  <2> HIDE DEF a, b, c
  <2>3. a <= c
    BY <2>2
  <2>4. QED
    BY <1>6, <2>3, Zenon DEF a, c
<1>8. q * p <= z
  <2>1. q * p \in Nat
    BY <1>3, Products
  <2>2. QED
    BY <1>1, <1>7, <2>1, Products
<1>9. z \div p \in Nat /\ q <= z \div p
  BY <1>1, <1>3, <1>8, DivIff
<1>10. QED
  BY <1>3, <1>9 DEF q, y, z

(* The rate for so many packets acked and lost. *)
AckRate(acks, losses) ==
    IF acks + losses < MinSampleCount THEN <<1, 1>>
    ELSE IF acks * MinRate[2] < MinRate[1] * (acks + losses) THEN MinRate
    ELSE <<acks, acks + losses>>

(* A rate is between MinRate and 1. *)
IsRate(p) ==
    /\ p[1] \in Nat /\ p[2] \in Nat /\ p[1] > 0
    /\ p[1] <= p[2] /\ p[2] * MinRate[1] <= p[1] * MinRate[2]

LEMMA AckRateIsRate ==
    ASSUME NEW a \in Nat, NEW l \in Nat
    PROVE  IsRate(AckRate(a, l))
<1> DEFINE m == MinRate[1]
           n == MinRate[2]
           t == a + l
<1>1. m \in Nat /\ m > 0 /\ n \in Nat /\ m <= n /\ MinSampleCount \in Nat /\ MinSampleCount > 0
  BY BrutalAssumption
<1>2. t \in Nat /\ a <= t
  OBVIOUS
<1> HIDE DEF m, n, t
<1>3. CASE t < MinSampleCount
  <2>1. AckRate(a, l) = <<1, 1>>
    BY <1>3 DEF AckRate, t
  <2>2. 1 * m <= 1 * n
    BY <1>1
  <2>3. QED
    BY <2>1, <2>2 DEF IsRate, m, n
<1>4. CASE t >= MinSampleCount /\ a * n < m * t
  <2>1. AckRate(a, l) = MinRate
    BY <1>1, <1>2, <1>4 DEF AckRate, t, m, n
  <2>2. n * m <= m * n
    BY <1>1, Products
  <2>3. QED
    BY <1>1, <2>1, <2>2 DEF IsRate, m, n
<1>5. CASE t >= MinSampleCount /\ ~(a * n < m * t)
  <2>1. AckRate(a, l) = <<a, t>>
    BY <1>1, <1>2, <1>5 DEF AckRate, t, m, n
  <2>2. a * n \in Nat /\ m * t \in Nat /\ m * t = t * m /\ m * t > 0
    BY <1>1, <1>2, <1>5, Products
  <2>3. t * m <= a * n
    BY <1>5, <2>2
  <2>4. a > 0
    <3>1. 0 * n = 0
      BY <1>1
    <3>2. a # 0
      BY <2>2, <2>3, <3>1
    <3>3. QED
      BY <3>2
  <2>5. QED
    BY <1>2, <2>1, <2>3, <2>4 DEF IsRate, m, n
<1>6. QED
  BY <1>1, <1>2, <1>3, <1>4, <1>5

(* More losses never give a higher rate. *)
LEMMA MoreLosses ==
    ASSUME NEW a \in Nat, NEW l \in Nat, NEW k \in Nat, l <= k
    PROVE  AckRate(a, l)[2] * AckRate(a, k)[1] <= AckRate(a, k)[2] * AckRate(a, l)[1]
<1> DEFINE m == MinRate[1]
           n == MinRate[2]
           t == a + l
           u == a + k
           p == AckRate(a, l)
           q == AckRate(a, k)
<1>1. m \in Nat /\ m > 0 /\ n \in Nat /\ m <= n /\ MinSampleCount \in Nat /\ MinSampleCount > 0
  BY BrutalAssumption
<1>2. t \in Nat /\ u \in Nat /\ a <= t /\ t <= u
  OBVIOUS
<1>3. IsRate(p) /\ IsRate(q)
  BY AckRateIsRate
<1>4. \/ t < MinSampleCount /\ p = <<1, 1>>
      \/ t >= MinSampleCount /\ a * n < m * t /\ p = MinRate
      \/ t >= MinSampleCount /\ ~(a * n < m * t) /\ p = <<a, t>>
  BY <1>1, <1>2 DEF AckRate
<1>5. \/ u < MinSampleCount /\ q = <<1, 1>>
      \/ u >= MinSampleCount /\ a * n < m * u /\ q = MinRate
      \/ u >= MinSampleCount /\ ~(a * n < m * u) /\ q = <<a, u>>
  BY <1>1, <1>2 DEF AckRate
<1>0. a * n \in Nat /\ m * t \in Nat /\ m * u \in Nat
  BY <1>1, <1>2, Products
<1>6. m * t <= m * u /\ t * m = m * t /\ u * m = m * u
  BY <1>1, <1>2, Products
<1> HIDE DEF m, n, t, u, p, q
<1>7. CASE p = <<1, 1>>
  <2>1. p[1] = 1 /\ p[2] = 1 /\ 1 * q[1] = q[1] /\ q[2] * 1 = q[2]
    BY <1>3, <1>7 DEF IsRate
  <2>2. QED
    BY <1>3, <2>1 DEF IsRate, p, q
<1>8. CASE t >= MinSampleCount /\ a * n < m * t /\ p = MinRate
  <2>1. q = MinRate
    BY <1>0, <1>1, <1>2, <1>5, <1>6, <1>8
  <2>2. p[2] * q[1] <= q[2] * p[1]
    BY <1>1, <1>8, <2>1 DEF m, n
  <2>3. QED
    BY <2>2 DEF p, q
<1>9. CASE t >= MinSampleCount /\ ~(a * n < m * t) /\ p = <<a, t>>
  <2>1. CASE q = MinRate
    <3>1. t * m <= n * a
      <4>1. a * n = n * a
        BY <1>1, Products
      <4>2. QED
        BY <1>0, <1>6, <1>9, <4>1
    <3>2. p[2] * q[1] <= q[2] * p[1]
      BY <1>9, <2>1, <3>1 DEF m, n
    <3>3. QED
      BY <3>2 DEF p, q
  <2>2. CASE q = <<a, u>>
    <3>1. t * a <= u * a
      BY <1>2, Products
    <3>2. p[2] * q[1] <= q[2] * p[1]
      BY <1>9, <2>2, <3>1
    <3>3. QED
      BY <3>2 DEF p, q
  <2>3. QED
    BY <1>1, <1>2, <1>5, <1>9, <2>1, <2>2
<1>10. QED
  BY <1>4, <1>7, <1>8, <1>9

Ring == [0 .. SlotCount - 1 -> [ts : Nat, ack : Nat, loss : Nat]]

Fresh(s, ts) == {i \in 0 .. SlotCount - 1 : s[i].ts + SlotCount >= ts}

Acks(s, ts) == SumFunction([i \in Fresh(s, ts) |-> s[i].ack])

Losses(s, ts) == SumFunction([i \in Fresh(s, ts) |-> s[i].loss])

LEMMA RingFinite == IsFiniteSet(0 .. SlotCount - 1)
<1>1. 0 \in Int /\ SlotCount - 1 \in Int
  BY BrutalAssumption
<1>2. QED
  BY <1>1, FS_Interval

LEMMA UpdatedIsAckRate ==
    ASSUME NEW s \in Ring, NEW ts \in Nat
    PROVE  /\ UpdatedAckRate(s, ts) = AckRate(Acks(s, ts), Losses(s, ts))
           /\ Acks(s, ts) \in Nat /\ Losses(s, ts) \in Nat
           /\ IsRate(UpdatedAckRate(s, ts))
<1>1. DOMAIN s = 0 .. SlotCount - 1
  BY DEF Ring
<1>2. UpdatedAckRate(s, ts) = AckRate(Acks(s, ts), Losses(s, ts))
  BY <1>1 DEF UpdatedAckRate, AckRate, Acks, Losses, Fresh
<1> DEFINE F == Fresh(s, ts)
           f == [i \in F |-> s[i].ack]
           g == [i \in F |-> s[i].loss]
<1>3. IsFiniteSet(F)
  BY RingFinite, FS_Subset, Zenon DEF Fresh
<1>4. f \in [F -> Nat] /\ g \in [F -> Nat]
  BY DEF Fresh, Ring
<1> HIDE DEF F, f, g
<1>5. SumFunction(f) \in Nat /\ SumFunction(g) \in Nat
  BY <1>3, <1>4, SumStep
<1>6. Acks(s, ts) \in Nat /\ Losses(s, ts) \in Nat
  BY <1>5 DEF Acks, Losses, F, f, g
<1>7. QED
  BY <1>2, <1>6, AckRateIsRate

(* Losses added to the slot of this second are added to the sum. *)
LEMMA LossesAdd ==
    ASSUME NEW s \in Ring, NEW ts \in Nat, NEW k \in 0 .. SlotCount - 1, s[k].ts = ts,
           NEW l \in Nat, NEW z \in Ring, z[k].loss = s[k].loss + l,
           \A i \in 0 .. SlotCount - 1 : z[i].ts = s[i].ts /\ z[i].ack = s[i].ack,
           \A i \in 0 .. SlotCount - 1 : i # k => z[i].loss = s[i].loss
    PROVE  Acks(z, ts) = Acks(s, ts) /\ Losses(z, ts) = Losses(s, ts) + l
<1>0. SlotCount \in Nat /\ SlotCount > 0
  BY BrutalAssumption
<1>2. Fresh(z, ts) = Fresh(s, ts) /\ k \in Fresh(s, ts)
  BY <1>0, SMTT(30) DEF Fresh, Ring
<1>3. Acks(z, ts) = Acks(s, ts)
  <2>1. [i \in Fresh(z, ts) |-> z[i].ack] = [i \in Fresh(s, ts) |-> s[i].ack]
    BY <1>2 DEF Fresh
  <2>2. QED
    BY <2>1 DEF Acks
<1> DEFINE F == Fresh(s, ts)
           f == [i \in F |-> s[i].loss]
           g == [i \in F |-> z[i].loss]
<1>4. IsFiniteSet(F) /\ F \in SUBSET (0 .. SlotCount - 1)
  BY RingFinite, FS_Subset, Zenon DEF Fresh
<1>5. f \in [F -> Nat] /\ g \in [F -> Nat]
  BY <1>4 DEF Ring
<1>6. Part(g, F \ {k}) = Part(f, F \ {k}) /\ g[k] = f[k] + l /\ k \in F
  BY <1>2, <1>4 DEF Part
<1>7. Losses(s, ts) = SumFunction(f) /\ Losses(z, ts) = SumFunction(g)
  BY <1>2 DEF Losses
<1> HIDE DEF F, f, g
<1>8. /\ SumFunction(f) = f[k] + SumFunction(Part(f, F \ {k}))
      /\ SumFunction(f) \in Nat /\ SumFunction(Part(f, F \ {k})) \in Nat
  BY <1>4, <1>5, <1>6, SumOneOff, Zenon
<1>9. SumFunction(g) = g[k] + SumFunction(Part(g, F \ {k}))
  BY <1>4, <1>5, <1>6, SumOneOff, Zenon
<1>10. f[k] \in Nat
  BY <1>5, <1>6
<1>11. SumFunction(g) = SumFunction(f) + l
  BY <1>6, <1>8, <1>9, <1>10
<1>12. QED
  BY <1>3, <1>7, <1>11

-----------------------------------------------------------------------------
(* The invariant.                                                          *)

LEMMA Numbers ==
    /\ SlotCount \in Nat /\ SlotCount > 0 /\ MinSampleCount \in Nat /\ MinSampleCount > 0
    /\ MaxTime \in Nat /\ TxBps \in Nat /\ Mtus \subseteq Nat
    /\ \A t \in Nat : t % SlotCount \in 0 .. SlotCount - 1
<1>1. /\ SlotCount \in Nat /\ SlotCount > 0 /\ MinSampleCount \in Nat /\ MinSampleCount > 0
      /\ MaxTime \in Nat /\ TxBps \in Nat /\ Mtus \subseteq Nat
  BY BrutalAssumption
<1>2. QED
  BY <1>1, SameRemainder

LEMMA InitIInv == Init => IInv
<1> SUFFICES ASSUME Init PROVE IInv
  OBVIOUS
<1>1. Types
  <2>1. slots \in [0 .. SlotCount - 1 -> [ts : Nat, ack : Nat, loss : Nat]]
    BY DEF Init, BrutalNew
  <2>2. hist \in [0 .. MaxTime -> Counts]
    BY DEF Init, Counts
  <2>3. now = 0 /\ recorded = 0 /\ now \in 0 .. MaxTime /\ recorded \in 0 .. now
    BY Numbers DEF Init
  <2>4. srtt \in Nat /\ mtu \in Mtus /\ rate \in Nat /\ use_bbr \in BOOLEAN /\ server_rx \in Nat
    BY Numbers, Zenon DEF Init, BrutalNew
  <2>5. QED
    BY <2>1, <2>2, <2>3, <2>4 DEF Types
<1>2. RateInv
  BY Numbers DEF Init, RateInv
<1>3. \A i \in 0 .. SlotCount - 1 : SlotInv(i)
  BY Numbers DEF Init, BrutalNew, SlotInv, NoPackets
<1>4. slots[recorded % SlotCount].ts = recorded
  BY Numbers DEF Init, BrutalNew
<1>5. ack_rate = UpdatedAckRate(slots, recorded)
  <2> DEFINE F == Fresh(slots, recorded)
             f == [i \in F |-> 0]
  <2>1. slots \in Ring /\ recorded \in Nat
    BY <1>1 DEF Types, Ring
  <2>2. Acks(slots, recorded) = SumFunction(f) /\ Losses(slots, recorded) = SumFunction(f)
    <3>1. \A i \in F : slots[i].ack = 0 /\ slots[i].loss = 0
      BY DEF Init, BrutalNew, Fresh
    <3>2. [i \in F |-> slots[i].ack] = f /\ [i \in F |-> slots[i].loss] = f
      BY <3>1
    <3>3. QED
      BY <3>2 DEF Acks, Losses
  <2>3. SumFunction(f) = 0
    <3>1. IsFiniteSet(F) /\ f \in [F -> Nat] /\ {} \in SUBSET F /\ \A i \in F \ {} : f[i] = 0
      BY RingFinite, FS_Subset, Zenon DEF Fresh
    <3>2. DOMAIN Part(f, {}) = {}
      BY DEF Part
    <3> HIDE DEF F, f
    <3>3. SumFunction(f) = SumFunction(Part(f, {}))
      BY <3>1, SumDropsZeros
    <3>4. QED
      BY <3>2, <3>3, SumEmpty
  <2> HIDE DEF F, f
  <2>4. AckRate(0, 0) = <<1, 1>>
    BY Numbers DEF AckRate
  <2>5. UpdatedAckRate(slots, recorded) = <<1, 1>>
    BY <2>1, <2>2, <2>3, <2>4, UpdatedIsAckRate
  <2>6. QED
    BY <2>5 DEF Init, BrutalNew
<1>6. QED
  BY <1>1, <1>2, <1>3, <1>4, <1>5 DEF IInv, RingInv

(* What the slot written by record holds. *)
LEMMA SlotFields ==
    ASSUME NEW t \in Nat, NEW x \in Nat, NEW y \in Nat, NEW r,
           r = [ts |-> t, ack |-> x, loss |-> y]
    PROVE  r \in [ts : Nat, ack : Nat, loss : Nat] /\ r.ts = t /\ r.ack = x /\ r.loss = y
  OBVIOUS

(* record keeps the ring. *)
LEMMA RecordStep ==
    ASSUME IInv, NEW a \in Nat, NEW l \in Nat, Record(a, l), Happened(a, l), now' = now
    PROVE  /\ slots' \in Ring /\ hist' \in [0 .. MaxTime -> Counts] /\ recorded' = now
           /\ RingInv'
<1>0. PICK k \in 0 .. SlotCount - 1 : k = now % SlotCount
  BY Numbers DEF IInv, Types
<1> DEFINE new == IF slots[k].ts = now
                  THEN [ts |-> now, ack |-> slots[k].ack + a, loss |-> slots[k].loss + l]
                  ELSE [ts |-> now, ack |-> a, loss |-> l]
<1>1. /\ slots' = [slots EXCEPT ![k] = new]
      /\ ack_rate' = UpdatedAckRate(slots', now) /\ recorded' = now
  BY <1>0 DEF Record, Recorded
<1>3. /\ slots \in Ring /\ hist \in [0 .. MaxTime -> Counts] /\ now \in 0 .. MaxTime /\ now \in Nat
      /\ recorded \in 0 .. now /\ \A i \in 0 .. SlotCount - 1 : SlotInv(i)
  <2>1. now \in 0 .. MaxTime /\ now \in Nat /\ recorded \in 0 .. now
    BY Numbers DEF IInv, Types
  <2>2. slots \in Ring /\ hist \in [0 .. MaxTime -> Counts] /\ \A i \in 0 .. SlotCount - 1 : SlotInv(i)
    BY DEF IInv, Types, Ring, RingInv
  <2>3. QED
    BY <2>1, <2>2
<1>4. slots[k] \in [ts : Nat, ack : Nat, loss : Nat] /\ hist[now] \in Counts
  BY <1>3 DEF Ring
<1>2. /\ hist' \in [0 .. MaxTime -> Counts]
      /\ hist'[now].ack = hist[now].ack + a /\ hist'[now].loss = hist[now].loss + l
      /\ \A t \in 0 .. MaxTime : t # now => hist'[t] = hist[t]
  <2>1. hist' = [hist EXCEPT ![now] = [ack |-> hist[now].ack + a, loss |-> hist[now].loss + l]]
    BY DEF Happened
  <2>2. QED
    BY <1>3, <1>4, <2>1, SMTT(30) DEF Counts
<1>5. /\ slots[k].ts # now => hist[now] = NoPackets
      /\ slots[k].ts = now => slots[k].ack = hist[now].ack /\ slots[k].loss = hist[now].loss
      /\ \A t \in 0 .. MaxTime : t % SlotCount = k /\ t > now => hist[t] = NoPackets
  <2>1. slots[k].ts \in Nat /\ slots[k].ts <= now
    BY <1>3, <1>4, SMTT(30) DEF SlotInv
  <2>2. CASE /\ slots[k].ack = hist[slots[k].ts].ack /\ slots[k].loss = hist[slots[k].ts].loss
             /\ \A t \in 0 .. MaxTime : t % SlotCount = k /\ t > slots[k].ts => hist[t] = NoPackets
    <3>1. slots[k].ts # now => slots[k].ts < now
      BY <1>3, <2>1
    <3>2. slots[k].ts # now => hist[now] = NoPackets
      BY <1>0, <1>3, <2>2, <3>1, Zenon
    <3>3. \A t \in 0 .. MaxTime : t > now => t > slots[k].ts
      BY <1>3, <2>1
    <3>4. QED
      BY <2>2, <3>2, <3>3, Zenon
  <2>3. CASE /\ slots[k].ack = 0 /\ slots[k].loss = 0
             /\ \A t \in 0 .. MaxTime : t % SlotCount = k => hist[t] = NoPackets
    BY <1>0, <1>3, <2>3, SMTT(30) DEF NoPackets
  <2>4. QED
    BY <1>3, <2>2, <2>3, Zenon DEF SlotInv
<1>7. /\ new \in [ts : Nat, ack : Nat, loss : Nat]
      /\ new.ts = now /\ new.ack = hist'[now].ack /\ new.loss = hist'[now].loss
  <2>1. CASE slots[k].ts = now
    <3>1. new = [ts |-> now, ack |-> slots[k].ack + a, loss |-> slots[k].loss + l]
      BY <2>1, Zenon
    <3>2. slots[k].ack = hist[now].ack /\ slots[k].loss = hist[now].loss
      BY <1>5, <2>1, Zenon
    <3>3. slots[k].ack + a = hist'[now].ack /\ slots[k].loss + l = hist'[now].loss
      BY <1>2, <3>2
    <3>4. slots[k].ack + a \in Nat /\ slots[k].loss + l \in Nat
      BY <1>4
    <3> HIDE DEF new
    <3>5. QED
      BY <1>3, <3>1, <3>3, <3>4, SlotFields, Zenon
  <2>2. CASE slots[k].ts # now
    <3>1. new = [ts |-> now, ack |-> a, loss |-> l]
      BY <2>2
    <3>2. hist[now].ack = 0 /\ hist[now].loss = 0
      <4>1. hist[now] = NoPackets
        BY <1>5, <2>2, Zenon
      <4>2. NoPackets.ack = 0 /\ NoPackets.loss = 0
        BY DEF NoPackets
      <4>3. QED
        BY <4>1, <4>2, Zenon
    <3>3. a = hist'[now].ack /\ l = hist'[now].loss
      BY <1>2, <3>2
    <3> HIDE DEF new
    <3>4. QED
      BY <1>3, <3>1, <3>3, SlotFields
  <2>3. QED
    BY <2>1, <2>2, Zenon
<1> HIDE DEF new
<1>6. /\ slots' \in Ring /\ slots'[k] = new
      /\ \A i \in 0 .. SlotCount - 1 : i # k => slots'[i] = slots[i]
  BY <1>1, <1>3, <1>7, Zenon DEF Ring
<1>8. SlotInv(k)'
  <2>1. /\ slots'[k].ts = now /\ recorded' = now
        /\ slots'[k].ack = hist'[slots'[k].ts].ack /\ slots'[k].loss = hist'[slots'[k].ts].loss
    BY <1>1, <1>6, <1>7
  <2>2. \A t \in 0 .. MaxTime : t % SlotCount = k /\ t > now => hist'[t] = NoPackets
    BY <1>2, <1>3, <1>5, SMTT(30)
  <2>3. QED
    <3>1. slots'[k].ts <= recorded'
      BY <1>3, <2>1
    <3>2. slots'[k].ts % SlotCount = k
      BY <1>0, <2>1
    <3>3. \A t \in 0 .. MaxTime : t % SlotCount = k /\ t > slots'[k].ts => hist'[t] = NoPackets
      BY <2>1, <2>2
    <3>4. QED
      BY <2>1, <3>1, <3>2, <3>3, Zenon DEF SlotInv
<1>9. ASSUME NEW i \in 0 .. SlotCount - 1, i # k PROVE SlotInv(i)'
  <2>1. SlotInv(i) /\ slots'[i] = slots[i] /\ slots[i].ts \in Nat
    BY <1>3, <1>6, <1>9, Zenon DEF Ring
  <2>2. \A t \in 0 .. MaxTime : t % SlotCount = i => hist'[t] = hist[t]
    BY <1>0, <1>2, <1>9, Zenon
  <2>3. slots[i].ts <= recorded' /\ slots[i].ts \in 0 .. MaxTime
    BY <1>1, <1>3, <2>1, Numbers DEF SlotInv
  <2>4. QED
    BY <2>1, <2>2, <2>3 DEF SlotInv
<1>10. QED
  BY <1>0, <1>1, <1>2, <1>6, <1>7, <1>8, <1>9 DEF RingInv

LEMMA LostPacketsType ==
    ASSUME Types, NEW b \in LostBytes
    PROVE  LostPackets(b) \in Nat
<1>1. b \in Nat /\ mtu \in Nat
  BY BrutalAssumption DEF Types
<1>2. Larger(mtu, 1) \in Nat /\ Larger(mtu, 1) > 0
  BY <1>1 DEF Larger
<1>3. b \div Larger(mtu, 1) \in Nat
  BY <1>1, <1>2, DivIff
<1>4. QED
  BY <1>3 DEF LostPackets, Larger

LEMMA NextIInv == IInv /\ [Next]_vars => IInv'
<1> SUFFICES ASSUME IInv, [Next]_vars PROVE IInv'
  OBVIOUS
<1>1. Types /\ RateInv /\ RingInv
  BY DEF IInv
<1>2. ASSUME NEW r \in Rtts, OnAck(r) PROVE IInv'
  <2>1. /\ srtt' = r /\ r \in Nat /\ Record(1, 0) /\ Happened(1, 0)
        /\ UNCHANGED <<now, mtu, rate, use_bbr, server_rx>>
    BY <1>2, BrutalAssumption DEF OnAck, BrutalOnAck, cfg
  <2>2. slots' \in Ring /\ hist' \in [0 .. MaxTime -> Counts] /\ recorded' = now /\ RingInv'
    BY <2>1, RecordStep
  <2>3. Types' /\ RateInv'
    BY <1>1, <2>1, <2>2 DEF Types, Ring, RateInv
  <2>4. QED
    BY <2>2, <2>3 DEF IInv
<1>3. ASSUME NEW b \in LostBytes, OnCongestionEvent(b) PROVE IInv'
  <2>1. /\ srtt' = srtt /\ Record(0, LostPackets(b)) /\ Happened(0, LostPackets(b))
        /\ UNCHANGED <<now, mtu, rate, use_bbr, server_rx>> /\ LostPackets(b) \in Nat
    BY <1>1, <1>3, LostPacketsType DEF OnCongestionEvent, BrutalOnCongestionEvent, cfg
  <2>2. slots' \in Ring /\ hist' \in [0 .. MaxTime -> Counts] /\ recorded' = now /\ RingInv'
    BY <2>1, RecordStep
  <2>3. Types' /\ RateInv'
    BY <1>1, <2>1, <2>2, SMTT(30) DEF Types, Ring, RateInv
  <2>4. QED
    BY <2>2, <2>3 DEF IInv
<1>4. CASE OnSent \/ OnEndAcks \/ UNCHANGED vars
  <2>1. UNCHANGED <<now, slots, ack_rate, srtt, mtu, rate, use_bbr, server_rx, recorded, hist>>
    BY <1>4, Zenon DEF OnSent, OnEndAcks, vars, cfg
  <2>2. QED
    BY <1>1, <2>1 DEF IInv, Types, RateInv, RingInv, SlotInv
<1>5. ASSUME NEW m \in Mtus, OnMtuUpdate(m) PROVE IInv'
  <2>1. /\ UNCHANGED <<now, slots, ack_rate, srtt, rate, use_bbr, server_rx, recorded, hist>>
        /\ mtu' \in Mtus
    BY <1>5, Zenon DEF OnMtuUpdate, cfg
  <2>2. QED
    BY <1>1, <2>1 DEF IInv, Types, RateInv, RingInv, SlotInv
<1>6. CASE Second
  <2>1. /\ UNCHANGED <<slots, ack_rate, srtt, mtu, rate, use_bbr, server_rx, recorded, hist>>
        /\ now < MaxTime /\ now' = now + 1
    BY <1>6 DEF Second, cfg
  <2>2. QED
    <3>1. RateInv' /\ RingInv'
      BY <1>1, <2>1 DEF RateInv, RingInv, SlotInv
    <3>2. now' \in 0 .. MaxTime /\ recorded' \in 0 .. now'
      BY <1>1, <2>1, Numbers DEF Types
    <3>3. Types'
      BY <1>1, <2>1, <3>2, Zenon DEF Types
    <3>4. QED
      BY <3>1, <3>3, Zenon DEF IInv
<1>7. ASSUME NEW h \in Headers, CcRx(h) PROVE IInv'
  <2>1. /\ UNCHANGED <<now, slots, ack_rate, srtt, mtu, recorded, hist>>
        /\ server_rx' = ParseCcRx(h).server_rx /\ use_bbr' = ParseCcRx(h).rx_auto
        /\ rate' = AgreedRate(TxBps, ParseCcRx(h))
    BY <1>7 DEF CcRx
  <2>2. h.rate \in Nat
    BY BrutalAssumption DEF CcRxHeader
  <2>3. /\ rate' \in Nat /\ use_bbr' \in BOOLEAN /\ server_rx' \in Nat /\ RateInv'
    BY <2>1, <2>2, Numbers DEF ParseCcRx, AgreedRate, RateInv
  <2>4. QED
    BY <1>1, <2>1, <2>3 DEF IInv, Types, RingInv, SlotInv
<1>8. QED
  BY <1>2, <1>3, <1>4, <1>5, <1>6, <1>7 DEF Next

LEMMA AlwaysIInv == Spec => []IInv
  BY InitIInv, NextIInv, PTL DEF Spec

-----------------------------------------------------------------------------
(* The theorems.                                                           *)

(* Whatever pauses there are between events, Brutal computes its ACK rate  *)
(* from exactly the packets acked and lost in the last SlotCount seconds:  *)
(* for a ring of any size and any counts.                                  *)
THEOREM RingHoldsLastSeconds == Spec => []RingIsLastSeconds
<1>1. IInv => RingIsLastSeconds
  <2> SUFFICES ASSUME IInv PROVE RingIsLastSeconds
    OBVIOUS
  <2> DEFINE S == 0 .. SlotCount - 1
             ts == [i \in S |-> slots[i].ts]
             acks == SumFunction([t \in Recent |-> hist[t].ack])
             losses == SumFunction([t \in Recent |-> hist[t].loss])
  <2>1. /\ slots \in Ring /\ recorded \in Nat /\ recorded \in 0 .. MaxTime
        /\ hist \in [0 .. MaxTime -> Counts]
    BY Numbers DEF IInv, Types, Ring
  <2>2. /\ \A i \in S : SlotInv(i)
        /\ slots[recorded % SlotCount].ts = recorded /\ recorded % SlotCount \in S
        /\ ack_rate = UpdatedAckRate(slots, recorded)
    BY <2>1, Numbers DEF IInv, RingInv
  <2>3. ts \in [S -> Nat] /\ ts[recorded % SlotCount] = recorded /\ \A i \in S : ts[i] = slots[i].ts
    BY <2>1, <2>2 DEF Ring
  <2>4. \A i \in S : slots[i].ts \in Nat /\ slots[i].ts <= recorded
    BY <2>1, <2>2 DEF SlotInv, Ring
  <2>5. {j \in S : ts[j] + SlotCount >= recorded} = Fresh(slots, recorded)
    BY DEF Fresh
  <2>6. {u \in 0 .. MaxTime : u <= recorded /\ u + SlotCount > recorded} = Recent
    BY Zenon DEF Recent
  <2>7. Acks(slots, recorded) = acks
    <3> DEFINE val == [i \in S |-> slots[i].ack]
               h == [t \in 0 .. MaxTime |-> hist[t].ack]
    <3>1. val \in [S -> Nat] /\ h \in [0 .. MaxTime -> Nat]
      BY <2>1 DEF Ring, Counts
    <3>2. \A t \in 0 .. MaxTime : h[t] = hist[t].ack /\ (hist[t] = NoPackets => h[t] = 0)
      BY DEF NoPackets
    <3>3. ASSUME NEW i \in S PROVE ts[i] <= recorded /\ Holds(ts[i], val[i], h, i)
      <4>1. ts[i] = slots[i].ts /\ val[i] = slots[i].ack /\ SlotInv(i)
        BY <2>2
      <4>0. ts[i] \in 0 .. MaxTime
        <5>1. slots[i].ts \in Nat /\ slots[i].ts <= recorded /\ MaxTime \in Nat
          BY <2>4, Numbers
        <5>2. slots[i].ts \in 0 .. MaxTime
          BY <2>1, <5>1
        <5>3. QED
          BY <4>1, <5>2
      <4> HIDE DEF ts, val, h
      <4>2. QED
        BY <2>4, <3>2, <4>0, <4>1 DEF SlotInv, Holds
    <3>4. [i \in Fresh(slots, recorded) |-> val[i]] = [i \in Fresh(slots, recorded) |-> slots[i].ack]
      BY DEF Fresh
    <3>5. [t \in Recent |-> h[t]] = [t \in Recent |-> hist[t].ack]
      BY DEF Recent
    <3> HIDE DEF ts, val, h
    <3>6. AddUpAlike(ts, val, h, recorded)
      <4>1. AllHold(ts, val, h, recorded)
        BY <3>3 DEF AllHold
      <4>2. QED
        BY <2>1, <2>3, <3>1, <4>1, FreshIsRecent, Zenon
    <3>7. QED
      BY <2>5, <2>6, <3>4, <3>5, <3>6 DEF AddUpAlike, Acks
  <2>8. Losses(slots, recorded) = losses
    <3> DEFINE val == [i \in S |-> slots[i].loss]
               h == [t \in 0 .. MaxTime |-> hist[t].loss]
    <3>1. val \in [S -> Nat] /\ h \in [0 .. MaxTime -> Nat]
      BY <2>1 DEF Ring, Counts
    <3>2. \A t \in 0 .. MaxTime : h[t] = hist[t].loss /\ (hist[t] = NoPackets => h[t] = 0)
      BY DEF NoPackets
    <3>3. ASSUME NEW i \in S PROVE ts[i] <= recorded /\ Holds(ts[i], val[i], h, i)
      <4>1. ts[i] = slots[i].ts /\ val[i] = slots[i].loss /\ SlotInv(i)
        BY <2>2
      <4>0. ts[i] \in 0 .. MaxTime
        <5>1. slots[i].ts \in Nat /\ slots[i].ts <= recorded /\ MaxTime \in Nat
          BY <2>4, Numbers
        <5>2. slots[i].ts \in 0 .. MaxTime
          BY <2>1, <5>1
        <5>3. QED
          BY <4>1, <5>2
      <4> HIDE DEF ts, val, h
      <4>2. QED
        BY <2>4, <3>2, <4>0, <4>1 DEF SlotInv, Holds
    <3>4. [i \in Fresh(slots, recorded) |-> val[i]] = [i \in Fresh(slots, recorded) |-> slots[i].loss]
      BY DEF Fresh
    <3>5. [t \in Recent |-> h[t]] = [t \in Recent |-> hist[t].loss]
      BY Zenon DEF Recent
    <3> HIDE DEF ts, val, h
    <3>6. AddUpAlike(ts, val, h, recorded)
      <4>1. AllHold(ts, val, h, recorded)
        BY <3>3 DEF AllHold
      <4>2. QED
        BY <2>1, <2>3, <3>1, <4>1, FreshIsRecent, Zenon
    <3>7. QED
      BY <2>5, <2>6, <3>4, <3>5, <3>6 DEF AddUpAlike, Losses
  <2>9. ack_rate = AckRate(acks, losses) /\ acks \in Nat /\ losses \in Nat
    BY <2>1, <2>2, <2>7, <2>8, UpdatedIsAckRate
  <2>10. /\ IF acks + losses < MinSampleCount THEN ack_rate[1] = ack_rate[2]
            ELSE \/ acks * ack_rate[2] = ack_rate[1] * (acks + losses)
                 \/ ack_rate = MinRate /\ acks * MinRate[2] < MinRate[1] * (acks + losses)
    <3> HIDE DEF acks, losses
    <3>1. QED
      BY <2>9 DEF AckRate
  <2>11. QED
    BY <2>10 DEF RingIsLastSeconds
<1>2. QED
  BY <1>1, AlwaysIInv, PTL

LEMMA WindowNumbers ==
    ASSUME IInv
    PROVE  /\ IsRate(ack_rate) /\ Floor \in Nat /\ rate \in Nat /\ srtt \in Nat
           /\ rate * srtt \in Nat /\ MinRate[1] \in Nat /\ MinRate[2] \in Nat
<1>1. slots \in Ring /\ recorded \in Nat /\ ack_rate = UpdatedAckRate(slots, recorded)
  BY Numbers DEF IInv, Types, Ring, RingInv
<1>2. IsRate(ack_rate)
  BY <1>1, UpdatedIsAckRate
<1>3. mtu \in Nat /\ MinWindow \in Nat /\ MinRate[1] \in Nat /\ MinRate[2] \in Nat
  BY BrutalAssumption DEF IInv, Types
<1>4. Floor \in Nat
  BY <1>3 DEF Floor, Larger
<1>5. rate \in Nat /\ srtt \in Nat
  BY DEF IInv, Types
<1>6. QED
  BY <1>2, <1>3, <1>4, <1>5, Products

(* Whatever the losses, the window never falls below the agreed rate times *)
(* the RTT, nor does compensating for loss take it, above the floor, over  *)
(* 1/MinRate of what the configuration and the server allow.               *)
THEOREM WindowStaysBounded == Spec => []WindowIsBounded
<1>1. IInv => WindowIsBounded
  <2> SUFFICES ASSUME IInv, srtt # 0, ~use_bbr
               PROVE  /\ SendWindow >= rate * srtt
                      /\ SendWindow > Floor =>
                           \A limit \in {TxBps} \cup ({server_rx} \ {0}) :
                             SendWindow * MinRate[1] <= limit * srtt * MinRate[2]
    BY DEF WindowIsBounded
  <2> DEFINE x == rate * srtt
             n == ack_rate[1]
             d == ack_rate[2]
             w == (x * d) \div n
  <2>1. /\ n \in Nat /\ d \in Nat /\ n > 0 /\ n <= d /\ d * MinRate[1] <= n * MinRate[2]
        /\ Floor \in Nat /\ x \in Nat /\ rate \in Nat /\ srtt \in Nat
        /\ MinRate[1] \in Nat /\ MinRate[2] \in Nat
    BY WindowNumbers DEF IsRate
  <2>2. SendWindow = Larger(w, Floor)
    BY DEF SendWindow, Window, WindowFor
  <2> HIDE DEF x, n, d
  <2>3. w \in Nat /\ w >= x /\ w * MinRate[1] <= x * MinRate[2]
    BY <2>1, DividedByRate
  <2> HIDE DEF w
  <2>4. SendWindow >= x /\ (SendWindow > Floor => SendWindow = w)
    BY <2>1, <2>2, <2>3 DEF Larger
  <2>5. ASSUME NEW limit \in {TxBps} \cup ({server_rx} \ {0})
        PROVE  w * MinRate[1] <= limit * srtt * MinRate[2]
    <3>1. limit \in Nat /\ rate <= limit
      BY Numbers DEF IInv, Types, RateInv
    <3>2. x <= limit * srtt /\ limit * srtt \in Nat
      BY <2>1, <3>1, Products DEF x
    <3>3. x * MinRate[2] <= limit * srtt * MinRate[2]
      BY <2>1, <3>2, Products
    <3> DEFINE a == w * MinRate[1]
               b == x * MinRate[2]
               c == limit * srtt * MinRate[2]
    <3>4. a \in Nat /\ b \in Nat /\ c \in Nat /\ a <= b /\ b <= c
      BY <2>1, <2>3, <3>2, <3>3, Products
    <3> HIDE DEF a, b, c
    <3>5. a <= c
      BY <3>4
    <3>6. QED
      BY <3>5 DEF a, c
  <2>6. QED
    <3>1. SendWindow >= rate * srtt
      BY <2>4 DEF x
    <3>2. ASSUME SendWindow > Floor, NEW limit \in {TxBps} \cup ({server_rx} \ {0})
          PROVE  SendWindow * MinRate[1] <= limit * srtt * MinRate[2]
      BY <2>4, <2>5, <3>2, Zenon
    <3>3. QED
      BY <3>1, <3>2
<1>2. QED
  BY <1>1, AlwaysIInv, PTL

(* The ring record leaves, field by field. *)
LEMMA RecordedFields ==
    ASSUME IInv, NEW k \in 0 .. SlotCount - 1, k = now % SlotCount, NEW l \in Nat
    PROVE  /\ Recorded(0, l) \in Ring /\ Recorded(0, l)[k].ts = now
           /\ Recorded(0, l)[k].ack = (IF slots[k].ts = now THEN slots[k].ack ELSE 0)
           /\ Recorded(0, l)[k].loss = (IF slots[k].ts = now THEN slots[k].loss ELSE 0) + l
           /\ \A i \in 0 .. SlotCount - 1 : i # k => Recorded(0, l)[i] = slots[i]
<1>1. slots \in Ring /\ now \in Nat
  BY Numbers DEF IInv, Types, Ring
<1>2. slots[k].ack \in Nat /\ slots[k].loss \in Nat
  BY <1>1 DEF Ring
<1> DEFINE x == IF slots[k].ts = now THEN slots[k].ack ELSE 0
           y == IF slots[k].ts = now THEN slots[k].loss ELSE 0
<1>3. x \in Nat /\ y \in Nat /\ y + l \in Nat
  BY <1>2
<1>4. PICK q : q = [ts |-> now, ack |-> x, loss |-> y + l]
  OBVIOUS
<1>5. Recorded(0, l) = [slots EXCEPT ![k] = q]
  <2>1. CASE slots[k].ts = now
    <3>1. slots[k].ack + 0 = x /\ slots[k].loss + l = y + l
      BY <1>2, <2>1
    <3>2. QED
      BY <1>4, <2>1, <3>1 DEF Recorded
  <2>2. CASE slots[k].ts # now
    <3>1. 0 = x /\ l = y + l
      BY <2>2
    <3>2. QED
      BY <1>4, <2>2, <3>1 DEF Recorded
  <2>3. QED
    BY <2>1, <2>2
<1>6. /\ q \in [ts : Nat, ack : Nat, loss : Nat]
      /\ q.ts = now /\ q.ack = x /\ q.loss = y + l
  <2> HIDE DEF x, y
  <2>1. QED
    BY <1>1, <1>3, <1>4, SlotFields
<1>7. /\ Recorded(0, l) \in Ring /\ Recorded(0, l)[k] = q
      /\ \A i \in 0 .. SlotCount - 1 : i # k => Recorded(0, l)[i] = slots[i]
  BY <1>1, <1>5, <1>6, Zenon DEF Ring
<1>8. QED
  BY <1>6, <1>7, Zenon

(* A loss can only lower the ACK rate this second would have had. *)
LEMMA LossLowersRate ==
    ASSUME IInv, NEW l \in Nat
    PROVE  LET r == UpdatedAckRate(Recorded(0, 0), now)
               s == UpdatedAckRate(Recorded(0, l), now)
           IN  IsRate(r) /\ IsRate(s) /\ r[2] * s[1] <= s[2] * r[1]
<1>0. PICK k \in 0 .. SlotCount - 1 : k = now % SlotCount
  BY Numbers DEF IInv, Types
<1> DEFINE u == IF slots[k].ts = now THEN slots[k].ack ELSE 0
           v == IF slots[k].ts = now THEN slots[k].loss ELSE 0
<1>1. PICK b, z : b = Recorded(0, 0) /\ z = Recorded(0, l)
  OBVIOUS
<1>2. slots \in Ring /\ now \in Nat /\ v \in Nat
  BY Numbers DEF IInv, Types, Ring
<1>3. /\ b \in Ring /\ b[k].ts = now /\ b[k].ack = u /\ b[k].loss = v + 0
      /\ \A i \in 0 .. SlotCount - 1 : i # k => b[i] = slots[i]
  BY <1>0, <1>1, RecordedFields
<1>4. /\ z \in Ring /\ z[k].ts = now /\ z[k].ack = u /\ z[k].loss = v + l
      /\ \A i \in 0 .. SlotCount - 1 : i # k => z[i] = slots[i]
  BY <1>0, <1>1, RecordedFields
<1> HIDE DEF u, v
<1>5. b[k].loss = v /\ z[k].loss = b[k].loss + l
  BY <1>2, <1>3, <1>4
<1>6. /\ \A i \in 0 .. SlotCount - 1 : z[i].ts = b[i].ts /\ z[i].ack = b[i].ack
      /\ \A i \in 0 .. SlotCount - 1 : i # k => z[i].loss = b[i].loss
  BY <1>3, <1>4, Zenon
<1>7. Acks(z, now) = Acks(b, now) /\ Losses(z, now) = Losses(b, now) + l
  <2>1. ASSUME NEW p \in Ring, p[k].ts = now, NEW q \in Ring, q[k].loss = p[k].loss + l,
               \A i \in 0 .. SlotCount - 1 : q[i].ts = p[i].ts /\ q[i].ack = p[i].ack,
               \A i \in 0 .. SlotCount - 1 : i # k => q[i].loss = p[i].loss
        PROVE  Acks(q, now) = Acks(p, now) /\ Losses(q, now) = Losses(p, now) + l
    BY <1>2, <2>1, LossesAdd
  <2>2. QED
    BY <1>3, <1>4, <1>5, <1>6, <2>1, Zenon
<1> DEFINE a == Acks(b, now)
           m == Losses(b, now)
<1>8. UpdatedAckRate(b, now) = AckRate(a, m) /\ IsRate(AckRate(a, m)) /\ a \in Nat /\ m \in Nat
  BY <1>2, <1>3, UpdatedIsAckRate, Zenon
<1>9. UpdatedAckRate(z, now) = AckRate(a, m + l) /\ IsRate(AckRate(a, m + l))
  <2>1. /\ UpdatedAckRate(z, now) = AckRate(Acks(z, now), Losses(z, now))
        /\ IsRate(UpdatedAckRate(z, now))
    BY <1>2, <1>4, UpdatedIsAckRate, Zenon
  <2>2. QED
    BY <1>7, <2>1
<1> HIDE DEF a, m
<1>10. AckRate(a, m)[2] * AckRate(a, m + l)[1] <= AckRate(a, m + l)[2] * AckRate(a, m)[1]
  BY <1>8, MoreLosses
<1>11. QED
  BY <1>1, <1>8, <1>9, <1>10, Zenon

(* congestion.rs:120, "never shrink the window": whenever a loss comes,    *)
(* Brutal's window is at least the one it would have come to in that       *)
(* second without it.                                                      *)
THEOREM LossKeepsWindow == Spec => LossDoesNotSlowDown
<1> DEFINE base == UpdatedAckRate(Recorded(0, 0), now)
           Kept == hist'[now].loss > hist[now].loss => Window' >= WindowFor(base)
<1>1. IInv /\ IInv' /\ [Next]_vars => [Kept]_vars
  <2> SUFFICES ASSUME IInv, IInv', [Next]_vars, hist'[now].loss > hist[now].loss
               PROVE  Window' >= WindowFor(base)
    OBVIOUS
  <2>1. now \in 0 .. MaxTime /\ hist \in [0 .. MaxTime -> Counts] /\ hist[now].loss \in Nat
    BY Zenon DEF IInv, Types, Counts
  <2>2. \E b \in LostBytes : OnCongestionEvent(b)
    <3>1. ASSUME UNCHANGED hist PROVE FALSE
      BY <2>1, <3>1
    <3>2. ASSUME NEW r \in Rtts, OnAck(r) PROVE FALSE
      <4>1. hist' = [hist EXCEPT ![now] = [ack |-> @.ack + 1, loss |-> @.loss + 0]]
        BY <3>2 DEF OnAck, Happened
      <4>2. hist'[now].loss = hist[now].loss + 0
        BY <2>1, <4>1
      <4>3. QED
        BY <2>1, <4>2
    <3>3. QED
      BY <3>1, <3>2 DEF Next, OnSent, OnEndAcks, OnMtuUpdate, Second, CcRx, vars
  <2>3. PICK b \in LostBytes : OnCongestionEvent(b)
    BY <2>2
  <2>4. LostPackets(b) \in Nat
    BY LostPacketsType DEF IInv
  <2>5. Record(0, LostPackets(b)) /\ UNCHANGED <<srtt, mtu, rate>>
    BY <2>3 DEF OnCongestionEvent, BrutalOnCongestionEvent, cfg
  <2> DEFINE new == UpdatedAckRate(Recorded(0, LostPackets(b)), now)
  <2>6. ack_rate' = new
    BY <2>5 DEF Record
  <2>7. IsRate(base) /\ IsRate(new) /\ base[2] * new[1] <= new[2] * base[1]
    BY <2>4, LossLowersRate
  <2> HIDE DEF base, new
  <2>8. Floor \in Nat /\ rate * srtt \in Nat
    BY WindowNumbers
  <2> DEFINE v == (rate * srtt * base[2]) \div base[1]
             w == (rate * srtt * new[2]) \div new[1]
  <2>9. v \in Nat /\ w \in Nat /\ v <= w
    BY <2>7, <2>8, DividedByLess DEF IsRate
  <2>10. WindowFor(base) = (IF srtt = 0 THEN Floor ELSE Larger(v, Floor))
    BY DEF WindowFor
  <2>11. Floor' = Floor
    BY <2>5 DEF Floor
  <2>12. Window' = (IF srtt = 0 THEN Floor ELSE Larger(w, Floor))
    BY <2>5, <2>6, <2>11 DEF Window, WindowFor
  <2> HIDE DEF v, w
  <2>13. QED
    BY <2>8, <2>9, <2>10, <2>12 DEF Larger
<1>2. QED
  BY <1>1, AlwaysIInv, PTL DEF Spec, LossDoesNotSlowDown
=============================================================================
