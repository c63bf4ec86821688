------------------------------- MODULE Varint -------------------------------
(***************************************************************************)
(* QUIC variable-length integers as protocol.rs writes and reads them.     *)
(*                                                                         *)
(* A byte is a 2-bit length tag over LowRange values: LowRange is 64 in    *)
(* the code and every threshold of the code (63, 16383, 2^30 - 1) is a     *)
(* product of LowRange and Radix. A smaller LowRange gives the same        *)
(* encoding over a smaller alphabet, in which all four lengths fit in      *)
(* TLC's integers.                                                         *)
(***************************************************************************)
EXTENDS Integers, Sequences

CONSTANT LowRange      \* values the low bits of a first byte can take (64)

ASSUME LowRangeAssumption == LowRange \in Nat \ {0}

Radix == 4 * LowRange  \* values of a byte (256)

Byte == 0 .. Radix - 1

VarintLen_bug_TwoByteEdge(v) ==
    IF v < LowRange THEN 1
    ELSE IF v <= LowRange * Radix THEN 2
    ELSE IF v < LowRange * Radix * Radix * Radix THEN 4
    ELSE 8

(* varint_len: bytes of the encoding of v. *)
VarintLen(v) ==
    IF v < LowRange THEN 1
    ELSE IF v < LowRange * Radix THEN 2
    ELSE IF v < LowRange * Radix * Radix * Radix THEN 4
    ELSE 8

(* v >> 8 * j. *)
Shift(v, j) ==
    LET q[i \in 0..j] == IF i = 0 THEN v ELSE q[i-1] \div Radix
    IN  q[j]

(* v in 2^t bytes: big-endian, with the tag t in the first byte. *)
VarintIn(v, t) ==
    LET n == 2^t
    IN  [k \in 1..n |-> IF k = 1 THEN Shift(v, n - 1) + t * LowRange
                                 ELSE Shift(v, n - k) % Radix]

(* put_varint. *)
PutVarint(v) == VarintIn(v, CHOOSE t \in 0..3 : 2^t = VarintLen(v))

(* put_varint_slice writes the same bytes into a slice. *)
PutVarintSlice(v) == PutVarint(v)

(* get_varint: <<value, bytes consumed>>, or << >> (None) if buf is short. *)
GetVarint(buf) ==
    LET n == 2 ^ (buf[1] \div LowRange)
        val[k \in 1..n] == IF k = 1 THEN buf[1] % LowRange
                                    ELSE val[k-1] * Radix + buf[k]
    IN  IF buf = << >> THEN << >>
        ELSE IF Len(buf) < n THEN << >>
        ELSE <<val[n], n>>
=============================================================================
