------------------------------- MODULE Vectors -------------------------------
(* Operations on Rust's sequences that several parts of the client use.    *)
EXTENDS Naturals, Sequences

(* extend, once for each of ss in order. *)
Concat(ss) ==
    LET upto[i \in 1..Len(ss)] == IF i = 1 THEN ss[i] ELSE upto[i-1] \o ss[i]
    IN  IF ss = << >> THEN << >> ELSE upto[Len(ss)]

(* remove: what comes after position k moves up. *)
RemoveNth(s, k) == SubSeq(s, 1, k - 1) \o SubSeq(s, k + 1, Len(s))

(* dedup: of equal neighbours the first is kept. *)
Dedup(s) ==
    LET firsts == SelectSeq([i \in 1..Len(s) |-> i], LAMBDA i : i = 1 \/ s[i] # s[i-1])
    IN  [k \in DOMAIN firsts |-> s[firsts[k]]]
=============================================================================
