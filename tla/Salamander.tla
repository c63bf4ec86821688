----------------------------- MODULE Salamander -----------------------------
(***************************************************************************)
(* Salamander obfuscation (transport/obfs.rs). XOR works on each bit       *)
(* alone, so a byte is one bit here. The result is a sequence; the code's  *)
(* return value 0 is << >>.                                                *)
(***************************************************************************)
EXTENDS Naturals, Sequences

CONSTANTS
    SaltLen,   \* SALT_LEN (8)
    KeyLen,    \* KEY_LEN (32)
    Key(_)     \* BLAKE2b-256 of the pre-shared key and a salt

Xor(a, b) == (a + b) % 2

Masked(s, salt) == [i \in 1 .. Len(s) |-> Xor(s[i], Key(salt)[((i - 1) % KeyLen) + 1])]

(* obfuscate, into a buffer of length out_len, with the random salt. *)
Obfuscate(input, salt, out_len) ==
    IF out_len < Len(input) + SaltLen THEN << >> ELSE salt \o Masked(input, salt)

(* deobfuscate, into a buffer of length out_len. *)
Deobfuscate(input, out_len) ==
    LET payload == SubSeq(input, SaltLen + 1, Len(input))
    IN  IF Len(input) <= SaltLen \/ out_len < Len(payload) THEN << >>
        ELSE Masked(payload, SubSeq(input, 1, SaltLen))
=============================================================================
