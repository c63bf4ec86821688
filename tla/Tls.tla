--------------------------------- MODULE Tls ---------------------------------
(***************************************************************************)
(* Which certificates a configuration accepts (transport/tls.rs). A        *)
(* pin_sha256 string is the record of its shape and of the digest it       *)
(* spells, a ca_pem that of its shape and of the roots in it, and a        *)
(* server's certificate that of its digest, its issuer, the names it is    *)
(* for, and whether the server signed the handshake with its key.          *)
(***************************************************************************)
EXTENDS Naturals

CONSTANTS
    Absent,       \* Option::None
    SystemRoots   \* webpki_roots::TLS_SERVER_ROOTS

Ok(v) == [kind |-> "ok", value |-> v]
Fails(k) == [kind |-> k]

(* parse_pin: a character of several bytes across the end of a pair of     *)
(* bytes panics in the slice; one within a pair is not hex.                *)
ParsePin(s) ==
    CASE s.shape = "empty"  -> Ok(Absent)
      [] s.shape = "hex"    -> Ok(s.digest)
      [] s.shape = "cut"    -> Fails("panic")
      [] s.shape \in {"length", "not_hex"} -> Fails("Config")

(* build_roots: a PEM text without certificates adds none. *)
BuildRoots(ca) ==
    IF ca.shape = "malformed" THEN Fails("Config") ELSE Ok(SystemRoots \cup ca.roots)

WebPki(roots)         == [kind |-> "WebPki", roots |-> roots]
NoVerify              == [kind |-> "NoVerify"]
PinVerifier(inner, d) == [kind |-> "PinVerifier", inner |-> inner, pin |-> d]

(* The verifier build_client_config installs. The roots are read first,    *)
(* also when nothing is verified against them.                             *)
BuildClientConfig(insecure, pin, ca) ==
    LET roots == BuildRoots(ca)
    IN  IF roots.kind # "ok" THEN roots
        ELSE IF pin # Absent
             THEN Ok(PinVerifier(IF insecure THEN NoVerify ELSE WebPki(roots.value), pin))
        ELSE IF insecure THEN Ok(NoVerify)
        ELSE Ok(WebPki(roots.value))

(* rustls and webpki: the chain leads to a root, the name is right, and    *)
(* the handshake is signed with the certificate's key.                     *)
WebPkiVerifies(roots, cert, name) ==
    cert.issuer \in roots /\ name \in cert.names /\ cert.signed

VerifiesUnpinned(v, cert, name) ==
    IF v.kind = "NoVerify" THEN TRUE ELSE WebPkiVerifies(v.roots, cert, name)

PinVerifies_bug_InnerSkipped(v, cert, name) == cert.digest = v.pin

(* PinVerifier: the digest first; certificate and signature then go to the *)
(* inner verifier, if there is one.                                        *)
PinVerifies(v, cert, name) == cert.digest = v.pin /\ VerifiesUnpinned(v.inner, cert, name)

Verifies(v, cert, name) ==
    IF v.kind = "PinVerifier" THEN PinVerifies(v, cert, name) ELSE VerifiesUnpinned(v, cert, name)
=============================================================================
