-------------------------------- MODULE Auth --------------------------------
(***************************************************************************)
(* What authenticate reads out of the server's response, and the upload    *)
(* control connect makes of it (connect.rs). A header is a record: CC-RX   *)
(* is missing, "auto", a number, or some other text.                       *)
(***************************************************************************)
EXTENDS Naturals

CONSTANT MaxU64    \* u64::MAX

ASSUME U64Assumption == MaxU64 \in Nat

CcRxHeader == [kind : {"missing", "auto", "number", "text"}, rate : Nat]

(* A number too large for a u64 does not parse either. *)
ParseCcRx(h) ==
    [server_rx |-> IF h.kind = "number" /\ h.rate <= MaxU64 THEN h.rate ELSE 0,
     rx_auto   |-> h.kind = "auto"]

AgreedRate_bug_ServerWins(tx_bps, auth) ==
    IF ~auth.rx_auto /\ auth.server_rx > 0 THEN auth.server_rx ELSE tx_bps

(* The rate Brutal goes on with, for a configured tx_bps. *)
AgreedRate(tx_bps, auth) ==
    IF ~auth.rx_auto /\ auth.server_rx > 0 /\ auth.server_rx < tx_bps
    THEN auth.server_rx ELSE tx_bps
=============================================================================
