------------------------------ MODULE MCBrutal ------------------------------
EXTENDS Brutal

FourFifths == <<4, 5>>

MCHeaders ==
    { [kind |-> k, rate |-> 0] : k \in {"missing", "auto", "text"} }
    \cup { [kind |-> "number", rate |-> n] : n \in {0, 5, 20, 40} }

(* Some window that depends on all BBR has been told. *)
MCBbrWindow(n, m) == n + m
=============================================================================
