--------------------------- MODULE ConnectionSlot ---------------------------
(***************************************************************************)
(* What ReconnectableClient promises about the one connection it manages:  *)
(* it is replaced only when it is missing or dead, every replacement is    *)
(* counted, and after close there is none, for ever.                       *)
(***************************************************************************)
EXTENDS Naturals

VARIABLES slot,    \* empty, live or dead
          count,   \* connections made so far
          closed

svars == <<slot, count, closed>>

SlotInit == slot = "empty" /\ count = 0 /\ closed = FALSE

Connect ==
    /\ ~closed /\ slot # "live"
    /\ slot' = "live" /\ count' = count + 1 /\ UNCHANGED closed

Die == slot = "live" /\ slot' = "dead" /\ UNCHANGED <<count, closed>>

Forget == slot # "empty" /\ slot' = "empty" /\ UNCHANGED <<count, closed>>

CloseForEver == ~closed /\ closed' = TRUE /\ slot' = "empty" /\ UNCHANGED count

SlotNext == Connect \/ Die \/ Forget \/ CloseForEver

SlotSpec == SlotInit /\ [][SlotNext]_svars
=============================================================================
