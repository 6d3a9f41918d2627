--------------------------- MODULE MCInterruptBus ---------------------------
(* Instances of InterruptBus for TLC: boards of both kinds.                *)
EXTENDS InterruptBus
=============================================================================
