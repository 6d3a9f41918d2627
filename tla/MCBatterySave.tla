--------------------------- MODULE MCBatterySave ----------------------------
(* Small instances of BatterySave for TLC.                                 *)
EXTENDS BatterySave, TLC

ActorSymmetry == Permutations(Sessions) \cup Permutations(Contents)
=============================================================================
