---------------------------- MODULE MCFdsMapper -----------------------------
(* Instances of FdsMapper for TLC: scaled-down blocks and periods.         *)
EXTENDS FdsMapper, FdsMedia, TLC

ShortBlocks == <<2, 1, 3>>

(* A disk information block, then a block cut short; and a file of one     *)
(* byte, with its header.                                                  *)
OneSide == <<ExpandSide(<<1, 0, 3, 0>>)>>
TwoSides == <<ExpandSide(<<1, 0, 3>>), ExpandSide(<<2>>)>>

(* The bits that reading needs, with and without each of the others.       *)
Reading == {{"motor", "read", "start"} \cup s : s \in SUBSET {"crc", "irq"}}
Strobes == {{}, {"motor"}, {"motor", "read"}, {"motor", "reset", "read"},
            {"motor", "start"}}
BiosControls == Reading \cup Strobes
=============================================================================
