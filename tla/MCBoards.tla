------------------------------ MODULE MCBoards ------------------------------
(***************************************************************************)
(* Instances of BoardIrq, Banks and Mmc1 for TLC: the interrupt counters,  *)
(* the banks and the serial port of the boards.  The code keeps them in    *)
(* fields that no method mixes, so that a behaviour plays with one part    *)
(* and finds the others as they were built.                                *)
(*                                                                         *)
(* ROMs of two banks are smaller than a window of 32 KiB, those of eight   *)
(* and sixteen wrap the bank numbers of every family.                      *)
(***************************************************************************)
EXTENDS BoardIrq, Banks, Mmc1

VARIABLE part

Cart(m, s, p, c, header) ==
  LET patterns == Patterns(c)
  IN [mapper |-> m, sub |-> s, prg |-> p, chr |-> IF m = 13 THEN 16 ELSE patterns.chr,
      ram |-> patterns.ram, header |-> header]

MCCarts ==
  {Cart(m, 0, 8, 16, "horizontal") :
     m \in {4, 5, 7, 9, 10, 11, 16, 18, 19, 24, 26, 32, 34, 66, 69, 73, 75, 79, 85, 119, 200}}
    \union {Cart(m, 0, 2, 0, "vertical") : m \in {0, 2, 7, 11, 34, 73, 94, 180, 200}}
    \union {Cart(m, 0, 16, 0, "other") : m \in {5, 10, 18, 19, 69, 71, 85, 118, 119, 180}}
    \union {Cart(m, s, 8, 16, "vertical") : m \in {21, 22, 23, 25}, s \in {0, 2, 3}}
    \union {Cart(m, 0, 4, 16, "horizontal") : m \in {0, 3}}
    \union {Cart(13, 0, 4, 0, "horizontal")}

MCPorts == [m \in {c.mapper : c \in MCCarts} |->
  CASE m = 5 -> {\H5100, \H5105, \H5115, \H5116, \H5117, \H5121, \H6000}
    [] m \in {4, 118, 119} -> {\H8000, \H8001, \HA000, \H6000}
    [] m = 79 -> {\H4100, \H7FFF, \H8000}
    [] m \in {9, 10} -> {\HA000, \HB000, \HC000, \HE000, \HF000}
    [] m = 16 -> {\H6000, \H8000, \H9800, \HC000, \HD000}
    [] m = 18 -> {\H6000, \H8000, \H8800, \H9000, \HA800}
    [] m = 19 -> {\H6000, \H8800, \HC000, \HD800, \HE000, \HF000, \HF800}
    [] m \in (21..26) \union {75} ->
         {\H6000, \H8000, \H9000, \H9004, \H9008, \HA003, \HB001, \HB003, \HC002, \HE006}
    [] m = 85 -> {\H6000, \H8000, \H8010, \H8030, \H9000, \H9010, \HA010, \HD000}
    [] m = 69 -> {\H6000, \H8000, \HA000}
    [] m = 32 -> {\H6000, \H8000, \H9000, \HA000, \HC800}
    [] OTHER -> {\H6000, \H8000, \HF000}]

\* SUROM is known by its ROM of 64 banks beside 8 KiB of pattern RAM.
MCSxroms ==
  {[prg |-> 8, chr |-> 16, surom |-> FALSE], [prg |-> 64, chr |-> 16, surom |-> FALSE],
   [prg |-> 64, chr |-> 8, surom |-> TRUE]}
MCPortWrites ==
  {<<a, v>> : a \in {\H8000, \HA000, \HE000}, v \in 0..1} \union {<<\HFFFF, 128>>, <<\HC000, 1>>}

BanksIdle == BanksInit /\ cart = Cart(0, 0, 2, 0, "vertical")
Mmc1Idle == Mmc1Init /\ sxrom = [prg |-> 8, chr |-> 16, surom |-> FALSE]
CountersIdle == Init /\ family = "mmc3"

MCInit ==
  \/ part = "counters" /\ Init /\ BanksIdle /\ Mmc1Idle
  \/ part = "banks" /\ CountersIdle /\ BanksInit /\ Mmc1Idle
  \/ part = "mmc1" /\ CountersIdle /\ BanksIdle /\ Mmc1Init
MCNext ==
  /\ \/ part = "counters" /\ Next /\ UNCHANGED <<bankVars, mmc1Vars>>
     \/ part = "banks" /\ BanksNext /\ UNCHANGED <<vars, mmc1Vars>>
     \/ part = "mmc1" /\ Mmc1Next /\ UNCHANGED <<vars, bankVars>>
  /\ UNCHANGED part
MCSpec == MCInit /\ [][MCNext]_<<vars, bankVars, mmc1Vars, part>>
=============================================================================
