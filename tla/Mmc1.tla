-------------------------------- MODULE Mmc1 --------------------------------
(***************************************************************************)
(* MMC1 boards (mapper 1), and the clock of the CPU that writes to them.   *)
(* All registers sit behind one serial port.  A write is stamped with the  *)
(* cycle at which its instruction began, and the port drops a write that   *)
(* follows an accepted one by a single cycle: so does the hardware lose    *)
(* the second write of a read-modify-write instruction.                    *)
(***************************************************************************)
EXTENDS BankUnits

CONSTANTS
  Sxroms,      \* cartridges: prg, chr as in Banks, and surom
  PortWrites,  \* <<address, byte>> that the program writes to the port
  Costs,       \* cycles of an instruction: two at least
  Boot,        \* the cycle counter after a reset: 7
  MaxCycle,    \* bound: of the cycle counter
  MaxPortWrites  \* bound: writes in a behaviour

ASSUME Mmc1Assumption ==
  /\ Sxroms \subseteq [prg : Nat \ {0}, chr : Nat \ {0}, surom : BOOLEAN]
  /\ \A c \in Sxroms : c.surom => c.prg = 64   \* infer_board_profile: 512 KiB
  /\ \A w \in PortWrites : Region(w[1]) \in 8..15 /\ w[2] \in 0..255
  /\ Costs \subseteq Nat \ {0, 1}
  /\ Boot \in Nat /\ MaxPortWrites \in Nat

VARIABLES
  sxrom,   \* the cartridge
  chip,    \* the board: shift, control, chr, prg, ramOn, last (last_mapper_write_cycle),
           \* warned (chr_mode_mismatch_reported), work (a byte of PRG RAM)
  cycle,   \* cycles of the CPU
  writes,  \* history: port writes still to come
  revived  \* history: a reset since the last write that the port took

mmc1Vars == <<sxrom, chip, cycle, writes, revived>>

Never == -1

\* new_with_config.  The one in shift marks how much of it is empty.
NewChip ==
  [shift |-> 16, control |-> 12, chr |-> <<0, 0>>, prg |-> 0, ramOn |-> TRUE, last |-> Never,
   warned |-> FALSE, work |-> 0]
Mmc1Init ==
  /\ sxrom \in Sxroms /\ chip = NewChip
  /\ cycle = Boot /\ writes = MaxPortWrites /\ revived = FALSE

----------------------------------------------------------------------------
\* outer_prg_bank, prg_window: what the CPU sees below and above $C000, banks of 16 KiB.
Outer == IF sxrom.surom THEN Bit(chip.chr[1], 4) ELSE 0
Mode == (chip.control \div 4) % 4
Pair(bank) == bank - (bank % 2)
SuromWindow ==
  LET base == 16 * Outer
      inner == chip.prg % 16
  IN CASE Mode < 2 -> <<base + Pair(inner), base + Pair(inner) + 1>>
       [] Mode = 2 -> <<base, base + inner>>
       [] Mode = 3 -> <<base + inner, base + 15>>
GenericWindow ==
  LET n == Count(sxrom.prg, 2)
      first == Pair(chip.prg % 16) % n
  IN CASE Mode < 2 -> <<first, (first + 1) % n>>
       [] Mode = 2 -> <<0, (chip.prg % 16) % n>>
       [] Mode = 3 -> <<(chip.prg % 16) % n, n - 1>>
PrgWindow == IF sxrom.surom THEN SuromWindow ELSE GenericWindow

\* read_prg, and physical_prg_bank_8k that names the bank.
ReadSlot(slot) == ReadUnit(sxrom.prg, 2, PrgWindow[(slot \div 2) + 1], slot)
LabelSlot(slot) == LabelUnit(sxrom.prg, 2, PrgWindow[(slot \div 2) + 1], slot)

\* read_chr and write_chr: one bank of 8 KiB or two of 4 KiB.
Split == Bit(chip.control, 4) = 1
ReadPage(page) ==
  IF Split THEN ReadUnit(sxrom.chr, 4, chip.chr[(page \div 4) + 1], page)
  ELSE ReadUnit(sxrom.chr, 8, chip.chr[1] \div 2, page)
\* *mutant* of WritePage: the mode is forgotten.
WritePageWhole(page) == WriteUnit(sxrom.chr, 8, chip.chr[1] \div 2, page)
WritePage(page) ==
  IF Split THEN WriteUnit(sxrom.chr, 4, chip.chr[(page \div 4) + 1], page)
  ELSE WriteUnit(sxrom.chr, 8, chip.chr[1] \div 2, page)

\* nametable_mirroring
Mmc1Tables == <<Single(0), Single(1), Vertical, Horizontal>>[(chip.control % 4) + 1]

\* chr_outer_mismatch: the two halves of SUROM's patterns name different halves of the program.
Mismatch == sxrom.surom /\ Split /\ Bit(chip.chr[1], 4) # Bit(chip.chr[2], 4)

----------------------------------------------------------------------------
\* A write with the reset bit fixes the upper bank; banks and the RAM gate stay.
FixTop(c) == c - (4 * ((c \div 4) % 4)) + 12
ResetPort == chip' = [chip EXCEPT !.shift = 16, !.control = FixTop(@), !.last = cycle]

\* *mutant* of Commit: the shift register is not emptied.
CommitKeeping(addr, v) ==
  CASE Region(addr) \in 8..9 -> [chip EXCEPT !.control = v]
    [] Region(addr) \in 10..11 -> [chip EXCEPT !.chr[1] = v]
    [] Region(addr) \in 12..13 -> [chip EXCEPT !.chr[2] = v]
    [] Region(addr) \in 14..15 -> [chip EXCEPT !.prg = v, !.ramOn = (Bit(v, 4) = 0)]
\* commit: five bits to the register of the last write's address.
Commit(addr, v) ==
  LET full == [chip EXCEPT !.shift = 16, !.last = cycle, !.warned = (Region(addr) \in 14..15 /\ @)] IN
  CASE Region(addr) \in 8..9 -> [full EXCEPT !.control = v]
    [] Region(addr) \in 10..11 -> [full EXCEPT !.chr[1] = v]
    [] Region(addr) \in 12..13 -> [full EXCEPT !.chr[2] = v]
    [] Region(addr) \in 14..15 -> [full EXCEPT !.prg = v, !.ramOn = (Bit(v, 4) = 0)]

Shifted(bit) == (chip.shift \div 2) + (16 * bit)

\* *mutant* of TooSoon: the instruction after one of two cycles counts as well.
TooSoonByTwo == chip.last # Never /\ cycle - chip.last \in 1..2
TooSoon == chip.last # Never /\ chip.last + 1 = cycle
ShiftIn(addr, bit) ==
  /\ ~TooSoon
  /\ chip' = IF chip.shift % 2 = 1 THEN Commit(addr, Shifted(bit))
             ELSE [chip EXCEPT !.shift = Shifted(bit), !.last = cycle]

\* A dropped write does not move the stamp.
Ignore == TooSoon /\ UNCHANGED chip

\* An instruction that writes to the port, with the stamp of its first cycle.
WritePort(addr, v, cost) ==
  /\ writes > 0 /\ writes' = writes - 1
  /\ cycle + cost <= MaxCycle /\ cycle' = cycle + cost
  /\ IF v >= 128 THEN ResetPort /\ revived' = FALSE
     ELSE \/ ShiftIn(addr, v % 2) /\ revived' = FALSE
          \/ Ignore /\ UNCHANGED revived
  /\ UNCHANGED sxrom

\* Any other, one that writes PRG RAM included.
OtherInstruction(cost) ==
  /\ cycle + cost <= MaxCycle /\ cycle' = cycle + cost
  /\ \E v \in 0..1 : chip' = IF chip.ramOn THEN [chip EXCEPT !.work = v] ELSE chip
  /\ UNCHANGED <<sxrom, writes, revived>>

\* CpuState::reset starts the cycles anew; the board does not hear of it.
ResetConsole ==
  /\ cycle' = Boot /\ revived' = TRUE
  /\ UNCHANGED <<sxrom, chip, writes>>

\* notify_ppu_addr: a mismatch is reported once.
ShowAddress ==
  /\ chip' = [chip EXCEPT !.warned = (@ \/ Mismatch)]
  /\ UNCHANGED <<sxrom, cycle, writes, revived>>

\* restore_rebased_snapshot_bytes: a snapshot, taken and carried over to another board variant or a
\* longer ROM, with the CPU's counter; patch_prg_ram_bytes then writes RAM past its gate.
Rebase ==
  /\ \E c \in Sxroms : c.chr = sxrom.chr /\ c.prg >= sxrom.prg /\ sxrom' = c
  /\ \E v \in {chip.work, 1} : chip' = [chip EXCEPT !.work = v]
  /\ UNCHANGED <<cycle, writes, revived>>

Mmc1Next ==
  \/ \E w \in PortWrites, cost \in Costs : WritePort(w[1], w[2], cost)
  \/ \E cost \in Costs : OtherInstruction(cost)
  \/ ResetConsole \/ ShowAddress \/ Rebase

Mmc1Spec == Mmc1Init /\ [][Mmc1Next]_mmc1Vars

----------------------------------------------------------------------------
(* Properties *)

\* The shift register with its mark is the list of the bits taken since the last reset or commit: the
\* program sees a serial port (SerialPort), wherever it is not taken back to a snapshot.
Mark == CHOOSE k \in 0..4 : Bit(chip.shift, k) = 1 /\ \A j \in 0..4 : j < k => Bit(chip.shift, j) = 0
Port == INSTANCE SerialPort WITH
  Registers <- {"control", "chr0", "chr1", "prg"}, Control <- "control", Width <- 5, Fixing <- FixTop,
  bits <- [i \in 1..(4 - Mark) |-> Bit(chip.shift, Mark + i)],
  contents <- [control |-> chip.control, chr0 |-> chip.chr[1], chr1 |-> chip.chr[2], prg |-> chip.prg]
PortIsSerial == Port!Empty /\ [][writes' < writes => [Port!PortNext]_<<chip.shift, chip.control, chip.chr, chip.prg>>]_mmc1Vars

\* The port drops a write that comes a cycle after another.  This CPU writes once in an instruction, of two
\* cycles at least, so a program loses a write only where a reset has set the cycles back.
OnlyResetsLoseWrites == [][writes' < writes /\ Ignore => revived]_mmc1Vars

\* Traces name the bank that is read, patterns are stored where they are read, and both halves of what a
\* SUROM program sees come from the half of the ROM that its first pattern register chose.
Mmc1IsCoherent ==
  /\ \A slot \in Windows :
       /\ LabelSlot(slot) = ReadSlot(slot)
       /\ sxrom.surom => ReadSlot(slot) \div 32 = Outer % Count(sxrom.prg, 32)
  /\ \A page \in Pages : WritePage(page) = ReadPage(page)
=============================================================================
