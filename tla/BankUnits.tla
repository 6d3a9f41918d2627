----------------------------- MODULE BankUnits -----------------------------
(***************************************************************************)
(* What the boards have in common.  A cartridge c is a record of mapper,   *)
(* sub, prg (banks of 8 KiB), chr (banks of 1 KiB), ram (patterns are RAM) *)
(* and header (mirroring); q is the record of a board's registers:         *)
(*   prg, chr  bank registers         select, mode  register number, mode  *)
(*   latch     latches of MMC2        tables        page of each table     *)
(*   work      a byte of PRG RAM      guard         its protection (N163)  *)
(* A slot is 8 KiB from $8000, a page 1 KiB of patterns.                   *)
(***************************************************************************)
EXTENDS Integers, Sequences

Windows == 0..3
Pages == 0..7
Bit(v, i) == (v \div 2^i) % 2
Region(addr) == addr \div 4096   \* the first digit of a hexadecimal address
Floor(n) == IF n < 0 THEN 0 ELSE n

Horizontal == <<0, 0, 1, 1>>
Vertical == <<0, 1, 0, 1>>
FourScreen == <<0, 1, 2, 3>>
Single(page) == <<page, page, page, page>>

\* bank_count: how many banks of size there are, one at least.
Count(banks, size) == IF banks < size THEN 1 ELSE banks \div size

\* read_bank: the bank behind a slot of a window that is size slots long.
ReadUnit(banks, size, bank, slot) ==
  ((bank % Count(banks, size)) * size + (slot % size)) % banks

\* write_bank: the bank that a byte is written to.
WriteUnit(banks, size, bank, slot) ==
  ((bank % Count(banks, size)) * size + (slot % size)) % banks

\* physical_bank_8k: the bank that is named for the slot.
LabelUnit(banks, size, bank, slot) ==
  ((bank % Count(banks, size)) * size + (slot % size)) % banks

LastBank(c, size) == Floor(Count(c.prg, size) - 1)

FixedMirroring(header) ==
  CASE header = "horizontal" -> Horizontal
    [] header = "vertical" -> Vertical
    [] OTHER -> FourScreen

Swapped(v) == IF Bit(v, 0) = 0 THEN Vertical ELSE Horizontal

\* ensure_chr: patterns without ROM are RAM.
Patterns(rom) == [chr |-> IF rom = 0 THEN 8 ELSE rom, ram |-> rom = 0]

IsWork(addr) == Region(addr) \in 6..7
Blank(c, prg) ==
  [prg |-> prg, chr |-> [i \in Pages |-> 0], select |-> 0, mode |-> 0, latch |-> <<FALSE, FALSE>>,
   tables |-> FixedMirroring(c.header), work |-> 0, guard |-> 0]
Zeros == [i \in Windows |-> 0]

\* The first two banks and the last two, as bytes.
Ends(c) == [i \in Windows |-> IF i < 2 THEN i ELSE Floor(Count(c.prg, 1) - 4 + i) % 256]
=============================================================================
