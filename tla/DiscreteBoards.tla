--------------------------- MODULE DiscreteBoards --------------------------
(***************************************************************************)
(* The boards of mapper.rs: NROM, UxROM, VRC3, CNROM, the boards with one  *)
(* latch, AxROM, MMC2 and MMC4, MMC3, and the probe for unknown ones.  For *)
(* each: the registers of a new board, a write, the bank read in a slot,   *)
(* the bank named for it, the windows reported, the patterns read and      *)
(* written, and what a restored snapshot brings back.                      *)
(***************************************************************************)
EXTENDS BankUnits

\* Patterns without banks.
PlainRead(c, page) == page % c.chr
PlainWrite(c, page) == page % c.chr

----------------------------------------------------------------------------
NromRead(c, slot) == IF c.prg <= 2 THEN slot % 2 ELSE slot
NromLabel(c, slot) == LabelUnit(c.prg, IF c.prg <= 2 THEN 2 ELSE 4, 0, slot)
NromDebug(c) == IF c.prg <= 2 THEN <<0, 0>> ELSE <<0, 1>>
NromWrite(q, addr, v) == IF IsWork(addr) THEN [q EXCEPT !.work = v] ELSE q
NromTables(c) == FixedMirroring(c.header)
NromRestore(q, saved) == [q EXCEPT !.work = saved.work]

----------------------------------------------------------------------------
FixedLower(c) == c.mapper = 180
UxromFresh(c) == Blank(c, Zeros)
UxromWrite(c, q, addr, v) ==
  LET selected == IF c.mapper = 94 THEN (v \div 4) % 8 ELSE v % 16
  IN IF Region(addr) >= 8 THEN [q EXCEPT !.prg[0] = selected] ELSE q
UxromRead(c, q, slot) ==
  ReadUnit(c.prg, 2, CASE slot < 2 -> IF FixedLower(c) THEN 0 ELSE q.prg[0]
                       [] OTHER -> IF FixedLower(c) THEN q.prg[0] ELSE Count(c.prg, 2) - 1, slot)
\* *mutant* of UxromLabel: takes every board for one with its first half movable.
UxromLabelLower(c, q, slot) == LabelUnit(c.prg, 2, IF slot < 2 THEN q.prg[0] ELSE LastBank(c, 2), slot)
UxromLabel(c, q, slot) ==
  LET movable == IF FixedLower(c) THEN slot >= 2 ELSE slot < 2
      fixed == IF FixedLower(c) THEN 0 ELSE LastBank(c, 2)
  IN LabelUnit(c.prg, 2, IF movable THEN q.prg[0] ELSE fixed, slot)
UxromDebug(c, q) == IF FixedLower(c) THEN <<0, q.prg[0]>> ELSE <<q.prg[0], Count(c.prg, 2) - 1>>
UxromRestore(q, saved) == [q EXCEPT !.prg[0] = saved.prg[0]]

----------------------------------------------------------------------------
Vrc3Write(q, addr, v) ==
  CASE IsWork(addr) -> [q EXCEPT !.work = v]
    [] Region(addr) = 15 -> [q EXCEPT !.prg[0] = v % 16]
    [] OTHER -> q
Vrc3Read(c, q, slot) == ReadUnit(c.prg, 2, IF slot < 2 THEN q.prg[0] ELSE Count(c.prg, 2) - 1, slot)
Vrc3Label(c, q, slot) == LabelUnit(c.prg, 2, IF slot >= 2 THEN LastBank(c, 2) ELSE q.prg[0], slot)
Vrc3Debug(c, q) == <<q.prg[0], Count(c.prg, 2) - 1>>
Vrc3Restore(q, saved) == [q EXCEPT !.prg[0] = saved.prg[0], !.work = saved.work]

----------------------------------------------------------------------------
CnromWrite(q, addr, v) == IF Region(addr) >= 8 THEN [q EXCEPT !.chr[0] = v % 4] ELSE q
CnromRead(c, slot) == IF c.prg <= 2 THEN slot % 2 ELSE slot
CnromLabel(c, slot) == LabelUnit(c.prg, IF c.prg <= 2 THEN 2 ELSE 4, 0, slot)
CnromDebug(c) == IF c.prg <= 2 THEN <<0, 0>> ELSE <<0, 1>>
CnromPattern(c, q, page) == ReadUnit(c.chr, 8, q.chr[0], page)

----------------------------------------------------------------------------
\* Color Dreams (11), CPROM (13), BNROM (34), GxROM (66), NINA-03 (79).
SimpleFresh(c) == Blank(c, Zeros)
SimpleWrite(c, q, addr, v) ==
  LET prg == CASE c.mapper \in {11, 66} -> (v \div 16) % 4
               [] c.mapper = 34 -> v % 16
               [] c.mapper = 79 -> (v \div 8) % 4
               [] c.mapper = 13 -> 0
      chr == CASE c.mapper = 11 -> v % 16
               [] c.mapper = 66 -> v % 4
               [] c.mapper = 79 -> v % 8
               [] c.mapper = 13 -> v % 2
               [] c.mapper = 34 -> q.chr[0]
  IN IF Region(addr) >= 8 \/ (c.mapper = 79 /\ addr \div 256 \in 65..95)   \* $4100 to $5FFF
       THEN [q EXCEPT !.prg[0] = prg, !.chr[0] = chr] ELSE q
SimpleRead(c, q, slot) == ReadUnit(c.prg, 4, q.prg[0], slot)
SimpleLabel(c, q, slot) == LabelUnit(c.prg, 4, q.prg[0], slot)
SimpleDebug(q) == <<q.prg[0]>>
CpromBank(q, page) == IF page < 4 THEN 0 ELSE q.chr[0] + 1
SimplePattern(c, q, page) ==
  IF c.mapper = 13 THEN ReadUnit(c.chr, 4, CpromBank(q, page), page)
  ELSE ReadUnit(c.chr, 8, IF c.mapper = 34 THEN 0 ELSE q.chr[0], page)
\* *mutant* of SimpleStore: the upper half of CPROM is not moved up by one bank.
SimpleStoreLow(c, q, page) == WriteUnit(c.chr, IF c.mapper = 13 THEN 4 ELSE 8, q.chr[0], page)
SimpleStore(c, q, page) ==
  IF c.mapper = 13 THEN WriteUnit(c.chr, 4, CpromBank(q, page), page)
  ELSE WriteUnit(c.chr, 8, IF c.mapper = 34 THEN 0 ELSE q.chr[0], page)
SimpleRestore(q, saved) == [q EXCEPT !.prg[0] = saved.prg[0], !.chr[0] = saved.chr[0]]

----------------------------------------------------------------------------
AxromFresh(c) == [Blank(c, Zeros) EXCEPT !.tables = Single(0)]
AxromWrite(q, addr, v) ==
  IF Region(addr) >= 8 THEN [q EXCEPT !.prg[0] = v % 8, !.tables = Single(Bit(v, 4))] ELSE q
AxromRead(c, q, slot) == ReadUnit(c.prg, 4, q.prg[0], slot)
AxromLabel(c, q, slot) == LabelUnit(c.prg, 4, q.prg[0], slot)
AxromDebug(q) == <<q.prg[0]>>

----------------------------------------------------------------------------
(* MMC2 (9) has one movable bank of 8 KiB, MMC4 (10) one of 16 KiB; each   *)
(* half of the patterns has two banks, a latch chooses.                    *)

Mmc2Fresh(c) == Blank(c, Zeros)
Mmc2Write(q, addr, v) ==
  LET g == Region(addr) IN
  CASE g = 10 -> [q EXCEPT !.prg[0] = v]
    [] g \in 11..14 -> [q EXCEPT !.chr[g - 11] = v]
    [] g = 15 -> [q EXCEPT !.tables = Swapped(v)]
    [] OTHER -> q
Mmc2Read(c, q, slot) ==
  IF c.mapper = 9
    THEN ReadUnit(c.prg, 1, IF slot = 0 THEN q.prg[0] ELSE Floor(Count(c.prg, 1) - 4 + slot), 0)
    ELSE ReadUnit(c.prg, 2, IF slot < 2 THEN q.prg[0] ELSE LastBank(c, 2), slot)
Mmc2Label(c, q, slot) ==
  LET top(n) == Floor(Count(c.prg, 1) - n)
  IN IF c.mapper = 9 THEN LabelUnit(c.prg, 1, <<q.prg[0], top(3), top(2), top(1)>>[slot + 1], 0)
     ELSE LabelUnit(c.prg, 2, IF slot < 2 THEN q.prg[0] ELSE LastBank(c, 2), slot)
Mmc2Debug(q) == <<q.prg[0]>>
Mmc2Selected(q, page) ==
  LET half == page \div 4 IN q.chr[2 * half + (IF q.latch[half + 1] THEN 1 ELSE 0)]
Mmc2Pattern(c, q, page) == ReadUnit(c.chr, 4, Mmc2Selected(q, page), page)
Mmc2Store(c, q, page) == WriteUnit(c.chr, 4, Mmc2Selected(q, page), page)

\* notify_ppu_addr: the fetch of tile $FD or $FE of a half turns its latch.
Mmc2Notify(q, addr) ==
  LET half == addr \div 4096
      row == (addr % 4096) \div 8   \* 16 bytes a tile, two planes of 8
  IN CASE row = 2 * 253 + 1 -> [q EXCEPT !.latch[half + 1] = FALSE]
       [] row = 2 * 254 + 1 -> [q EXCEPT !.latch[half + 1] = TRUE]
       [] OTHER -> q
Mmc2Restore(q, saved) ==
  [q EXCEPT !.prg[0] = saved.prg[0], !.latch = saved.latch, !.tables = saved.tables,
            !.chr = [i \in Pages |-> IF i < 4 THEN saved.chr[i] ELSE @[i]]]

----------------------------------------------------------------------------
(* MMC3 (4), TLSROM (118), TQROM (119) *)

Mmc3Fresh(c) == Blank(c, Zeros)

\* write_register: select names the bank register that the odd address writes.
Mmc3Register(q, addr, v) ==
  LET g == addr \div 8192
      n == q.select % 8
      even == addr % 2 = 0
  IN CASE g = 4 /\ even -> [q EXCEPT !.select = v]
       [] g = 4 /\ ~even /\ n < 6 -> [q EXCEPT !.chr[n] = v]
       [] g = 4 /\ ~even /\ n >= 6 -> [q EXCEPT !.prg[n - 6] = v]
       [] g = 5 /\ even -> [q EXCEPT !.tables = Swapped(v)]
       [] OTHER -> q
Mmc3Write(q, addr, v) ==
  CASE IsWork(addr) -> [q EXCEPT !.work = v]
    [] Region(addr) >= 8 -> Mmc3Register(q, addr, v)
    [] OTHER -> q
Mmc3Windows(c, q) ==
  LET second == Floor(Count(c.prg, 1) - 2)
      movable(n) == q.prg[n] % Count(c.prg, 1)
  IN IF Bit(q.select, 6) = 0 THEN <<movable(0), movable(1), second, LastBank(c, 1)>>
                             ELSE <<second, movable(1), movable(0), LastBank(c, 1)>>
Mmc3Read(c, q, slot) == ReadUnit(c.prg, 1, Mmc3Windows(c, q)[slot + 1], 0)
Mmc3Label(c, q, slot) == LabelUnit(c.prg, 1, Mmc3Windows(c, q)[slot + 1], 0)
Mmc3Debug(c, q) == Mmc3Windows(c, q)

\* chr_bank_for_addr: two banks of 2 KiB and four of 1 KiB, bit 7 of select exchanges the halves.
Mmc3Bank(q, page) ==
  LET p == IF Bit(q.select, 7) = 0 THEN page ELSE (page + 4) % 8
  IN IF p < 4 THEN q.chr[p \div 2] - (q.chr[p \div 2] % 2) + (p % 2) ELSE q.chr[p - 2]

\* TQROM has RAM next to its ROM, bit 6 of a bank chooses.
InVariantRam(c, q, page) == c.mapper = 119 /\ Bit(Mmc3Bank(q, page), 6) = 1
Mmc3Pattern(c, q, page) ==
  LET bank == IF c.mapper = 119 THEN Mmc3Bank(q, page) % 64 ELSE Mmc3Bank(q, page)
  IN IF InVariantRam(c, q, page) THEN <<"ram", ReadUnit(8, 1, bank, 0)>>
     ELSE <<"chr", ReadUnit(c.chr, 1, bank, 0)>>
Mmc3Store(c, q, page) ==
  IF InVariantRam(c, q, page) THEN <<"ram", (Mmc3Bank(q, page) % 64) % 8>>
  ELSE <<"chr", page % c.chr>>
Mmc3Tables(c, q) == IF c.mapper = 118 THEN Swapped(Bit(q.chr[0], 6)) ELSE q.tables
Mmc3Restore(q, saved) ==
  [q EXCEPT !.select = saved.select, !.prg = saved.prg, !.chr = saved.chr, !.work = saved.work]

----------------------------------------------------------------------------
ProbeWrite(q, addr, v) == IF IsWork(addr) THEN [q EXCEPT !.work = v] ELSE q
ProbeRead(c, slot) == ReadUnit(c.prg, 2, IF slot < 2 THEN 0 ELSE Count(c.prg, 2) - 1, slot)
ProbeLabel(c, slot) == LabelUnit(c.prg, 2, IF slot >= 2 THEN LastBank(c, 2) ELSE 0, slot)
ProbeDebug(c) == IF c.prg <= 2 THEN <<0, 0>> ELSE <<0, Count(c.prg, 2) - 1>>
=============================================================================
