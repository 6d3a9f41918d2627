--------------------------- MODULE ExtendedBoards --------------------------
(***************************************************************************)
(* The boards of mapper_scaffolds.rs and namco163.rs: MMC5, the VRC        *)
(* family, FME-7, Bandai, Jaleco, the shared decoder, Namco 163.  All have *)
(* four program slots of 8 KiB and, but for MMC5, eight pattern banks of   *)
(* 1 KiB.  Their interrupt registers are in BoardIrq.                      *)
(***************************************************************************)
EXTENDS BankUnits

\* The steps of 2 KiB from the region first.
Cut(addr, first) == (addr \div 2048) - 2 * first
Wrapped(c, q, n) == q.prg[n] % Count(c.prg, 1)
LastFixed(c, q) == <<Wrapped(c, q, 0), Wrapped(c, q, 1), Wrapped(c, q, 2), LastBank(c, 1)>>

----------------------------------------------------------------------------
Mmc5Fresh(c) ==
  LET last == LastBank(c, 1) % 256
      prg == [i \in Windows |-> IF i < 2 THEN i ELSE IF i = 2 THEN Floor(last - 1) ELSE last]
  IN [Blank(c, prg) EXCEPT !.mode = 3, !.tables = Single(0)]
Mmc5Write(q, addr, v) ==
  LET r == addr - 81 * 256 IN   \* from $5100
  CASE r = 0 -> [q EXCEPT !.mode = v % 4]
    [] r = 5 -> [q EXCEPT !.tables = [i \in 1..4 |-> (v \div 4^(i - 1)) % 4]]
    [] r \in 20..23 -> [q EXCEPT !.prg[r - 20] = v]
    [] r \in 32..39 -> [q EXCEPT !.chr[r - 32] = v]
    [] IsWork(addr) -> [q EXCEPT !.work = v]
    [] OTHER -> q
Aligned(q, n, size) == q.prg[n] - (q.prg[n] % size)

\* prg_bank_for_slot.  Mode 2 has two banks of 8 KiB below one of 16 KiB.
Mmc5Window(c, q, slot) ==
  LET bank == CASE q.mode = 0 -> Aligned(q, 3, 4) + slot
                [] q.mode = 1 /\ slot < 2 -> Aligned(q, 1, 2) + slot
                [] q.mode = 2 /\ slot < 2 -> q.prg[slot + 1]
                [] q.mode \in {1, 2} /\ slot >= 2 -> Aligned(q, 3, 2) + (slot - 2)
                [] OTHER -> q.prg[slot]
  IN bank % Count(c.prg, 1)
Mmc5Read(c, q, slot) == ReadUnit(c.prg, 1, Mmc5Window(c, q, slot), 0)
Mmc5Label(c, q, slot) == LabelUnit(c.prg, 1, Mmc5Window(c, q, slot), 0)
Mmc5Debug(c, q) == [i \in 1..4 |-> Mmc5Window(c, q, i - 1)]
Mmc5Bank(c, q, page) == q.chr[page] % Count(c.chr, 1)
Mmc5Pattern(c, q, page) == ReadUnit(c.chr, 1, Mmc5Bank(c, q, page), 0)
Mmc5Store(c, q, page) == WriteUnit(c.chr, 1, Mmc5Bank(c, q, page), 0)

\* Extra RAM and fill mode (sources 2 and 3) are not drawn: four screens.
Mmc5Tables(q) == IF \E i \in 1..4 : q.tables[i] > 1 THEN FourScreen ELSE q.tables

----------------------------------------------------------------------------
(* VRC1 (75), VRC2 (22), VRC4 (21, 23, 25), VRC6 (24, 26), VRC7 (85) *)

IsVrc2(c) == c.mapper = 22 \/ c.sub \in {3, 4}
IsVrc4Like(c) == c.mapper \in {21, 23, 25}
IsVrc6(c) == c.mapper \in {24, 26}
IsVrc7(c) == c.mapper = 85
VrcFresh(c) == Blank(c, Ends(c))

\* vrc_register_select: the two address lines a board connects to its select pins.
SelectLines(c) ==
  CASE c.mapper = 22 \/ (c.mapper = 25 /\ c.sub \in {1, 3}) -> <<1, 0>>
    [] c.mapper = 21 /\ c.sub = 2 -> <<6, 7>>
    [] c.mapper = 21 /\ c.sub # 2 -> <<1, 2>>
    [] c.mapper = 23 /\ c.sub = 2 -> <<2, 3>>
    [] c.mapper = 25 /\ c.sub = 2 -> <<3, 2>>
    [] c.mapper = 25 /\ c.sub \notin 1..3 -> <<1, 0>>
    [] OTHER -> <<0, 1>>
RegisterSelect(c, addr) == Bit(addr, SelectLines(c)[1]) + (2 * Bit(addr, SelectLines(c)[2]))

\* A write that the sound registers take changes no bank.
Vrc6Sound(c, addr) == IsVrc6(c) /\ Region(addr) \in 9..11 /\ addr % 4 < 3
Vrc7Sound(c, addr) == IsVrc7(c) /\ Region(addr) = 9 /\ Bit(addr, 4) = 1

VrcMode(c, q, addr, v) ==
  LET s == RegisterSelect(c, addr) IN
  CASE s = 0 /\ v % 4 < 2 -> [q EXCEPT !.tables = Swapped(v)]
    [] s = 0 /\ v % 4 >= 2 /\ ~IsVrc2(c) -> [q EXCEPT !.tables = FourScreen]
    [] s = 2 /\ ~IsVrc2(c) -> [q EXCEPT !.mode = Bit(v, 1)]
    [] OTHER -> q

\* VRC2 and VRC4 write half a pattern register, the other half stays.
Digit(old, high, v) == IF high THEN (old % 16) + (16 * (v % 16)) ELSE (16 * (old \div 16)) + (v % 16)
VrcPatterns(c, q, addr, v) ==
  LET s == RegisterSelect(c, addr) IN
  CASE c.mapper \in {21, 22, 23, 25} ->
         [q EXCEPT !.chr[2 * (Region(addr) - 11) + (s \div 2)] = Digit(@, s % 2 = 1, v)]
    [] IsVrc6(c) -> [q EXCEPT !.chr[Cut(addr, 11)] = v]
    [] OTHER -> q
Vrc6Pattern(c, addr) ==
  (4 * (Region(addr) - 13)) + (IF c.mapper = 26 THEN (2 * Bit(addr, 0)) + Bit(addr, 1) ELSE addr % 4)
Vrc7Register(q, addr, v) ==
  LET g == Region(addr)
      odd == Bit(addr, 4)
  IN CASE g = 8 -> [q EXCEPT !.prg[IF odd = 1 /\ Bit(addr, 5) = 0 THEN 1 ELSE 0] = v]
       [] g = 9 -> [q EXCEPT !.prg[2] = v]
       [] g \in 10..13 -> [q EXCEPT !.chr[2 * (g - 10) + odd] = v]
       [] OTHER -> q
VrcRegister(c, q, addr, v) ==
  LET g == Region(addr) IN
  CASE IsVrc7(c) -> Vrc7Register(q, addr, v)
    [] ~IsVrc7(c) /\ g = 8 -> [q EXCEPT !.prg[0] = v]
    [] ~IsVrc7(c) /\ g = 9 -> VrcMode(c, q, addr, v)
    [] ~IsVrc7(c) /\ g = 10 -> [q EXCEPT !.prg[1] = v]
    [] IsVrc6(c) /\ g = 12 -> [q EXCEPT !.prg[2] = v]
    [] IsVrc6(c) /\ g \in {13, 14} -> [q EXCEPT !.chr[Vrc6Pattern(c, addr)] = v]
    [] ~IsVrc7(c) /\ (g = 11 \/ (g \in 12..14 /\ ~IsVrc6(c))) -> VrcPatterns(c, q, addr, v)
    [] OTHER -> q
VrcWrite(c, q, addr, v) ==
  CASE Vrc6Sound(c, addr) \/ Vrc7Sound(c, addr) -> q
    [] IsWork(addr) -> [q EXCEPT !.work = v]
    [] OTHER -> VrcRegister(c, q, addr, v)

VrcWindows(c, q) ==
  LET second == Floor(Count(c.prg, 1) - 2) IN
  CASE IsVrc6(c) \/ IsVrc7(c) -> LastFixed(c, q)
    [] IsVrc4Like(c) /\ q.mode = 1 -> <<second, Wrapped(c, q, 1), Wrapped(c, q, 0), LastBank(c, 1)>>
    [] OTHER -> <<Wrapped(c, q, 0), Wrapped(c, q, 1), second, LastBank(c, 1)>>
VrcRead(c, q, slot) == ReadUnit(c.prg, 1, VrcWindows(c, q)[slot + 1], 0)
VrcLabel(c, q, slot) == LabelUnit(c.prg, 1, VrcWindows(c, q)[slot + 1], 0)
VrcDebug(c, q) == VrcWindows(c, q)
VrcPattern(c, q, page) == ReadUnit(c.chr, 1, q.chr[page], 0)
VrcStore(c, q, page) == WriteUnit(c.chr, 1, q.chr[page], 0)

\* The boards with sound take no snapshot back.
VrcRestorable(c) == ~IsVrc6(c) /\ ~IsVrc7(c)
\* *mutant* of VrcRestore: the swap of the program slots is forgotten.
VrcRestoreNoMode(q, saved) == [q EXCEPT !.prg = saved.prg, !.chr = saved.chr, !.work = saved.work]
VrcRestore(q, saved) ==
  [q EXCEPT !.mode = saved.mode, !.prg = saved.prg, !.chr = saved.chr, !.work = saved.work]

----------------------------------------------------------------------------
\* FME-7: a command chooses the register that the next write goes to.
Fme7Fresh(c) == [Blank(c, Ends(c)) EXCEPT !.tables = IF c.header = "horizontal" THEN Horizontal ELSE Vertical]
Fme7Write(q, addr, v) ==
  LET data == Region(addr) \in 10..11 IN
  CASE Region(addr) \in 8..9 -> [q EXCEPT !.select = v % 16]
    [] data /\ q.select < 8 -> [q EXCEPT !.chr[q.select] = v]
    [] data /\ q.select \in 8..11 -> [q EXCEPT !.prg[q.select - 8] = v]
    [] data /\ q.select = 12 ->
         [q EXCEPT !.tables = <<Vertical, Horizontal, Single(0), Single(1)>>[(v % 4) + 1]]
    [] IsWork(addr) -> [q EXCEPT !.work = v]
    [] OTHER -> q
Fme7Windows(c, q) == LastFixed(c, q)
Fme7Read(c, q, slot) == ReadUnit(c.prg, 1, Fme7Windows(c, q)[slot + 1], 0)
Fme7Label(c, q, slot) == LabelUnit(c.prg, 1, Fme7Windows(c, q)[slot + 1], 0)
Fme7Debug(c, q) == Fme7Windows(c, q)
Fme7Pattern(c, q, page) == ReadUnit(c.chr, 1, q.chr[page], 0)
Fme7Store(c, q, page) == WriteUnit(c.chr, 1, q.chr[page], 0)

----------------------------------------------------------------------------
BandaiFresh(c) == Blank(c, Zeros)
BandaiWrite(q, addr, v) ==
  CASE IsWork(addr) -> [q EXCEPT !.work = v]
    [] Region(addr) \in 8..11 -> [q EXCEPT !.chr[Cut(addr, 8) % 8] = v]
    [] Region(addr) = 12 -> [q EXCEPT !.prg[0] = v]
    [] Region(addr) = 13 -> [q EXCEPT !.tables = Swapped(v)]
    [] OTHER -> q
BandaiRead(c, q, slot) == ReadUnit(c.prg, 2, IF slot < 2 THEN q.prg[0] ELSE LastBank(c, 2), slot)
BandaiLabel(c, q, slot) == LabelUnit(c.prg, 2, IF slot >= 2 THEN LastBank(c, 2) ELSE q.prg[0], slot)
BandaiDebug(c, q) == <<q.prg[0], LastBank(c, 2)>>
BandaiPattern(c, q, page) == ReadUnit(c.chr, 1, q.chr[page], 0)
BandaiStore(c, q, page) == WriteUnit(c.chr, 1, q.chr[page], 0)

----------------------------------------------------------------------------
JalecoFresh(c) == Blank(c, [i \in Windows |-> IF i < 3 THEN i ELSE 0])
JalecoWrite(q, addr, v) ==
  CASE IsWork(addr) -> [q EXCEPT !.work = v]
    [] Region(addr) \in 8..9 -> [q EXCEPT !.prg[Cut(addr, 8) % 3] = v]
    [] Region(addr) \in 10..13 -> [q EXCEPT !.chr[Cut(addr, 10) % 8] = v]
    [] OTHER -> q
JalecoWindows(c, q) == LastFixed(c, q)
JalecoRead(c, q, slot) == ReadUnit(c.prg, 1, JalecoWindows(c, q)[slot + 1], 0)
JalecoLabel(c, q, slot) == LabelUnit(c.prg, 1, JalecoWindows(c, q)[slot + 1], 0)
JalecoDebug(c, q) == JalecoWindows(c, q)
JalecoPattern(c, q, page) == ReadUnit(c.chr, 1, q.chr[page], 0)
JalecoStore(c, q, page) == WriteUnit(c.chr, 1, q.chr[page], 0)

----------------------------------------------------------------------------
\* BoardScaffoldMapper: one decoder for nine boards.
SharedFresh(c) == Blank(c, Ends(c))
SharedWrite(q, addr, v) ==
  LET g == Region(addr) IN
  CASE IsWork(addr) -> [q EXCEPT !.work = v]
    [] g = 8 -> [q EXCEPT !.prg[0] = v]
    [] g = 9 -> [q EXCEPT !.mode = v]
    [] g = 10 -> [q EXCEPT !.prg[1] = v]
    [] g \in 11..14 -> [q EXCEPT !.chr[Cut(addr, 11) % 8] = v]
    [] OTHER -> q
SharedWindows(c, q) == [i \in 1..4 |-> Wrapped(c, q, i - 1)]
SharedRead(c, q, slot) == ReadUnit(c.prg, 1, SharedWindows(c, q)[slot + 1], 0)
SharedLabel(c, q, slot) == LabelUnit(c.prg, 1, SharedWindows(c, q)[slot + 1], 0)
SharedDebug(c, q) == SharedWindows(c, q)
SharedPattern(c, q, page) == ReadUnit(c.chr, 1, q.chr[page], 0)
SharedStore(c, q, page) == WriteUnit(c.chr, 1, q.chr[page], 0)

----------------------------------------------------------------------------
\* Namco 163: guard is the RAM port, whose high half unlocks PRG RAM and whose low bits lock
\* a quarter of it each; work lies in the first quarter.
N163Fresh(c) ==
  [Blank(c, [i \in Windows |-> IF i < 3 THEN i ELSE 0])
     EXCEPT !.tables = IF c.header = "vertical" THEN Vertical ELSE Horizontal]
N163Open(q) == q.guard \div 16 = 4 /\ q.guard % 2 = 0
N163Write(q, addr, v) ==
  CASE Cut(addr, 6) = 0 -> IF N163Open(q) THEN [q EXCEPT !.work = v] ELSE q
    [] Region(addr) \in 8..11 -> [q EXCEPT !.chr[Cut(addr, 8)] = v]
    [] Region(addr) \in 12..13 -> [q EXCEPT !.tables[Cut(addr, 12) + 1] = v % 2]
    [] Cut(addr, 14) \in 0..2 -> [q EXCEPT !.prg[Cut(addr, 14)] = v % 64]
    [] Cut(addr, 14) = 3 -> [q EXCEPT !.guard = v]
    [] OTHER -> q
N163Windows(c, q) == LastFixed(c, q)
N163Read(c, q, slot) == ReadUnit(c.prg, 1, N163Windows(c, q)[slot + 1], 0)
N163Label(c, q, slot) == LabelUnit(c.prg, 1, N163Windows(c, q)[slot + 1], 0)
N163Debug(c, q) == N163Windows(c, q)
N163Pattern(c, q, page) == ReadUnit(c.chr, 1, q.chr[page], 0)
N163Store(c, q, page) == WriteUnit(c.chr, 1, q.chr[page], 0)
N163Tables(q) == IF q.tables \in {Single(0), Single(1), Vertical, Horizontal} THEN q.tables ELSE FourScreen
N163Restore(q, saved) ==
  [q EXCEPT !.guard = saved.guard, !.prg = saved.prg, !.chr = saved.chr, !.tables = saved.tables,
            !.work = saved.work]
=============================================================================
