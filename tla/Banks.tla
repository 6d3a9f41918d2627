------------------------------- MODULE Banks -------------------------------
(***************************************************************************)
(* A cartridge whose program writes to its board, and what the board then  *)
(* shows: the banks of the program, of the patterns, and the pages of the  *)
(* name tables.  The boards are in DiscreteBoards and ExtendedBoards; MMC1 *)
(* has a module of its own.                                                *)
(***************************************************************************)
EXTENDS DiscreteBoards, ExtendedBoards

CONSTANTS
  Carts,     \* the cartridges
  Ports,     \* Ports[mapper]: the addresses the program writes
  Values,    \* the bytes it writes
  Fetches,   \* the pattern addresses the PPU shows to the latches of MMC2 and MMC4
  MaxWrites  \* bound: writes in a behaviour

VARIABLES cart, board, stores
bankVars == <<cart, board, stores>>

\* create_mapper
Family(c) ==
  LET m == c.mapper IN
  CASE m = 0 -> "nrom"
    [] m \in {2, 71, 94, 180} -> "uxrom"
    [] m = 3 -> "cnrom"
    [] m \in {4, 118, 119} -> "mmc3"
    [] m = 5 -> "mmc5"
    [] m = 7 -> "axrom"
    [] m \in {9, 10} -> "mmc2"
    [] m \in {11, 13, 66, 79} \/ (m = 34 /\ c.sub = 0) -> "simple"
    [] m \in {16, 159} -> "bandai"
    [] m = 18 -> "jaleco"
    [] m = 19 -> "n163"
    [] m \in (21..26) \union {75, 85} -> "vrc"
    [] m \in {32, 33, 48, 64, 68, 76, 87, 206, 210} -> "shared"
    [] m = 69 -> "fme7"
    [] m = 73 -> "vrc3"
    [] OTHER -> "probe"

\* A bank of the program has a name of 16 bits; a board that mirrors 16 KiB of it has whole 16 KiB; and
\* whatever takes a program's write takes any address and byte.
ASSUME BanksAssumption ==
  /\ \A c \in Carts :
       /\ {c.mapper, c.sub} \subseteq Nat
       /\ c.prg \in 1..2^16 /\ c.chr \in Nat \ {0}
       /\ Family(c) \in {"nrom", "cnrom"} => c.prg % 2 = 0
       /\ Ports[c.mapper] \subseteq 0..2^16 - 1
  /\ Values \subseteq 0..255 /\ Fetches \subseteq 0..2^13 - 1
  /\ MaxWrites \in Nat

Fresh(c) ==
  LET f == Family(c) IN
  CASE f \in {"nrom", "cnrom", "vrc3", "probe"} -> Blank(c, Zeros)
    [] f = "uxrom" -> UxromFresh(c)
    [] f = "simple" -> SimpleFresh(c)
    [] f = "axrom" -> AxromFresh(c)
    [] f = "mmc2" -> Mmc2Fresh(c)
    [] f = "mmc3" -> Mmc3Fresh(c)
    [] f = "mmc5" -> Mmc5Fresh(c)
    [] f = "vrc" -> VrcFresh(c)
    [] f = "fme7" -> Fme7Fresh(c)
    [] f = "bandai" -> BandaiFresh(c)
    [] f = "jaleco" -> JalecoFresh(c)
    [] f = "shared" -> SharedFresh(c)
    [] f = "n163" -> N163Fresh(c)

\* write_prg
Written(c, q, addr, v) ==
  LET f == Family(c) IN
  CASE f = "nrom" -> NromWrite(q, addr, v)
    [] f = "uxrom" -> UxromWrite(c, q, addr, v)
    [] f = "vrc3" -> Vrc3Write(q, addr, v)
    [] f = "cnrom" -> CnromWrite(q, addr, v)
    [] f = "simple" -> SimpleWrite(c, q, addr, v)
    [] f = "axrom" -> AxromWrite(q, addr, v)
    [] f = "mmc2" -> Mmc2Write(q, addr, v)
    [] f = "mmc3" -> Mmc3Write(q, addr, v)
    [] f = "probe" -> ProbeWrite(q, addr, v)
    [] f = "mmc5" -> Mmc5Write(q, addr, v)
    [] f = "vrc" -> VrcWrite(c, q, addr, v)
    [] f = "fme7" -> Fme7Write(q, addr, v)
    [] f = "bandai" -> BandaiWrite(q, addr, v)
    [] f = "jaleco" -> JalecoWrite(q, addr, v)
    [] f = "shared" -> SharedWrite(q, addr, v)
    [] f = "n163" -> N163Write(q, addr, v)

\* read_prg above $8000
ReadPrg(c, q, slot) ==
  LET f == Family(c) IN
  CASE f = "nrom" -> NromRead(c, slot)
    [] f = "uxrom" -> UxromRead(c, q, slot)
    [] f = "vrc3" -> Vrc3Read(c, q, slot)
    [] f = "cnrom" -> CnromRead(c, slot)
    [] f = "simple" -> SimpleRead(c, q, slot)
    [] f = "axrom" -> AxromRead(c, q, slot)
    [] f = "mmc2" -> Mmc2Read(c, q, slot)
    [] f = "mmc3" -> Mmc3Read(c, q, slot)
    [] f = "probe" -> ProbeRead(c, slot)
    [] f = "mmc5" -> Mmc5Read(c, q, slot)
    [] f = "vrc" -> VrcRead(c, q, slot)
    [] f = "fme7" -> Fme7Read(c, q, slot)
    [] f = "bandai" -> BandaiRead(c, q, slot)
    [] f = "jaleco" -> JalecoRead(c, q, slot)
    [] f = "shared" -> SharedRead(c, q, slot)
    [] f = "n163" -> N163Read(c, q, slot)

\* physical_prg_bank_8k: the name of the bank in traces, listings and audits.
LabelPrg(c, q, slot) ==
  LET f == Family(c) IN
  CASE f = "nrom" -> NromLabel(c, slot)
    [] f = "uxrom" -> UxromLabel(c, q, slot)
    [] f = "vrc3" -> Vrc3Label(c, q, slot)
    [] f = "cnrom" -> CnromLabel(c, slot)
    [] f = "simple" -> SimpleLabel(c, q, slot)
    [] f = "axrom" -> AxromLabel(c, q, slot)
    [] f = "mmc2" -> Mmc2Label(c, q, slot)
    [] f = "mmc3" -> Mmc3Label(c, q, slot)
    [] f = "probe" -> ProbeLabel(c, slot)
    [] f = "mmc5" -> Mmc5Label(c, q, slot)
    [] f = "vrc" -> VrcLabel(c, q, slot)
    [] f = "fme7" -> Fme7Label(c, q, slot)
    [] f = "bandai" -> BandaiLabel(c, q, slot)
    [] f = "jaleco" -> JalecoLabel(c, q, slot)
    [] f = "shared" -> SharedLabel(c, q, slot)
    [] f = "n163" -> N163Label(c, q, slot)

\* The program windows of debug_state, as many as the family reports.
DebugPrg(c, q) ==
  LET f == Family(c) IN
  CASE f = "nrom" -> NromDebug(c)
    [] f = "uxrom" -> UxromDebug(c, q)
    [] f = "vrc3" -> Vrc3Debug(c, q)
    [] f = "cnrom" -> CnromDebug(c)
    [] f = "simple" -> SimpleDebug(q)
    [] f = "axrom" -> AxromDebug(q)
    [] f = "mmc2" -> Mmc2Debug(q)
    [] f = "mmc3" -> Mmc3Debug(c, q)
    [] f = "probe" -> ProbeDebug(c)
    [] f = "mmc5" -> Mmc5Debug(c, q)
    [] f = "vrc" -> VrcDebug(c, q)
    [] f = "fme7" -> Fme7Debug(c, q)
    [] f = "bandai" -> BandaiDebug(c, q)
    [] f = "jaleco" -> JalecoDebug(c, q)
    [] f = "shared" -> SharedDebug(c, q)
    [] f = "n163" -> N163Debug(c, q)

\* read_chr: the memory and the bank behind a page.
ReadChr(c, q, page) ==
  LET f == Family(c) IN
  CASE f \in {"nrom", "uxrom", "vrc3", "axrom", "probe"} -> <<"chr", PlainRead(c, page)>>
    [] f = "cnrom" -> <<"chr", CnromPattern(c, q, page)>>
    [] f = "simple" -> <<"chr", SimplePattern(c, q, page)>>
    [] f = "mmc2" -> <<"chr", Mmc2Pattern(c, q, page)>>
    [] f = "mmc3" -> Mmc3Pattern(c, q, page)
    [] f = "mmc5" -> <<"chr", Mmc5Pattern(c, q, page)>>
    [] f = "vrc" -> <<"chr", VrcPattern(c, q, page)>>
    [] f = "fme7" -> <<"chr", Fme7Pattern(c, q, page)>>
    [] f = "bandai" -> <<"chr", BandaiPattern(c, q, page)>>
    [] f = "jaleco" -> <<"chr", JalecoPattern(c, q, page)>>
    [] f = "shared" -> <<"chr", SharedPattern(c, q, page)>>
    [] f = "n163" -> <<"chr", N163Pattern(c, q, page)>>

\* write_chr: whether a byte is stored, and where.
Writable(c, q, page) ==
  \/ c.ram /\ Family(c) # "cnrom"
  \/ InVariantRam(c, q, page)
WriteChr(c, q, page) ==
  LET f == Family(c) IN
  CASE f \in {"nrom", "uxrom", "vrc3", "axrom", "probe"} -> <<"chr", PlainWrite(c, page)>>
    [] f = "simple" -> <<"chr", SimpleStore(c, q, page)>>
    [] f = "mmc2" -> <<"chr", Mmc2Store(c, q, page)>>
    [] f = "mmc3" -> Mmc3Store(c, q, page)
    [] f = "mmc5" -> <<"chr", Mmc5Store(c, q, page)>>
    [] f = "vrc" -> <<"chr", VrcStore(c, q, page)>>
    [] f = "fme7" -> <<"chr", Fme7Store(c, q, page)>>
    [] f = "bandai" -> <<"chr", BandaiStore(c, q, page)>>
    [] f = "jaleco" -> <<"chr", JalecoStore(c, q, page)>>
    [] f = "shared" -> <<"chr", SharedStore(c, q, page)>>
    [] f = "n163" -> <<"chr", N163Store(c, q, page)>>

\* nametable_mirroring; four of the families leave it to the default of the trait.
NameTables(c, q) ==
  LET f == Family(c) IN
  CASE f \in {"vrc", "bandai", "jaleco", "shared", "probe"} -> FourScreen
    [] f = "nrom" -> NromTables(c)
    [] f = "mmc3" -> Mmc3Tables(c, q)
    [] f = "mmc5" -> Mmc5Tables(q)
    [] f = "n163" -> N163Tables(q)
    [] OTHER -> q.tables

\* restore_snapshot_bytes of snapshot_bytes: what board q is when it takes the snapshot of saved.
Restorable(c) ==
  \/ Family(c) \in {"nrom", "uxrom", "vrc3", "simple", "mmc2", "mmc3", "n163"}
  \/ Family(c) = "vrc" /\ VrcRestorable(c)
Restored(c, q, saved) ==
  LET f == Family(c) IN
  CASE f = "nrom" -> NromRestore(q, saved)
    [] f = "uxrom" -> UxromRestore(q, saved)
    [] f = "vrc3" -> Vrc3Restore(q, saved)
    [] f = "simple" -> SimpleRestore(q, saved)
    [] f = "mmc2" -> Mmc2Restore(q, saved)
    [] f = "mmc3" -> Mmc3Restore(q, saved)
    [] f = "vrc" -> VrcRestore(q, saved)
    [] f = "n163" -> N163Restore(q, saved)

----------------------------------------------------------------------------
BanksInit ==
  /\ cart \in Carts
  /\ board = Fresh(cart)
  /\ stores = MaxWrites

Store(addr, v) ==
  /\ stores > 0
  /\ board' = Written(cart, board, addr, v)
  /\ stores' = stores - 1
  /\ UNCHANGED cart

FetchPattern(addr) ==
  /\ Family(cart) = "mmc2"
  /\ board' = Mmc2Notify(board, addr)
  /\ UNCHANGED <<cart, stores>>

BanksNext ==
  \/ \E addr \in Ports[cart.mapper], v \in Values : Store(addr, v)
  \/ \E addr \in Fetches : FetchPattern(addr)

BanksSpec == BanksInit /\ [][BanksNext]_bankVars

----------------------------------------------------------------------------
(* Properties *)

\* The bank that traces, listings and audits name for a slot (physical_prg_bank_8k) is the bank the CPU
\* reads there, and so are the windows of debug_state, taken round the ROM.
ReportsNameTheBankRead ==
  LET d == DebugPrg(cart, board)
      per == CASE cart.mapper = 9 -> 1 [] cart.mapper = 10 -> 2 [] OTHER -> 4 \div Len(d)
  IN \A slot \in Windows :
       /\ LabelPrg(cart, board, slot) = ReadPrg(cart, board, slot)
       /\ slot \div per < Len(d)
            => ReadUnit(cart.prg, per, d[(slot \div per) + 1], slot) = ReadPrg(cart, board, slot)

\* A byte written to a pattern page is read back there, but for the plain RAM of an MMC3, which
\* write_chr stores without its bank.
PatternsReadBack ==
  \A page \in Pages :
    (Writable(cart, board, page) /\ ~(Family(cart) = "mmc3" /\ ~InVariantRam(cart, board, page)))
      => WriteChr(cart, board, page) = ReadChr(cart, board, page)

\* A new board that takes a snapshot back shows what the saved one showed and reacts to the next write
\* as it would have.  The mirroring of MMC3 is not in its snapshot: it is left out here.
Shown(c, q) ==
  <<[slot \in Windows |-> ReadPrg(c, q, slot)], [page \in Pages |-> ReadChr(c, q, page)], q.work,
    IF c.mapper \in {4, 119} THEN FourScreen ELSE NameTables(c, q)>>
ResumeIsExact ==
  Restorable(cart) =>
    LET q == Restored(cart, Fresh(cart), board) IN
      /\ Shown(cart, q) = Shown(cart, board)
      /\ stores > 0 => \A addr \in Ports[cart.mapper], v \in Values :
           Shown(cart, Written(cart, q, addr, v)) = Shown(cart, Written(cart, board, addr, v))

=============================================================================
