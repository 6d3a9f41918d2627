------------------------------- MODULE Rebase -------------------------------
(***************************************************************************)
(* Rebasing a snapshot of a cartridge onto a changed cartridge, under a    *)
(* contract that lists what has changed (snapshot_rebase.rs, with the      *)
(* parts of emulator.rs and of the MMC1 board that it drives).  A digest   *)
(* is what it is a digest of.  A cartridge is a    *)
(* record of mapper, geometry (what the header says besides), variant (the *)
(* board that the profile selects), prg, chr and ramSize.                  *)
(***************************************************************************)
EXTENDS Integers, Sequences, FiniteSets

CONSTANTS
  Groups,
  Requests(_),  \* of a group: records of source, target, snapshot, file, contract, prgPatches and cpuPatches
  RamBase,   \* $6000
  RamEnd,    \* $8000, of the PRG RAM in the CPU's space
  CpuEnd     \* $0800

\* A request as parsed: bytes are numbers, a snapshot has all its parts.
WellFormed(r) ==
  /\ r.source.prg \in Seq(Nat) /\ r.target.prg \in Seq(Nat)
  /\ r.contract.changes \in Seq([offset : Nat, length : Nat, source : Seq(Nat), target : Seq(Nat)])
  /\ r.contract.append.target \in Seq(Nat)
  /\ {r.prgPatches, r.cpuPatches} \subseteq Seq([address : Nat, bytes : Seq(Nat)])
  /\ {r.contract.prgRam, r.contract.cpuRam} \subseteq Seq([address : Nat, length : Nat, digest : Seq(Nat)])
  /\ r.target.ramSize \in Nat
  /\ DOMAIN r.snapshot = {"rom", "mapper", "cpu", "frame", "private"}
  /\ r.snapshot.cpu \in [0..(CpuEnd - 1) -> Nat]
  /\ r.snapshot.private.ram \in [DOMAIN r.snapshot.private.ram -> Nat]
ASSUME RebaseAssumption ==
  /\ RamBase \in Nat /\ CpuEnd \in Nat
  /\ \A group \in Groups : \A r \in Requests(group) : WellFormed(r)

VARIABLES
  request,
  outcome    \* verdict ("pending", "refused", "rebased"), and then the snapshot and the counts of the report
rebaseVars == <<request, outcome>>

MMC1 == 1
NoAppend == [offset |-> -1, length |-> 0, target |-> <<>>]

----------------------------------------------------------------------------
(* The emulator: snapshots are records of rom, mapper, cpu (RAM), frame    *)
(* and private (the variant and RAM of the mapper).                        *)

\* The strict restore, of a fresh emulator.
Restores(cart, s) ==
  /\ s.rom = cart /\ s.mapper = cart.mapper
  /\ DOMAIN s.private.ram = 0..(cart.ramSize - 1)
  /\ cart.mapper = MMC1 => s.private.variant = cart.variant
\* MMC1 takes the state of a known variant and keeps its own; other boards know no difference.
RestoresRebased(cart, s) ==
  /\ s.mapper = cart.mapper
  /\ DOMAIN s.private.ram = 0..(cart.ramSize - 1)
  /\ cart.mapper = MMC1 => s.private.variant \in {0, 1}

\* patch_prg_ram_bytes, patch_snapshot_cpu_ram: the cells of a patch, laid over memory.
Laid(memory, base, patch) ==
  [cell \in DOMAIN memory |->
     LET k == cell + base - patch.address IN IF k \in 0..(Len(patch.bytes) - 1) THEN patch.bytes[k + 1] ELSE memory[cell]]
LaidAll(memory, base, patches) ==
  LET laid[n \in 0..Len(patches)] == IF n = 0 THEN memory ELSE Laid(laid[n - 1], base, patches[n])
  IN laid[Len(patches)]
\* Only MMC1 takes patches, as far as its RAM goes.
PatchesFitBoard(cart, patches) ==
  \A n \in DOMAIN patches :
    /\ cart.mapper = MMC1 /\ patches[n].address >= RamBase
    /\ patches[n].address - RamBase + Len(patches[n].bytes) <= cart.ramSize

----------------------------------------------------------------------------
(* The checks *)

IdentityHolds(r) ==
  LET c == r.contract IN
  /\ c.file = r.file
  /\ c.sourceRom = r.source /\ r.snapshot.rom = r.source
  /\ c.targetRom = r.target
  /\ c.sourceMapper = r.source.mapper /\ c.targetMapper = r.target.mapper
  /\ r.snapshot.mapper = r.source.mapper
  /\ r.source.mapper = r.target.mapper

GeometryHolds(r) ==
  /\ r.source.geometry = r.target.geometry /\ r.source.geometry # "fds"
  /\ r.source.ramSize = r.target.ramSize
  /\ Len(r.source.prg) <= Len(r.target.prg)
  /\ r.source.chr = r.target.chr

Part(bytes, from, end) == SubSeq(bytes, from + 1, end)
Changed(a, b) == {i \in DOMAIN a : a[i] # b[i]}

\* *mutant* of RangeFits: a range may begin before the end of the one before it.
RangeFitsAnywhere(r, c, previousEnd) ==
  LET end == c.offset + c.length
      source == Part(r.source.prg, c.offset, end)
      target == Part(r.target.prg, c.offset, end)
  IN /\ c.length # 0 /\ end <= Len(r.source.prg)
     /\ c.source = source /\ c.target = target
     /\ Changed(source, target) # {}
\* One range of validate_prg_changes after what the loop has seen of the others.
RangeFits(r, c, previousEnd) ==
  LET end == c.offset + c.length
      source == Part(r.source.prg, c.offset, end)
      target == Part(r.target.prg, c.offset, end)
  IN /\ c.length # 0 /\ c.offset >= previousEnd /\ end <= Len(r.source.prg)
     /\ c.source = source /\ c.target = target
     /\ Changed(source, target) # {}
\* The loop: whether the ranges so far fit, the end of the last, the indices covered, the bytes changed.
Walk(r, ranges) ==
  LET at[n \in 0..Len(ranges)] ==
        IF n = 0 THEN [fits |-> TRUE, end |-> 0, covered |-> {}, changed |-> 0]
        ELSE LET before == at[n - 1]
                 c == ranges[n]
                 end == c.offset + c.length
             IN IF ~before.fits \/ ~RangeFits(r, c, before.end) THEN [before EXCEPT !.fits = FALSE]
                ELSE [fits |-> TRUE, end |-> end, covered |-> before.covered \union ((c.offset + 1)..end),
                      changed |-> before.changed + Cardinality(Changed(c.source, c.target))]
  IN at[Len(ranges)]

AppendFits(r) ==
  LET overlap == Len(r.source.prg)
      appended == Len(r.target.prg) - overlap
      region == r.contract.append
  IN IF region = NoAppend THEN appended = 0
     ELSE /\ appended # 0
          /\ region.offset = overlap /\ region.length = appended
          /\ region.target = Part(r.target.prg, overlap, Len(r.target.prg))

PrgChangesFit(r) ==
  LET walk == Walk(r, r.contract.changes) IN
  /\ r.contract.chr = r.source.chr
  /\ walk.fits
  /\ Changed(r.source.prg, r.target.prg) \subseteq walk.covered
  /\ AppendFits(r)

\* validate_prg_ram_patches and validate_cpu_ram_patches, between the ends of their memory.
PatchesFit(expected, patches, first, end) ==
  /\ Len(expected) = Len(patches)
  /\ \A n \in DOMAIN patches :
       LET e == expected[n] IN
       /\ e.length # 0 /\ e.address + e.length <= end
       /\ e.address >= IF n = 1 THEN first ELSE expected[n - 1].address + expected[n - 1].length
       /\ patches[n].address = e.address /\ Len(patches[n].bytes) = e.length /\ patches[n].bytes = e.digest

----------------------------------------------------------------------------
(* rebase_snapshot *)

\* The target with the state of the snapshot and the patches, as it takes a snapshot of itself.
Output(r) ==
  [r.snapshot EXCEPT
     !.rom = r.target,
     !.private = [variant |-> r.target.variant, ram |-> LaidAll(@.ram, RamBase, r.prgPatches)],
     !.cpu = LaidAll(@, 0, r.cpuPatches)]

Accepts(r) ==
  /\ IdentityHolds(r) /\ GeometryHolds(r) /\ PrgChangesFit(r)
  /\ PatchesFit(r.contract.prgRam, r.prgPatches, RamBase, RamEnd)
  /\ PatchesFit(r.contract.cpuRam, r.cpuPatches, 0, CpuEnd)
  /\ Restores(r.source, r.snapshot)
  /\ RestoresRebased(r.target, r.snapshot)
  /\ PatchesFitBoard(r.target, r.prgPatches)
  /\ Restores(r.target, Output(r))

RebaseSnapshot ==
  /\ outcome.verdict = "pending"
  /\ outcome' = IF Accepts(request)
                THEN [verdict |-> "rebased", output |-> Output(request),
                      changed |-> Walk(request, request.contract.changes).changed,
                      appended |-> Len(request.target.prg) - Len(request.source.prg)]
                ELSE [verdict |-> "refused"]
  /\ UNCHANGED request

RebaseInit ==
  /\ \E group \in Groups : request \in Requests(group)
  /\ outcome = [verdict |-> "pending"]
RebaseNext == RebaseSnapshot
RebaseSpec == RebaseInit /\ [][RebaseNext]_rebaseVars

----------------------------------------------------------------------------
(* Properties *)

\* The PRG-ROM that a contract describes: the source, its ranges replaced, and the suffix.
Described(r) ==
  LET changes == r.contract.changes
      in(n, i) == i - changes[n].offset \in 1..changes[n].length
      over == [i \in DOMAIN r.source.prg |->
                 IF \E n \in DOMAIN changes : in(n, i)
                 THEN LET n == CHOOSE n \in DOMAIN changes : in(n, i) IN changes[n].target[i - changes[n].offset]
                 ELSE r.source.prg[i]]
  IN over \o (IF r.contract.append = NoAppend THEN <<>> ELSE r.contract.append.target)
\* Every byte of every patch is in a memory, and the rest is as it was.
Patched(before, after, base, patches) ==
  LET cells(n) == {patches[n].address - base + k - 1 : k \in DOMAIN patches[n].bytes} IN
  /\ \A n \in DOMAIN patches : \A k \in DOMAIN patches[n].bytes :
       after[patches[n].address - base + k - 1] = patches[n].bytes[k]
  /\ DOMAIN after = DOMAIN before
  /\ \A cell \in DOMAIN before : (\A n \in DOMAIN patches : cell \notin cells(n)) => after[cell] = before[cell]

\* A rebased snapshot goes with a target that the contract describes to the byte, whose changed bytes the
\* report counts each once; it differs from the source's in the patches alone, of which none hides another,
\* has the board of the target, and is one that the target, and no other cartridge, restores.
RebaseIsExact ==
  outcome.verdict = "rebased" =>
    LET r == request
        output == outcome.output
    IN /\ Described(r) = r.target.prg
       /\ outcome.changed = Cardinality(Changed(r.source.prg, r.target.prg))
       /\ outcome.changed >= Len(r.contract.changes)
       /\ Patched(r.snapshot.cpu, output.cpu, 0, r.cpuPatches)
       /\ Patched(r.snapshot.private.ram, output.private.ram, RamBase, r.prgPatches)
       /\ output.frame = r.snapshot.frame /\ output.private.variant = r.target.variant
       /\ \A cart \in {r.source, r.target} : Restores(cart, output) <=> cart = r.target
=============================================================================
