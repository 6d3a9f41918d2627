# Kurosaki: specification, model checking and proofs

TLA+ specifications of the parts of Kurosaki (a NES/Famicom/FDS observation
emulator in Rust) whose correctness depends on order, timing or failure, with
TLC configurations and TLAPS proofs. Paths below are relative to
`src/crates/kurosaki-core/src/` unless they begin with `crates/`.

## 1. The system

One `Emulator` owns a `CpuState` and a `Bus`. The bus owns the PPU, the APU and
one `Mapper` (a trait object, one implementation per board). There are no
threads inside an emulator: one call of `Emulator::step_instruction` polls for an
interrupt, executes one instruction *against devices that stand still*, and only
then clocks the devices for the cycles that instruction took. Most of what is
hard in this code is a consequence of that decision: a device must guess what
happens inside an instruction, must accept its time in batches of any size, and
its requests travel through latches. Between processes, the only shared
resource is the battery save file.

| Component | State | Operations | What is hard | What makes it correct |
|---|---|---|---|---|
| Battery saves (`battery.rs`) | sidecar, `.lock`, `.tmp`, `.bak`, per session `disk` and `last_ram` | `open`, `flush`, `save_battery_file` | other processes, I/O errors, crash, power failure between any two file operations | the sidecar is a compare-and-set register, never torn; exclusion; a failed flush loses nothing |
| Interrupt bus (`bus.rs`, `cpu.rs`, `apu.rs`) | `nmi_pending`, `irq_pending`, device flags, CLI delay | poll, execute, `clock_devices`, `take_irq` | requests latched at one place and acknowledged at another | an IRQ is served only when asked for; CLI shields one instruction; a request is answered |
| FDS drive and mapper (`fds_drive.rs`, `mapper.rs`) | media cells, head, block/CRC state, timer, master gate | registers `$4020`-`$4031`, `clock_cpu`, change of side | register writes between byte clocks, batches, disk change in motion | batches invisible; verdict on time; no interrupt without its byte |
| PPU vertical blank (`ppu.rs`) | beam, vblank flag, suppression mark, NMI enable | `$2002`, `$2000`, `clock_cpu_cycles` | a read late in an instruction sees the future | each blank's flag is given once and not missed |
| PPU addresses (`ppu.rs`, `bus.rs`) | `v`, `t`, fine x, shared toggle, read buffer | `$2000`, `$2005`-`$2007`, line ends | the toggle is shared, `v` is both scroll position and bus address | read and write routing agree; scroll is what was written |
| APU (`apu.rs`) | frame sequencer, channels, DMC reader | `$4000`-`$4017`, `clock` | several sequencer events in one batch, sample fetches only at chunk borders | events once and in order; no sample byte lost |
| CPU and bus (`cpu.rs`, `bus.rs`) | registers, cycle count, RAM, controllers, sprite memory | `step`, `reset`, `read`, `write`, `oam_dma` | interrupts between any two instructions, carries over bytes, page ends, a DMA that reads with side effects | a program leaves the result it was written for, interrupted or not |
| Mappers (`mapper.rs`, `mapper_scaffolds.rs`, `namco163.rs`) | bank registers, serial port, IRQ counters, A12 filters | `read_prg`, `write_prg`, `read_chr`, `write_chr`, `physical_prg_bank_8k`, `debug_state`, snapshots, `clock_cpu`, `notify_ppu_addr` | one mapping written three or four times; small ROMs under large windows; counters at zero and at their top; several overflows in one batch; consecutive writes | what is read, written, reported and resumed is the same bank; interrupts at the right cycle or line; the port is serial |
| Run loop, replay (`emulator.rs`, `replay.rs`) | frame, cycles of the frame, input, stop flag | `run`, `run_current`, `step_frame`, `step_instruction` | an iteration is not always a frame; overlapping entries; reset as an edge | frames are counted; each frame sees its input |
| Snapshots, rebasing (`emulator.rs`, `snapshot.rs`, `snapshot_rebase.rs`) | whole machine as bytes; a contract of changes | `snapshot`, `restore_snapshot`, `rebase_snapshot` | ranges that touch, patches that overlap, a ROM that grows, two boards of one mapper | what comes out is what the contract describes, and only its target restores it |
| NSF (`nsf.rs`, `nsf/container.rs`) | time, next beat, sample phase, buffer | `new`, `call`, `render_samples` | requests of any size, a PLAY longer than a beat or than its budget, a beat that is no whole cycle | PLAY starts on the beat, and only beats that have passed are left out |
| Parsing (`cart.rs`, `fds.rs`) | none | `from_bytes` | header variants | pure |
| Decompiler (`disasm.rs`, `decompile.rs`) | queue of functions, queue of addresses | `analyze_with_mapping`, `analyze_function`, `build_blocks` | banks at the same addresses, branches, limits | where the CPU goes is charted |
| Observation (`trace.rs`, `diagnostics.rs`, `report.rs`, `screen.rs`, ...) | counters, text | | | does not change the machine |
| Command line, Python (`crates/kurosaki-cli`, `crates/kurosaki-py`) | | wrap the core | order of flush and error exit | covered as sessions of the battery model |

`PROJECT.json` lists every component with its status, and the hazards at their lines.

## 2. Modules

    SaveRegister   <- BatterySave <- BatterySaveProofs    MCBatterySave
                      InterruptBus <- InterruptBusProofs  MCInterruptBus
    FdsMedia, FdsDrive <- FdsMapper <- FdsProofs          MCFdsMapper
                      PpuTiming <- PpuProofs              MCPpu
                      PpuAddress <- PpuProofs             MCPpu, MCPpuAddress
    ApuUnits       <- ApuFrame <- ApuProofs               MCApu
                      ApuDmc <- ApuProofs                 MCApu
    Alarm          <- BoardIrq <- BoardProofs             MCBoards
    BankUnits <- DiscreteBoards, ExtendedBoards <- Banks  MCBoards
    SerialPort     <- Mmc1 (and BankUnits) <- BoardProofs MCBoards
    Opcodes <- Cpu <- Decompiler <- Machine (Programs)    MCMachine <- MCHost
                      Session <- HostProofs               MCSession <- MCHost
                      Rebase <- HostProofs                MCRebase <- MCHost
                      NsfPlayer <- HostProofs             MCHost
    Loops          <- FdsProofs, HostProofs

Each `MC*` module gives a specification its instances; each `.cfg` names one
question. `MCPpu`, `MCApu`, `MCBoards` and `MCHost` hold several specifications whose
states the code keeps in fields that no method mixes: their variable `part` says
which of them a behaviour plays with, and the others stand still, so that one run
explores each of them and not their product. Next to an action, a definition marked *mutant* is that action with a
plausible bug; it is used by no specification and serves to show that the
property listed with it in `PROJECT.json` can fail.

### BatterySave, SaveRegister

`SaveRegister` is what the sidecar promises: clients read it, and a write
succeeds only if the value is still the one the client last saw; crashes lose
at most writes that were not settled. `BatterySave` is `battery.rs`
file operation by file operation: `replace_save` is the actions `AcquireLock`,
`LockRefused`, `Check`, `CreateTmp`, `WriteTmp`, `SyncTmp`, `Rename`,
`CreateFails`, `WriteFails`, `Unlock`; `BatterySession::open` and `flush` are
`Open`, `Flush` and the baselines moved by `Unlock`; `save_battery_file` is
`Export`. The RAII guards (`OwnedFile`, `SaveLock`) become the removal of the file
in the action that leaves their scope. External and modelled from their use: the
file system (`Settle`, `PowerFailure`, `Survivor`), the death of a process
(`Crash`) and a user who edits the file (`ForeignEdit`, outside a transaction
only: the lock is advisory, and the code promises nothing against a writer that
ignores it). Left out: the checks that RAM and cartridge fit the file, and the
refusal to overwrite the ROM; they return before any state changes.

### InterruptBus

One instruction is `poll` (`TakeNmi`, `TakeIrq`, `NoInterrupt`), `execute` (the
instructions that touch a mask, a source or a latch; all others are `Other`) and
`clock`. What a device does while it is clocked is a choice; when it does it
belongs to the other modules. `unseen` and `freshCli` are history variables. The
seven cycles of an interrupt entry are not modelled, as there is no time here.

### FdsMedia, FdsDrive, FdsMapper

`FdsMedia` expands a side into the cells the head passes (`expand_side`). `FdsDrive`
is the drive as operators on a record, `FdsMapper` the registers, the timer, the
gate and the batches around it. A CRC residue is abstracted to the set of cells
heard since the sync byte: two different sets are taken to have different
residues, so CRC collisions are left out, and so are sides that carry non-zero
check bytes of their own. The two loops over cycles (`clock` of the drive, the timer in `clock_cpu`) are functions
from the number of turns to what is left (`Turned` and `TimerTurn` are one turn); as every turn takes a cycle at
least, the cycles of a batch bound them. The mirroring bit of `$4025`, PRG RAM and trace
events are left out.

### PpuTiming

A step is an instruction, or one turn of the loop of `clock_cpu_cycles`, which
moves the beam to the next border or by what is left. `ReadStatus(offset, cycles)`
reads `$2002` at a CPU cycle of the instruction (`read_mode` passes 3, 4 or 5; pointers,
read-modify-write and DMA pass 0) and predicts the blank. The stall of an OAM
DMA is part of the instruction that causes it. Left out: the sprite flags that share
the clearing dot, and rendering. `shown` and `missed` are history variables.

### PpuAddress

A step is an access to one of `$2000`, `$2001`, `$2002`, `$2005`, `$2006`, `$2007`, or the end of a
line. An address is a record of its five fields, and `Number` and `Address` are the bits they stand
for in `vram_addr`. The history variables are the program's own view: `begun` and `page` follow the pair
of writes to `$2006`, `sought` the address it believes it has reached, `table` and `pixel` the scroll it
asked for, `due` the line of the plane that follows from it. `SeekArrives` and `ScrollIsObeyed` compare them
with `v`. An address write forfeits the scroll the program asked for, and a scroll write forfeits
a page that waits, as both use `t`. Left out: the read buffer, the mirroring of name tables, `fine_x`
and `scroll_latch`, a copy of the toggle.

### ApuUnits, ApuFrame

`ApuUnits` has the parts of a channel as functions of their state and registers (`clock_envelope`,
`clock_triangle_linear`, `clock_length_counter`, `clock_sweep`, `pulse_sweep_mutes`), `ApuFrame` the registers and the
sequencer that clocks them. `clock_frame_sequencer` is cut at its events: `Begin` is the arrival of a
chunk, `Ring` the next event that it reaches, `Wrap` a turn of its loop, `Settle` what follows the last. Registers are
accessed between chunks, as an instruction is executed before the devices are clocked. One pulse stands
for both (`first` says which) and for the noise channel, which has the same length counter and envelope.
`seen`, `rings` and `age` are history variables. Left out: oscillators, mixer and sample clock.

### ApuDmc

A step is a register write, or a part of `clock_audio_devices`: the fetch before the chunk (`Begin`), one bit of
`clock_dmc_output` (`Tick`), the fetch after (`Finish`). Bytes have no value: a bit moves the output either way. `Patience` is
the longest chunk that the byte in the buffer outlasts: with the rates of the code (54 to 428 cycles a bit) the
assumption allows 58 cycles, since 427 cycles left over at the slowest rate and 58 more are fewer than nine bits at the
fastest. No instruction takes as long; an OAM DMA of 513 cycles does, and there the comment at
`apu.rs:918` is right that a chunk can outlast the byte. `chunk`, `starved`, `from` and `total` are history variables.

### Alarm, BoardIrq

`Alarm` is what a board's interrupt counter promises the game that sets it: it rings when its time
has passed and not before, however the time is cut into pieces, and then never again (`once`), until it is
set anew (`held`) or a period later (`repeat`). `BoardIrq` has the counters of nine boards in seven families, as
the four of FME-7, Bandai, Jaleco and the shared decoder of `BoardScaffoldMapper` differ only in what their registers
do to the request: `oneshot` and `decoder` count down to zero and stop, `vrc3` and `vrc4` count up and wrap or reload, `n163`
counts up and stays at its top, `mmc3` and `mmc5` count rises of the address line A12. `clock_cpu` gives a chunk of
cycles to the first five. `notify_ppu_addr` shows each pattern fetch to the last two: `DrawLine` decides what a line
fetches, from the tables in use and the size of the sprites, `Fetch` is one of these, `ReadPattern` a read of `$2007`
below `$2000`. A level of A12 stands for each fetch; a run of fetches from one table is cut to two, as `Mmc3Mapper` asks for no more than
two low ones. `Due`, `Armed`, `Kind` and `Period` are the refinement mapping, in CPU cycles, thirds of them for VRC4,
and clocks of the counter for MMC3 and MMC5. `line` and `clocks` say how the last line was drawn and how often it clocked the counter, `last` how
the alarm sees the last step.

What the model says of the code where it differs from a reader's expectation: a chunk that covers a whole period of VRC4
or VRC3 loses count of it (the alarm allows this in `Ring`); tall sprites choose their own tables, so that a line may
clock MMC3 several times (`LinesCountOnce` speaks of small ones only); Namco 163 asks again after it was served, at every chunk,
until its counter is written; VRC3 wraps to zero rather than to its latch, so that its period is not the one it was set to.
VRC6 and VRC7 share `VrcFamilyMapper` with VRC4 and have no counter here, as no write that their decoding lets through enables it; their
banks are in `ExtendedBoards`.

### BankUnits, DiscreteBoards, ExtendedBoards, Banks

The code writes the mapping of each board several times: in `read_prg`, in `physical_prg_bank_8k` (the bank that
traces, listings and the decompiler's audit name), in `debug_state`, in `read_chr`, in `write_chr`, and in the pair that
saves and restores it. Each of these is an operator of its own here, with that function's own arithmetic, so that the properties
compare what the code says in different places. `BankUnits` has `bank_count`, `read_bank` and `write_bank`; `DiscreteBoards`
the boards of `mapper.rs`, `ExtendedBoards` those of `mapper_scaffolds.rs` and `namco163.rs`; `Banks` chooses the family as `create_mapper`
does and lets a program write any registers. Two differences in the code are stated as exceptions in the properties: MMC3's
`write_chr` stores a byte of plain RAM without its bank (`PatternsReadBack`), and its mirroring is not in its snapshot (`ResumeIsExact`).
The registers of a new board are bytes, as the constructors cast the number of the last bank (`as u8`): in a ROM of more than 256 banks
of 8 KiB the registers that a new MMC5, VRC, FME-7 or shared board sets to its last banks name others.
Left out: MMC5's extended attributes, split screen, multiplier and PCM, sound registers, PRG RAM beyond one byte, and EEPROM, which the
code does not execute.

### SerialPort, Mmc1

`SerialPort` is what a program may rely on: five bits, the first lowest, into the register of the last write's address. `Mmc1` is the
board with the clock that it is stamped with: a write carries the cycle at which its instruction began, and the port drops a write that follows
an accepted one by one cycle. The CPU of this code writes once per instruction, so that only `reset`, which sets the cycle counter
back to 7 while the board keeps its stamp, can make the port lose a write (`OnlyResetsLoseWrites`). `Rebase` is the board's part of a
rebased snapshot.

### Opcodes, Cpu, Decompiler, Programs, Machine

`Opcodes` is the table of the match in `step`; `Cpu` executes a row of it on a record of bytes, and has the bus as far as programs
use it without a picture: RAM and its mirrors, PRG windows, controllers with their strobe, `oam_dma`. `Machine` lets ten programs
of `Programs` run while NMI and IRQ, with handlers that save what they use, come between any two instructions (the delay of CLI and the
mask respected) and the buttons move. The programs add and subtract numbers of two bytes, multiply, compare, call subroutines through
pointers that cross a page, read a controller bit by bit, copy sprites by DMA from pages with and without side effects, return from BRK, jump through the end of
a page, and end in an opcode that is not executed. Together with the handlers they use every addressing mode,
not every opcode in each of them. PPU and APU registers read as zero, and any board register selects the first window.
`Decompiler` is the walk of `analyze_with_mapping`, a function (`Open`, `Close`) and an address (`Pop`) at a time, with its
limits, warnings, blocks and successors. It is finished before the program starts, and `StepsFollowTheChart` compares the two: excepted are returns,
BRK, indirect jumps, what a warning names, and windows that have changed since: the chart is of the windows
it was made with, and nothing is said of a walk that the program's own bank switching has outdated. Blocks and their successors are
compared in functions without gaps, as the code links blocks by the order of the map (`contiguous`). Left out: names, data
references, lifted statements, output.

### Session

`run_current` is `StartRun`, `Iterate` (the replay's input, its reset and the limit), the instructions of `step_frame` (`StepInFrame`,
`FailInFrame`, `EndFrame`) and `EndRun`; between runs the host steps, resets, presses buttons, takes snapshots and restores them. An
instruction counts its cycles for the CPU and the frame budget and clocks the devices with them; OAM DMA is clocked to the devices
only, the entry of an interrupt counts for the CPU only. `dots` is the PPU's own count. That a restore which fails half way leaves the emulator to be
thrown away is said at `emulator.rs:222`; nothing is promised for it and it is not modelled.

### Rebase

One action: `rebase_snapshot` accepts or refuses. A request is source, target, snapshot, contract and patches. A digest
is modelled as what it digests. The cartridges are records of a few bytes; the snapshot has the ROM's identity, the board's private
state, CPU RAM and the frame, which stands for all the rest.

### NsfPlayer

`render_samples` is `Render`, `RunIdle`, `CallPlay`, `PlayReturns`, `PlayFails` and `Drain`, and `call` is `Execute`. The code computes beats in
`f64`; here they are a fraction of cycles apart, rounded as the code rounds. A PLAY that ends exactly on a beat that was rounded
up leaves that beat out (`PlaysOnTheBeat` allows `Due(b) = time`). Left out: an OAM DMA in PLAY, an
opcode that is not executed (the call fails as at the end of its budget, only earlier), the refusal of requests beyond 600 seconds, which changes nothing,
the bank registers and the chips.

## 3. Runs

| Run | Instance | Shows |
|---|---|---|
| `save_crash` | one session, one exporter, two images, one accident | `SaveIsWhole`, `NothingLeftBehind`, `BackupFirst`, `OrphanedLockFreezes`, and that `BatterySave` implements `SaveRegister` (`RegisterSpec`) |
| `save_sharing` | two sessions, one exporter, no accident, I/O errors and edits | `MutualExclusion`, `BaselinesAgree`, `TransactionsEnd` |
| `irq` | both kinds of board | `Explained`, `CliShadow`, `IrqAnswered` |
| `irq_stale` (violation) | as `irq` | `AcknowledgedIsGone` fails, see section 6 |
| `fds_batches` | two sides, timer reloads 0, 1, 3, batches 1, 2, 3, 5 | `BatchesAreInvisible`, `MediaKeepsMoving` |
| `fds_drive` | one side: a block and a block cut off after its header, all control values the BIOS uses | `RequestsHaveCause`, `VerdictIsOnTime`, `OnlyRewindsGoBack` |
| `ppu` | lines of 341 dots, 13 of them, 7 visible; tables of 2 x 4 tiles of 4 lines, one row of attributes, 4 lines, 2 drawn | `OncePerFrame`, `NeverMissed`, `SeekArrives`, `ScrollIsObeyed` |
| `ppu_routing` (violation) | the addresses of `ppu` | `PatternWritesReachCartridge` fails, see section 6 |
| `apu` | four points and a wrap in each mode, chunks that cross two events or a whole period, two rates, lengths, periods; samples in four addresses, bytes of three bits, a chunk within `Patience` and one beyond | `EventsOnTime`, `EnvelopeOnSchedule`, `NotesEnd`, `SampleInPlace`, `OnlyLongChunksStarve`, `SampleEnds` |
| `boards` | counters with digits of two values and chunks 1, 2, 5, 18; fifty-five cartridges, any three writes; three MMC1 boards, six port writes in nine cycles | `RingsOnTime` (`BoardIrq` implements `Alarm`), `LinesCountOnce`, `ReportsNameTheBankRead`, `PatternsReadBack`, `ResumeIsExact`, `PortIsSerial`, `OnlyResetsLoseWrites`, `Mmc1IsCoherent` |
| `host` | ten programs, two interrupts; two replays, three frames of six cycles; cartridges of three and four bytes, up to two ranges and patches; beats of 4.5 cycles, samples of 2.5, up to 40 cycles | `ProgramsCompute`, `StepsFollowTheChart`, `FramesAreCounted`, `FramesSeeTheirInput`, `RebaseIsExact`, `PlaysOnTheBeat` |
| `replay_reset` (violation) | the session of `host` | `ResetIsAnEdge` fails, see section 6 |

Typing is proved (section 5) where a module has proofs, and is left to TLC's evaluation elsewhere.

Why the bounds are enough. *Saves*: the conflicts of this protocol are between
two callers and a third file state; one accident reaches every orphaned lock and
every torn temporary, and a second one adds only more refusals. Two images
tell "mine" from "theirs". Contents and sessions are interchangeable, so they are symmetry sets
where no liveness is checked. *Interrupts*: all state is Boolean; nothing is cut.
*FDS*: blocks of a few bytes keep every transition (gap, header, data, check bytes,
truncation, end); the period of a byte and the spin-up are scaled from 149 and 50 000
cycles, batches are chosen above and below them. *PPU timing*: the real dots and
instruction lengths, an OAM DMA among them, which spans several lines; fewer lines of each kind, and as in the real
frame their dots are no multiple of three, so that the beam meets an instruction's start at every dot. *Addresses*: every field keeps two
values or more, a row of attributes and the wrap of each field; scroll positions in the
tiles and in the attributes, pages of the patterns and of the tables. *APU*: the points of the sequencer keep their order
and the gap before the wrap; volumes, lengths and shifts have two values besides zero. `MCApu` plays with one part
of a channel per behaviour, as the parts share nothing but the clocks. The samples of the DMC wrap at the end of memory
in all positions, and both rates meet both chunks. *Boards*: all values of all counters and latches are reached at these widths,
chunks shorter than a count and longer than a period of each, a prescaler that no chunk divides; three sprites of either table
make every pattern of rises that A12 can show the filter. *Banks*: ROMs of two banks, smaller than a window, of
four, eight and sixteen, with and without CHR ROM; three writes are a register number, its value and one
more write before a comparison that looks one write ahead. *MMC1*: a register takes five writes, the sixth is the one that an unfinished or lost
write would spoil; the cycle counter reaches its value at reset again after each reset. *Machine*: numbers with carries, borrows and signs in every
position; two interrupts nest an NMI in either handler. *Session*: a frame of six cycles and a budget of eight have the slack that two interrupts
of two cycles use up, as eighteen do in the real frame; replays overlap, have a gap, are out of order and have a duration of zero. *Rebase*: two ranges
and two patches meet in every way: apart, touching, overlapping, out of order, empty, beyond an end. *NSF*: neither beats nor
samples are whole cycles; PLAY takes less than a beat, more than one, and more than its budget.

## 4. Fairness

Weak fairness only, and only of code that runs without waiting: the steps of a
`replace_save` call that has begun (it blocks on nothing and retries nothing); the
instruction loop of `step_frame` in `InterruptBus`; the clock of
the mapper in `FdsMapper` and of the APU (`ClockFrame` and `ClockDelta` in `MCApu`), called after each instruction. `NotesEnd` assumes in its own
statement that the program starts no further notes and does not reset the sequencer. No fairness is assumed
of the game, the host, the user, the file system or of crashes. `PpuTiming`, `PpuAddress`, `Banks`, `Mmc1`, `Machine`, `Session`, `Rebase` and `NsfPlayer` have safety
properties only: what they do next is up to a program or a host.

## 5. Proofs

All are checked by TLAPS for every value of the constants that satisfies the
named assumptions (which TLC evaluates on every run).

* `BatterySaveProofs`. The inductive invariant `IInv` adds to typing, exclusion
  and wholeness what a replacement in progress relies on: `Compared` (from the
  comparison on, the sidecar holds what the caller expects, because everybody who
  writes it holds the lock), `TmpComplete` (the temporary file holds the whole image
  before it is renamed, synced at the rename) and `Stored` (a transaction that succeeded left
  its image). Without `Compared` the refinement fails at `Rename`, without `TmpComplete` wholeness
  does. One lemma per action. From it: `TypeCorrect`, `LockExcludes`,
  `SaveAlwaysWhole`, `BaselinesStayTogether`, `OrphanedLockStops` and `ImplementsRegister`
  (initial states and each step map to `SaveRegister` or stutter). Over `IInv` a second invariant names the owner of
  every file: `Owned` (without an accident each lock and temporary file belongs to an actor that is at a step which removes it)
  and `BackedUp` (whoever replaces an existing sidecar has compared it and has its bytes in the backup). The owner of the
  lock is the only one whose steps matter here (`OutsiderKeeps`). From it: `NothingStaysBehind`, `BackupComesFirst`.
* `InterruptBusProofs`. The bus latch never remembers what `unseen` does not, and a fresh CLI has
  its delay. From it: `TypeCorrect`, `NoUnexplainedIrq`, `NoIrqInCliShadow`.
* `FdsProofs`, with `Loops`. The invariant is `Fit`, a property of the drive's record alone that each operation keeps, and `Gated` (a closed gate is
  silent). `Fit` has three parts: `Seated` (the head is on its side, and a disk that turns has its motor on and a byte to come), `Caused` (a request
  has its byte, and is gone before the disk can turn again) and `Heard`, which `VerdictIsOnTime` needs: the flag that the drive
  shows is the residue of the bytes up to one position `p`, the first that was heard after the CRC bit rose, as bytes heard later do not
  change it. That two blocks of a side share no byte is `BlocksApart`, so that what was heard of one is not changed by the
  other. `BatchesAreInvisible` is about loops of any length. `Loops` defines a run of a loop as a function of its turns
  (`Laps`) and shows that it exists (`LapsExist`), keeps what a turn keeps (`LapsKeep`), has stopped when its measure is used up (`LapsStop`), that a
  longer run changes nothing (`LapsAgree`) and that a run after the first turn is the rest of the run (`LapsUnroll`). These give `Timed` and `Spun` the
  equations of their loops (`TimedIs`, `SpunTurns`, `SpunRests`), and induction on the batch gives the equality (`TimedInPieces`,
  `SpunInPieces`). It holds up to the countdown of a drive at its end, which is why the drive is compared as `Apparent`. From it: `FdsInductive`, `FdsTypes`,
  `RequestsAreCaused`, `HeadGoesForward`, `BatchesStayInvisible`, `VerdictComesOnTime`. `VerdictIsOnTime` speaks of a block that was heard when the
  bit rose at its end (`Timely`): without the second half of `Timely` it is false of a program that switches reading off between blocks,
  which the proof brought to light.
* `PpuProofs`. For the vertical blank the invariant follows the flag through the frame: `Owed` (a mark means the
  instruction still owes the dots into the blank), `BeforeBlank`, `InsideBlank`, `AfterBlank`.
  The only arithmetic is that a read at most a line ahead lies in the blank just when it
  starts within reach (`BlankInReach`). From it: `BeamTypes`, `FlagGivenOnce`,
  `FlagNotMissed`, `SuppressionEnds`, `FlagConfined`. For the addresses it says what waits where: `Counted` (the program's count of a pair is the toggle),
  `PageHeld` (a page that waits for its low byte is in `t`), `ScrollHeld` (the scroll asked for is in `t`,
  field by field), `DueOnPlane` (a line that is due is no line of attributes). It rests on lemmas about division:
  `Address` and `Number` are inverse (`NumberOfAddress`), and one line down in `v` is one line down on
  the plane (`OneLineDown`). From it: `PortsTypes`, `SeeksArrive`, `ScrollObeyed`.
* `ApuProofs`. `FrameInv`: `Placed` says where the sequencer is within a chunk (the history is ahead of it by the cycles still to
  come, and the events up to here have rung), `Aged` writes the age of an envelope as whole levels and a rest, which is the
  closed form without its division. Both are inductive where the properties, stated between chunks and with `\div`, are not.
  From it: `FrameTypes`, `SequencerOnTime`, `EnvelopeAges`, `OffMeansSilent`, `SweepsKeepRange`.
  `DeltaInv` says that a byte in the buffer stays there until the shifter has used up its own, and counts the
  bits that a chunk can still take; `PatienceAssumption` is what the code's table of rates must satisfy. From it: `DeltaTypes`,
  `IrqEndsSample`, `ReaderInPlace`, `NoGaps`.
* `BoardProofs`. *Counters.* Typing is inductive, by arithmetic on digits (`DigitInRange`: a digit that is replaced leaves a number of as
  many digits). That a clock is a `Pass` of the alarm is a lemma per family; for VRC4 it rests on `Scaled`, which turns a sum of ticks
  into counts and a rest and back. `LineInv` adds to typing what a line in progress still has to fetch, and that the clocks it has
  given and the rises to come make one (`SplitAhead`) or no more than one (`PlainAhead`): `LinesCountOnce` speaks of the end of a line only.
  From it: `CountersTypes`, `LineClocks`, `ImplementsAlarm`. *MMC1.* Its invariant is five bits in each register and `Spaced`: the stamp of the last write
  is two cycles old, unless a reset has set the cycle counter back. The refinement to `SerialPort` reads the bits above the mark in the shift register
  (`BitsIn`, `MarkIn`), bit by bit, for any write. `Mmc1Assumption` says that each write takes two cycles, its bytes are bytes, and a SUROM is a ROM of 64 banks, as
  `infer_board_profile` makes it one by its size only; the halves of `Mmc1IsCoherent` need it. From it: `Mmc1Inductive`, `WritesAreKept`, `Mmc1IsSerial`,
  `Mmc1StaysCoherent`. *Banks.* That reports name the bank read and that patterns are kept follows from types alone, family by family: the
  functions of a board choose the same register (`FourWindows`, `TwoWindows`, `OneWindow`, `PlainWindows`, `PatternsKept`), and a remainder by the number of
  banks names one of them (`UnitExists`). That a snapshot is exact does not follow from types: a new board has its own values in every register that the
  snapshot leaves out, so the saved board must still have them, too. The invariant is `Resumes`: a new board that takes the snapshot back is the
  saved one, up to the mirroring of MMC3 and VRC. It is inductive, as no write reaches a register that is not saved (a lemma `...Resumes` per family). For
  MMC3 and VRC it leaves two boards that are `Alike`, and the property needs that these show the same (`ShownAlike`) and stay `Alike` under any write.
  `BanksAssumption` says that a ROM has from one to 2^16 banks of 8 KiB and an NROM or CNROM whole 16 KiB (the ROMs that the comment at
  `mapper.rs:624` speaks of), that there are patterns (`ensure_chr` allocates some if the file has none), and that ports, values and fetches are addresses and bytes. From it: `BanksInductive`,
  `BanksAreNamed`, `PatternsAreKept`, `BanksResume`, `BanksReadExist`.
* `HostProofs`. *Player.* Between calls of PLAY it is never past the next beat unless that PLAY has failed (`Early`): an idle step
  ends at the beat at the latest (`IdleFits`), and the beat after a PLAY is not before its end (`NextBeat`), for every tempo, as rounding
  half up and rounding up are bounded by lemmas about division (`DueAtOrAfter`, `DueAtOrBefore`, `CeilBounds`). Without `Early` the step
  `CallPlay` knows only that the beat is not ahead. From it: `TypeCorrect`, `PlayIsOnTheBeat`. *Session.* `SessionInv` adds to typing that the
  snapshot, too, comes from a session that counted its frames (else a restore would break the count), and that the buttons are those of the frame
  until the PPU has finished it: a step of `step_frame` past that point no longer concerns the frame. `SessionAssumption` gives the constants their types. From it:
  `SessionInductive`, `FramesStayCounted`, `FramesHaveTheirInput`. *Rebase.* The work is in what its loops compute, by `Recursion` of
  `Loops`: the walk over the ranges, which in an accepted request covers exactly the bytes of its ranges and counts those that differ, and the patches laid one over
  another in order, after which the byte at an address is the last patch's or the old one. `RebaseAssumption` says that requests are `WellFormed`: sequences of numbers and memories
  of their sizes, as the types of the code say, and nothing about ranges, order or agreement. From it: `RebaseIsAlwaysExact`.

The theorems on types and the inductive ones, and `SuppressionEnds`, `FlagConfined`, `IrqEndsSample`, `SweepsKeepRange` and `OffMeansSilent`, state invariants that no run
repeats.

Only model-checked:
* Liveness: `TransactionsEnd`, `IrqAnswered`, `MediaKeepsMoving`, `NotesEnd`, `SampleEnds`. Fairness and ENABLED are outside the prover.
* `ProgramsCompute`, `StepsFollowTheChart`: `Cpu`, `Decompiler` and `Machine` use the logic operations of `Bitwise`, which the prover does not take.

## 6. Findings

`irq_stale`: `mapper.rs:149` says that sources acknowledged only by device registers
must not be latched by the bus. `clock_devices` (`bus.rs:345`) latches the APU's frame
and DMC requests. Only a served interrupt and a read of `$4015` clear the latch, so a program
that acknowledges by writing `$4017`, `$4010` or `$4015` while interrupts are
masked is interrupted once more when it unmasks them.

`ppu_routing`: `v` has 15 bits, the bus 14. A write to `$2007` goes to the cartridge if all of `v` is below
`$2000` (`ppu.rs:314`), a read if its low 14 bits are (`bus.rs:120`). The renderer counts pixel lines in bit 14, so
a program that writes pattern bytes without seeking an address first may write them where nothing reads them.

`replay_reset`: `emulator.rs:366` says that a reset is an edge. `run_current` resets when an iteration begins with
the frame of the entry (`emulator.rs:367`), and an iteration may end before the frame: `step_frame` counts the seven
cycles of an interrupt's entry against its budget (`emulator.rs:331`), and `clock_devices` is not given them. Eighteen
interrupts use up the 29 900 cycles while the PPU's frame of 29 780 goes on, and the same entry resets again.

## 7. Not modelled

* Composition of pixels (`ppu.rs`) and synthesis of sound (`apu.rs`, the chips of VRC6, VRC7, FDS and Namco 163): arithmetic on data, much of it in floating
  point, that no control depends on. What these parts fetch, count and request is modelled.
* Parsing of cartridges, disk images and NSF containers: functions of a file without state.
* Field by field serialisation of snapshots: whether each field is copied is a question for a round-trip test. The boards' choice of what to save is in `Banks`.
* Traces, reports, diagnostics and formats: they read the machine. The banks that they name are in `Banks`.
* Command line and Python: they wrap the calls of `Session` and of a battery session.

What would come next: the PPU's registers as the programs of `Machine` see them; and the logic operations of `Bitwise` as
recursive functions, so that what an instruction computes could be proved.
