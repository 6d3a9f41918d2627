------------------------------ MODULE Machine ------------------------------
(***************************************************************************)
(* The CPU at work: it executes a program, an instruction at a time, while *)
(* devices raise NMI and IRQ between any two of them and the host moves    *)
(* the buttons.  The decompiler has charted the program from the windows   *)
(* of the start.                                                           *)
(***************************************************************************)
EXTENDS Decompiler

CONSTANTS
  Tasks,         \* records of program, the bank that the first window shows, RAM, and button masks
  Outcome(_, _, _),  \* what a program leaves: its bank, RAM and latched buttons it began with
  Halt(_),       \* where it ends
  MaxInterrupts  \* bound: interrupts in a behaviour

VARIABLES
  m,        \* the machine
  task,     \* of Tasks
  latched,  \* history: the buttons when the strobe was last up
  served    \* history: interrupts so far
machineVars == <<m, task, latched, served>>
allVars == <<machineVars, analysisVars>>

Loaded(t) == CpuReset([PowerOn(<<t.program, RomBanks - 1, RomBanks - 1, RomBanks - 1>>) EXCEPT !.ram = t.ram])
MachineInit ==
  /\ task \in Tasks
  /\ m = Loaded(task)
  /\ latched = 0 /\ served = 0
  /\ AnalysisInit(m.windows, m.pc, task.all)

Halted == m.pc = Halt(task.program) \/ m.fault
\* The strobe is up at the end of an instruction, or down: the buttons it latched are kept.
Latch == latched' = IF m'.strobe THEN m'.state[1] ELSE latched

Instruct ==
  /\ ~Halted /\ m' = StepPlain(m) /\ Latch
  /\ UNCHANGED <<task, served>>

TakeInterrupt ==
  /\ ~Halted /\ served < MaxInterrupts /\ served' = served + 1
  /\ \/ m' = StepNmi(m)
     \/ MayInterrupt(m) /\ m' = StepIrq(m)
  /\ Latch
  /\ UNCHANGED task

Press(mask) ==
  /\ ~Halted /\ m.state[1] # mask
  /\ m' = SetControllers(m, <<mask, 0>>) /\ Latch
  /\ UNCHANGED <<task, served>>

MachineNext ==
  \/ Analyze /\ UNCHANGED machineVars
  \/ /\ Charted /\ UNCHANGED analysisVars
     /\ Instruct \/ TakeInterrupt \/ \E mask \in task.masks : Press(mask)
MachineSpec == MachineInit /\ [][MachineNext]_allVars

----------------------------------------------------------------------------
(* Properties *)

\* A program leaves the results it is written for, whatever interrupts were taken between its instructions
\* and however they nested: arithmetic of several bytes with its carries, pointers that leave their page,
\* calls, the serial reading of a controller whose buttons move, and a DMA.
ProgramsCompute ==
  Halted =>
    LET outcome == Outcome(task.program, task.ram, latched) IN
      /\ m.fault <=> Halt(task.program) = -1
      /\ m.s = 253
      /\ ~m.fault => ~Has(m.p, IrqDisable)
      /\ \A cell \in DOMAIN outcome : Peek(m, cell) = outcome[cell]
      /\ m.cursor # 0 => \A k \in 0..255 : m.oam[Byte(k + m.cursor)] = Peek(m, 512 + k)

\* Where the CPU goes from a charted instruction is charted too, and along the blocks, as long as the windows
\* are those the decompiler saw; returns, BRK, indirect jumps and what a warning names are excepted.
At(q) == MapCpu(q.windows, q.pc)
Excused(i, warnings) ==
  \/ i.flow = "return"
  \/ i.flow = "stop" /\ "brk" \in warnings
  \/ i.flow = "unknown" /\ "unknown" \in warnings
  \/ i.flow = "jump" /\ i.cpu = -1 /\ "indirect" \in warnings
  \/ "limit" \in warnings
ChartedStep(f, here, there) ==
  /\ there \in DOMAIN f.code \/ (f.code[here].flow = "call" /\ there \in DOMAIN chart)
  /\ (f.code[here].flow # "call" /\ f.contiguous) =>
       \/ f.block[here] = f.block[there] /\ f.following[here] = there
       \/ f.block[there] \in f.successors[f.block[here]]
StepsFollowTheChart ==
  [][(/\ m'.pc # m.pc /\ served' = served /\ ~m'.fault /\ m'.pc >= \H8000
      /\ m.windows = captured /\ m'.windows = captured) =>
        \A start \in DOMAIN chart :
          LET f == chart[start]
          IN (At(m) \in DOMAIN f.code /\ ~Excused(f.code[At(m)], f.warnings)) => ChartedStep(f, At(m), At(m'))
    ]_machineVars
=============================================================================
