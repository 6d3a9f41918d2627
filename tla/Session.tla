------------------------------- MODULE Session -------------------------------
(***************************************************************************)
(* The host at work with an emulator (emulator.rs): it runs frames with a  *)
(* replay, steps single instructions, and takes snapshots and goes back to *)
(* them.  The CPU counts its cycles, the devices are clocked with the      *)
(* cycles of instructions and DMA; the entry of an interrupt counts for    *)
(* the CPU alone.                                                          *)
(***************************************************************************)
EXTENDS Integers, Sequences

CONSTANTS
  FrameLength,  \* device cycles of a frame of the PPU
  FrameBudget,       \* MAX_NTSC_CPU_CYCLES_PER_FRAME
  EntryCost,    \* cycles of an interrupt's entry
  InstructionCosts,        \* cycles of an instruction
  Stalls,       \* cycles of the DMA it meets
  Replays,      \* sequences of entries: frame, duration, pads, reset
  DefaultPads,  \* pad1 and pad2 of the options
  MaxFrame      \* bound: frames rendered

ASSUME SessionAssumption ==
  /\ FrameLength \in Nat \ {0} /\ EntryCost \in Nat
  /\ InstructionCosts \subseteq Nat /\ Stalls \subseteq Nat
  /\ DefaultPads \in Nat
  /\ Replays \subseteq Seq([frame : Nat, duration : Nat, pads : Nat, reset : BOOLEAN])

VARIABLES
  replay,
  emu,      \* dots (of the frame), rendered (by the PPU), frame, stopped, pads
  run,      \* run_current: phase, left (iterations), limited, allow, spent and from (of step_frame)
  saved,    \* a snapshot
  resets    \* history: how often each entry has reset in this run, 2 for more

sessionVars == <<replay, emu, run, saved, resets>>

NoRun == [phase |-> "idle", left |-> 0, limited |-> FALSE, allow |-> FALSE, spent |-> 0, from |-> 0]
NewEmulator == [dots |-> 0, rendered |-> 0, frame |-> 0, stopped |-> FALSE, pads |-> 0]
SessionInit ==
  /\ replay \in Replays
  /\ emu = NewEmulator /\ saved = NewEmulator /\ run = NoRun
  /\ resets = [i \in DOMAIN replay |-> 0]

----------------------------------------------------------------------------
(* ReplayFrame *)

EndFrameExclusive(e) == e.frame + (IF e.duration = 0 THEN 1 ELSE e.duration)
\* *mutant* of Covers: the end is taken as a frame of the interval.
CoversEnd(e, f) == e.frame <= f /\ f <= EndFrameExclusive(e)
Covers(e, f) == e.frame <= f /\ f < EndFrameExclusive(e)
Covering(f) == {i \in DOMAIN replay : Covers(replay[i], f)}
LastCovering(entries) == CHOOSE i \in entries : \A j \in entries : j <= i

----------------------------------------------------------------------------
(* Instructions *)

\* *mutant* of Clocked: only a frame stepped as one counts.
ClockedFrames(e, n) ==
  [e EXCEPT !.dots = (@ + n) % FrameLength, !.rendered = @ + ((e.dots + n) \div FrameLength),
            !.frame = IF run.phase = "frame" THEN @ + ((e.dots + n) \div FrameLength) ELSE @]
\* step_instruction, clock_devices
Clocked(e, n) ==
  [e EXCEPT !.dots = (@ + n) % FrameLength, !.rendered = @ + ((e.dots + n) \div FrameLength),
            !.frame = @ + ((e.dots + n) \div FrameLength)]
StepInstruction(cost, stall) ==
  /\ emu.rendered < MaxFrame
  /\ emu' = Clocked(emu, cost + stall)

ResetCpu(e) == [e EXCEPT !.stopped = FALSE]

----------------------------------------------------------------------------
(* run and run_current *)

StartRun(frames, limited, allow, fresh) ==
  /\ run.phase = "idle" /\ emu.rendered < MaxFrame
  /\ run' = [NoRun EXCEPT !.phase = "between", !.left = frames, !.limited = limited, !.allow = allow]
  /\ emu' = IF fresh THEN ResetCpu(emu) ELSE emu
  /\ resets' = [i \in DOMAIN replay |-> 0]
  /\ UNCHANGED <<replay, saved>>

\* The head of the loop: the last covering entry, its reset, the buttons, and the limit.
Iterate ==
  /\ run.phase = "between" /\ run.left > 0
  /\ LET found == Covering(emu.frame)
         entry == LastCovering(found)
         edge == found # {} /\ replay[entry].reset /\ replay[entry].frame = emu.frame
         pads == IF found = {} THEN DefaultPads ELSE replay[entry].pads
     IN /\ emu' = [(IF edge THEN ResetCpu(emu) ELSE emu) EXCEPT !.pads = pads]
        /\ resets' = IF edge THEN [resets EXCEPT ![entry] = IF @ < 2 THEN @ + 1 ELSE 2] ELSE resets
  /\ \/ run' = [run EXCEPT !.phase = "frame", !.left = @ - 1, !.spent = 0, !.from = emu.rendered]
     \/ run.limited /\ run' = NoRun
  /\ UNCHANGED <<replay, saved>>

\* step_frame
Goes == emu.rendered = run.from /\ ~emu.stopped /\ run.spent < FrameBudget
StepInFrame(cost, stall, entered) ==
  /\ run.phase = "frame" /\ Goes
  /\ StepInstruction(cost, stall)
  /\ run' = [run EXCEPT !.spent = @ + cost + (IF entered THEN EntryCost ELSE 0)]
  /\ UNCHANGED <<replay, saved, resets>>

\* An opcode that is not implemented stops the CPU; unless it is allowed, it ends the run.
FailInFrame ==
  /\ run.phase = "frame" /\ Goes
  /\ emu' = [emu EXCEPT !.stopped = TRUE]
  /\ run' = IF run.allow THEN run ELSE NoRun
  /\ UNCHANGED <<replay, saved, resets>>

EndFrame ==
  /\ run.phase = "frame" /\ ~Goes
  /\ run' = IF emu.stopped THEN NoRun ELSE [run EXCEPT !.phase = "between"]
  /\ UNCHANGED <<replay, emu, saved, resets>>

EndRun ==
  /\ run.phase = "between" /\ run.left = 0
  /\ run' = NoRun
  /\ UNCHANGED <<replay, emu, saved, resets>>

----------------------------------------------------------------------------
(* Between runs *)

HostStep(cost, stall) ==
  /\ run.phase = "idle" /\ ~emu.stopped
  /\ StepInstruction(cost, stall)
  /\ UNCHANGED <<replay, run, saved, resets>>

HostReset ==
  /\ run.phase = "idle" /\ emu' = ResetCpu(emu)
  /\ UNCHANGED <<replay, run, saved, resets>>

HostSetInput(pads) ==
  /\ run.phase = "idle" /\ emu' = [emu EXCEPT !.pads = pads]
  /\ UNCHANGED <<replay, run, saved, resets>>

TakeSnapshot ==
  /\ run.phase = "idle" /\ saved' = emu
  /\ UNCHANGED <<replay, emu, run, resets>>

\* restore_snapshot: in place, or in an emulator of its own (from_snapshot).
RestoreSnapshot ==
  /\ run.phase = "idle" /\ emu' = saved
  /\ UNCHANGED <<replay, run, saved, resets>>

SessionNext ==
  \/ \E frames \in 1..2, limited, allow, fresh \in BOOLEAN : StartRun(frames, limited, allow, fresh)
  \/ Iterate \/ FailInFrame \/ EndFrame \/ EndRun
  \/ \E cost \in InstructionCosts, stall \in Stalls :
       \/ \E entered \in BOOLEAN : StepInFrame(cost, stall, entered)
       \/ HostStep(cost, stall)
  \/ HostReset \/ TakeSnapshot \/ RestoreSnapshot
  \/ \E pads \in {0, 3} : HostSetInput(pads)
SessionSpec == SessionInit /\ [][SessionNext]_sessionVars

----------------------------------------------------------------------------
(* Properties *)

\* The frame of the session is the PPU's count of frames, however instructions, frames, DMA, resets and
\* restored snapshots have brought it there: replays are addressed by it.
FramesAreCounted == emu.frame = emu.rendered

\* The buttons of the entries, each laid over those before it, for a frame at least.
Buttons(f) ==
  LET laid[n \in 0..Len(replay)] ==
        IF n = 0 THEN DefaultPads
        ELSE IF \E k \in {0} \union 1..(replay[n].duration - 1) : f = replay[n].frame + k THEN replay[n].pads
        ELSE laid[n - 1]
  IN laid[Len(replay)]
\* A run holds in every frame the buttons that the replay has for it, from the frame's first instruction to
\* its last, wherever runs begin and end and whatever the host did between them.
FramesSeeTheirInput == (run.phase = "frame" /\ Goes) => emu.pads = Buttons(emu.frame)

\* emulator.rs:366: "Reset is an edge, not a held input repeated for duration frames."
ResetIsAnEdge == \A i \in DOMAIN resets : resets[i] < 2
=============================================================================
