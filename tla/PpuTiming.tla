----------------------------- MODULE PpuTiming ------------------------------
(***************************************************************************)
(* When the vertical blank begins, who is told, and how often.  The CPU    *)
(* runs a whole instruction against a PPU that stands still and only then  *)
(* clocks it, three dots to the cycle, so a status read says how far into  *)
(* its instruction it happens: the PPU predicts whether the blank will     *)
(* have begun by then, and remembers that it has given the flag away.      *)
(*                                                                         *)
(* One step of the model is an instruction, or one turn of the loop of     *)
(* clock_cpu_cycles, which advances to the next border or by what is left. *)
(***************************************************************************)
EXTENDS Integers

CONSTANTS
  Dots,       (* dots of a scanline: 341                                  *)
  Lines,      (* scanlines of a frame: 262                                *)
  Visible,    (* visible scanlines: 240; the blank begins a line later    *)
  Reads,      (* <<offset, cycles>> of the instructions that read $2002   *)
  Lengths     (* cycles of the others, the stall of an OAM DMA included   *)

ASSUME FrameAssumption ==
  /\ Dots \in Nat /\ Lines \in Nat /\ Visible \in Nat
  /\ Dots >= 2 /\ Visible >= 1 /\ Lines >= Visible + 3

ASSUME InstructionAssumption ==
  /\ Lengths \subseteq Nat \ {0}
  /\ Reads \subseteq Nat \X Nat
  /\ \A r \in Reads : r[1] < r[2] /\ 3 * r[1] <= Dots

PostRender == Visible
VblankLine == Visible + 1
PreRender == Lines - 1

VARIABLES
  line, dot,  (* scanline and dot                                         *)
  left,       (* ppu_ticks: dots of this instruction still to be clocked  *)
  vblank,     (* bit 7 of the status register                             *)
  suppress,   (* suppress_next_vblank_status                              *)
  nmiOn,      (* bit 7 of the control register                            *)
  nmi,        (* Bus::nmi_pending                                         *)
  shown,      (* history: status reads that returned this frame's flag    *)
  missed      (* history: a status read in the blank came away without it *)
              (* though none had returned it                              *)

position == <<line, dot>>
flags == <<vblank, suppress>>
history == <<shown, missed>>
vars == <<position, left, flags, nmiOn, nmi, history>>

TypeOK ==
  /\ line \in 0..Lines - 1 /\ dot \in 0..Dots - 1
  /\ left \in Nat
  /\ vblank \in BOOLEAN /\ suppress \in BOOLEAN
  /\ nmiOn \in BOOLEAN /\ nmi \in BOOLEAN
  /\ shown \in Nat /\ missed \in BOOLEAN

Init ==
  /\ line = 0 /\ dot = 0 /\ left = 0
  /\ vblank = FALSE /\ suppress = FALSE
  /\ nmiOn = FALSE /\ nmi = FALSE
  /\ shown = 0 /\ missed = FALSE

-----------------------------------------------------------------------------
(* An instruction: CpuState::step consumes a pending NMI at its head.      *)
Instruction(cycles) ==
  /\ left = 0
  /\ left' = 3 * cycles
  /\ nmi' = FALSE
  /\ UNCHANGED position

(* vblank_starts_within.                                                   *)
StartsAfter(ticks) ==                   (* mutant: off by one dot         *)
  line = PostRender /\ ticks > Dots - dot
StartsWithin(ticks) == line = PostRender /\ ticks >= Dots - dot

(* Where the head of the beam is, dots of the frame counted from 0.        *)
Beam(ticks) == line * Dots + dot + ticks
InBlank(ticks) ==
  Beam(ticks) >= VblankLine * Dots /\ Beam(ticks) < PreRender * Dots

(* Mutant: the flag is shown early and raised all the same.                *)
ReadStatusTwice(offset, cycles) ==
  /\ Instruction(cycles)
  /\ vblank' = FALSE
  /\ shown' = IF vblank \/ StartsWithin(3 * offset) THEN shown + 1 ELSE shown
  /\ UNCHANGED <<suppress, nmiOn, missed>>

ReadStatus(offset, cycles) ==
  LET early == ~ vblank /\ StartsWithin(3 * offset)
      returned == vblank \/ early
  IN  /\ Instruction(cycles)
      /\ suppress' = (suppress \/ early)
      /\ vblank' = FALSE
      /\ shown' = IF returned THEN shown + 1 ELSE shown
      /\ missed' = (missed \/ (InBlank(3 * offset) /\ ~ returned /\ shown = 0))
      /\ UNCHANGED nmiOn

WriteControl(cycles) ==
  /\ Instruction(cycles)
  /\ nmiOn' \in BOOLEAN
  /\ UNCHANGED <<flags, history>>

Other(cycles) ==
  /\ Instruction(cycles)
  /\ UNCHANGED <<flags, nmiOn, history>>

-----------------------------------------------------------------------------
(* clock_cpu_cycles.                                                       *)
ClearsFlags == line = PreRender /\ dot = 0
Room == IF ClearsFlags THEN 1 ELSE Dots - dot
After(l) == IF l + 1 >= Lines THEN 0 ELSE l + 1

BeginVblank ==
  /\ vblank' = (vblank \/ ~ suppress)
  /\ suppress' = FALSE
  /\ nmi' = (nmi \/ nmiOn)

(* Part of a line, the clearing dot of the pre-render line included.       *)
Advance ==
  /\ left > 0
  /\ ClearsFlags \/ left < Room
  /\ LET step == IF left < Room THEN left ELSE Room
     IN  dot' = dot + step /\ left' = left - step
  /\ IF ClearsFlags
     THEN vblank' = FALSE /\ suppress' = FALSE /\ shown' = 0
     ELSE UNCHANGED <<flags, shown>>
  /\ UNCHANGED <<line, nmiOn, nmi, missed>>

(* The rest of a line.                                                     *)
NextLine ==
  /\ left >= Room /\ ~ ClearsFlags
  /\ left' = left - Room
  /\ dot' = 0
  /\ line' = After(line)
  /\ IF line' = VblankLine THEN BeginVblank ELSE UNCHANGED <<flags, nmi>>
  /\ UNCHANGED <<nmiOn, history>>

Clock == Advance \/ NextLine

Run ==
  \/ \E r \in Reads : ReadStatus(r[1], r[2])
  \/ \E cycles \in Lengths : WriteControl(cycles) \/ Other(cycles)

Next == Run \/ Clock

(* The run loops step until the frame is complete.                         *)
Spec == Init /\ [][Next]_vars

-----------------------------------------------------------------------------
(* The flag of one blank is given to one status read: a read that sees it  *)
(* coming does not leave it for the next.                                  *)
OncePerFrame == shown <= 1

(* A program that polls the status register meets every blank: the first   *)
(* read whose data cycle lies in it returns the flag.                      *)
NeverMissed == ~ missed

(* The mark that the flag was given away does not outlive its instruction, *)
(* so it cannot eat the flag of a later frame.                             *)
SuppressionIsSpent == left = 0 => ~ suppress

(* Outside the blank the flag is down.                                     *)
FlagOnlyInBlank ==
  vblank => line \in VblankLine..PreRender - 1 \/ (line = PreRender /\ dot = 0)

(* The blank comes again and again, as step_frame needs to return.         *)
FramesGoOn == []<>(line = VblankLine)
=============================================================================
