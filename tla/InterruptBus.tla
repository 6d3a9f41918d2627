---------------------------- MODULE InterruptBus ----------------------------
(***************************************************************************)
(* How an interrupt request travels from a device to the CPU: the sources  *)
(* (APU frame counter, DMC, mapper, PPU), the two latches of the Bus, and  *)
(* the poll at the head of CpuState::step.                                 *)
(*                                                                         *)
(* One call of Emulator::step_instruction is poll, execute, clock: the CPU *)
(* takes an interrupt or not, runs one instruction against the devices,    *)
(* and only then are the devices clocked for the cycles it took.  An OAM   *)
(* DMA clocks them once more inside the instruction.  What the devices do  *)
(* while they are clocked is a choice among what they can do; how long it  *)
(* takes them is the business of the other modules.                        *)
(***************************************************************************)
EXTENDS Naturals

VARIABLES
  phase,      (* poll, execute, dma, clock, or stopped                    *)
  masked,     (* IRQ_DISABLE in the status register                       *)
  delay,      (* irq_poll_delay                                           *)
  nmi,        (* Bus::nmi_pending                                         *)
  latch,      (* Bus::irq_pending                                         *)
  frame,      (* Apu::frame_irq_flag                                      *)
  frameOn,    (* $4017 selects four steps without the inhibit bit         *)
  dmc,        (* Apu::dmc_irq_flag                                        *)
  dmcOn,      (* the interrupt bit of $4010                               *)
  playing,    (* dmc_bytes_remaining > 0                                  *)
  mapper,     (* Mapper::irq_pending                                      *)
  mapperOn,   (* the mapper's counter may request an interrupt            *)
  level,      (* irq_is_level() of the cartridge's board: TRUE for FDS    *)
              (* only, and never changed                                  *)
  unseen,     (* history: a source the bus latches asked for an interrupt *)
              (* that no service and no status read has answered          *)
  freshCli    (* history: the last instruction was a CLI that unmasked    *)

cpu == <<masked, delay>>
apu == <<frame, frameOn, dmc, dmcOn, playing>>
board == <<mapper, mapperOn, level>>
vars == <<phase, cpu, nmi, latch, apu, board, unseen, freshCli>>

TypeOK ==
  /\ phase \in {"poll", "execute", "dma", "clock", "stopped"}
  /\ delay \in {0, 1}
  /\ masked \in BOOLEAN /\ nmi \in BOOLEAN /\ latch \in BOOLEAN
  /\ frame \in BOOLEAN /\ frameOn \in BOOLEAN
  /\ dmc \in BOOLEAN /\ dmcOn \in BOOLEAN /\ playing \in BOOLEAN
  /\ mapper \in BOOLEAN /\ mapperOn \in BOOLEAN /\ level \in BOOLEAN
  /\ unseen \in BOOLEAN /\ freshCli \in BOOLEAN

(* Apu::irq_pending, and the sources take_irq and clock_devices look at.   *)
ApuIrq == frame \/ dmc
Requests == mapper \/ ApuIrq
Latched == (mapper /\ ~ level) \/ ApuIrq

(* Power-on, after Emulator::new has reset the CPU.                        *)
Init ==
  /\ phase = "poll" /\ masked = TRUE /\ delay = 0
  /\ nmi = FALSE /\ latch = FALSE
  /\ frame = FALSE /\ frameOn = TRUE
  /\ dmc = FALSE /\ dmcOn = FALSE /\ playing = FALSE
  /\ mapper = FALSE /\ mapperOn = FALSE /\ level \in BOOLEAN
  /\ unseen = FALSE /\ freshCli = FALSE

-----------------------------------------------------------------------------
(* Mutant: the CLI delay outlives the poll.                                *)
PollKeepsDelay ==
  /\ phase = "poll"
  /\ phase' = "execute"
  /\ freshCli' = FALSE
  /\ UNCHANGED delay

(* The poll.  One pending CLI delay is consumed whatever happens next.     *)
PollDone ==
  /\ phase = "poll"
  /\ delay' = 0
  /\ phase' = "execute"
  /\ freshCli' = FALSE

TakeNmi ==
  /\ PollDone
  /\ nmi
  /\ nmi' = FALSE
  /\ masked' = TRUE
  /\ UNCHANGED <<latch, apu, board, unseen>>

IrqEligible == ~ nmi /\ delay = 0 /\ ~ masked

(* Mutant: acceptance leaves the latch of the bus.                         *)
TakeIrqKeepsLatch ==
  /\ PollDone
  /\ IrqEligible
  /\ latch \/ Requests
  /\ mapper' = (mapper /\ level)
  /\ masked' = TRUE
  /\ unseen' = ApuIrq
  /\ UNCHANGED <<nmi, latch, apu, mapperOn, level>>

(* take_irq clears the latch and a mapper whose clear_irq does something;  *)
(* the APU flags and a level-triggered mapper keep asking.                 *)
TakeIrq ==
  /\ PollDone
  /\ IrqEligible
  /\ latch \/ Requests
  /\ latch' = FALSE
  /\ mapper' = (mapper /\ level)
  /\ masked' = TRUE
  /\ unseen' = ApuIrq
  /\ UNCHANGED <<nmi, apu, mapperOn, level>>

NoInterrupt ==
  /\ PollDone
  /\ ~ nmi
  /\ ~ (IrqEligible /\ (latch \/ Requests))
  /\ UNCHANGED <<masked, nmi, latch, apu, board, unseen>>

-----------------------------------------------------------------------------
(* The instruction: those that touch the mask, the sources or the latches. *)
Execute == phase = "execute" /\ phase' = "clock"

Other == Execute /\ UNCHANGED <<cpu, nmi, latch, apu, board, unseen, freshCli>>

(* Mutant: CLI takes effect at once.                                       *)
CliAtOnce ==
  /\ Execute
  /\ masked' = FALSE
  /\ freshCli' = masked
  /\ UNCHANGED <<delay, nmi, latch, apu, board, unseen>>

Cli ==
  /\ Execute
  /\ masked' = FALSE
  /\ delay' = IF masked THEN 1 ELSE delay
  /\ freshCli' = masked
  /\ UNCHANGED <<nmi, latch, apu, board, unseen>>

(* SEI and BRK set the mask; PLP and RTI take it from the stack.           *)
SetMask ==
  /\ Execute
  /\ masked' \in BOOLEAN
  /\ UNCHANGED <<delay, nmi, latch, apu, board, unseen, freshCli>>

(* What a read of $4015 does to the flags and the bus latch.               *)
StatusRead ==
  /\ frame' = FALSE
  /\ latch' = (latch /\ (dmc \/ mapper))
  /\ unseen' = (unseen /\ (dmc \/ mapper))
  /\ UNCHANGED <<frameOn, dmc, dmcOn, playing>>

ReadStatus ==
  /\ Execute
  /\ StatusRead
  /\ UNCHANGED <<cpu, nmi, board, freshCli>>

WriteStatus ==
  /\ Execute
  /\ dmc' = FALSE
  /\ playing' \in BOOLEAN
  /\ UNCHANGED <<cpu, nmi, latch, frame, frameOn, dmcOn, board, unseen, freshCli>>

WriteDmcControl ==
  /\ Execute
  /\ dmcOn' \in BOOLEAN
  /\ dmc' = (dmc /\ dmcOn')
  /\ UNCHANGED <<cpu, nmi, latch, frame, frameOn, playing, board, unseen, freshCli>>

(* $4017: the inhibit bit acknowledges, five-step mode only stops asking.  *)
WriteFrameCounter ==
  /\ Execute
  /\ \E inhibit, fiveStep \in BOOLEAN :
       /\ frame' = (frame /\ ~ inhibit)
       /\ frameOn' = (~ inhibit /\ ~ fiveStep)
  /\ UNCHANGED <<cpu, nmi, latch, dmc, dmcOn, playing, board, unseen, freshCli>>

(* A mapper register: whether the counter may ask is set anew, and many    *)
(* registers acknowledge, some of them when they are read.                 *)
AccessMapper ==
  /\ Execute
  /\ mapperOn' \in BOOLEAN
  /\ mapper' \in {FALSE, mapper}
  /\ UNCHANGED <<cpu, nmi, latch, apu, level, unseen, freshCli>>

(* $4014: 256 bus reads, the status register among them when the page is   *)
(* $40 and board registers that acknowledge when that or a page after it   *)
(* holds some, then the devices are clocked before the instruction ends.   *)
OamDma ==
  /\ phase = "execute" /\ phase' = "dma"
  /\ StatusRead \/ UNCHANGED <<latch, apu, unseen>>
  /\ mapper' \in {FALSE, mapper}
  /\ UNCHANGED <<cpu, nmi, mapperOn, level, freshCli>>

(* An unimplemented opcode ends the step before the devices are clocked.   *)
Unimplemented ==
  /\ phase = "execute" /\ phase' = "stopped"
  /\ UNCHANGED <<cpu, nmi, latch, apu, board, unseen, freshCli>>

-----------------------------------------------------------------------------
(* clock_devices.  The last DMC fetch raises the flag if $4010 asks for    *)
(* it; a looping sample plays on.                                          *)
Clock ==
  /\ phase \in {"dma", "clock"}
  /\ phase' = IF phase = "dma" THEN "clock" ELSE "poll"
  /\ \/ frame' = frame
     \/ frameOn /\ frame' = TRUE
  /\ \/ UNCHANGED <<dmc, playing>>
     \/ playing /\ playing' = FALSE /\ dmc' = (dmc \/ dmcOn)
  /\ \/ mapper' = mapper
     \/ mapperOn /\ mapper' = TRUE
  /\ UNCHANGED <<cpu, frameOn, dmcOn, mapperOn, level, freshCli>>
  /\ nmi' \in {nmi, TRUE}
  /\ latch' = (latch \/ Latched')
  /\ unseen' = (unseen \/ Latched')

(* The host resets the CPU: the devices and the bus latches are kept.      *)
Reset ==
  /\ phase \in {"poll", "stopped"} /\ phase' = "poll"
  /\ masked' = TRUE /\ delay' = 0 /\ freshCli' = FALSE
  /\ UNCHANGED <<nmi, latch, apu, board, unseen>>

Instruction ==
  \/ TakeNmi \/ TakeIrq \/ NoInterrupt
  \/ Other \/ Cli \/ SetMask
  \/ ReadStatus \/ WriteStatus \/ WriteDmcControl \/ WriteFrameCounter
  \/ AccessMapper \/ OamDma \/ Unimplemented
  \/ Clock

Next == Instruction \/ Reset

(* The run loops keep stepping until the CPU stops.                        *)
Spec == Init /\ [][Next]_vars /\ WF_vars(Instruction)

-----------------------------------------------------------------------------
(* Every IRQ the CPU takes answers a request: a source asks for it now, or *)
(* one the bus latches asked since the last service and since the last     *)
(* read of $4015 that left nothing pending.  A mapper that is level        *)
(* triggered must be asking now.                                           *)
Explained == [][TakeIrq => Requests \/ unseen]_vars

(* CLI lets one more instruction run before an IRQ is taken, so that CLI   *)
(* followed by SEI opens no window.                                        *)
CliShadow == [][TakeIrq => ~ freshCli]_vars

(* An unmasked request that stays up is answered: neither the CLI delay    *)
(* nor a stream of NMIs holds it back for ever without the mask being set. *)
IrqAnswered == Requests /\ ~ masked ~> masked \/ ~ Requests \/ phase = "stopped"

(* The stronger reading of the comments in mapper.rs and bus.rs: a request *)
(* the program has acknowledged at the device is gone.                     *)
AcknowledgedIsGone == [][TakeIrq => Requests]_vars
=============================================================================
