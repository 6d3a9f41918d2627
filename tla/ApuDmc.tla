------------------------------- MODULE ApuDmc -------------------------------
(***************************************************************************)
(* The delta modulation channel: a reader that fetches the bytes of a      *)
(* sample from cartridge memory into a buffer of one byte, and a shifter   *)
(* that takes a byte from the buffer and moves the output level by its     *)
(* bits.  The shifter runs for a whole chunk of cycles, mostly that of one *)
(* instruction, while the reader is served only before and after it.       *)
(*                                                                         *)
(* A step is a register write, or a part of Bus::clock_audio_devices: the  *)
(* fetch before the chunk, one bit, the fetch after.  While the channel is *)
(* disabled a chunk changes nothing.                                       *)
(***************************************************************************)
EXTENDS Integers

CONSTANTS
  Base, Top,  (* cartridge memory: $8000 to $FFFF                         *)
  Starts,     (* sample addresses: multiples of 64 from $C000             *)
  Sizes,      (* sample lengths: 16 n + 1                                 *)
  BitPeriods,    (* cycles of a bit: 54 to 428                               *)
  Bits,       (* of a byte: 8                                             *)
  Dac,        (* the highest output level: 127                            *)
  DmcChunks,     (* cycles of an instruction or an OAM DMA                   *)
  Patience    (* the longest chunk that a byte in the buffer outlasts     *)

MemorySize == Top - Base + 1

ASSUME MemoryAssumption ==
  /\ Base \in Nat /\ Top \in Nat /\ Base <= Top
  /\ Starts \subseteq Base..Top
  /\ \E s \in Starts : \A r \in Starts : s <= r
  /\ Sizes \subseteq 1..MemorySize /\ 1 \in Sizes

ASSUME TimeAssumption ==
  /\ BitPeriods \subseteq Nat \ {0}
  /\ \E p \in BitPeriods : \A q \in BitPeriods : p >= q
  /\ DmcChunks \subseteq Nat \ {0}
  /\ Bits \in Nat \ {0} /\ Dac \in Nat /\ Dac >= 3

(* Cycles left over at one period, then a chunk at another, make at most a *)
(* byte's worth of bits: 427 + 58 < 9 * 54.                                *)
ASSUME PatienceAssumption ==
  /\ Patience \in Nat
  /\ \A p, q \in BitPeriods : p - 1 + Patience < (Bits + 1) * q

VARIABLES
  dmcEnabled,    (* dmc_enabled                                              *)
  irqOn, loop, period,   (* what $4010 selects                            *)
  start, size,           (* what $4012 and $4013 select for the next      *)
                         (* sample                                        *)
  addr, remaining,       (* dmc_current_addr, dmc_bytes_remaining         *)
  full,       (* dmc_sample_buffer holds a byte                           *)
  bits,       (* dmc_bits_remaining                                       *)
  silence, level,        (* dmc_silence, dmc_output_level                 *)
  bitAccum,      (* dmc_timer_accum                                          *)
  irq,        (* dmc_irq_flag                                             *)
  clocking,   (* within a chunk                                           *)
  chunk,      (* history: its length                                      *)
  starved,    (* history: the shifter found no byte in it, though bytes   *)
              (* remained                                                 *)
  from, total (* history: the sample that is being fetched                *)

selected == <<irqOn, loop, period, start, size>>
sample == <<from, total>>
reader == <<addr, remaining, sample>>
shifter == <<bits, silence, level, bitAccum>>
chunked == <<clocking, chunk, starved>>
dmcVars == <<dmcEnabled, selected, reader, full, shifter, irq, chunked>>

DmcTypeOK ==
  /\ dmcEnabled \in BOOLEAN
  /\ irqOn \in BOOLEAN /\ loop \in BOOLEAN /\ period \in BitPeriods
  /\ start \in Starts /\ size \in Sizes
  /\ addr \in Base..Top /\ remaining \in 0..MemorySize
  /\ full \in BOOLEAN /\ silence \in BOOLEAN /\ irq \in BOOLEAN
  /\ bits \in 0..Bits - 1 /\ level \in 0..Dac
  /\ bitAccum \in Nat
  /\ clocking \in BOOLEAN /\ starved \in BOOLEAN

(* The channel starts at the lowest address and the slowest rate.          *)
Lowest == CHOOSE s \in Starts : \A r \in Starts : s <= r
Slowest == CHOOSE p \in BitPeriods : \A q \in BitPeriods : p >= q

DmcInit ==
  /\ dmcEnabled = FALSE /\ irq = FALSE
  /\ irqOn = FALSE /\ loop = FALSE /\ period = Slowest
  /\ start = Lowest /\ size = 1
  /\ addr = start /\ remaining = 0
  /\ full = FALSE
  /\ bits = 0 /\ silence = TRUE /\ level = 0 /\ bitAccum = 0
  /\ clocking = FALSE /\ chunk = 0 /\ starved = FALSE
  /\ from = start /\ total = 0

-----------------------------------------------------------------------------
(* The registers.                                                          *)
Write == ~ clocking /\ UNCHANGED chunked

(* $4010.                                                                  *)
WriteDmcControl ==
  /\ Write
  /\ irqOn' \in BOOLEAN /\ loop' \in BOOLEAN /\ period' \in BitPeriods
  /\ irq' = (irq /\ irqOn')
  /\ UNCHANGED <<dmcEnabled, start, size, reader, full, shifter>>

(* $4011.                                                                  *)
WriteLevel ==
  /\ Write
  /\ level' \in 0..Dac
  /\ UNCHANGED <<dmcEnabled, selected, reader, full, bits, silence, bitAccum, irq>>

(* $4012 and $4013.                                                        *)
WriteSample ==
  /\ Write
  /\ \/ start' \in Starts /\ UNCHANGED size
     \/ size' \in Sizes /\ UNCHANGED start
  /\ UNCHANGED <<dmcEnabled, irqOn, loop, period, reader, full, shifter, irq>>

(* Mutant: the reader keeps its address.                                   *)
RestartHere ==
  /\ remaining' = size
  /\ from' = start /\ total' = size
  /\ UNCHANGED addr

(* restart_dmc_sample.                                                     *)
Restart ==
  /\ addr' = start /\ remaining' = size
  /\ from' = start /\ total' = size

(* Mutant: a sample that plays starts again.                               *)
SwitchOnAnew ==
  /\ dmcEnabled' = TRUE
  /\ IF dmcEnabled THEN UNCHANGED shifter
     ELSE /\ bitAccum' = 0 /\ bits' = 0 /\ silence' = TRUE
          /\ UNCHANGED level
  /\ Restart
  /\ UNCHANGED full

(* $4015.  Switching on a channel that plays changes nothing but the flag. *)
SwitchOn ==
  /\ dmcEnabled' = TRUE
  /\ IF dmcEnabled THEN UNCHANGED shifter
     ELSE /\ bitAccum' = 0 /\ bits' = 0 /\ silence' = TRUE
          /\ UNCHANGED level
  /\ IF remaining = 0 THEN Restart ELSE UNCHANGED reader
  /\ UNCHANGED full

SwitchOff ==
  /\ dmcEnabled' = FALSE
  /\ remaining' = 0 /\ full' = FALSE
  /\ UNCHANGED <<addr, sample, shifter>>

WriteDmcStatus ==
  /\ Write
  /\ irq' = FALSE
  /\ SwitchOn \/ SwitchOff
  /\ UNCHANGED selected

-----------------------------------------------------------------------------
Following(a) == IF a = Top THEN Base ELSE a + 1

(* complete_dmc_sample_fetch.  The interrupt comes with the last fetch,    *)
(* before the byte is heard.                                               *)
Pending == remaining > 0 /\ ~ full

LastByte ==
  /\ Pending /\ remaining = 1
  /\ IF loop THEN Restart /\ UNCHANGED irq
     ELSE /\ addr' = Following(addr) /\ remaining' = 0
          /\ irq' = (irq \/ irqOn)
          /\ UNCHANGED sample

AnotherByte ==
  /\ Pending /\ remaining > 1
  /\ addr' = Following(addr) /\ remaining' = remaining - 1
  /\ UNCHANGED <<sample, irq>>

Fetch ==
  /\ \/ LastByte \/ AnotherByte
     \/ ~ Pending /\ UNCHANGED <<reader, irq>>
  /\ full' = (full \/ Pending)

(* Mutant: the buffer is filled only after the chunk.                      *)
BeginUnserved(n) ==
  /\ dmcEnabled /\ ~ clocking
  /\ clocking' = TRUE /\ chunk' = n /\ starved' = FALSE
  /\ bitAccum' = bitAccum + n
  /\ UNCHANGED <<dmcEnabled, selected, reader, full, bits, silence, level, irq>>

BeginDmc(n) ==
  /\ dmcEnabled /\ ~ clocking
  /\ Fetch
  /\ clocking' = TRUE /\ chunk' = n /\ starved' = FALSE
  /\ bitAccum' = bitAccum + n
  /\ UNCHANGED <<dmcEnabled, selected, bits, silence, level>>

(* A bit moves the level up or down, unless that leaves its range.         *)
LevelMoves(l) == {IF l <= Dac - 2 THEN l + 2 ELSE l, IF l >= 2 THEN l - 2 ELSE l}

(* One turn of the loop of clock_dmc_output.                               *)
Tick ==
  /\ clocking /\ bitAccum >= period
  /\ bitAccum' = bitAccum - period
  /\ IF bits = 0
     THEN /\ full' = FALSE /\ silence' = ~ full
          /\ bits' = Bits - 1
          /\ starved' = (starved \/ Pending)
     ELSE /\ bits' = bits - 1
          /\ UNCHANGED <<full, silence, starved>>
  /\ level' \in IF silence' THEN {level} ELSE LevelMoves(level)
  /\ UNCHANGED <<dmcEnabled, selected, reader, irq, clocking, chunk>>

Finish ==
  /\ clocking /\ bitAccum < period
  /\ Fetch
  /\ clocking' = FALSE
  /\ UNCHANGED <<dmcEnabled, selected, shifter, chunk, starved>>

ClockDmc == (\E n \in DmcChunks : BeginDmc(n)) \/ Tick \/ Finish

DmcNext ==
  \/ WriteDmcControl \/ WriteLevel \/ WriteSample \/ WriteDmcStatus
  \/ ClockDmc

(* The run loops clock the devices after every instruction.                *)
DmcSpec == DmcInit /\ [][DmcNext]_dmcVars /\ WF_dmcVars(ClockDmc)

-----------------------------------------------------------------------------
(* The interrupt flag is up only after the last byte of a sample, with the *)
(* interrupt switched on: no register write leaves a flag that belongs to  *)
(* an earlier sample.                                                      *)
IrqMeansEnded == irq => irqOn /\ remaining = 0

(* The reader is where the sample that it started with is: neither a write *)
(* to $4012 or $4013 while it plays nor the end of memory leads it astray. *)
Wrapped(a) == IF a > Top THEN a - MemorySize ELSE a
SampleInPlace == remaining > 0 => addr = Wrapped(from + total - remaining)

(* A sample plays without gaps: as long as bytes remain, the shifter finds *)
(* one whenever it needs one, except in a chunk as long as an OAM DMA.     *)
(* This holds for a change of period between two instructions, too.        *)
OnlyLongChunksStarve == starved => chunk > Patience

(* A sample that does not loop ends, whatever the program writes.          *)
SampleEnds == remaining > 0 ~> remaining = 0 \/ loop
=============================================================================
