------------------------------ MODULE BoardIrq ------------------------------
(***************************************************************************)
(* The interrupt counters of the boards.  Those of VRC3, VRC4, FME-7,      *)
(* Bandai, Jaleco, Namco 163 and the shared decoder count CPU cycles: the  *)
(* bus hands each the cycles of an instruction, or of an OAM DMA, as one   *)
(* chunk.  Those of MMC3 and MMC5 count rising edges of address line A12,  *)
(* which they see among the pattern fetches of the renderer, a whole line  *)
(* of them at once, and of the reads of $2007.                             *)
(*                                                                         *)
(* The cartridge decides the family for good.  A field that a family lacks *)
(* keeps its first value.                                                  *)
(***************************************************************************)
EXTENDS Integers, Sequences

CONSTANTS
  Nibble,     (* 16: the values of four bits                              *)
  ScanTicks,  (* 341: what the prescaler of VRC4 divides by               *)
  Chunks,     (* the CPU cycles of one call of clock_cpu                  *)
  LowCap,     (* 32: where MMC3 stops counting low fetches                *)
  Slots       (* 8: the sprites fetched in a line                         *)

ASSUME NibbleAssumption == Nibble \in Nat \ {0} /\ Nibble % 2 = 0
ASSUME ClockAssumption == ScanTicks \in Nat \ {0} /\ Chunks \subseteq Nat \ {0}
ASSUME FetchAssumption == LowCap \in Nat /\ LowCap >= 2 /\ Slots \in Nat \ {0}

Byte == Nibble * Nibble
Word == Byte * Byte

VARIABLES
  family,     (* the board                                                *)
  latch,      (* irq_latch; MMC5: irq_scanline                            *)
  counter,    (* irq_counter; MMC5: scanline_counter                      *)
  enabled,    (* irq_enabled                                              *)
  pending,    (* irq_pending_flag                                         *)
  short,      (* bit 2 of irq_control; VRC3: eight bits, VRC4: cycles     *)
  resume,     (* bit 0 of irq_control: enabled after an acknowledgement   *)
  prescaler,  (* irq_prescaler of VRC4                                    *)
  reload,     (* irq_reload of MMC3                                       *)
  low,        (* a12_low_ticks of MMC3                                    *)
  a12,        (* last_ppu_a12, last_a12                                   *)
  fetches,    (* A12 of the fetches the line that is drawn still makes    *)
  line,       (* history: how the last line was drawn                     *)
  clocks,     (* history: the clocks of the counter in it                 *)
  last        (* history: the last step as the abstract alarm sees it     *)

control == <<short, resume>>
filter == <<low, a12>>
drawing == <<fetches, line, clocks>>
vars == <<family, latch, counter, enabled, pending, control, prescaler, reload,
          filter, drawing, last>>

OneShots == {"oneshot", "decoder"}
CycleFamilies == OneShots \cup {"vrc3", "vrc4", "n163"}
LineFamilies == {"mmc3", "mmc5"}
Families == CycleFamilies \cup LineFamilies

N163Top == (Byte \div 2) * Byte - 1

TypeOK ==
  /\ family \in Families
  /\ latch \in 0..Word - 1 /\ counter \in 0..Word - 1
  /\ enabled \in BOOLEAN /\ pending \in BOOLEAN
  /\ short \in BOOLEAN /\ resume \in BOOLEAN
  /\ prescaler \in 0..ScanTicks - 1
  /\ reload \in BOOLEAN /\ low \in 0..LowCap /\ a12 \in BOOLEAN
  /\ fetches \in Seq(BOOLEAN)
  /\ line \in {"none", "split", "plain", "tall"}
  /\ clocks \in Nat
  /\ family \in {"vrc4"} \cup LineFamilies => latch < Byte /\ counter < Byte
  /\ family = "n163" => counter <= N163Top

Init ==
  /\ family \in Families
  /\ latch = 0 /\ counter = 0 /\ enabled = FALSE /\ pending = FALSE
  /\ short = FALSE /\ resume = FALSE /\ prescaler = 0
  /\ reload = FALSE /\ low = 0 /\ a12 = FALSE
  /\ fetches = <<>> /\ line = "none" /\ clocks = 0
  /\ last = [op |-> "set", ticks |-> 0]

-----------------------------------------------------------------------------
(* Register accesses.  They fall between the chunks and between the lines. *)
Register(families) ==
  /\ family \in families
  /\ fetches = <<>>
  /\ last' = [op |-> "set", ticks |-> 0]
  /\ UNCHANGED <<family, filter, drawing>>

(* x with the digit of weight w, one of base digits, replaced by v.        *)
WithDigit(x, w, base, v) == x + (v - ((x \div w) % base)) * w

(* $8000 to $B000 of VRC3 and $F000, $F001 of VRC4: four bits of the latch. *)
WriteLatchDigit ==
  /\ \E v \in 0..Nibble - 1 :
       \/ /\ Register({"vrc3"})
          /\ \E w \in {1, Nibble, Byte, Byte * Nibble} :
               latch' = WithDigit(latch, w, Nibble, v)
       \/ /\ Register({"vrc4"})
          /\ \E w \in {1, Nibble} : latch' = WithDigit(latch, w, Nibble, v)
  /\ UNCHANGED <<counter, enabled, pending, control, prescaler, reload>>

(* $C000 of VRC3, $F002 of VRC4: acknowledges, and starts the counter anew *)
(* if it is enabled.                                                       *)
WriteVrcControl ==
  /\ Register({"vrc3", "vrc4"})
  /\ short' \in BOOLEAN /\ resume' \in BOOLEAN /\ enabled' \in BOOLEAN
  /\ pending' = FALSE
  /\ prescaler' = 0
  /\ counter' = IF enabled' THEN latch ELSE counter
  /\ UNCHANGED <<latch, reload>>

(* $D000 of VRC3, $F003 of VRC4.                                           *)
AcknowledgeVrc ==
  /\ Register({"vrc3", "vrc4"})
  /\ pending' = FALSE
  /\ enabled' = resume
  /\ UNCHANGED <<latch, counter, control, prescaler, reload>>

(* FME-7 register 13, Bandai $E000, Jaleco $F800.                          *)
WriteOneShotEnable ==
  /\ Register({"oneshot"})
  /\ enabled' \in BOOLEAN
  /\ pending' = (pending /\ enabled')
  /\ UNCHANGED <<latch, counter, control, prescaler, reload>>

(* The low byte: FME-7 14, Bandai and the shared decoder $F000, Jaleco     *)
(* $E000.                                                                  *)
WriteOneShotLow ==
  /\ Register(OneShots)
  /\ \E v \in 0..Byte - 1 : counter' = WithDigit(counter, 1, Byte, v)
  /\ UNCHANGED <<latch, enabled, pending, control, prescaler, reload>>

(* The high byte; the top bit of the shared decoder's enables it as well.  *)
WriteOneShotHigh ==
  /\ \E v \in 0..Byte - 1 :
       /\ counter' = WithDigit(counter, Byte, Byte, v)
       /\ \/ Register({"oneshot"}) /\ UNCHANGED enabled
          \/ Register({"decoder"}) /\ enabled' = (v >= Byte \div 2)
  /\ pending' = (pending /\ (enabled' \/ family = "oneshot"))
  /\ UNCHANGED <<latch, control, prescaler, reload>>

(* $5000 of Namco 163, and $5800, whose top bit enables; both acknowledge. *)
WriteN163 ==
  /\ Register({"n163"})
  /\ \/ /\ \E v \in 0..Byte - 1 : counter' = WithDigit(counter, 1, Byte, v)
        /\ UNCHANGED enabled
     \/ /\ \E v \in 0..Byte \div 2 - 1 :
             counter' = WithDigit(counter, Byte, Byte \div 2, v)
        /\ enabled' \in BOOLEAN
  /\ pending' = FALSE
  /\ UNCHANGED <<latch, control, prescaler, reload>>

(* $C000 of MMC3, $5203 of MMC5.                                           *)
WriteTarget ==
  /\ Register(LineFamilies)
  /\ latch' \in 0..Byte - 1
  /\ UNCHANGED <<counter, enabled, pending, control, prescaler, reload>>

(* $C001 of MMC3.                                                          *)
WriteReload ==
  /\ Register({"mmc3"})
  /\ reload' = TRUE
  /\ UNCHANGED <<latch, counter, enabled, pending, control, prescaler>>

(* $E000 and $E001 of MMC3, $5204 of MMC5.                                 *)
WriteLineEnable ==
  /\ Register(LineFamilies)
  /\ enabled' \in BOOLEAN
  /\ pending' = (pending /\ enabled')
  /\ UNCHANGED <<latch, counter, control, prescaler, reload>>

(* A read of $5204 of MMC5.                                                *)
ReadStatus ==
  /\ Register({"mmc5"})
  /\ pending' = FALSE
  /\ UNCHANGED <<latch, counter, enabled, control, prescaler, reload>>

(* take_irq: the CPU is served, clear_irq.                                 *)
Serve ==
  /\ pending /\ fetches = <<>>
  /\ pending' = FALSE
  /\ last' = [op |-> "answer", ticks |-> 0]
  /\ UNCHANGED <<family, latch, counter, enabled, control, prescaler, reload,
                 filter, drawing>>

-----------------------------------------------------------------------------
(* clock_cpu.                                                              *)
Elapses(families, ticks) ==
  /\ family \in families
  /\ last' = [op |-> "pass", ticks |-> ticks]
  /\ UNCHANGED <<family, latch, enabled, control, reload, filter, drawing>>

(* Stands still.                                                           *)
ClockDisabled(n) ==
  /\ ~ enabled
  /\ \/ Elapses(CycleFamilies \ {"vrc4"}, n) \/ Elapses({"vrc4"}, 3 * n)
  /\ UNCHANGED <<counter, pending, prescaler>>

(* irq_limit.                                                              *)
Limit == IF short THEN Byte ELSE Word

ClockVrc3(n) ==
  /\ enabled
  /\ Elapses({"vrc3"}, n)
  /\ counter' = (IF counter + n >= Limit THEN (counter + n) % Limit ELSE counter + n)
  /\ pending' = (pending \/ counter + n >= Limit)
  /\ UNCHANGED prescaler

(* What the counter of VRC4 advances in n cycles.                          *)
Increments(n) == IF short THEN n ELSE (prescaler + 3 * n) \div ScanTicks

(* Mutant: the counts past the overflow are lost.                          *)
ClockVrc4FromLatch(n) ==
  LET next == counter + Increments(n) IN
    /\ enabled
    /\ Elapses({"vrc4"}, 3 * n)
    /\ prescaler' = IF short THEN prescaler ELSE (prescaler + 3 * n) % ScanTicks
    /\ counter' = IF next >= Byte THEN latch ELSE next
    /\ pending' = (pending \/ next >= Byte)

(* Overflow once, to the latch and the counts that are left.               *)
ClockVrc4(n) ==
  LET next == counter + Increments(n) IN
    /\ enabled
    /\ Elapses({"vrc4"}, 3 * n)
    /\ prescaler' = IF short THEN prescaler ELSE (prescaler + 3 * n) % ScanTicks
    /\ counter' = IF next >= Byte THEN (latch + next - Byte) % Byte ELSE next
    /\ pending' = (pending \/ next >= Byte)

ClockOneShot(n) ==
  /\ enabled
  /\ Elapses(OneShots, n)
  /\ counter' = IF n < counter THEN counter - n ELSE 0
  /\ pending' = (pending \/ (counter > 0 /\ n >= counter))
  /\ UNCHANGED prescaler

ClockN163(n) ==
  /\ enabled
  /\ Elapses({"n163"}, n)
  /\ counter' = IF counter + n < N163Top THEN counter + n ELSE N163Top
  /\ pending' = (pending \/ counter + n >= N163Top)
  /\ UNCHANGED prescaler

-----------------------------------------------------------------------------
(* notify_ppu_addr: the renderer and $2007 tell the board the address of a *)
(* pattern byte.                                                           *)

(* clock_irq_counter.                                                      *)
ClockMmc3 ==
  /\ counter' = IF counter = 0 \/ reload THEN latch ELSE counter - 1
  /\ reload' = FALSE
  /\ pending' = (pending \/ (counter' = 0 /\ enabled))

ClockMmc5 ==
  /\ counter' = (counter + 1) % Byte
  /\ pending' = (pending \/ (counter' = latch /\ enabled))
  /\ UNCHANGED reload

(* Mutant: the other edge.                                                 *)
Falls(level) ==
  /\ ~ level /\ a12
  /\ family = "mmc3" => low >= 2

Rises(level) ==
  /\ level /\ ~ a12
  /\ family = "mmc3" => low >= 2

Lowest(x, y) == IF x < y THEN x ELSE y

Notify(level) ==
  /\ a12' = level
  /\ low' = IF family # "mmc3" THEN low
            ELSE IF ~ level THEN Lowest(low + 1, LowCap)
            ELSE IF Rises(level) THEN 0 ELSE low
  /\ IF Rises(level)
       THEN /\ IF family = "mmc3" THEN ClockMmc3 ELSE ClockMmc5
            /\ last' = [op |-> "pass", ticks |-> 1]
       ELSE UNCHANGED <<counter, reload, pending, last>>
  /\ UNCHANGED <<family, latch, enabled, control, prescaler>>

(* A read of $2007 below $2000.                                            *)
ReadPattern ==
  /\ family \in LineFamilies /\ fetches = <<>>
  /\ \E level \in BOOLEAN : Notify(level)
  /\ UNCHANGED drawing

(* What render_scanline fetches.  The two bytes of a row share a table, so *)
(* the background and small sprites are each a run of one level, of which  *)
(* the boards tell no more than two fetches apart.  Tall sprites choose    *)
(* their tables themselves; an empty slot fetches a tile of the upper one. *)
Run(level) == <<level, level>>
NoFetch == <<>>
Layers == {NoFetch} \cup {Run(level) : level \in BOOLEAN}
TallSprites == {[i \in 1..2 * Slots |-> upper[(i + 1) \div 2]] : upper \in [1..Slots -> BOOLEAN]}

DrawLine ==
  /\ family \in LineFamilies /\ fetches = <<>>
  /\ \E background \in Layers :
       \/ \E sprites \in Layers :
            /\ fetches' = background \o sprites
            /\ line' = IF background = Run(FALSE) /\ sprites = Run(TRUE)
                         THEN "split" ELSE "plain"
       \/ \E sprites \in TallSprites :
            /\ fetches' = background \o sprites
            /\ line' = "tall"
  /\ clocks' = 0
  /\ UNCHANGED <<family, latch, counter, enabled, pending, control, prescaler, reload,
                 filter, last>>

Fetch ==
  /\ fetches # <<>>
  /\ Notify(Head(fetches))
  /\ fetches' = Tail(fetches)
  /\ clocks' = IF Rises(Head(fetches)) THEN clocks + 1 ELSE clocks
  /\ UNCHANGED line

-----------------------------------------------------------------------------
Access ==
  \/ WriteLatchDigit \/ WriteVrcControl \/ AcknowledgeVrc
  \/ WriteOneShotEnable \/ WriteOneShotLow \/ WriteOneShotHigh
  \/ WriteN163
  \/ WriteTarget \/ WriteReload \/ WriteLineEnable \/ ReadStatus

Clock(n) ==
  ClockDisabled(n) \/ ClockVrc3(n) \/ ClockVrc4(n) \/ ClockOneShot(n) \/ ClockN163(n)

Next ==
  \/ Access \/ Serve
  \/ \E n \in Chunks : Clock(n)
  \/ ReadPattern \/ DrawLine \/ Fetch

Spec == Init /\ [][Next]_vars

-----------------------------------------------------------------------------
(* Each counter as an alarm.  The ticks are CPU cycles, thirds of them for *)
(* VRC4, clocks of the counter for MMC3 and MMC5.                          *)
Armed == enabled /\ (family \in OneShots => counter > 0)

TicksPerCount == IF short THEN 3 ELSE ScanTicks

Due ==
  IF family = "vrc3" THEN Limit - counter
  ELSE IF family = "vrc4"
         THEN TicksPerCount * (Byte - counter) - (IF short THEN 0 ELSE prescaler)
  ELSE IF family = "n163" THEN N163Top - counter
  ELSE IF family = "mmc3" THEN (IF reload \/ counter = 0 THEN latch + 1 ELSE counter)
  ELSE IF family = "mmc5"
         THEN (IF counter < latch THEN latch - counter ELSE latch + Byte - counter)
  ELSE counter

Kind ==
  IF family \in OneShots THEN "once" ELSE IF family = "n163" THEN "held" ELSE "repeat"

Period ==
  IF family = "vrc3" THEN Limit
  ELSE IF family = "vrc4" THEN TicksPerCount * (Byte - latch)
  ELSE IF family = "mmc3" THEN latch + 1
  ELSE Byte

A == INSTANCE Alarm WITH
  armed <- Armed, due <- Due, kind <- Kind, period <- Period, ringing <- pending

(* Every counter rings when its time has passed and not before, in chunks  *)
(* of any length; a one-shot never again, Namco 163 until it is written,   *)
(* the others a period later to the tick, unless a chunk swallows it.      *)
RingsOnTime == A!Spec

(* A line that draws a background from the lower table under small sprites *)
(* from the upper one clocks MMC3 and MMC5 exactly once, whatever was      *)
(* drawn or read before; with small sprites no line clocks them twice.     *)
LinesCountOnce ==
  fetches = <<>> => /\ line = "split" => clocks = 1
                    /\ line = "plain" => clocks <= 1
=============================================================================
