------------------------------ MODULE FdsMapper -----------------------------
(***************************************************************************)
(* The FDS disk system as the CPU and the host see it: the registers       *)
(* $4020-$4025 and $4030-$4031 of FdsMapper over the drive of FdsDrive,    *)
(* the timer, the master gate, and the host that changes the side between  *)
(* two instructions.  clock_cpu gives the timer and the drive the cycles   *)
(* of one instruction, or of one DMA, in a batch.                          *)
(***************************************************************************)
EXTENDS FdsDrive

CONSTANTS
  Controls,   (* the values the program writes to $4025                   *)
  Reloads,    (* the values it gives the timer                            *)
  Batches     (* how many cycles one clock_cpu may carry                  *)

Words == 0..2^16 - 1

ASSUME MapperAssumption ==
  /\ Controls \subseteq SUBSET Bits
  /\ Reloads \subseteq Words
  /\ Batches \subseteq Nat \ {0}

VARIABLES
  drive,      (* the drive                                                *)
  timer,      (* irq_reload, irq_counter, irq_enabled, irq_repeat and     *)
              (* irq_pending_flag                                         *)
  master      (* master_io_enable                                         *)

vars == <<drive, timer, master>>

Init ==
  /\ drive = Default
  /\ timer = [reload |-> 0, counter |-> 0, enabled |-> FALSE,
              repeat |-> FALSE, pending |-> FALSE]
  /\ master = TRUE

Quiet(d) == [d EXCEPT !.irq = FALSE, !.ready = FALSE]

-----------------------------------------------------------------------------
(* $4030 answers with the status bits and acknowledges both sources.       *)
ReadStatus ==
  /\ master
  /\ timer' = [timer EXCEPT !.pending = FALSE]
  /\ drive' = Quiet(drive)
  /\ UNCHANGED master

(* $4031.                                                                  *)
ReadByte ==
  /\ master
  /\ drive' = ReadData(drive)
  /\ UNCHANGED <<timer, master>>

(* $4020 and $4021, one half at a time.                                    *)
WriteReload ==
  /\ \E value \in Reloads : timer' = [timer EXCEPT !.reload = value]
  /\ UNCHANGED <<drive, master>>

(* Mutant: the timer starts behind a closed gate.                          *)
WriteTimerUngated ==
  /\ \E on, repeat \in BOOLEAN :
       timer' = [timer EXCEPT !.enabled = on, !.repeat = repeat,
                              !.counter = IF on THEN timer.reload ELSE @,
                              !.pending = @ /\ on]
  /\ UNCHANGED <<drive, master>>

(* $4022.                                                                  *)
WriteTimer ==
  /\ \E on, repeat \in BOOLEAN :
       timer' = IF on /\ master
                THEN [timer EXCEPT !.enabled = TRUE, !.repeat = repeat,
                                   !.counter = timer.reload]
                ELSE [timer EXCEPT !.enabled = FALSE, !.repeat = repeat,
                                   !.pending = FALSE]
  /\ UNCHANGED <<drive, master>>

(* $4023: the gate of the disk registers.                                  *)
WriteMaster ==
  /\ master' \in BOOLEAN
  /\ IF master' THEN UNCHANGED <<drive, timer>>
     ELSE /\ timer' = [timer EXCEPT !.enabled = FALSE, !.pending = FALSE]
          /\ drive' = Quiet(drive)

(* $4024: the media is read-only, so the byte goes nowhere.                *)
WriteByte ==
  /\ master
  /\ drive' = Quiet(drive)
  /\ UNCHANGED <<timer, master>>

(* $4025.                                                                  *)
WriteControl ==
  /\ master
  /\ \E value \in Controls : drive' = SetControl(drive, value)
  /\ UNCHANGED <<timer, master>>

(* insert_fds_side: another side, or none.                                 *)
ChangeSide ==
  /\ \E side \in DOMAIN Sides \cup {Ejected} : drive' = Insert(drive, side)
  /\ UNCHANGED <<timer, master>>

-----------------------------------------------------------------------------
(* Mutant: what is left of a batch when the timer fires is dropped.        *)
TimedOnce(t, remaining) ==
  IF ~ t.enabled THEN t
  ELSE IF remaining < t.counter + 1
  THEN [t EXCEPT !.counter = @ - remaining]
  ELSE [t EXCEPT !.pending = TRUE, !.counter = t.reload,
                 !.enabled = t.repeat]

(* One turn of the loop of clock_cpu: s.timer has s.left cycles to go.     *)
TimerTurn(s) ==
  LET t == s.timer
  IN  IF ~ t.enabled \/ s.left = 0 THEN s
      ELSE IF s.left < t.counter + 1
      THEN [timer |-> [t EXCEPT !.counter = @ - s.left], left |-> 0]
      ELSE [timer |-> [t EXCEPT !.pending = TRUE, !.counter = t.reload,
                                !.enabled = t.repeat],
            left |-> s.left - (t.counter + 1)]

(* The timer asks for an interrupt every counter + 1 cycles, once or for   *)
(* as long as it repeats; a turn takes a cycle at least.                   *)
Timed(t, remaining) ==
  LET after[n \in 0..remaining] ==
        IF n = 0 THEN [timer |-> t, left |-> remaining]
        ELSE TimerTurn(after[n - 1])
  IN  after[remaining].timer

Driven(d, cycles) == IF master THEN Clock(d, cycles) ELSE d

ClockCpu ==
  /\ \E cycles \in Batches : /\ timer' = Timed(timer, cycles)
                             /\ drive' = Driven(drive, cycles)
  /\ UNCHANGED master

Next ==
  \/ ReadStatus \/ ReadByte
  \/ WriteReload \/ WriteTimer \/ WriteMaster \/ WriteByte \/ WriteControl
  \/ ChangeSide \/ ClockCpu

(* The run loop gives the mapper its cycles after every instruction.       *)
Spec == Init /\ [][Next]_vars /\ WF_vars(ClockCpu)

-----------------------------------------------------------------------------
TypeOK ==
  /\ drive.inserted \in DOMAIN Sides \cup {Ejected}
  /\ drive.control \subseteq Bits
  /\ drive.position \in Nat /\ drive.countdown \in 0..SpinUp + Period
  /\ drive.inserted # Ejected => drive.position <= Len(Sides[drive.inserted])
  /\ drive.inserted = Ejected => drive.position = 0
  /\ drive.crcSeen \in 0..2
  /\ timer.counter \in Words /\ timer.reload \in Words
  /\ master \in BOOLEAN

(* The cycles of an instruction and of its DMA reach the mapper in batches *)
(* whose borders nobody can see: two clock_cpu calls leave the timer and   *)
(* the drive as one call with the sum of their cycles does, but for the    *)
(* countdown of a drive at its end, which the rewind sets anew.            *)
Apparent(d) == [d EXCEPT !.countdown = IF d.end THEN 0 ELSE @]
BatchesAreInvisible ==
  \A a, b \in Batches :
    /\ Timed(Timed(timer, a), b) = Timed(timer, a + b)
    /\ Apparent(Driven(Driven(drive, a), b)) = Apparent(Driven(drive, a + b))

(* A transfer interrupt asks for a byte that is there, inside a block, of  *)
(* the side in the drive, and only when $4025 enables it.  Without the     *)
(* start bit the drive is in no block and holds no verdict.  With the      *)
(* master gate closed neither source asks and no byte is offered, whatever *)
(* the program writes and however time passes.                             *)
RequestsHaveCause ==
  /\ drive.irq => /\ drive.ready /\ drive.inBlock
                  /\ "irq" \in drive.control /\ drive.inserted # Ejected
  /\ "start" \notin drive.control =>
       /\ ~ drive.inBlock /\ ~ drive.ready /\ ~ drive.crcError
       /\ drive.crc = {}
  /\ ~ master => /\ ~ timer.enabled /\ ~ timer.pending
                 /\ ~ drive.irq /\ ~ drive.ready

(* The verdict on a block that the drive heard from its sync byte on is    *)
(* good when the CRC bit rose for its first check byte, and an error when  *)
(* it rose earlier in the block.                                           *)
VerdictIsOnTime ==
  LET side == Sides[drive.inserted]
      heard == drive.crc \cap 1..drive.rose + 1
      Timely(block) == heard = block /\ drive.rose + 1 \in block
      Early(block) == /\ drive.rose \in block /\ drive.rose + 2 \in block
                      /\ \E k \in block \cap heard : side[k] # "zero"
  IN  drive.crcSeen = 2 /\ ~ drive.end =>
        \A block \in BlocksOf(side) :
          /\ Timely(block) => ~ drive.crcError
          /\ Early(block) => drive.crcError

(* The head never moves back but through a rewind, which the end of the    *)
(* media or the motor bit brings about, or with another disk.              *)
OnlyRewindsGoBack ==
  [][drive'.position < drive.position => drive.end \/ drive'.end]_vars

(* A disk that turns is read to its end unless the program stops the motor *)
(* or closes the gate or the host takes the disk out.                      *)
MediaKeepsMoving == drive.scanning /\ master ~> ~ drive.scanning \/ ~ master
=============================================================================
