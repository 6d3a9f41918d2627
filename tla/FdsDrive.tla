------------------------------ MODULE FdsDrive ------------------------------
(***************************************************************************)
(* The disk drive of the FDS: FdsDrive of fds_drive.rs as operators on the *)
(* value of its struct.  A drive takes a control write, a data read and a  *)
(* number of elapsed CPU cycles; the media passes the head one byte every  *)
(* Period cycles whoever reads it.                                         *)
(*                                                                         *)
(* Control is the set of the bits that are on: motor (1), reset (2), read  *)
(* (4), crc (10), start (40) and irq (80).  A byte is its position on the  *)
(* side.  The CRC register is the set of the positions folded into it: two *)
(* sets have the same residue when they hold the same bytes that are not   *)
(* leading zeros, so collisions of the 16-bit code are left out.           *)
(***************************************************************************)
EXTENDS Naturals, Sequences

CONSTANTS
  Sides,      (* the cells of each side, as FdsMedia expands them         *)
  Period,     (* CPU cycles from one byte to the next: 150                *)
  SpinUp      (* CPU cycles from the start to the first byte: 50,000      *)

ASSUME DriveAssumption ==
  /\ Sides \in Seq(Seq({"zero", "sync", "body", "end"})) /\ Sides # <<>>
  /\ Period \in Nat \ {0} /\ SpinUp \in Nat \ {0}

Ejected == 0
Bits == {"motor", "reset", "read", "crc", "start", "irq"}

Default == [inserted |-> 1, control |-> {}, position |-> 0, countdown |-> 0,
            scanning |-> FALSE, end |-> TRUE, data |-> 0, ready |-> FALSE,
            irq |-> FALSE, crcError |-> FALSE, inBlock |-> FALSE,
            crc |-> {}, previousCrc |-> FALSE, crcSeen |-> 0, rose |-> 0]

-----------------------------------------------------------------------------
(* What one block of a side is, from its sync byte to its last check byte. *)
BlocksOf(side) ==
  LET Whole(i, j) ==
        /\ i < j /\ side[i] = "sync" /\ side[j] = "end"
        /\ \A k \in i + 1..j - 1 : side[k] \notin {"sync", "end"}
  IN  UNION {{i..j : j \in {j \in DOMAIN side : Whole(i, j)}} :
               i \in DOMAIN side}

(* The CRC register is zero when every block it heard a byte of that is    *)
(* not zero it heard from beginning to end.                                *)
Residue(side, heard) ==
  \A block \in BlocksOf(side) :
    block \subseteq heard \/ \A k \in block \cap heard : side[k] = "zero"

-----------------------------------------------------------------------------
(* The state in which the drive looks for the end of a gap.                *)
Rearmed(d) == [d EXCEPT !.inBlock = FALSE, !.crc = {}, !.crcError = FALSE,
                        !.crcSeen = 0, !.rose = 0]

(* Mutants: a control write forgets to acknowledge the transfer interrupt; *)
(* it spins the motor up anew.                                             *)
SetControlKeepsIrq(d, value) ==
  LET armed == IF "start" \in value THEN d
               ELSE [Rearmed(d) EXCEPT !.previousCrc = FALSE, !.ready = FALSE]
  IN  IF "motor" \in value THEN [armed EXCEPT !.control = value]
      ELSE [armed EXCEPT !.control = value, !.end = TRUE, !.scanning = FALSE,
                         !.ready = FALSE]

SetControlSpinsUp(d, value) ==
  [d EXCEPT !.irq = FALSE, !.control = value,
            !.countdown = IF "motor" \in value THEN SpinUp ELSE @,
            !.end = @ \/ "motor" \notin value,
            !.scanning = @ /\ "motor" \in value]

SetControl(d, value) ==
  LET armed == IF "start" \in value THEN d
               ELSE [Rearmed(d) EXCEPT !.previousCrc = FALSE, !.ready = FALSE]
      moved == IF "motor" \in value THEN armed
               ELSE [armed EXCEPT !.end = TRUE, !.scanning = FALSE,
                                  !.ready = FALSE]
  IN  [moved EXCEPT !.irq = FALSE, !.control = value]

ReadData(d) == [d EXCEPT !.irq = FALSE, !.ready = FALSE]

Insert(d, side) ==
  [d EXCEPT !.inserted = side, !.position = 0, !.countdown = 0,
            !.scanning = FALSE, !.end = TRUE, !.ready = FALSE, !.irq = FALSE]

-----------------------------------------------------------------------------
(* transfer: the next byte of the side comes under the head.               *)
(* Mutant: the media starts over by itself.                                *)
PassedEndWraps(d) == [d EXCEPT !.position = 0, !.scanning = FALSE]

PassedEnd(d) == [d EXCEPT !.end = TRUE, !.scanning = FALSE,
                          !.control = @ \ {"motor"}]

(* The gap ends at the first byte that is not zero; that byte is folded    *)
(* into the CRC and latched, but not offered to the CPU.                   *)
Gathered(d, cell) ==
  LET sync == ~ d.inBlock /\ cell # "zero"
  IN  IF "start" \notin d.control THEN Rearmed(d)
      ELSE IF d.inBlock \/ sync
      THEN [d EXCEPT !.inBlock = TRUE, !.crc = @ \cup {d.position},
                     !.data = d.position, !.ready = ~ sync,
                     !.irq = @ \/ (~ sync /\ "irq" \in d.control)]
      ELSE d

(* The CRC bit covers the two check bytes; the verdict is due at the       *)
(* second.  rose records the byte at which the bit was first seen.         *)
(* Mutant: the verdict is given at the first check byte.                   *)
JudgedEarly(d) ==
  LET phase == "crc" \in d.control
      due == phase /\ ~ d.previousCrc
  IN  [d EXCEPT !.previousCrc = phase,
                !.crcSeen = IF due THEN 2 ELSE @,
                !.rose = IF due THEN d.position ELSE @,
                !.crcError = IF due THEN ~ Residue(Sides[d.inserted], d.crc)
                             ELSE @]

Judged(d) ==
  LET phase == "crc" \in d.control
      fresh == IF phase /\ ~ d.previousCrc
               THEN [d EXCEPT !.crcSeen = 0, !.crcError = FALSE,
                              !.rose = d.position]
               ELSE d
      counted == IF phase /\ fresh.crcSeen < 2
                 THEN [fresh EXCEPT !.crcSeen = @ + 1] ELSE fresh
      due == phase /\ fresh.crcSeen = 1
  IN  [counted EXCEPT
         !.previousCrc = phase,
         !.crcError = IF due THEN ~ Residue(Sides[d.inserted], d.crc) ELSE @]

Transfer(d) ==
  LET side == Sides[d.inserted]
      moved == [d EXCEPT !.position = @ + 1]
  IN  IF d.position >= Len(side) THEN PassedEnd(d)
      ELSE IF "read" \notin d.control THEN moved
      ELSE Judged(Gathered(moved, side[moved.position]))

-----------------------------------------------------------------------------
(* clock: a drive at its end rewinds unless the reset bit holds it there,  *)
(* then passes a byte each time the countdown runs out.                    *)
Rewound(d) ==
  [Rearmed(d) EXCEPT !.end = FALSE, !.position = 0, !.scanning = FALSE,
                     !.countdown = SpinUp, !.previousCrc = FALSE]

(* One turn of the loop: s.drive has s.left cycles to go.                  *)
Turned(s) ==
  LET d == s.drive
  IN  IF s.left >= d.countdown /\ ~ d.end
      THEN [drive |-> [Transfer([d EXCEPT !.scanning = TRUE])
                         EXCEPT !.countdown = Period],
            left |-> s.left - d.countdown]
      ELSE s

(* A drive that is not at its end counts down from one at least, so that   *)
(* the loop has no more turns than cycles.                                 *)
Spun(d, cycles) ==
  LET after[n \in 0..cycles] ==
        IF n = 0 THEN [drive |-> d, left |-> cycles] ELSE Turned(after[n - 1])
      last == after[cycles]
  IN  [last.drive EXCEPT
         !.countdown = IF @ > last.left THEN @ - last.left ELSE 0]

Clock(d, cycles) ==
  IF d.inserted = Ejected \/ "motor" \notin d.control \/
     (d.end /\ "reset" \in d.control)
  THEN d
  ELSE Spun(IF d.end THEN Rewound(d) ELSE d, cycles)
=============================================================================
