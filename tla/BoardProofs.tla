----------------------------- MODULE BoardProofs ----------------------------
(***************************************************************************)
(* The boards for all constants: MMC1 for every port write, cost and size, *)
(* the interrupt counters for every width, prescaler and chunk, and the    *)
(* banks of the other boards for every cartridge, port and byte.  The      *)
(* three share no state.                                                   *)
(***************************************************************************)
EXTENDS BoardIrq, Mmc1, Banks, SequenceTheorems, TLAPS

-----------------------------------------------------------------------------
(* MMC1 *)

(***************************************************************************)
(* Types and the inductive invariant.                                      *)
(***************************************************************************)
FiveBits == 0..31
Chips ==
  [shift : 1..31, control : FiveBits, chr : [1..2 -> FiveBits], prg : FiveBits, ramOn : BOOLEAN,
   last : Nat \union {Never}, warned : BOOLEAN, work : 0..1]
Mmc1TypeOK ==
  /\ sxrom \in Sxroms /\ chip \in Chips
  /\ cycle \in Nat /\ writes \in Nat /\ revived \in BOOLEAN
\* Since the last write that the port took, an instruction of two cycles at least has passed.
Spaced == chip.last = Never \/ revived \/ chip.last + 2 <= cycle
Mmc1Inv == Mmc1TypeOK /\ Spaced

(* The bits of a byte, one by one.                                         *)
LEMMA BitValues ==
  ASSUME NEW v
  PROVE  /\ Bit(v, 0) = (v \div 1) % 2 /\ Bit(v, 1) = (v \div 2) % 2 /\ Bit(v, 2) = (v \div 4) % 2
         /\ Bit(v, 3) = (v \div 8) % 2 /\ Bit(v, 4) = (v \div 16) % 2
<1>1. 2^0 = 1 /\ 2^1 = 2 /\ 2^2 = 4 /\ 2^3 = 8 /\ 2^4 = 16
  OBVIOUS
<1> QED BY <1>1 DEF Bit

(* What a shift leaves in the register.                                    *)
LEMMA ShiftedValue ==
  ASSUME chip.shift \in 1..31, NEW bit \in 0..1
  PROVE  /\ Shifted(bit) \in FiveBits
         /\ chip.shift % 2 = 0 => Shifted(bit) \in 1..31
BY DEF Shifted, FiveBits

(* A chip with another port and another control register.                  *)
LEMMA ChipWith ==
  ASSUME NEW c \in Chips, NEW s \in 1..31, NEW l \in Nat \union {Never}, NEW k \in FiveBits, NEW b \in BOOLEAN
  PROVE  /\ [c EXCEPT !.shift = s, !.last = l] \in Chips
         /\ [c EXCEPT !.shift = s, !.last = l, !.warned = b] \in Chips
         /\ [c EXCEPT !.shift = s, !.control = k, !.last = l] \in Chips
<1>1. [c EXCEPT !.shift = s, !.last = l] \in Chips
  BY DEF Chips
<1>2. [c EXCEPT !.shift = s, !.last = l, !.warned = b] \in Chips
  BY DEF Chips
<1>3. [c EXCEPT !.shift = s, !.control = k, !.last = l] \in Chips
  BY DEF Chips
<1> QED BY <1>1, <1>2, <1>3

(* Four registers behind one port: the port is emptied and the write       *)
(* stamped, then one of them is filled.                                    *)
Emptied(full) ==
  /\ full.shift = 16 /\ full.last = cycle
  /\ full.control = chip.control /\ full.chr = chip.chr /\ full.prg = chip.prg
Fills(full, addr, v) ==
  /\ Region(addr) \in 8..9 => Commit(addr, v) = [full EXCEPT !.control = v]
  /\ Region(addr) \in 10..11 => Commit(addr, v) = [full EXCEPT !.chr = [full.chr EXCEPT ![1] = v]]
  /\ Region(addr) \in 12..13 => Commit(addr, v) = [full EXCEPT !.chr = [full.chr EXCEPT ![2] = v]]
  /\ Region(addr) \in 14..15 => Commit(addr, v) = [full EXCEPT !.prg = v, !.ramOn = (Bit(v, 4) = 0)]
LEMMA CommitTo ==
  ASSUME chip \in Chips, cycle \in Nat, NEW addr, NEW v
  PROVE  \E full \in Chips : Emptied(full) /\ Fills(full, addr, v)
<1> DEFINE warned == Region(addr) \in 14..15 /\ chip.warned
           full == [chip EXCEPT !.shift = 16, !.last = cycle, !.warned = warned]
<1>1. Fills(full, addr, v)
  BY DEF Commit, Fills
<1>2. warned \in BOOLEAN
  BY Zenon
<1> HIDE DEF warned
<1>3. full \in Chips
  <2>1. 16 \in 1..31 /\ cycle \in Nat \union {Never} /\ chip.control \in FiveBits
    BY DEF Chips
  <2> QED BY <1>2, <2>1, ChipWith, Zenon
<1>4. Emptied(full)
  BY DEF Chips, Emptied
<1> HIDE DEF full
<1> QED BY <1>1, <1>3, <1>4, Zenon

(* It fits its types again.                                                *)
LEMMA CommitFills ==
  ASSUME chip \in Chips, cycle \in Nat, NEW addr, Region(addr) \in 8..15, NEW v \in FiveBits
  PROVE  /\ Commit(addr, v) \in Chips
         /\ Commit(addr, v).shift = 16 /\ Commit(addr, v).last = cycle
<1>1. PICK full \in Chips : Emptied(full) /\ Fills(full, addr, v)
  BY CommitTo
<1> USE DEF Emptied, Fills
<1>2. full.chr \in [1..2 -> FiveBits]
  BY <1>1 DEF Chips
<1>3. CASE Region(addr) \in 8..9
  BY <1>1, <1>3 DEF Chips
<1>4. CASE Region(addr) \in 10..13
  <2> DEFINE k == IF Region(addr) \in 10..11 THEN 1 ELSE 2
             banks == [full.chr EXCEPT ![k] = v]
  <2>1. banks \in [1..2 -> FiveBits]
    BY <1>2
  <2>2. Commit(addr, v) = [full EXCEPT !.chr = banks]
    BY <1>1, <1>4
  <2> HIDE DEF banks
  <2> QED BY <1>1, <2>1, <2>2 DEF Chips
<1>5. CASE Region(addr) \in 14..15
  <2> DEFINE on == Bit(v, 4) = 0
  <2>1. on \in BOOLEAN
    BY Zenon
  <2>2. Commit(addr, v) = [full EXCEPT !.prg = v, !.ramOn = on]
    BY <1>1, <1>5
  <2> HIDE DEF on
  <2> QED BY <1>1, <2>1, <2>2, ZenonT(60) DEF Chips
<1> QED BY <1>3, <1>4, <1>5

(* A write to the port either empties it, or shifts it, or is dropped.     *)
LEMMA PortTyped ==
  ASSUME Mmc1TypeOK, NEW w \in PortWrites, NEW cost \in Costs, WritePort(w[1], w[2], cost)
  PROVE  /\ chip' \in Chips
         /\ revived' \in BOOLEAN
         /\ (chip' = chip /\ revived' = revived) \/ chip'.last = cycle
<1> DEFINE bit == w[2] % 2
<1>1. bit \in 0..1 /\ Region(w[1]) \in 8..15 /\ w[2] \in 0..255
  BY Mmc1Assumption
<1>2. chip \in Chips /\ cycle \in Nat /\ revived \in BOOLEAN
  BY DEF Mmc1TypeOK
<1>3. CASE ResetPort /\ revived' = FALSE
  <2>1. FixTop(chip.control) \in FiveBits
    BY <1>2 DEF FixTop, Chips, FiveBits
  <2>2. chip' = [chip EXCEPT !.shift = 16, !.control = FixTop(chip.control), !.last = cycle]
    BY <1>3 DEF ResetPort
  <2>3. chip' \in Chips
    <3>1. 16 \in 1..31 /\ cycle \in Nat \union {Never} /\ TRUE \in BOOLEAN
      BY <1>2
    <3> QED BY <1>2, <2>1, <2>2, <3>1, ChipWith, Zenon
  <2>4. chip'.last = cycle
    BY <1>2, <2>2 DEF Chips
  <2> QED BY <1>3, <2>3, <2>4
<1>4. CASE ShiftIn(w[1], bit) /\ revived' = FALSE
  <2>1. Shifted(bit) \in FiveBits /\ (chip.shift % 2 = 0 => Shifted(bit) \in 1..31)
    BY <1>1, <1>2, ShiftedValue DEF Chips
  <2>2. chip.shift \in 1..31
    BY <1>2 DEF Chips
  <2>3. CASE chip.shift % 2 = 1
    BY <1>1, <1>2, <1>4, <2>1, <2>3, CommitFills DEF ShiftIn
  <2>4. CASE chip.shift % 2 = 0
    <3>1. chip' = [chip EXCEPT !.shift = Shifted(bit), !.last = cycle]
      BY <1>4, <2>4 DEF ShiftIn
    <3> QED BY <1>2, <1>4, <2>1, <2>4, <3>1 DEF Chips
  <2> QED BY <2>2, <2>3, <2>4
<1>5. CASE Ignore /\ UNCHANGED revived
  BY <1>2, <1>5 DEF Ignore
<1> QED BY <1>3, <1>4, <1>5 DEF WritePort

(* Every step keeps the invariant.                                         *)
LEMMA Mmc1Step == Mmc1Inv /\ [Mmc1Next]_mmc1Vars => Mmc1Inv'
<1> SUFFICES ASSUME Mmc1Inv, [Mmc1Next]_mmc1Vars PROVE Mmc1Inv'
  OBVIOUS
<1>0. sxrom \in Sxroms /\ chip \in Chips /\ cycle \in Nat /\ writes \in Nat /\ revived \in BOOLEAN
  BY DEF Mmc1Inv, Mmc1TypeOK
<1>1. ASSUME NEW cost \in Costs PROVE cost \in Nat /\ cost >= 2
  BY Mmc1Assumption
<1>2. ASSUME NEW w \in PortWrites, NEW cost \in Costs, WritePort(w[1], w[2], cost) PROVE Mmc1Inv'
  <2>1. /\ chip' \in Chips /\ revived' \in BOOLEAN
        /\ (chip' = chip /\ revived' = revived) \/ chip'.last = cycle
    BY <1>2, PortTyped DEF Mmc1Inv
  <2>2. cycle' = cycle + cost /\ writes' = writes - 1 /\ writes > 0 /\ sxrom' = sxrom
    BY <1>2 DEF WritePort
  <2>3. cycle' \in Nat /\ writes' \in Nat /\ cycle + 2 <= cycle'
    BY <1>0, <1>1, <2>2
  <2>4. chip.last = Never \/ chip.last \in Nat
    BY <1>0 DEF Chips
  <2>5. Spaced'
    BY <1>0, <2>1, <2>3, <2>4 DEF Mmc1Inv, Spaced
  <2> QED BY <1>0, <2>1, <2>2, <2>3, <2>5 DEF Mmc1Inv, Mmc1TypeOK
<1>3. ASSUME NEW cost \in Costs, OtherInstruction(cost) PROVE Mmc1Inv'
  <2>1. cycle' = cycle + cost /\ UNCHANGED <<sxrom, writes, revived>>
    BY <1>3 DEF OtherInstruction
  <2>2. chip' \in Chips /\ chip'.last = chip.last
    BY <1>0, <1>3 DEF OtherInstruction, Chips
  <2>3. chip.last = Never \/ chip.last \in Nat
    BY <1>0 DEF Chips
  <2>4. Spaced'
    BY <1>0, <1>1, <2>1, <2>2, <2>3 DEF Mmc1Inv, Spaced
  <2> QED BY <1>0, <1>1, <2>1, <2>2, <2>4 DEF Mmc1Inv, Mmc1TypeOK
<1>4. CASE ResetConsole
  BY <1>0, <1>4, Mmc1Assumption DEF ResetConsole, Mmc1Inv, Mmc1TypeOK, Spaced
<1>5. CASE ShowAddress
  <2>1. (chip.warned \/ Mismatch) \in BOOLEAN
    BY <1>0 DEF Chips
  <2>2. chip' \in Chips /\ chip'.last = chip.last
    BY <1>0, <1>5, <2>1 DEF ShowAddress, Chips
  <2> QED BY <1>5, <2>2 DEF ShowAddress, Mmc1Inv, Mmc1TypeOK, Spaced
<1>6. CASE Rebase
  <2>1. chip' \in Chips /\ chip'.last = chip.last /\ sxrom' \in Sxroms
    BY <1>0, <1>6 DEF Rebase, Chips
  <2> QED BY <1>6, <2>1 DEF Rebase, Mmc1Inv, Mmc1TypeOK, Spaced
<1>7. CASE UNCHANGED mmc1Vars
  BY <1>7 DEF mmc1Vars, Mmc1Inv, Mmc1TypeOK, Spaced
<1> QED BY <1>2, <1>3, <1>4, <1>5, <1>6, <1>7 DEF Mmc1Next

(* The registers keep their five bits, and the stamp of the last write is  *)
(* two cycles old, unless a reset has set the cycles back.                 *)
THEOREM Mmc1Inductive == Mmc1Spec => []Mmc1Inv
<1>1. Mmc1Init => Mmc1Inv
  <2>1. NewChip \in Chips /\ NewChip.last = Never
    <3>1. <<0, 0>> \in [1..2 -> 0..31]
      OBVIOUS
    <3> QED BY <3>1 DEF NewChip, Chips, FiveBits
  <2>2. (Boot \in Nat /\ MaxPortWrites \in Nat) /\ FALSE \in BOOLEAN
    BY Mmc1Assumption
  <2> HIDE DEF NewChip, Chips
  <2> QED BY <2>1, <2>2, Zenon DEF Mmc1Init, Mmc1Inv, Mmc1TypeOK, Spaced
<1> QED BY <1>1, Mmc1Step, PTL DEF Mmc1Spec

(* Without a reset no program loses a write, whatever its instructions     *)
(* cost.                                                                   *)
THEOREM WritesAreKept == Mmc1Spec => OnlyResetsLoseWrites
<1>1. Mmc1Inv /\ TooSoon => revived
  BY DEF Mmc1Inv, Mmc1TypeOK, Chips, Spaced, TooSoon, Never
<1>2. Mmc1Inv /\ [Mmc1Next]_mmc1Vars => [writes' < writes /\ Ignore => revived]_mmc1Vars
  BY <1>1 DEF Ignore
<1> QED BY <1>2, Mmc1Inductive, PTL DEF Mmc1Spec, OnlyResetsLoseWrites

----------------------------------------------------------------------------
(* The serial port: what the shift register s holds, above its mark.       *)
Marks(s, k) == Bit(s, k) = 1 /\ \A j \in 0..4 : j < k => Bit(s, j) = 0
MarkIn(s) == CHOOSE k \in 0..4 : Marks(s, k)
BitsIn(s) == [i \in 1..(4 - MarkIn(s)) |-> Bit(s, MarkIn(s) + i)]

(* There is one mark.                                                      *)
LEMMA MarkIs ==
  ASSUME NEW s \in 1..31
  PROVE  /\ MarkIn(s) \in 0..4 /\ Marks(s, MarkIn(s))
         /\ \A k \in 0..4 : Marks(s, k) => MarkIn(s) = k
<1> DEFINE b(j) == Bit(s, j)
<1>1. /\ b(0) \in 0..1 /\ b(1) \in 0..1 /\ b(2) \in 0..1 /\ b(3) \in 0..1 /\ b(4) \in 0..1
      /\ b(0) = 1 \/ b(1) = 1 \/ b(2) = 1 \/ b(3) = 1 \/ b(4) = 1
  <2>1. s % 2 = 1 \/ (s \div 2) % 2 = 1 \/ (s \div 4) % 2 = 1 \/ (s \div 8) % 2 = 1 \/ (s \div 16) % 2 = 1
    OBVIOUS
  <2> QED BY <2>1, BitValues
<1> HIDE DEF b
<1>2. \E k \in 0..4 : b(k) = 1 /\ \A j \in 0..4 : j < k => b(j) = 0
  BY <1>1
<1>3. \E k \in 0..4 : Marks(s, k)
  BY <1>2 DEF b, Marks
<1>4. MarkIn(s) \in 0..4 /\ Marks(s, MarkIn(s))
  BY <1>3 DEF MarkIn
<1>5. ASSUME NEW k \in 0..4, Marks(s, k) PROVE MarkIn(s) = k
  BY <1>4, <1>5 DEF Marks
<1> QED BY <1>4, <1>5

(* A shift moves every bit down by one.                                    *)
LEMMA ShiftMovesBits ==
  ASSUME NEW s \in 1..31, NEW bit \in 0..1, NEW t, t = (s \div 2) + (16 * bit)
  PROVE  /\ \A j \in 0..3 : Bit(t, j) = Bit(s, j + 1)
         /\ Bit(t, 4) = bit
<1>1. Bit(t, 0) = Bit(s, 1)
  BY BitValues, Z3
<1>2. Bit(t, 1) = Bit(s, 2)
  BY BitValues, Z3
<1>3. Bit(t, 2) = Bit(s, 3)
  BY BitValues, Z3
<1>4. Bit(t, 3) = Bit(s, 4)
  BY BitValues, Z3
<1>5. Bit(t, 4) = bit
  BY BitValues, Z3
<1> QED BY <1>1, <1>2, <1>3, <1>4, <1>5

(* While the mark has not come out, the new bit is the last of the list.   *)
LEMMA ShiftGathers ==
  ASSUME NEW s \in 1..31, s % 2 = 0, NEW bit \in 0..1, NEW t \in 1..31, t = (s \div 2) + (16 * bit)
  PROVE  /\ Len(BitsIn(s)) < 4
         /\ BitsIn(t) = Append(BitsIn(s), bit)
<1> DEFINE k == MarkIn(s)
<1>1. k \in 1..4 /\ Marks(s, k)
  <2>1. Bit(s, 0) = 0
    BY BitValues
  <2> QED BY <2>1, MarkIs DEF Marks
<1>2. /\ \A j \in 0..3 : Bit(t, j) = Bit(s, j + 1)
      /\ Bit(t, 4) = bit
  BY ShiftMovesBits
<1> HIDE DEF k
<1>3. Marks(t, k - 1)
  BY <1>1, <1>2 DEF Marks
<1>4. MarkIn(t) = k - 1
  BY <1>1, <1>3, MarkIs
<1>5. BitsIn(s) = [i \in 1..(4 - k) |-> Bit(s, k + i)] /\ Len(BitsIn(s)) = 4 - k
  BY <1>1 DEF BitsIn, k
<1>6. BitsIn(t) = [i \in 1..(5 - k) |-> Bit(t, (k - 1) + i)]
  BY <1>1, <1>4 DEF BitsIn
<1>7. \A i \in 1..(5 - k) : Bit(t, (k - 1) + i) = IF i = 5 - k THEN bit ELSE Bit(s, k + i)
  BY <1>1, <1>2
<1>8. BitsIn(s) \in Seq(0..1)
  <2>1. \A j \in 0..4 : Bit(s, j) \in 0..1
    BY BitValues
  <2> QED BY <1>1, <1>5, <2>1
<1>9. Append(BitsIn(s), bit) = [i \in 1..(5 - k) |-> IF i = 5 - k THEN bit ELSE BitsIn(s)[i]]
  BY <1>1, <1>5, <1>8
<1>10. \A i \in 1..(5 - k) : i # 5 - k => BitsIn(s)[i] = Bit(s, k + i)
  BY <1>1, <1>5
<1>11. BitsIn(t) = [i \in 1..(5 - k) |-> IF i = 5 - k THEN bit ELSE BitsIn(s)[i]]
  BY <1>6, <1>7, <1>10
<1>12. Len(BitsIn(s)) < 4
  BY <1>1, <1>5
<1> QED BY <1>9, <1>11, <1>12

(* When it has, the four bits and the new one are the number.              *)
LEMMA ShiftFills ==
  ASSUME NEW s \in 1..31, s % 2 = 1, NEW bit \in 0..1
  PROVE  /\ Len(BitsIn(s)) = 4
         /\ Port!ValueOf(Append(BitsIn(s), bit)) = (s \div 2) + (16 * bit)
<1>1. MarkIn(s) = 0
  <2>1. Bit(s, 0) = 1
    BY BitValues
  <2> QED BY <2>1, MarkIs DEF Marks
<1>2. BitsIn(s) = [i \in 1..4 |-> Bit(s, i)]
  BY <1>1 DEF BitsIn
<1> DEFINE q == Append(BitsIn(s), bit)
<1>3. Len(BitsIn(s)) = 4
  BY <1>2
<1>4. /\ Len(q) = 5 /\ q[1] = Bit(s, 1) /\ q[2] = Bit(s, 2) /\ q[3] = Bit(s, 3) /\ q[4] = Bit(s, 4) /\ q[5] = bit
  BY <1>2, <1>3
<1> HIDE DEF q
<1> DEFINE f[n \in 0..Len(q)] == IF n = 0 THEN 0 ELSE f[n - 1] + q[n] * 2^(n - 1)
           g == [n \in 0..5 |->
             IF n = 0 THEN 0 ELSE IF n = 1 THEN q[1] ELSE IF n = 2 THEN q[1] + q[2] * 2
             ELSE IF n = 3 THEN q[1] + q[2] * 2 + q[3] * 4
             ELSE IF n = 4 THEN q[1] + q[2] * 2 + q[3] * 4 + q[4] * 8
             ELSE q[1] + q[2] * 2 + q[3] * 4 + q[4] * 8 + q[5] * 16]
<1>5. \A i \in 1..5 : q[i] \in 0..1
  BY <1>4, BitValues, Z3
<1>6. 2^0 = 1 /\ 2^1 = 2 /\ 2^2 = 4 /\ 2^3 = 8 /\ 2^4 = 16
  OBVIOUS
<1>7. g = [n \in 0..5 |-> IF n = 0 THEN 0 ELSE g[n - 1] + q[n] * 2^(n - 1)]
  <2>1. ASSUME NEW n \in 0..5 PROVE g[n] = IF n = 0 THEN 0 ELSE g[n - 1] + q[n] * 2^(n - 1)
    <3>1. q[1] \in 0..1 /\ q[2] \in 0..1 /\ q[3] \in 0..1 /\ q[4] \in 0..1 /\ q[5] \in 0..1
      BY <1>5
    <3>2. n = 0 \/ n = 1 \/ n = 2 \/ n = 3 \/ n = 4 \/ n = 5
      OBVIOUS
    <3>3. CASE n = 0
      BY <3>3
    <3>4. CASE n = 1
      BY <3>1, <3>4, <1>6
    <3>5. CASE n = 2
      BY <3>1, <3>5, <1>6
    <3>6. CASE n = 3
      BY <3>1, <3>6, <1>6
    <3>7. CASE n = 4
      BY <3>1, <3>7, <1>6
    <3>8. CASE n = 5
      BY <3>1, <3>8, <1>6
    <3> QED BY <3>2, <3>3, <3>4, <3>5, <3>6, <3>7, <3>8
  <2> QED BY <2>1
<1>8. f = [n \in 0..5 |-> IF n = 0 THEN 0 ELSE f[n - 1] + q[n] * 2^(n - 1)]
  <2> HIDE DEF g
  <2>1. \E h : h = [n \in 0..5 |-> IF n = 0 THEN 0 ELSE h[n - 1] + q[n] * 2^(n - 1)]
    BY <1>7
  <2> QED BY <1>4, <2>1
<1>9. Port!ValueOf(q) = f[5]
  BY <1>4 DEF Port!ValueOf
<1> HIDE DEF f
<1>10. f[5] = q[1] + q[2] * 2 + q[3] * 4 + q[4] * 8 + q[5] * 16
  <2>1. f[0] = 0
    BY <1>8
  <2>2. f[1] = f[0] + q[1] * 2^0 /\ f[2] = f[1] + q[2] * 2^1 /\ f[3] = f[2] + q[3] * 2^2
        /\ f[4] = f[3] + q[4] * 2^3 /\ f[5] = f[4] + q[5] * 2^4
    BY <1>8
  <2> QED BY <1>5, <1>6, <2>1, <2>2
<1>11. Bit(s, 1) + Bit(s, 2) * 2 + Bit(s, 3) * 4 + Bit(s, 4) * 8 = s \div 2
  <2>1. ((s \div 2) % 2) + ((s \div 4) % 2) * 2 + ((s \div 8) % 2) * 4 + ((s \div 16) % 2) * 8 = s \div 2
    OBVIOUS
  <2> QED BY <2>1, BitValues
<1>12. \A i \in 1..4 : Bit(s, i) \in 0..1
  BY <1>4, <1>5
<1> QED BY <1>3, <1>4, <1>9, <1>10, <1>11, <1>12 DEF q

(* The state of the port, in the names of SerialPort.                      *)
Contents(c) == [control |-> c.control, chr0 |-> c.chr[1], chr1 |-> c.chr[2], prg |-> c.prg]
LEMMA PortSeen ==
  /\ Port!Empty <=> BitsIn(chip.shift) = <<>>
  /\ Port!Cleared <=> /\ BitsIn(chip'.shift) = <<>>
                      /\ Contents(chip') = [Contents(chip) EXCEPT !["control"] = FixTop(@)]
  /\ \A bit : Port!Gathered(bit) <=>
       /\ Len(BitsIn(chip.shift)) < 5 - 1
       /\ BitsIn(chip'.shift) = Append(BitsIn(chip.shift), bit)
       /\ Contents(chip') = Contents(chip)
  /\ \A bit, name : Port!Filled(bit, name) <=>
       /\ Len(BitsIn(chip.shift)) = 5 - 1
       /\ BitsIn(chip'.shift) = <<>>
       /\ Contents(chip') = [Contents(chip) EXCEPT ![name] = Port!ValueOf(Append(BitsIn(chip.shift), bit))]
BY DEF Port!Empty, Port!Cleared, Port!Gathered, Port!Filled, BitsIn, Mark, MarkIn, Marks, Contents

(* A port with nothing above the mark is empty.                            *)
LEMMA EmptyPort == BitsIn(16) = <<>>
<1>1. Marks(16, 4)
  BY BitValues DEF Marks
<1>2. MarkIn(16) = 4
  BY <1>1, MarkIs
<1> QED BY <1>2 DEF BitsIn

(* The registers seen through the port, after one of them is filled.       *)
LEMMA CommitShows ==
  ASSUME chip \in Chips, cycle \in Nat, NEW addr, Region(addr) \in 8..15, NEW v \in FiveBits
  PROVE  \E name \in {"control", "chr0", "chr1", "prg"} :
           Contents(Commit(addr, v)) = [Contents(chip) EXCEPT ![name] = v]
<1>1. PICK full \in Chips : Emptied(full) /\ Fills(full, addr, v)
  BY CommitTo
<1>2. full.chr \in [1..2 -> FiveBits]
  BY <1>1 DEF Chips
<1>3. CASE Region(addr) \in 8..9
  <2>1. Contents(Commit(addr, v)) = [Contents(chip) EXCEPT !["control"] = v]
    BY <1>1, <1>3 DEF Chips, Emptied, Fills, Contents
  <2> QED BY <2>1
<1>4. CASE Region(addr) \in 10..11
  <2>1. Contents(Commit(addr, v)) = [Contents(chip) EXCEPT !["chr0"] = v]
    BY <1>1, <1>2, <1>4 DEF Chips, Emptied, Fills, Contents
  <2> QED BY <2>1
<1>5. CASE Region(addr) \in 12..13
  <2>1. Contents(Commit(addr, v)) = [Contents(chip) EXCEPT !["chr1"] = v]
    BY <1>1, <1>2, <1>5 DEF Chips, Emptied, Fills, Contents
  <2> QED BY <2>1
<1>6. CASE Region(addr) \in 14..15
  <2>1. Contents(Commit(addr, v)) = [Contents(chip) EXCEPT !["prg"] = v]
    <3> DEFINE on == Bit(v, 4) = 0
    <3>1. Commit(addr, v) = [full EXCEPT !.prg = v, !.ramOn = on]
      BY <1>1, <1>6 DEF Fills
    <3> HIDE DEF on
    <3> QED BY <1>1, <3>1 DEF Chips, Emptied, Contents
  <2> QED BY <2>1
<1> QED BY <1>3, <1>4, <1>5, <1>6

(* A write to the port is a step of the serial port.                       *)
LEMMA PortStep ==
  ASSUME Mmc1Inv, NEW w \in PortWrites, NEW cost \in Costs, WritePort(w[1], w[2], cost)
  PROVE  [Port!PortNext]_<<chip.shift, chip.control, chip.chr, chip.prg>>
<1> DEFINE bit == w[2] % 2
           s == chip.shift
           t == Shifted(bit)
<1>1. bit \in 0..1 /\ Region(w[1]) \in 8..15
  BY Mmc1Assumption
<1>2. chip \in Chips /\ cycle \in Nat /\ s \in 1..31
  BY DEF Mmc1Inv, Mmc1TypeOK, Chips
<1>3. t = (s \div 2) + (16 * bit) /\ t \in FiveBits /\ (s % 2 = 0 => t \in 1..31)
  BY <1>1, <1>2, ShiftedValue DEF Shifted
<1>4. CASE ResetPort
  <2>1. chip' = [chip EXCEPT !.shift = 16, !.control = FixTop(chip.control), !.last = cycle]
    BY <1>4 DEF ResetPort
  <2>2. chip'.shift = 16 /\ Contents(chip') = [Contents(chip) EXCEPT !["control"] = FixTop(@)]
    BY <1>2, <2>1 DEF Contents, Chips
  <2>3. Port!Cleared
    BY <2>2, EmptyPort, PortSeen
  <2> QED BY <2>3 DEF Port!PortNext
<1>5. CASE ShiftIn(w[1], bit) /\ s % 2 = 1
  <2>1. chip' = Commit(w[1], t)
    BY <1>5 DEF ShiftIn
  <2>2. BitsIn(chip'.shift) = <<>>
    BY <1>1, <1>2, <1>3, <2>1, CommitFills, EmptyPort
  <2>3. /\ Len(BitsIn(s)) = 4
        /\ Port!ValueOf(Append(BitsIn(s), bit)) = t
    BY <1>1, <1>2, <1>3, <1>5, ShiftFills
  <2>4. PICK name \in {"control", "chr0", "chr1", "prg"} : Contents(chip') = [Contents(chip) EXCEPT ![name] = t]
    BY <1>1, <1>2, <1>3, <2>1, CommitShows
  <2>5. Port!Filled(bit, name)
    <3>1. Len(BitsIn(s)) = 5 - 1
      BY <2>3
    <3>2. Contents(chip') = [Contents(chip) EXCEPT ![name] = Port!ValueOf(Append(BitsIn(s), bit))]
      BY <2>3, <2>4
    <3> QED BY <2>2, <3>1, <3>2, PortSeen, Zenon
  <2> QED BY <1>1, <2>5 DEF Port!PortNext
<1>6. CASE ShiftIn(w[1], bit) /\ s % 2 = 0
  <2>1. chip' = [chip EXCEPT !.shift = t, !.last = cycle]
    BY <1>6 DEF ShiftIn
  <2>2. chip'.shift = t /\ Contents(chip') = Contents(chip)
    BY <1>2, <2>1 DEF Contents, Chips
  <2>3. Len(BitsIn(s)) < 4 /\ BitsIn(t) = Append(BitsIn(s), bit)
    BY <1>1, <1>2, <1>3, <1>6, ShiftGathers
  <2>4. Port!Gathered(bit)
    BY <2>2, <2>3, PortSeen
  <2> QED BY <1>1, <2>4 DEF Port!PortNext
<1>7. CASE Ignore
  BY <1>7 DEF Ignore
<1> QED BY <1>2, <1>4, <1>5, <1>6, <1>7 DEF WritePort

(* MMC1's port is the serial port: five writes fill the register of the    *)
(* last one's address, lowest bit first, and nothing else but the writes   *)
(* that are too soon is lost.                                              *)
THEOREM Mmc1IsSerial == Mmc1Spec => PortIsSerial
<1>1. Mmc1Init => Port!Empty
  BY EmptyPort, PortSeen DEF Mmc1Init, NewChip
<1>2. Mmc1Inv /\ [Mmc1Next]_mmc1Vars =>
        [writes' < writes => [Port!PortNext]_<<chip.shift, chip.control, chip.chr, chip.prg>>]_mmc1Vars
  <2> SUFFICES ASSUME Mmc1Inv, Mmc1Next, writes' < writes
               PROVE  [Port!PortNext]_<<chip.shift, chip.control, chip.chr, chip.prg>>
    OBVIOUS
  <2>1. writes \in Nat
    BY DEF Mmc1Inv, Mmc1TypeOK
  <2>2. \E w \in PortWrites, cost \in Costs : WritePort(w[1], w[2], cost)
    BY <2>1 DEF Mmc1Next, OtherInstruction, ResetConsole, ShowAddress, Rebase
  <2> QED BY <2>2, PortStep
<1> QED BY <1>1, <1>2, Mmc1Inductive, PTL DEF Mmc1Spec, PortIsSerial

----------------------------------------------------------------------------
(* The banks *)

(* Every bank of a SUROM program is in the half that the first pattern     *)
(* register chose.                                                         *)
LEMMA SuromHalf ==
  ASSUME Mmc1Inv, sxrom.surom, NEW slot \in Windows
  PROVE  ReadSlot(slot) \div 32 = Outer % Count(sxrom.prg, 32)
<1>1. sxrom.prg = 64
  BY Mmc1Assumption DEF Mmc1Inv, Mmc1TypeOK
<1>2. Count(64, 2) = 32 /\ Count(64, 32) = 2
  BY DEF Count
<1>3. Outer \in 0..1
  <2>1. chip.chr \in [1..2 -> 0..31]
    BY DEF Mmc1Inv, Mmc1TypeOK, Chips, FiveBits
  <2> QED BY <2>1, BitValues DEF Outer
<1>4. chip.prg \in 0..31 /\ chip.control \in 0..31
  BY DEF Mmc1Inv, Mmc1TypeOK, Chips, FiveBits
<1> DEFINE bank == PrgWindow[(slot \div 2) + 1]
<1>5. bank \in (16 * Outer)..(16 * Outer + 15)
  <2> DEFINE inner == chip.prg % 16
             base == 16 * Outer
  <2>1. inner \in 0..15 /\ Pair(inner) \in 0..14 /\ Pair(inner) + 1 \in 0..15 /\ Mode \in 0..3
    BY <1>4 DEF Pair, Mode
  <2>2. slot \div 2 = 0 \/ slot \div 2 = 1
    BY DEF Windows
  <2>3. PrgWindow = SuromWindow
    BY DEF PrgWindow
  <2>4. CASE Mode < 2
    <3>1. SuromWindow = <<base + Pair(inner), base + Pair(inner) + 1>>
      BY <2>1, <2>4 DEF SuromWindow
    <3> QED BY <1>3, <2>1, <2>2, <2>3, <3>1
  <2>5. CASE Mode = 2
    <3>1. SuromWindow = <<base, base + inner>>
      BY <2>1, <2>5 DEF SuromWindow
    <3> QED BY <1>3, <2>1, <2>2, <2>3, <3>1
  <2>6. CASE Mode = 3
    <3>1. SuromWindow = <<base + inner, base + 15>>
      BY <2>1, <2>6 DEF SuromWindow
    <3> QED BY <1>3, <2>1, <2>2, <2>3, <3>1
  <2> QED BY <2>1, <2>4, <2>5, <2>6
<1>6. ReadSlot(slot) = ((bank % 32) * 2 + (slot % 2)) % 64
  BY <1>1, <1>2 DEF ReadSlot, ReadUnit
<1> HIDE DEF bank
<1>7. ReadSlot(slot) = bank * 2 + (slot % 2) /\ slot % 2 \in 0..1
  BY <1>3, <1>5, <1>6 DEF Windows
<1>8. ReadSlot(slot) \div 32 = Outer
  BY <1>3, <1>5, <1>7
<1> QED BY <1>1, <1>2, <1>3, <1>8

(* Names, reads and writes go to one bank, and both halves of what a SUROM *)
(* program sees lie in one half of its ROM.                                *)
THEOREM Mmc1StaysCoherent == Mmc1Spec => []Mmc1IsCoherent
<1>1. Mmc1Inv => Mmc1IsCoherent
  <2> SUFFICES ASSUME Mmc1Inv PROVE Mmc1IsCoherent
    OBVIOUS
  <2>1. \A slot \in Windows : LabelSlot(slot) = ReadSlot(slot)
    BY DEF LabelSlot, ReadSlot, LabelUnit, ReadUnit
  <2>2. \A page \in Pages : WritePage(page) = ReadPage(page)
    BY DEF WritePage, ReadPage, WriteUnit, ReadUnit
  <2> QED BY <2>1, <2>2, SuromHalf DEF Mmc1IsCoherent
<1> QED BY <1>1, Mmc1Inductive, PTL

-----------------------------------------------------------------------------
(* The interrupt counters *)

(***************************************************************************)
(* The inductive invariant.  `SplitAhead' and `PlainAhead' say what a line *)
(* in progress has still to fetch, and that the clocks it has given and    *)
(* the rises that are to come make one, or no more than one.               *)
(***************************************************************************)
OnlyLinesFetch == fetches # <<>> => family \in LineFamilies

Ones(b) == IF b THEN 1 ELSE 0

SplitAhead ==
  \/ fetches = <<FALSE, FALSE, TRUE, TRUE>> /\ clocks = 0
  \/ fetches = <<FALSE, TRUE, TRUE>> /\ clocks = 0 /\ ~ a12 /\ (family = "mmc3" => low >= 1)
  \/ fetches = <<TRUE, TRUE>> /\ clocks = 0 /\ ~ a12 /\ (family = "mmc3" => low >= 2)
  \/ fetches = <<TRUE>> /\ clocks = 1 /\ a12
  \/ fetches = <<>> /\ clocks = 1

PlainAhead ==
  \/ fetches = <<>> /\ clocks <= 1
  \/ \E x \in BOOLEAN :
       /\ fetches \in {<<x>>, <<x, x>>}
       /\ clocks + Ones(x /\ ~ a12) <= 1
  \/ \E x, y \in BOOLEAN :
       /\ fetches \in {<<x, y, y>>, <<x, x, y, y>>}
       /\ clocks + Ones(x /\ ~ a12) + Ones(y /\ ~ x) <= 1

LineInv ==
  /\ OnlyLinesFetch
  /\ line = "split" => SplitAhead
  /\ line = "plain" => PlainAhead

CountersInv == TypeOK /\ LineInv

USE DEF control, filter, drawing, OneShots, CycleFamilies, LineFamilies, Families

-----------------------------------------------------------------------------
(* Division with remainder, and its uniqueness.                            *)
LEMMA Divided ==
  ASSUME NEW n \in Nat, NEW k \in Nat \ {0}
  PROVE  n = k * (n \div k) + (n % k) /\ n \div k \in Nat /\ n % k \in 0..k - 1
  OBVIOUS

LEMMA DividedOnce ==
  ASSUME NEW k \in Nat \ {0}, NEW q \in Nat, NEW r \in 0..k - 1
  PROVE  (k * q + r) \div k = q /\ (k * q + r) % k = r
  BY SMTT(40)

LEMMA Monotone ==
  ASSUME NEW a \in Nat, NEW b \in Nat, NEW c \in Nat, a >= b
  PROVE  c * a >= c * b /\ c * a \in Nat /\ c * b \in Nat
  OBVIOUS

(* The widths, for the provers.                                            *)
LEMMA Widths ==
  /\ Byte \in Nat \ {0} /\ Word \in Nat \ {0} /\ Byte <= Word
  /\ Byte \div 2 \in Nat \ {0} /\ (Byte \div 2) * Byte <= Word
  /\ N163Top \in Nat /\ N163Top = (Byte \div 2) * Byte - 1 /\ N163Top < Word
  /\ Byte = Nibble * Nibble /\ Word = Byte * Byte /\ Nibble \in Nat \ {0}
<1>1. Nibble \in Nat \ {0} /\ Nibble >= 2
  BY NibbleAssumption
<1>2. Byte = Nibble * Nibble /\ Byte \in Nat \ {0} /\ Byte >= 2
  <2>1. Nibble * Nibble >= Nibble * 2
    BY <1>1, Monotone
  <2> QED BY <1>1, <2>1 DEF Byte
<1>3. Word = Byte * Byte /\ Word \in Nat \ {0} /\ Byte <= Word
  <2>1. Byte * Byte >= Byte * 1
    BY <1>2, Monotone
  <2> QED BY <1>2, <2>1 DEF Word
<1>4. Byte \div 2 \in Nat \ {0} /\ Byte \div 2 <= Byte
  BY <1>2
<1> DEFINE h == Byte \div 2
<1>5. h * Byte <= Word /\ h * Byte >= 1 /\ h * Byte \in Nat
  <2> HIDE DEF h
  <2>1. h \in Nat \ {0} /\ h <= Byte
    BY <1>4 DEF h
  <2>2. Byte * Byte >= Byte * h /\ Byte * h >= Byte * 1
    BY <1>2, <2>1, Monotone
  <2>3. h * Byte = Byte * h
    BY <1>2, <2>1
  <2> QED BY <1>2, <1>3, <2>1, <2>2, <2>3
<1>6. N163Top = h * Byte - 1
  BY DEF N163Top
<1> QED BY <1>1, <1>2, <1>3, <1>4, <1>5, <1>6

(* A digit that is replaced leaves a number of as many digits.             *)
LEMMA DigitInRange ==
  ASSUME NEW w \in Nat \ {0}, NEW base \in Nat \ {0}, NEW m \in Nat \ {0},
         NEW x \in Nat, NEW v \in 0..base - 1, NEW t \in Nat, t = w * base * m, x < t
  PROVE  WithDigit(x, w, base, v) \in Nat /\ WithDigit(x, w, base, v) < t
<1> DEFINE q == x \div w
           r == x % w
           p == q \div base
           d == q % base
<1>1. x = w * q + r /\ q \in Nat /\ r \in 0..w - 1
  BY Divided
<1>2. q = base * p + d /\ p \in Nat /\ d \in 0..base - 1
  <2> HIDE DEF q
  <2> QED BY <1>1, Divided
<1>3. WithDigit(x, w, base, v) = x + (v - d) * w
  BY DEF WithDigit
<1> HIDE DEF q, r, p, d
<1>4. w * q = w * (base * p) + w * d /\ w * (base * p) \in Nat /\ w * d \in Nat
  BY <1>2
<1>5. WithDigit(x, w, base, v) = w * (base * p) + w * v + r
  <2>1. (v - d) * w = w * v - w * d
    BY <1>2
  <2> QED BY <1>1, <1>3, <1>4, <2>1
<1>6. p < m
  <2> SUFFICES ASSUME p >= m PROVE FALSE
    BY <1>2
  <2>1. base * p >= base * m /\ base * p \in Nat /\ base * m \in Nat
    BY <1>2, Monotone
  <2>2. w * (base * p) >= w * (base * m)
    BY <2>1, Monotone
  <2>3. w * (base * m) = w * base * m
    OBVIOUS
  <2> QED BY <1>1, <1>4, <2>2, <2>3
<1>7. w * v + r < w * base /\ w * v \in Nat
  <2>1. w * (base - 1) >= w * v /\ w * v \in Nat
    BY Monotone
  <2>2. w * (base - 1) = w * base - w
    OBVIOUS
  <2> QED BY <1>1, <2>1, <2>2
<1>8. w * (base * p) + w * base <= w * base * m
  <2>1. base * w \in Nat /\ (base * w) * m >= (base * w) * (p + 1)
    BY <1>2, <1>6, Monotone
  <2>2. (base * w) * (p + 1) = w * (base * p) + w * base
    BY <1>2
  <2>3. (base * w) * m = w * base * m
    OBVIOUS
  <2> QED BY <2>1, <2>2, <2>3
<1>9. w * base * m \in Nat /\ w * base \in Nat
  OBVIOUS
<1> QED BY <1>1, <1>4, <1>5, <1>7, <1>8, <1>9

-----------------------------------------------------------------------------
(* The registers.                                                          *)
LEMMA LatchDigitTyped == TypeOK /\ WriteLatchDigit => TypeOK'
<1> SUFFICES ASSUME TypeOK, WriteLatchDigit PROVE TypeOK'
  OBVIOUS
<1>0. /\ 1 \in Nat \ {0} /\ Nibble \in Nat \ {0} /\ Byte \in Nat \ {0}
      /\ Word \in Nat /\ Byte \in Nat
  BY Widths
<1>1. PICK v \in 0..Nibble - 1 :
        \/ Register({"vrc3"}) /\ \E w \in {1, Nibble, Byte, Byte * Nibble} :
             latch' = WithDigit(latch, w, Nibble, v)
        \/ Register({"vrc4"}) /\ \E w \in {1, Nibble} : latch' = WithDigit(latch, w, Nibble, v)
  BY DEF WriteLatchDigit
<1>2. CASE Register({"vrc3"}) /\ \E w \in {1, Nibble, Byte, Byte * Nibble} :
             latch' = WithDigit(latch, w, Nibble, v)
  <2>1. latch \in Nat /\ latch < Word /\ family = "vrc3"
    BY <1>2, Widths DEF TypeOK, Register
  <2>2. latch' \in Nat /\ latch' < Word
    <3>1. CASE latch' = WithDigit(latch, 1, Nibble, v)
      <4>1. Nibble * Byte \in Nat \ {0} /\ Word = 1 * Nibble * (Nibble * Byte)
        BY Widths
      <4> QED BY <2>1, <3>1, <4>1, <1>0, DigitInRange, Zenon
    <3>2. CASE latch' = WithDigit(latch, Nibble, Nibble, v)
      <4>1. Word = Nibble * Nibble * Byte
        BY Widths
      <4> QED BY <2>1, <3>2, <4>1, <1>0, DigitInRange, Zenon
    <3>3. CASE latch' = WithDigit(latch, Byte, Nibble, v)
      <4>1. Word = Byte * Nibble * Nibble
        BY Widths
      <4> QED BY <2>1, <3>3, <4>1, <1>0, DigitInRange, Zenon
    <3>4. CASE latch' = WithDigit(latch, Byte * Nibble, Nibble, v)
      <4>1. Byte * Nibble \in Nat \ {0} /\ Word = (Byte * Nibble) * Nibble * 1
        BY Widths
      <4> QED BY <2>1, <3>4, <4>1, <1>0, DigitInRange, Zenon
    <3> QED BY <1>2, <3>1, <3>2, <3>3, <3>4
  <2>3. latch' \in 0..Word - 1
    BY <2>2, Widths
  <2> QED BY <1>2, <2>1, <2>3 DEF TypeOK, Register, WriteLatchDigit
<1>3. CASE Register({"vrc4"}) /\ \E w \in {1, Nibble} : latch' = WithDigit(latch, w, Nibble, v)
  <2>1. latch \in Nat /\ latch < Byte /\ family = "vrc4"
    BY <1>3, Widths DEF TypeOK, Register
  <2>2. latch' \in Nat /\ latch' < Byte
    <3>1. CASE latch' = WithDigit(latch, 1, Nibble, v)
      <4>1. Byte = 1 * Nibble * Nibble
        BY Widths
      <4> QED BY <2>1, <3>1, <4>1, <1>0, DigitInRange, Zenon
    <3>2. CASE latch' = WithDigit(latch, Nibble, Nibble, v)
      <4>1. Byte = Nibble * Nibble * 1
        BY Widths
      <4> QED BY <2>1, <3>2, <4>1, <1>0, DigitInRange, Zenon
    <3> QED BY <1>3, <3>1, <3>2
  <2>3. latch' \in 0..Word - 1
    BY <2>2, Widths
  <2> QED BY <1>3, <2>1, <2>2, <2>3 DEF TypeOK, Register, WriteLatchDigit
<1> QED BY <1>1, <1>2, <1>3

LEMMA VrcControlTyped == TypeOK /\ WriteVrcControl => TypeOK'
<1> SUFFICES ASSUME TypeOK, WriteVrcControl PROVE TypeOK'
  OBVIOUS
<1>1. 0 \in 0..ScanTicks - 1
  BY ClockAssumption
<1>2. counter' \in 0..Word - 1 /\ (family = "vrc4" => counter' < Byte)
  BY DEF TypeOK, WriteVrcControl
<1>3. short' \in BOOLEAN /\ resume' \in BOOLEAN /\ enabled' \in BOOLEAN /\ pending' \in BOOLEAN
  BY DEF WriteVrcControl
<1> QED BY <1>1, <1>2, <1>3 DEF TypeOK, WriteVrcControl, Register

(* The halves of a counter of 16 bits.                                     *)
LEMMA HalfTyped ==
  ASSUME NEW x \in 0..Word - 1, NEW v \in 0..Byte - 1
  PROVE  WithDigit(x, 1, Byte, v) \in 0..Word - 1 /\ WithDigit(x, Byte, Byte, v) \in 0..Word - 1
<1>1. x \in Nat /\ x < Word /\ Word \in Nat /\ Byte \in Nat \ {0} /\ 1 \in Nat \ {0}
  BY Widths
<1>2. Word = 1 * Byte * Byte /\ Word = Byte * Byte * 1
  BY Widths
<1>3. WithDigit(x, 1, Byte, v) \in Nat /\ WithDigit(x, 1, Byte, v) < Word
  BY <1>1, <1>2, DigitInRange, Zenon
<1>4. WithDigit(x, Byte, Byte, v) \in Nat /\ WithDigit(x, Byte, Byte, v) < Word
  BY <1>1, <1>2, DigitInRange, Zenon
<1> QED BY <1>1, <1>3, <1>4

LEMMA OneShotTyped ==
  TypeOK /\ (WriteOneShotEnable \/ WriteOneShotLow \/ WriteOneShotHigh) => TypeOK'
<1> SUFFICES ASSUME TypeOK, WriteOneShotEnable \/ WriteOneShotLow \/ WriteOneShotHigh
             PROVE  TypeOK'
  OBVIOUS
<1>1. family \in {"oneshot", "decoder"} /\ family' = family
  BY DEF WriteOneShotEnable, WriteOneShotLow, WriteOneShotHigh, Register
<1>2. counter' \in 0..Word - 1
  <2>1. counter \in 0..Word - 1
    BY DEF TypeOK
  <2> QED BY <2>1, HalfTyped DEF WriteOneShotEnable, WriteOneShotLow, WriteOneShotHigh
<1>3. enabled' \in BOOLEAN /\ pending' \in BOOLEAN
  <2>1. CASE WriteOneShotEnable \/ WriteOneShotLow
    BY <2>1 DEF TypeOK, WriteOneShotEnable, WriteOneShotLow
  <2>2. CASE WriteOneShotHigh
    <3>1. enabled' \in BOOLEAN
      <4>1. enabled \in BOOLEAN
        BY DEF TypeOK
      <4>2. \A v \in 0..Byte - 1 : (v >= Byte \div 2) \in BOOLEAN
        OBVIOUS
      <4> QED BY <2>2, <4>1, <4>2 DEF WriteOneShotHigh
    <3> QED BY <2>2, <3>1 DEF TypeOK, WriteOneShotHigh
  <2> QED BY <2>1, <2>2
<1>4. UNCHANGED <<latch, control, prescaler, reload, filter, drawing>>
  BY DEF WriteOneShotEnable, WriteOneShotLow, WriteOneShotHigh, Register
<1> QED BY <1>1, <1>2, <1>3, <1>4 DEF TypeOK

LEMMA N163Typed == TypeOK /\ WriteN163 => TypeOK'
<1> SUFFICES ASSUME TypeOK, WriteN163 PROVE TypeOK'
  OBVIOUS
<1> DEFINE h == Byte \div 2
<1>1. /\ counter \in Nat /\ counter < h * Byte /\ family = "n163" /\ h \in Nat \ {0}
      /\ h * Byte \in Nat /\ Byte \in Nat \ {0} /\ 1 \in Nat \ {0}
  BY Widths DEF TypeOK, WriteN163, Register
<1> HIDE DEF h
<1>2. h * Byte = 1 * Byte * h /\ h * Byte = Byte * h * 1
  BY <1>1
<1>3. ASSUME NEW v \in 0..Byte - 1
      PROVE  WithDigit(counter, 1, Byte, v) \in Nat /\ WithDigit(counter, 1, Byte, v) < h * Byte
  BY <1>1, <1>2, DigitInRange, Zenon
<1>4. ASSUME NEW v \in 0..h - 1
      PROVE  WithDigit(counter, Byte, h, v) \in Nat /\ WithDigit(counter, Byte, h, v) < h * Byte
  BY <1>1, <1>2, DigitInRange, Zenon
<1>5. counter' \in Nat /\ counter' < h * Byte
  BY <1>3, <1>4 DEF WriteN163, h
<1>6. counter' \in 0..Word - 1 /\ counter' <= N163Top
  BY <1>5, Widths DEF h
<1>7. enabled' \in BOOLEAN /\ pending' \in BOOLEAN
  BY DEF TypeOK, WriteN163
<1> QED BY <1>1, <1>6, <1>7 DEF TypeOK, WriteN163, Register

LEMMA LineRegistersTyped ==
  TypeOK /\ (WriteTarget \/ WriteReload \/ WriteLineEnable \/ ReadStatus) => TypeOK'
<1> SUFFICES ASSUME TypeOK, WriteTarget \/ WriteReload \/ WriteLineEnable \/ ReadStatus
             PROVE  TypeOK'
  OBVIOUS
<1>1. CASE WriteTarget
  <2>1. latch' \in 0..Word - 1 /\ latch' < Byte
    BY <1>1, Widths DEF WriteTarget
  <2> QED BY <1>1, <2>1 DEF TypeOK, WriteTarget, Register
<1>2. CASE WriteReload \/ ReadStatus
  BY <1>2 DEF TypeOK, WriteReload, ReadStatus, Register
<1>3. CASE WriteLineEnable
  <2>1. enabled' \in BOOLEAN /\ pending' \in BOOLEAN
    BY <1>3 DEF TypeOK, WriteLineEnable
  <2> QED BY <1>3, <2>1 DEF TypeOK, WriteLineEnable, Register
<1> QED BY <1>1, <1>2, <1>3

LEMMA AccessTyped == TypeOK /\ Access => TypeOK'
<1>1. TypeOK /\ AcknowledgeVrc => TypeOK'
  BY DEF TypeOK, AcknowledgeVrc, Register
<1> QED BY <1>1, LatchDigitTyped, VrcControlTyped, OneShotTyped, N163Typed,
           LineRegistersTyped DEF Access

-----------------------------------------------------------------------------
(* The chunks of cycles: what they leave, and what the alarm sees.         *)
LEMMA Passes ==
  ASSUME NEW t \in Nat \ {0}, last' = [op |-> "pass", ticks |-> t],
         A!Idle \/ A!Wait(t) \/ A!Ring(t), Kind' = Kind, Period' = Period
  PROVE  A!Pass
  BY DEF A!Pass, A!Passed

(* The limit of VRC3 is a power of the byte.                               *)
LEMMA LimitSized == Limit \in Nat \ {0} /\ Limit <= Word
  BY Widths DEF Limit

LEMMA Vrc3Passes ==
  ASSUME TypeOK, NEW n \in Chunks, ClockVrc3(n)
  PROVE  TypeOK' /\ A!Pass
<1>1. /\ family = "vrc3" /\ family' = family /\ enabled /\ enabled' = enabled
      /\ counter \in Nat /\ counter < Word /\ pending \in BOOLEAN
      /\ n \in Nat \ {0} /\ Limit' = Limit
  BY Widths, ClockAssumption DEF TypeOK, ClockVrc3, Elapses, Limit
<1>2. Limit \in Nat \ {0} /\ Limit <= Word
  BY LimitSized
<1>3. counter' \in Nat /\ counter' < Word /\ pending' \in BOOLEAN
  <2>1. CASE counter + n >= Limit
    <3>1. counter' = (counter + n) % Limit /\ pending'
      BY <2>1 DEF ClockVrc3
    <3> HIDE DEF Limit
    <3>2. counter + n \in Nat
      BY <1>1
    <3>3. (counter + n) % Limit \in 0..Limit - 1
      BY <1>2, <3>2, Divided, Zenon
    <3> QED BY <1>2, <3>1, <3>3, Widths
  <2>2. CASE ~ (counter + n >= Limit)
    <3>1. counter' = counter + n /\ pending' = pending
      BY <1>1, <2>2 DEF ClockVrc3
    <3> QED BY <1>1, <1>2, <2>2, <3>1, Widths
  <2> QED BY <2>1, <2>2
<1>4. TypeOK'
  BY <1>1, <1>3, Widths DEF TypeOK, ClockVrc3, Elapses
<1>5. /\ Due = Limit - counter /\ Due' = Limit - counter'
      /\ Kind = "repeat" /\ Kind' = Kind /\ Period = Limit /\ Period' = Limit
      /\ Armed /\ Armed'
  BY <1>1 DEF Due, Kind, Period, Armed
<1>6. last' = [op |-> "pass", ticks |-> n]
  BY DEF ClockVrc3, Elapses
<1>7. A!Wait(n) \/ A!Ring(n)
  <2>1. CASE counter + n < Limit
    <3>1. counter' = counter + n /\ pending' = pending
      BY <1>1, <1>2, <2>1 DEF ClockVrc3
    <3> QED BY <1>1, <1>2, <1>5, <2>1, <3>1 DEF A!Wait
  <2>2. CASE counter + n >= Limit
    <3>1. counter' = (counter + n) % Limit /\ pending'
      BY <2>2 DEF ClockVrc3
    <3>2. n - Due < Limit => Due' = Due + Limit - n
      <4> SUFFICES ASSUME n - Due < Limit PROVE Due' = Due + Limit - n
        OBVIOUS
      <4>1. counter + n < 2 * Limit
        BY <1>1, <1>2, <1>5
      <4> DEFINE r == counter + n - Limit
                 k == Limit
      <4>2. r \in 0..k - 1 /\ k \in Nat \ {0} /\ counter + n = k * 1 + r
        BY <1>1, <1>2, <2>2, <4>1
      <4>3. (k * 1 + r) % k = r
        <5> HIDE DEF r, k
        <5> QED BY <4>2, DividedOnce
      <4>4. counter' = r
        BY <3>1, <4>2, <4>3
      <4> QED BY <1>1, <1>2, <1>5, <4>4
    <3>3. Due <= n
      BY <1>1, <1>2, <1>5, <2>2
    <3> QED BY <1>5, <3>1, <3>2, <3>3 DEF A!Ring
  <2> QED BY <1>1, <1>2, <2>1, <2>2
<1> QED BY <1>1, <1>4, <1>5, <1>6, <1>7, Passes

LEMMA OneShotPasses ==
  ASSUME TypeOK, NEW n \in Chunks, ClockOneShot(n)
  PROVE  TypeOK' /\ A!Pass
<1>1. /\ family \in {"oneshot", "decoder"} /\ family' = family /\ enabled /\ enabled' = enabled
      /\ counter \in Nat /\ counter < Word /\ pending \in BOOLEAN /\ n \in Nat \ {0}
  BY Widths, ClockAssumption DEF TypeOK, ClockOneShot, Elapses
<1>2. counter' \in Nat /\ counter' < Word
  BY <1>1, Widths DEF ClockOneShot
<1>3. pending' \in BOOLEAN
  BY <1>1 DEF ClockOneShot
<1>4. TypeOK'
  BY <1>1, <1>2, <1>3, Widths DEF TypeOK, ClockOneShot, Elapses
<1>5. /\ Due = counter /\ Due' = counter'
      /\ Kind = "once" /\ Kind' = Kind /\ Period' = Period
      /\ (Armed <=> counter > 0) /\ (Armed' <=> counter' > 0)
  BY <1>1 DEF Due, Kind, Period, Armed, ClockOneShot, Elapses
<1>6. last' = [op |-> "pass", ticks |-> n]
  BY DEF ClockOneShot, Elapses
<1>7. A!Idle \/ A!Wait(n) \/ A!Ring(n)
  <2>1. CASE counter = 0
    <3>1. counter' = 0 /\ pending' = pending
      BY <1>1, <2>1 DEF ClockOneShot
    <3>2. ~ Armed /\ ~ Armed'
      BY <1>1, <1>5, <2>1, <3>1
    <3> QED BY <3>1, <3>2, Zenon DEF A!Idle, Armed
  <2>2. CASE n < counter
    <3>1. counter' = counter - n /\ pending' = pending
      BY <1>1, <2>2 DEF ClockOneShot
    <3>2. Armed /\ Armed' /\ n < Due /\ Due' = Due - n
      BY <1>1, <1>5, <2>2, <3>1
    <3> QED BY <3>1, <3>2, Zenon DEF A!Wait, Armed
  <2>3. CASE counter > 0 /\ n >= counter
    <3>1. counter' = 0
      BY <1>1, <2>3 DEF ClockOneShot
    <3>2. pending'
      BY <2>3, Zenon DEF ClockOneShot
    <3>3. Armed /\ ~ Armed' /\ Due <= n
      BY <1>1, <1>5, <2>3, <3>1
    <3> QED BY <1>5, <3>2, <3>3, Zenon DEF A!Ring
  <2> QED BY <1>1, <2>1, <2>2, <2>3
<1> QED BY <1>1, <1>4, <1>5, <1>6, <1>7, Passes

LEMMA N163Passes ==
  ASSUME TypeOK, NEW n \in Chunks, ClockN163(n)
  PROVE  TypeOK' /\ A!Pass
<1>1. /\ family = "n163" /\ family' = family /\ enabled /\ enabled' = enabled
      /\ counter \in Nat /\ counter <= N163Top /\ pending \in BOOLEAN /\ n \in Nat \ {0}
      /\ N163Top \in Nat /\ N163Top < Word
  BY Widths, ClockAssumption DEF TypeOK, ClockN163, Elapses
<1> HIDE DEF N163Top
<1>2. counter' \in Nat /\ counter' <= N163Top /\ counter' < Word
  BY <1>1, Widths DEF ClockN163
<1>3. pending' \in BOOLEAN
  BY <1>1 DEF ClockN163
<1>4. TypeOK'
  BY <1>1, <1>2, <1>3, Widths DEF TypeOK, ClockN163, Elapses
<1>5. /\ Due = N163Top - counter /\ Due' = N163Top - counter'
      /\ Kind = "held" /\ Kind' = Kind /\ Period' = Period /\ Armed /\ Armed'
  BY <1>1 DEF Due, Kind, Period, Armed, ClockN163, Elapses
<1>6. last' = [op |-> "pass", ticks |-> n]
  BY DEF ClockN163, Elapses
<1>7. A!Wait(n) \/ A!Ring(n)
  <2>1. CASE counter + n < N163Top
    <3>1. counter' = counter + n /\ pending' = pending
      BY <1>1, <2>1 DEF ClockN163
    <3> QED BY <1>1, <1>5, <2>1, <3>1 DEF A!Wait
  <2>2. CASE counter + n >= N163Top
    <3>1. counter' = N163Top
      BY <1>1, <2>2 DEF ClockN163
    <3>2. pending'
      BY <2>2, Zenon DEF ClockN163
    <3> QED BY <1>1, <1>5, <2>2, <3>1, <3>2 DEF A!Ring
  <2> QED BY <1>1, <2>1, <2>2
<1> QED BY <1>1, <1>4, <1>5, <1>6, <1>7, Passes

LEMMA DisabledPasses ==
  ASSUME TypeOK, NEW n \in Chunks, ClockDisabled(n)
  PROVE  TypeOK' /\ A!Pass
<1>1. n \in Nat \ {0} /\ 3 * n \in Nat \ {0}
  BY ClockAssumption
<1>2. TypeOK'
  BY DEF TypeOK, ClockDisabled, Elapses
<1>3. A!Idle /\ Kind' = Kind /\ Period' = Period
  BY DEF A!Idle, Armed, Kind, Period, Limit, TicksPerCount, ClockDisabled, Elapses
<1>4. \/ last' = [op |-> "pass", ticks |-> n]
      \/ last' = [op |-> "pass", ticks |-> 3 * n]
  BY DEF ClockDisabled, Elapses
<1> QED BY <1>1, <1>2, <1>3, <1>4, Passes

(* Scale ticks make a count, q of them are left over from before and p     *)
(* after: the counts that are missed by the overflow are missed in ticks.  *)
LEMMA Scaled ==
  ASSUME NEW scale \in Nat \ {0}, NEW q \in 0..scale - 1, NEW p \in 0..scale - 1,
         NEW ticks \in Nat, NEW inc \in Nat, q + ticks = scale * inc + p,
         NEW left \in Nat, NEW again \in Nat
  PROVE  /\ inc < left => ticks < scale * left - q
         /\ inc >= left => scale * left - q <= ticks
         /\ inc < left => scale * (left - inc) - p = scale * left - q - ticks
         /\ inc >= left /\ ticks - (scale * left - q) < scale * again
              => /\ inc - left < again
                 /\ scale * (again - (inc - left)) - p
                      = scale * left - q + scale * again - ticks
<1>1. ASSUME inc < left PROVE ticks < scale * left - q
  <2>1. scale * left >= scale * (inc + 1) /\ scale * left \in Nat
    BY <1>1, Monotone
  <2>2. scale * (inc + 1) = scale * inc + scale /\ scale * inc \in Nat
    OBVIOUS
  <2> QED BY <2>1, <2>2
<1>2. ASSUME inc >= left PROVE scale * left - q <= ticks
  <2>1. scale * inc >= scale * left /\ scale * left \in Nat /\ scale * inc \in Nat
    BY <1>2, Monotone
  <2> QED BY <2>1
<1>3. ASSUME inc < left PROVE scale * (left - inc) - p = scale * left - q - ticks
  <2>1. scale * (left - inc) = scale * left - scale * inc
    OBVIOUS
  <2> QED BY <2>1
<1>4. ASSUME inc >= left, ticks - (scale * left - q) < scale * again
      PROVE  /\ inc - left < again
             /\ scale * (again - (inc - left)) - p = scale * left - q + scale * again - ticks
  <2> DEFINE r == inc - left
  <2>1. r \in Nat /\ scale * r = scale * inc - scale * left
    BY <1>4
  <2>2. scale * r < scale * again
    <3>1. scale * inc \in Nat /\ scale * left \in Nat /\ scale * again \in Nat
      OBVIOUS
    <3> HIDE DEF r
    <3> QED BY <1>4, <2>1, <3>1
  <2>3. r < again
    <3> HIDE DEF r
    <3> SUFFICES ASSUME r >= again PROVE FALSE
      BY <2>1
    <3>1. scale * r >= scale * again
      BY <2>1, Monotone
    <3> QED BY <2>1, <2>2, <3>1
  <2>4. scale * (again - r) = scale * again - scale * r
    <3> HIDE DEF r
    <3> QED BY <2>1
  <2> QED BY <2>1, <2>3, <2>4
<1> QED BY <1>1, <1>2, <1>3, <1>4

LEMMA Vrc4Passes ==
  ASSUME TypeOK, NEW n \in Chunks, ClockVrc4(n)
  PROVE  TypeOK' /\ A!Pass
<1> DEFINE T == TicksPerCount
           q == IF short THEN 0 ELSE prescaler
           p == IF short THEN 0 ELSE prescaler'
           inc == Increments(n)
           next == counter + inc
<1>1. /\ family = "vrc4" /\ family' = family /\ enabled /\ enabled' = enabled
      /\ short' = short /\ short \in BOOLEAN /\ latch' = latch
      /\ counter \in Nat /\ counter < Byte /\ latch \in Nat /\ latch < Byte
      /\ prescaler \in 0..ScanTicks - 1 /\ pending \in BOOLEAN
      /\ n \in Nat \ {0} /\ ScanTicks \in Nat \ {0} /\ Byte \in Nat \ {0}
  BY Widths, ClockAssumption DEF TypeOK, ClockVrc4, Elapses
<1>2. /\ T \in Nat \ {0} /\ q \in 0..T - 1 /\ p \in 0..T - 1
      /\ inc \in Nat /\ q + 3 * n = T * inc + p /\ prescaler' \in 0..ScanTicks - 1
  <2>1. CASE short
    BY <1>1, <2>1 DEF TicksPerCount, Increments, ClockVrc4
  <2>2. CASE ~ short
    <3> DEFINE total == prescaler + 3 * n
    <3>1. total \in Nat
      BY <1>1
    <3>2. /\ prescaler' = total % ScanTicks /\ inc = total \div ScanTicks
          /\ T = ScanTicks /\ q = prescaler /\ p = prescaler' /\ q + 3 * n = total
      BY <2>2 DEF TicksPerCount, Increments, ClockVrc4
    <3> HIDE DEF total, T, q, p, inc
    <3>3. /\ total = ScanTicks * (total \div ScanTicks) + (total % ScanTicks)
          /\ total \div ScanTicks \in Nat /\ total % ScanTicks \in 0..ScanTicks - 1
      BY <1>1, <3>1, Divided, Zenon
    <3> QED BY <1>1, <3>2, <3>3
  <2> QED BY <1>1, <2>1, <2>2
<1>3. /\ counter' = IF next >= Byte THEN (latch + next - Byte) % Byte ELSE next
      /\ pending' = (pending \/ next >= Byte)
  BY DEF ClockVrc4
<1>4. last' = [op |-> "pass", ticks |-> 3 * n]
  BY DEF ClockVrc4, Elapses
<1>5. /\ Due = T * (Byte - counter) - q /\ Due' = T * (Byte - counter') - p
      /\ Kind = "repeat" /\ Kind' = Kind
      /\ Period = T * (Byte - latch) /\ Period' = T * (Byte - latch)
      /\ Armed /\ Armed'
  BY <1>1 DEF Due, Kind, Period, Armed, TicksPerCount
<1> HIDE DEF T, q, p, inc
<1>6. counter' \in Nat /\ counter' < Byte
  <2>1. CASE next >= Byte
    <3> DEFINE sum == latch + next - Byte
    <3>1. sum \in Nat /\ counter' = sum % Byte
      BY <1>1, <1>2, <1>3, <2>1
    <3> HIDE DEF sum
    <3>2. sum % Byte \in 0..Byte - 1
      BY <1>1, <3>1, Divided, Zenon
    <3> QED BY <1>1, <3>1, <3>2
  <2>2. CASE ~ (next >= Byte)
    BY <1>1, <1>2, <1>3, <2>2
  <2> QED BY <2>1, <2>2
<1>7. pending' \in BOOLEAN
  BY <1>3
<1>8. TypeOK'
  BY <1>1, <1>2, <1>6, <1>7, Widths DEF TypeOK, ClockVrc4, Elapses
<1> DEFINE left == Byte - counter
           again == Byte - latch
<1>9. left \in Nat /\ again \in Nat /\ 3 * n \in Nat /\ (next >= Byte <=> inc >= left)
      /\ 3 * n > 0
  BY <1>1, <1>2
<1>10. /\ inc < left => 3 * n < T * left - q
       /\ inc >= left => T * left - q <= 3 * n
       /\ inc < left => T * (left - inc) - p = T * left - q - 3 * n
       /\ inc >= left /\ 3 * n - (T * left - q) < T * again
            => /\ inc - left < again
               /\ T * (again - (inc - left)) - p = T * left - q + T * again - 3 * n
  <2>1. /\ T \in Nat \ {0} /\ q \in 0..T - 1 /\ p \in 0..T - 1 /\ 3 * n \in Nat
        /\ inc \in Nat /\ q + 3 * n = T * inc + p /\ left \in Nat /\ again \in Nat
    BY <1>2, <1>9
  <2> HIDE DEF left, again
  <2> QED BY <2>1, Scaled, SMTT(60)
<1>11. A!Wait(3 * n) \/ A!Ring(3 * n)
  <2>1. CASE inc < left
    <3>1. counter' = counter + inc
      BY <1>1, <1>2, <1>3, <1>9, <2>1
    <3>2. pending' = pending
      <4>1. ~ (next >= Byte)
        BY <1>2, <1>9, <2>1
      <4> QED BY <1>1, <1>3, <4>1, Zenon
    <3>3. Byte - counter' = left - inc
      BY <1>1, <1>2, <3>1
    <3>4. 3 * n < Due /\ Due' = Due - 3 * n
      BY <1>5, <1>10, <2>1, <3>3
    <3> QED BY <1>1, <1>5, <3>2, <3>4, Zenon DEF A!Wait, Armed
  <2>2. CASE inc >= left
    <3>1. pending'
      BY <1>3, <1>9, <2>2, Zenon
    <3>2. Due <= 3 * n
      BY <1>5, <1>10, <2>2
    <3>3. ASSUME 3 * n - Due < Period PROVE Due' = Due + Period - 3 * n
      <4>1. /\ inc - left < again
            /\ T * (again - (inc - left)) - p = T * left - q + T * again - 3 * n
        BY <1>5, <1>10, <2>2, <3>3
      <4>2. counter' = latch + (inc - left)
        <5> DEFINE r == latch + (inc - left)
        <5>1. r \in 0..Byte - 1 /\ latch + next - Byte = r
          BY <1>1, <1>2, <2>2, <4>1
        <5>2. counter' = (latch + next - Byte) % Byte
          BY <1>3, <1>9, <2>2
        <5>3. r % Byte = r
          <6> HIDE DEF r
          <6> QED BY <1>1, <5>1
        <5> QED BY <5>1, <5>2, <5>3
      <4>3. Byte - counter' = again - (inc - left)
        BY <1>1, <1>2, <4>2
      <4> QED BY <1>5, <4>1, <4>3
    <3> QED BY <1>5, <3>1, <3>2, <3>3, Zenon DEF A!Ring
  <2> QED BY <1>2, <1>9, <2>1, <2>2
<1> QED BY <1>1, <1>4, <1>5, <1>8, <1>9, <1>11, Passes
-----------------------------------------------------------------------------
(* The fetches: a rise clocks the counter, anything else leaves the alarm. *)
LEMMA Mmc3Passes ==
  ASSUME TypeOK, family = "mmc3", ClockMmc3, last' = [op |-> "pass", ticks |-> 1],
         UNCHANGED <<family, latch, enabled, control>>
  PROVE  counter' \in Nat /\ counter' < Byte /\ reload' \in BOOLEAN /\ pending' \in BOOLEAN
         /\ A!Pass
<1>1. /\ latch \in Nat /\ latch < Byte /\ counter \in Nat /\ counter < Byte
      /\ Byte \in Nat \ {0} /\ pending \in BOOLEAN /\ enabled \in BOOLEAN
      /\ reload \in BOOLEAN
  BY Widths DEF TypeOK
<1>2. counter' \in Nat /\ counter' < Byte /\ reload' = FALSE
  BY <1>1 DEF ClockMmc3
<1>3. pending' \in BOOLEAN
  BY <1>1 DEF ClockMmc3
<1>4. /\ Due = (IF reload \/ counter = 0 THEN latch + 1 ELSE counter)
      /\ Due' = (IF counter' = 0 THEN latch + 1 ELSE counter')
      /\ Kind = "repeat" /\ Kind' = Kind /\ Period = latch + 1 /\ Period' = latch + 1
      /\ (Armed <=> enabled) /\ Armed' = Armed
  BY <1>2 DEF Due, Kind, Period, Armed
<1>5. A!Idle \/ A!Wait(1) \/ A!Ring(1)
  <2>1. CASE ~ enabled
    <3>1. pending' = pending
      BY <1>1, <2>1, Zenon DEF ClockMmc3
    <3> QED BY <1>4, <2>1, <3>1, Zenon DEF A!Idle
  <2>2. CASE enabled /\ counter' # 0
    <3>1. pending' = pending
      BY <1>1, <2>2, Zenon DEF ClockMmc3
    <3>2. 1 < Due /\ Due' = Due - 1
      BY <1>1, <1>2, <1>4, <2>2 DEF ClockMmc3
    <3> QED BY <1>4, <2>2, <3>1, <3>2, Zenon DEF A!Wait
  <2>3. CASE enabled /\ counter' = 0
    <3>1. pending'
      BY <2>3, Zenon DEF ClockMmc3
    <3>2. Due <= 1 /\ Due' = Due + Period - 1
      BY <1>1, <1>2, <1>4, <2>3 DEF ClockMmc3
    <3> QED BY <1>4, <2>3, <3>1, <3>2, Zenon DEF A!Ring
  <2> QED BY <1>1, <2>1, <2>2, <2>3
<1>6. 1 \in Nat \ {0}
  OBVIOUS
<1>7. A!Pass
  BY <1>4, <1>5, <1>6, Passes, Zenon
<1> QED BY <1>2, <1>3, <1>7

LEMMA Mmc5Passes ==
  ASSUME TypeOK, family = "mmc5", ClockMmc5, last' = [op |-> "pass", ticks |-> 1],
         UNCHANGED <<family, latch, enabled, control>>
  PROVE  counter' \in Nat /\ counter' < Byte /\ reload' \in BOOLEAN /\ pending' \in BOOLEAN
         /\ A!Pass
<1>1. /\ latch \in Nat /\ latch < Byte /\ counter \in Nat /\ counter < Byte
      /\ Byte \in Nat \ {0} /\ pending \in BOOLEAN /\ enabled \in BOOLEAN
      /\ reload \in BOOLEAN
  BY Widths DEF TypeOK
<1>2. counter' = IF counter + 1 = Byte THEN 0 ELSE counter + 1
  <2>1. CASE counter + 1 = Byte
    BY <1>1, <2>1 DEF ClockMmc5
  <2>2. CASE counter + 1 < Byte
    BY <1>1, <2>2 DEF ClockMmc5
  <2> QED BY <1>1, <2>1, <2>2
<1>3. counter' \in Nat /\ counter' < Byte
  BY <1>1, <1>2
<1>4. pending' \in BOOLEAN /\ reload' \in BOOLEAN
  BY <1>1 DEF ClockMmc5
<1>5. /\ Due = (IF counter < latch THEN latch - counter ELSE latch + Byte - counter)
      /\ Due' = (IF counter' < latch THEN latch - counter' ELSE latch + Byte - counter')
      /\ Kind = "repeat" /\ Kind' = Kind /\ Period = Byte /\ Period' = Byte
      /\ (Armed <=> enabled) /\ Armed' = Armed
  BY DEF Due, Kind, Period, Armed
<1>6. A!Idle \/ A!Wait(1) \/ A!Ring(1)
  <2>1. CASE ~ enabled
    <3>1. pending' = pending
      BY <1>1, <2>1, Zenon DEF ClockMmc5
    <3> QED BY <1>5, <2>1, <3>1, Zenon DEF A!Idle
  <2>2. CASE enabled /\ counter' # latch
    <3>1. pending' = pending
      BY <1>1, <2>2, Zenon DEF ClockMmc5
    <3>2. 1 < Due /\ Due' = Due - 1
      BY <1>1, <1>2, <1>5, <2>2
    <3> QED BY <1>5, <2>2, <3>1, <3>2, Zenon DEF A!Wait
  <2>3. CASE enabled /\ counter' = latch
    <3>1. pending'
      BY <2>3, Zenon DEF ClockMmc5
    <3>2. Due <= 1 /\ Due' = Due + Period - 1
      BY <1>1, <1>2, <1>5, <2>3
    <3> QED BY <1>5, <2>3, <3>1, <3>2, Zenon DEF A!Ring
  <2> QED BY <1>1, <2>1, <2>2, <2>3
<1>7. 1 \in Nat \ {0}
  OBVIOUS
<1>8. A!Pass
  BY <1>5, <1>6, <1>7, Passes, Zenon
<1> QED BY <1>3, <1>4, <1>8

LEMMA NotifyPasses ==
  ASSUME TypeOK, family \in LineFamilies, NEW level \in BOOLEAN, Notify(level)
  PROVE  /\ A!Pass \/ UNCHANGED A!vars
         /\ counter' \in 0..Word - 1 /\ counter' < Byte
         /\ reload' \in BOOLEAN /\ pending' \in BOOLEAN
         /\ low' \in 0..LowCap /\ a12' \in BOOLEAN
<1>1. UNCHANGED <<family, latch, enabled, control, prescaler>> /\ a12' = level
  BY DEF Notify
<1>2. low' \in 0..LowCap
  BY FetchAssumption DEF Notify, TypeOK, Lowest
<1>3. CASE Rises(level)
  <2>1. last' = [op |-> "pass", ticks |-> 1]
    BY <1>3 DEF Notify
  <2>2. CASE family = "mmc3"
    <3>1. ClockMmc3
      BY <1>3, <2>2 DEF Notify
    <3>2. counter' \in Nat /\ counter' < Byte /\ reload' \in BOOLEAN /\ pending' \in BOOLEAN
          /\ A!Pass
      BY <1>1, <2>1, <2>2, <3>1, Mmc3Passes, Zenon
    <3> QED BY <1>1, <1>2, <3>2, Widths
  <2>3. CASE family = "mmc5"
    <3>1. ClockMmc5
      BY <1>3, <2>3 DEF Notify
    <3>2. counter' \in Nat /\ counter' < Byte /\ reload' \in BOOLEAN /\ pending' \in BOOLEAN
          /\ A!Pass
      BY <1>1, <2>1, <2>3, <3>1, Mmc5Passes, Zenon
    <3> QED BY <1>1, <1>2, <3>2, Widths
  <2> QED BY <2>2, <2>3
<1>4. CASE ~ Rises(level)
  <2>1. UNCHANGED <<counter, reload, pending, last>>
    BY <1>4 DEF Notify
  <2>2. UNCHANGED A!vars
    BY <1>1, <2>1 DEF A!vars, Armed, Due, Kind, Period, Limit, TicksPerCount
  <2> QED BY <1>1, <1>2, <2>1, <2>2 DEF TypeOK
<1> QED BY <1>3, <1>4
-----------------------------------------------------------------------------
(* The line that is drawn.                                                 *)
LEMMA OnesAreNumbers == \A b \in BOOLEAN : Ones(b) \in Nat
  BY DEF Ones

LEMMA AtMostOne ==
  ASSUME NEW c \in Nat, NEW d \in Nat, NEW b \in Nat, NEW other \in Nat, d <= c + b
  PROVE  /\ c + b <= 1 => d + 0 <= 1
         /\ c + b + other <= 1 => d + other <= 1 /\ d + 0 + other <= 1
  OBVIOUS

LEMMA Rests ==
  ASSUME NEW x \in BOOLEAN, NEW y \in BOOLEAN
  PROVE  /\ <<x>> # <<>> /\ <<x, x>> # <<>> /\ <<x, y, y>> # <<>> /\ <<x, x, y, y>> # <<>>
         /\ Head(<<x>>) = x /\ Tail(<<x>>) = <<>>
         /\ Head(<<x, x>>) = x /\ Tail(<<x, x>>) = <<x>>
         /\ Head(<<x, y, y>>) = x /\ Tail(<<x, y, y>>) = <<y, y>>
         /\ Head(<<x, x, y, y>>) = x /\ Tail(<<x, x, y, y>>) = <<x, y, y>>
  OBVIOUS

LEMMA Joined ==
  ASSUME NEW x \in BOOLEAN, NEW y \in BOOLEAN
  PROVE  /\ <<>> \o <<>> = <<>>
         /\ <<x, x>> \o <<>> = <<x, x>> /\ <<>> \o <<y, y>> = <<y, y>>
         /\ <<x, x>> \o <<y, y>> = <<x, x, y, y>>
<1>1. <<x, x>> \o <<y, y>> = <<x, x, y, y>>
  <2> DEFINE s == <<x, x>> \o <<y, y>>
             t == <<x, x, y, y>>
  <2>1. s \in Seq(BOOLEAN) /\ t \in Seq(BOOLEAN) /\ Len(s) = 4 /\ Len(t) = 4
    OBVIOUS
  <2>2. s[1] = t[1] /\ s[2] = t[2] /\ s[3] = t[3] /\ s[4] = t[4]
    OBVIOUS
  <2> HIDE DEF s, t
  <2>3. \A i \in 1..Len(s) : s[i] = t[i]
    <3> SUFFICES ASSUME NEW i \in 1..Len(s) PROVE s[i] = t[i]
      OBVIOUS
    <3>1. i = 1 \/ i = 2 \/ i = 3 \/ i = 4
      BY <2>1
    <3> QED BY <2>2, <3>1
  <2>4. s = t
    BY <2>1, <2>3, SeqEqual
  <2> QED BY <2>4 DEF s, t
<1> QED BY <1>1

(* What is left of a line does not change under anything but the fetches.  *)
LEMMA LineRests ==
  TypeOK /\ LineInv /\ UNCHANGED <<family, filter, drawing>> => LineInv'
<1> SUFFICES ASSUME TypeOK, LineInv, UNCHANGED <<family, filter, drawing>> PROVE LineInv'
  OBVIOUS
<1>1. /\ family' = family /\ low' = low /\ a12' = a12
      /\ fetches' = fetches /\ line' = line /\ clocks' = clocks
      /\ (a12' <=> a12) /\ \A b \in BOOLEAN : Ones(b /\ ~ a12') = Ones(b /\ ~ a12)
  BY DEF TypeOK, Ones
<1>2. OnlyLinesFetch'
  BY <1>1, Zenon DEF LineInv, OnlyLinesFetch
<1>3. SplitAhead => SplitAhead'
  BY <1>1 DEF SplitAhead
<1>4. PlainAhead => PlainAhead'
  <2>1. CASE fetches = <<>> /\ clocks <= 1
    BY <1>1, <2>1 DEF PlainAhead
  <2>2. ASSUME NEW x \in BOOLEAN, fetches \in {<<x>>, <<x, x>>}, clocks + Ones(x /\ ~ a12) <= 1
        PROVE  PlainAhead'
    <3>1. fetches' \in {<<x>>, <<x, x>>} /\ clocks' + Ones(x /\ ~ a12') <= 1
      BY <1>1, <2>2, Zenon
    <3> QED BY <3>1, Zenon DEF PlainAhead
  <2>3. ASSUME NEW x \in BOOLEAN, NEW y \in BOOLEAN, fetches \in {<<x, y, y>>, <<x, x, y, y>>},
               clocks + Ones(x /\ ~ a12) + Ones(y /\ ~ x) <= 1
        PROVE  PlainAhead'
    <3>1. /\ fetches' \in {<<x, y, y>>, <<x, x, y, y>>}
          /\ clocks' + Ones(x /\ ~ a12') + Ones(y /\ ~ x) <= 1
      BY <1>1, <2>3, Zenon
    <3> QED BY <3>1, Zenon DEF PlainAhead
  <2> QED BY <2>1, <2>2, <2>3, Zenon DEF PlainAhead
<1> QED BY <1>1, <1>2, <1>3, <1>4, Zenon DEF LineInv

LEMMA LineDrawn == TypeOK /\ DrawLine => TypeOK' /\ LineInv'
<1> SUFFICES ASSUME TypeOK, DrawLine PROVE TypeOK' /\ LineInv'
  OBVIOUS
<1>1. PICK background \in Layers :
        \/ \E sprites \in Layers :
             /\ fetches' = background \o sprites
             /\ line' = IF background = Run(FALSE) /\ sprites = Run(TRUE)
                          THEN "split" ELSE "plain"
        \/ \E sprites \in TallSprites :
             /\ fetches' = background \o sprites
             /\ line' = "tall"
  BY DEF DrawLine
<1>2. background \in Seq(BOOLEAN) /\ Layers \subseteq Seq(BOOLEAN)
  <2>1. <<>> \in Seq(BOOLEAN) /\ \A x \in BOOLEAN : <<x, x>> \in Seq(BOOLEAN)
    OBVIOUS
  <2> QED BY <2>1, Zenon DEF Layers, NoFetch, Run
<1>3. TallSprites \subseteq Seq(BOOLEAN)
  BY FetchAssumption, SMTT(30) DEF TallSprites
<1>4. fetches' \in Seq(BOOLEAN) /\ line' \in {"split", "plain", "tall"} /\ clocks' = 0
  <2>1. \A s, t \in Seq(BOOLEAN) : s \o t \in Seq(BOOLEAN)
    OBVIOUS
  <2>2. fetches' \in Seq(BOOLEAN)
    BY <1>1, <1>2, <1>3, <2>1, Zenon
  <2>3. line' \in {"split", "plain", "tall"}
    BY <1>1, Zenon
  <2> QED BY <2>2, <2>3 DEF DrawLine
<1>5. TypeOK'
  BY <1>4 DEF TypeOK, DrawLine
<1>6. OnlyLinesFetch'
  BY DEF OnlyLinesFetch, DrawLine
<1>7. line' = "split" => SplitAhead'
  <2> SUFFICES ASSUME line' = "split" PROVE SplitAhead'
    OBVIOUS
  <2>1. fetches' = <<FALSE, FALSE>> \o <<TRUE, TRUE>>
    BY <1>1 DEF Run
  <2>2. fetches' = <<FALSE, FALSE, TRUE, TRUE>>
    BY <2>1, Joined
  <2> QED BY <1>4, <2>2 DEF SplitAhead
<1>8. line' = "plain" => PlainAhead'
  <2> SUFFICES ASSUME line' = "plain" PROVE PlainAhead'
    OBVIOUS
  <2>1. PICK sprites \in Layers : fetches' = background \o sprites
    BY <1>1
  <2>2. /\ background = <<>> \/ \E x \in BOOLEAN : background = <<x, x>>
        /\ sprites = <<>> \/ \E y \in BOOLEAN : sprites = <<y, y>>
    BY DEF Layers, NoFetch, Run
  <2>3. CASE fetches' = <<>>
    BY <1>4, <2>3 DEF PlainAhead
  <2>4. ASSUME NEW x \in BOOLEAN, fetches' = <<x, x>> PROVE PlainAhead'
    BY <1>4, <2>4 DEF PlainAhead, Ones
  <2>5. ASSUME NEW x \in BOOLEAN, NEW y \in BOOLEAN, fetches' = <<x, x, y, y>>
        PROVE  PlainAhead'
    BY <1>4, <2>5 DEF PlainAhead, Ones
  <2> QED BY <2>1, <2>2, <2>3, <2>4, <2>5, Joined
<1> QED BY <1>5, <1>6, <1>7, <1>8 DEF LineInv

LEMMA LineFetched ==
  ASSUME CountersInv, Fetch
  PROVE  TypeOK' /\ LineInv' /\ (A!Pass \/ UNCHANGED A!vars)
<1> DEFINE level == Head(fetches)
<1>1. /\ fetches \in Seq(BOOLEAN) /\ fetches # <<>> /\ level \in BOOLEAN
      /\ family \in LineFamilies /\ TypeOK /\ clocks \in Nat
      /\ fetches' = Tail(fetches) /\ fetches' \in Seq(BOOLEAN)
  BY DEF CountersInv, LineInv, OnlyLinesFetch, TypeOK, Fetch
<1>2. Notify(level)
  BY DEF Fetch
<1> HIDE DEF level
<1>3. /\ A!Pass \/ UNCHANGED A!vars
      /\ counter' \in 0..Word - 1 /\ counter' < Byte
      /\ reload' \in BOOLEAN /\ pending' \in BOOLEAN
      /\ low' \in 0..LowCap /\ a12' \in BOOLEAN
  BY <1>1, <1>2, NotifyPasses
<1>4. /\ UNCHANGED <<family, latch, enabled, control, prescaler, line>> /\ a12' = level
      /\ low' = IF family # "mmc3" THEN low
                ELSE IF ~ level THEN Lowest(low + 1, LowCap)
                ELSE IF Rises(level) THEN 0 ELSE low
      /\ clocks' = IF Rises(level) THEN clocks + 1 ELSE clocks
  BY <1>2 DEF Notify, Fetch, level
<1>5. clocks' \in Nat
  BY <1>1, <1>4
<1>6. TypeOK'
  BY <1>1, <1>3, <1>4, <1>5 DEF TypeOK
<1>7. OnlyLinesFetch'
  BY <1>1, <1>4 DEF OnlyLinesFetch
<1>8. ASSUME line = "split" PROVE SplitAhead'
  <2>1. SplitAhead
    BY <1>8 DEF CountersInv, LineInv
  <2>2. CASE fetches = <<FALSE, FALSE, TRUE, TRUE>> /\ clocks = 0
    <3>1. ~ level /\ fetches' = <<FALSE, TRUE, TRUE>>
      BY <1>1, <2>2, Rests DEF level
    <3>2. ~ a12' /\ clocks' = 0
      BY <1>4, <2>2, <3>1 DEF Rises
    <3>3. family' = "mmc3" => low' >= 1
      BY <1>1, <1>4, <3>1, FetchAssumption DEF Lowest, TypeOK
    <3> QED BY <3>1, <3>2, <3>3 DEF SplitAhead
  <2>3. CASE fetches = <<FALSE, TRUE, TRUE>> /\ clocks = 0 /\ (family = "mmc3" => low >= 1)
    <3>1. ~ level /\ fetches' = <<TRUE, TRUE>>
      BY <1>1, <2>3, Rests DEF level
    <3>2. ~ a12' /\ clocks' = 0
      BY <1>4, <2>3, <3>1 DEF Rises
    <3>3. family' = "mmc3" => low' >= 2
      BY <1>1, <1>4, <2>3, <3>1, FetchAssumption DEF Lowest, TypeOK
    <3> QED BY <3>1, <3>2, <3>3 DEF SplitAhead
  <2>4. CASE fetches = <<TRUE, TRUE>> /\ clocks = 0 /\ ~ a12 /\ (family = "mmc3" => low >= 2)
    <3>1. level /\ fetches' = <<TRUE>>
      BY <1>1, <2>4, Rests DEF level
    <3>2. a12' /\ clocks' = 1
      BY <1>4, <2>4, <3>1 DEF Rises
    <3> QED BY <3>1, <3>2 DEF SplitAhead
  <2>5. CASE fetches = <<TRUE>> /\ clocks = 1 /\ a12
    <3>1. fetches' = <<>>
      BY <1>1, <2>5, Rests
    <3>2. clocks' = 1
      BY <1>4, <2>5 DEF Rises
    <3> QED BY <3>1, <3>2 DEF SplitAhead
  <2> QED BY <1>1, <2>1, <2>2, <2>3, <2>4, <2>5 DEF SplitAhead
<1>9. ASSUME line = "plain" PROVE PlainAhead'
  <2>1. PlainAhead
    BY <1>9 DEF CountersInv, LineInv
  <2>2. clocks' <= clocks + Ones(level /\ ~ a12) /\ (a12' <=> level)
    BY <1>1, <1>4 DEF Rises, Ones
  <2>7. clocks \in Nat /\ clocks' \in Nat
    BY <1>1, <1>5
  <2>3. ASSUME NEW x \in BOOLEAN, fetches = <<x>>, clocks + Ones(x /\ ~ a12) <= 1
        PROVE  PlainAhead'
    <3>1. level = x /\ fetches' = <<>>
      BY <1>1, <2>3, Rests DEF level
    <3>2. clocks' <= 1
      BY <1>1, <1>5, <2>2, <2>3, <3>1 DEF Ones
    <3> QED BY <3>1, <3>2 DEF PlainAhead
  <2>4. ASSUME NEW x \in BOOLEAN, fetches = <<x, x>>, clocks + Ones(x /\ ~ a12) <= 1
        PROVE  PlainAhead'
    <3>1. level = x /\ fetches' = <<x>>
      BY <1>1, <2>4, Rests DEF level
    <3>2. Ones(x /\ ~ a12') = 0
      BY <2>2, <3>1, Zenon DEF Ones
    <3>3. clocks' <= clocks + Ones(x /\ ~ a12)
      BY <2>2, <3>1, Zenon
    <3>4. clocks' + Ones(x /\ ~ a12') <= 1
      <4>1. Ones(x /\ ~ a12) \in Nat
        BY OnesAreNumbers, Zenon
      <4> QED BY <2>7, <2>4, <3>2, <3>3, <4>1, AtMostOne, Zenon
    <3> QED BY <3>1, <3>4 DEF PlainAhead, Ones
  <2>5. ASSUME NEW x \in BOOLEAN, NEW y \in BOOLEAN, fetches = <<x, y, y>>,
               clocks + Ones(x /\ ~ a12) + Ones(y /\ ~ x) <= 1
        PROVE  PlainAhead'
    <3>1. level = x /\ fetches' = <<y, y>>
      BY <1>1, <2>5, Rests DEF level
    <3>2. Ones(y /\ ~ a12') = Ones(y /\ ~ x)
      BY <2>2, <3>1, Zenon DEF Ones
    <3>3. clocks' <= clocks + Ones(x /\ ~ a12)
      BY <2>2, <3>1, Zenon
    <3>4. clocks' + Ones(y /\ ~ a12') <= 1
      <4>1. Ones(x /\ ~ a12) \in Nat /\ Ones(y /\ ~ x) \in Nat
        BY OnesAreNumbers, Zenon
      <4> QED BY <2>7, <2>5, <3>2, <3>3, <4>1, AtMostOne, Zenon
    <3> QED BY <3>1, <3>4 DEF PlainAhead, Ones
  <2>6. ASSUME NEW x \in BOOLEAN, NEW y \in BOOLEAN, fetches = <<x, x, y, y>>,
               clocks + Ones(x /\ ~ a12) + Ones(y /\ ~ x) <= 1
        PROVE  PlainAhead'
    <3>1. level = x /\ fetches' = <<x, y, y>>
      BY <1>1, <2>6, Rests DEF level
    <3>2. Ones(x /\ ~ a12') = 0
      BY <2>2, <3>1, Zenon DEF Ones
    <3>3. clocks' <= clocks + Ones(x /\ ~ a12)
      BY <2>2, <3>1, Zenon
    <3>4. clocks' + Ones(x /\ ~ a12') + Ones(y /\ ~ x) <= 1
      <4>1. Ones(x /\ ~ a12) \in Nat /\ Ones(y /\ ~ x) \in Nat
        BY OnesAreNumbers, Zenon
      <4> QED BY <2>7, <2>6, <3>2, <3>3, <4>1, AtMostOne, Zenon
    <3> QED BY <3>1, <3>4 DEF PlainAhead, Ones
  <2> QED BY <1>1, <2>1, <2>3, <2>4, <2>5, <2>6 DEF PlainAhead
<1> QED BY <1>3, <1>4, <1>6, <1>7, <1>8, <1>9 DEF LineInv
LEMMA PatternRead ==
  ASSUME CountersInv, ReadPattern
  PROVE  TypeOK' /\ LineInv' /\ (A!Pass \/ UNCHANGED A!vars)
<1>1. PICK level \in BOOLEAN : Notify(level)
  BY DEF ReadPattern
<1>2. TypeOK /\ family \in LineFamilies /\ fetches = <<>> /\ UNCHANGED drawing
  BY DEF CountersInv, ReadPattern
<1>3. /\ A!Pass \/ UNCHANGED A!vars
      /\ counter' \in 0..Word - 1 /\ counter' < Byte
      /\ reload' \in BOOLEAN /\ pending' \in BOOLEAN
      /\ low' \in 0..LowCap /\ a12' \in BOOLEAN
  BY <1>1, <1>2, NotifyPasses
<1>4. UNCHANGED <<family, latch, enabled, control, prescaler>>
  BY <1>1 DEF Notify
<1>5. TypeOK'
  BY <1>2, <1>3, <1>4 DEF TypeOK
<1>6. line = "split" => clocks = 1
  BY <1>2, Rests DEF CountersInv, LineInv, SplitAhead
<1>7. line = "plain" => clocks <= 1
  BY <1>2, Rests DEF CountersInv, LineInv, PlainAhead
<1>8. LineInv'
  BY <1>2, <1>6, <1>7, Zenon DEF LineInv, OnlyLinesFetch, SplitAhead, PlainAhead
<1> QED BY <1>3, <1>5, <1>8

-----------------------------------------------------------------------------
(* The steps of the game and of the CPU.                                   *)
LEMMA AccessProgramsAlarm ==
  ASSUME TypeOK, Access
  PROVE  A!Program /\ UNCHANGED <<family, filter, drawing>>
<1>1. \E families : Register(families)
  BY Zenon DEF Access, WriteLatchDigit, WriteVrcControl, AcknowledgeVrc, WriteOneShotEnable,
     WriteOneShotLow, WriteOneShotHigh, WriteN163, WriteTarget, WriteReload, WriteLineEnable,
     ReadStatus
<1>2. last' = A!Set /\ UNCHANGED <<family, filter, drawing>>
  BY <1>1 DEF Register, A!Set
<1>3. pending' \in {FALSE, pending}
  <2>1. pending \in BOOLEAN
    BY DEF TypeOK
  <2>2. CASE WriteLatchDigit \/ WriteOneShotLow \/ WriteTarget \/ WriteReload
    BY <2>2 DEF WriteLatchDigit, WriteOneShotLow, WriteTarget, WriteReload
  <2>3. CASE WriteVrcControl \/ AcknowledgeVrc \/ WriteN163 \/ ReadStatus
    BY <2>3 DEF WriteVrcControl, AcknowledgeVrc, WriteN163, ReadStatus
  <2>4. CASE WriteOneShotEnable \/ WriteLineEnable
    BY <2>1, <2>4, Zenon DEF WriteOneShotEnable, WriteLineEnable
  <2>5. CASE WriteOneShotHigh
    BY <2>1, <2>5, Zenon DEF WriteOneShotHigh
  <2> QED BY <2>2, <2>3, <2>4, <2>5 DEF Access
<1> QED BY <1>2, <1>3 DEF A!Program

LEMMA ServeAnswersAlarm ==
  ASSUME TypeOK, Serve
  PROVE  TypeOK' /\ A!Answer /\ UNCHANGED <<family, filter, drawing>>
<1>1. pending' = FALSE /\ UNCHANGED <<family, filter, drawing>> /\ last' = A!Answered
  BY DEF Serve, A!Answered
<1>2. TypeOK'
  BY <1>1 DEF TypeOK, Serve
<1>3. UNCHANGED <<Armed, Due, Kind, Period>>
  BY DEF Serve, Armed, Due, Kind, Period, Limit, TicksPerCount
<1> QED BY <1>1, <1>2, <1>3 DEF A!Answer

LEMMA ChunkPasses ==
  ASSUME TypeOK, NEW n \in Chunks, Clock(n)
  PROVE  TypeOK' /\ A!Pass /\ UNCHANGED <<family, filter, drawing>>
<1>1. UNCHANGED <<family, filter, drawing>>
  BY DEF Clock, ClockDisabled, ClockVrc3, ClockVrc4, ClockOneShot, ClockN163, Elapses
<1>2. TypeOK' /\ A!Pass
  BY DisabledPasses, Vrc3Passes, Vrc4Passes, OneShotPasses, N163Passes, Zenon DEF Clock
<1> QED BY <1>1, <1>2

LEMMA Starts == Init => CountersInv /\ A!Init
<1> SUFFICES ASSUME Init PROVE CountersInv /\ A!Init
  OBVIOUS
<1>1. 0 \in 0..Word - 1 /\ 0 < Byte /\ 0 \in 0..ScanTicks - 1 /\ 0 \in 0..LowCap /\ 0 <= N163Top
  BY Widths, ClockAssumption, FetchAssumption
<1>2. <<>> \in Seq(BOOLEAN)
  OBVIOUS
<1>3. TypeOK
  BY <1>1, <1>2 DEF TypeOK, Init
<1>4. LineInv
  BY DEF LineInv, OnlyLinesFetch, Init
<1>5. A!Init
  BY DEF A!Init, A!Set, Armed, Init
<1> QED BY <1>3, <1>4, <1>5 DEF CountersInv

(* One step: the invariant is kept, and the alarm takes a step or none.    *)
LEMMA Steps == CountersInv /\ [Next]_vars => CountersInv' /\ [A!Next]_(A!vars)
<1> SUFFICES ASSUME CountersInv, [Next]_vars PROVE CountersInv' /\ [A!Next]_(A!vars)
  OBVIOUS
<1>1. TypeOK /\ LineInv
  BY DEF CountersInv
<1>2. CASE Access
  BY <1>1, <1>2, AccessTyped, AccessProgramsAlarm, LineRests DEF CountersInv, A!Next
<1>3. CASE Serve
  BY <1>1, <1>3, ServeAnswersAlarm, LineRests DEF CountersInv, A!Next
<1>4. ASSUME NEW n \in Chunks, Clock(n) PROVE CountersInv' /\ A!Pass
  BY <1>1, <1>4, ChunkPasses, LineRests DEF CountersInv
<1>5. CASE ReadPattern
  BY <1>5, PatternRead DEF CountersInv, A!Next
<1>6. CASE DrawLine
  <2>1. UNCHANGED A!vars
    BY <1>6 DEF DrawLine, A!vars, Armed, Due, Kind, Period, Limit, TicksPerCount
  <2> QED BY <1>1, <1>6, <2>1, LineDrawn DEF CountersInv
<1>7. CASE Fetch
  BY <1>7, LineFetched DEF CountersInv, A!Next
<1>8. CASE UNCHANGED vars
  <2>1. UNCHANGED A!vars
    BY <1>8 DEF vars, A!vars, Armed, Due, Kind, Period, Limit, TicksPerCount
  <2>2. TypeOK'
    BY <1>1, <1>8 DEF vars, TypeOK
  <2> QED BY <1>1, <1>8, <2>1, <2>2, LineRests DEF vars, CountersInv
<1> QED BY <1>2, <1>3, <1>4, <1>5, <1>6, <1>7, <1>8 DEF Next, A!Next

LEMMA CountersInductive == Spec => []CountersInv
  BY Starts, Steps, PTL DEF Spec

(* Every register and counter keeps its width: the masks of the code       *)
(* suffice in every family, whatever the prescaler and the chunks.         *)
THEOREM CountersTypes == Spec => []TypeOK
<1>1. CountersInv => TypeOK
  BY DEF CountersInv
<1> QED BY <1>1, CountersInductive, PTL

(* A line split between the two tables clocks MMC3 and MMC5 once, a line   *)
(* with small sprites never twice, for any number of low fetches capped.   *)
THEOREM LineClocks == Spec => []LinesCountOnce
<1>1. CountersInv => LinesCountOnce
  BY Rests DEF CountersInv, LineInv, SplitAhead, PlainAhead, LinesCountOnce
<1> QED BY <1>1, CountersInductive, PTL

(* Every counter of a board is an alarm: the clocking code of seven        *)
(* families, in chunks of any length, rings when the time is up.           *)
THEOREM ImplementsAlarm == Spec => RingsOnTime
  BY Starts, Steps, CountersInductive, PTL DEF Spec, RingsOnTime, A!Spec

-----------------------------------------------------------------------------
(* The other boards *)

(***************************************************************************)
(* Types: the registers are bytes, the latches bits, and the mirroring     *)
(* gives each of the four name tables one of four pages.                   *)
(***************************************************************************)
Bytes == 0..255
Addresses == 0..2^16 - 1
Registers ==
  [prg : [Windows -> Bytes], chr : [Pages -> Bytes], select : Bytes, mode : Bytes,
   latch : [1..2 -> BOOLEAN], tables : [1..4 -> 0..3], work : Bytes, guard : Bytes]

\* A bank register is written, the others stay.
LEMMA SetBank ==
  ASSUME NEW q \in Registers, NEW n, NEW v \in Bytes
  PROVE  /\ [q EXCEPT !.prg[n] = v] \in Registers
         /\ [q EXCEPT !.chr[n] = v] \in Registers
BY DEF Registers

\* A byte of the registers is written.
LEMMA SetByte ==
  ASSUME NEW q \in Registers, NEW v \in Bytes
  PROVE  /\ [q EXCEPT !.work = v] \in Registers
         /\ [q EXCEPT !.select = v] \in Registers
         /\ [q EXCEPT !.mode = v] \in Registers
         /\ [q EXCEPT !.guard = v] \in Registers
BY DEF Registers

\* The mirroring is written.
LEMMA SetTables ==
  ASSUME NEW q \in Registers, NEW t \in [1..4 -> 0..3]
  PROVE  [q EXCEPT !.tables = t] \in Registers
BY DEF Registers

\* A latch is written.
LEMMA SetLatch ==
  ASSUME NEW q \in Registers, NEW n, NEW b \in BOOLEAN
  PROVE  [q EXCEPT !.latch[n] = b] \in Registers
BY DEF Registers

\* One table of the mirroring is written.
LEMMA SetTable ==
  ASSUME NEW q \in Registers, NEW n, NEW b \in 0..3
  PROVE  [q EXCEPT !.tables[n] = b] \in Registers
BY DEF Registers

\* Every mirroring a board can set is one of four tables of 1 KiB.
LEMMA Layouts ==
  /\ {Horizontal, Vertical, FourScreen} \subseteq [1..4 -> 0..3]
  /\ \A page \in 0..3 : Single(page) \in [1..4 -> 0..3]
  /\ \A v : Swapped(v) \in [1..4 -> 0..3]
  /\ \A header : FixedMirroring(header) \in [1..4 -> 0..3]
<1>1. {Horizontal, Vertical, FourScreen} \subseteq [1..4 -> 0..3]
  BY DEF Horizontal, Vertical, FourScreen
<1>2. \A page \in 0..3 : Single(page) \in [1..4 -> 0..3]
  BY DEF Single
<1>3. \A v : Swapped(v) \in [1..4 -> 0..3]
  BY <1>1 DEF Swapped
<1>4. \A header : FixedMirroring(header) \in [1..4 -> 0..3]
  BY <1>1, Zenon DEF FixedMirroring
<1> QED BY <1>1, <1>2, <1>3, <1>4

(***************************************************************************)
(* Writes: whatever byte goes to whatever address, the registers keep      *)
(* their types.                                                            *)
(***************************************************************************)

\* Parts of a byte are bytes; a bit is 0 or 1.
LEMMA Parts ==
  ASSUME NEW v \in Bytes
  PROVE  /\ {v % 2, v % 4, v % 8, v % 16, v % 64} \subseteq Bytes
         /\ {(v \div 4) % 8, (v \div 8) % 4, (v \div 16) % 4} \subseteq Bytes
         /\ v % 2 \in 0..3 /\ v % 4 \in 0..3
         /\ \A i \in Nat : Bit(v, i) \in 0..1
<1>1. /\ v % 2 \in 0..1 /\ v % 4 \in 0..3 /\ v % 8 \in 0..7 /\ v % 16 \in 0..15 /\ v % 64 \in 0..63
      /\ (v \div 4) % 8 \in 0..7 /\ (v \div 8) % 4 \in 0..3 /\ (v \div 16) % 4 \in 0..3
  BY DEF Bytes
<1>2. ASSUME NEW i \in Nat PROVE Bit(v, i) \in 0..1
  BY SMT DEF Bit, Bytes
<1> QED BY <1>1, <1>2 DEF Bytes

\* A write leaves bytes in the registers: UxROM.
LEMMA UxromWrites ==
  ASSUME NEW c, NEW q \in Registers, NEW addr \in Addresses, NEW v \in Bytes
  PROVE  UxromWrite(c, q, addr, v) \in Registers
<1>1. v % 16 \in Bytes /\ (v \div 4) % 8 \in Bytes
  BY Parts
<1> QED BY <1>1, SetBank DEF UxromWrite

\* The boards with one latch.
LEMMA SimpleWrites ==
  ASSUME NEW c, NEW q \in Registers, NEW addr \in Addresses, NEW v \in Bytes, c.mapper \in {11, 13, 66, 79, 34}
  PROVE  SimpleWrite(c, q, addr, v) \in Registers
<1>1. \A p, s \in Bytes : [q EXCEPT !.prg[0] = p, !.chr[0] = s] \in Registers
  BY DEF Registers
<1>2. {0, v % 2, v % 4, v % 8, v % 16, (v \div 8) % 4, (v \div 16) % 4, q.chr[0]} \subseteq Bytes
  BY Parts, SMTT(30) DEF Registers, Pages, Bytes
<1> DEFINE m == c.mapper
           p == CASE m \in {11, 66} -> (v \div 16) % 4
                  [] m = 34 -> v % 16
                  [] m = 79 -> (v \div 8) % 4
                  [] m = 13 -> 0
           s == CASE m = 11 -> v % 16
                  [] m = 66 -> v % 4
                  [] m = 79 -> v % 8
                  [] m = 13 -> v % 2
                  [] m = 34 -> q.chr[0]
<1>3. p \in Bytes /\ s \in Bytes
  BY <1>2
<1>4. SimpleWrite(c, q, addr, v) \in {[q EXCEPT !.prg[0] = p, !.chr[0] = s], q}
  BY DEF SimpleWrite
<1> HIDE DEF p, s
<1>5. [q EXCEPT !.prg[0] = p, !.chr[0] = s] \in Registers
  BY <1>1, <1>3
<1> QED BY <1>4, <1>5

\* AxROM.
LEMMA AxromWrites ==
  ASSUME NEW q \in Registers, NEW addr \in Addresses, NEW v \in Bytes
  PROVE  AxromWrite(q, addr, v) \in Registers
<1>1. \A p \in Bytes : \A t \in [1..4 -> 0..3] : [q EXCEPT !.prg[0] = p, !.tables = t] \in Registers
  BY DEF Registers
<1>2. v % 8 \in Bytes
  BY Parts
<1>3. Single(Bit(v, 4)) \in [1..4 -> 0..3]
  <2>1. Bit(v, 4) \in 0..3
    BY Parts
  <2> QED BY <2>1, Layouts
<1> QED BY <1>1, <1>2, <1>3 DEF AxromWrite

\* The registers of MMC3.
LEMMA Mmc3Registers ==
  ASSUME NEW q \in Registers, NEW addr \in Addresses, NEW v \in Bytes
  PROVE  Mmc3Register(q, addr, v) \in Registers
<1> DEFINE g == addr \div 8192
<1>1. \A n : [q EXCEPT !.chr[n] = v] \in Registers /\ [q EXCEPT !.prg[n] = v] \in Registers
  BY SetBank
<1>2. [q EXCEPT !.select = v] \in Registers /\ [q EXCEPT !.tables = Swapped(v)] \in Registers
  BY SetByte, SetTables, Layouts
<1> DEFINE n == q.select % 8
           write ==
             CASE g = 4 /\ addr % 2 = 0 -> [q EXCEPT !.select = v]
               [] g = 4 /\ ~(addr % 2 = 0) /\ n < 6 -> [q EXCEPT !.chr[n] = v]
               [] g = 4 /\ ~(addr % 2 = 0) /\ n >= 6 -> [q EXCEPT !.prg[n - 6] = v]
               [] g = 5 /\ addr % 2 = 0 -> [q EXCEPT !.tables = Swapped(v)]
               [] OTHER -> q
<1>3. Mmc3Register(q, addr, v) = write
  BY SMT DEF Mmc3Register
<1> HIDE DEF g
<1>4. write \in Registers
  BY <1>1, <1>2, Zenon
<1> QED BY <1>3, <1>4

\* MMC5.
LEMMA Mmc5Writes ==
  ASSUME NEW q \in Registers, NEW addr \in Addresses, NEW v \in Bytes
  PROVE  Mmc5Write(q, addr, v) \in Registers
<1>1. [i \in 1..4 |-> (v \div 4^(i - 1)) % 4] \in [1..4 -> 0..3]
  <2>1. ASSUME NEW i \in 1..4 PROVE (v \div 4^(i - 1)) % 4 \in 0..3
    <3>1. 4^(i - 1) \in {1, 4, 16, 64}
      <4>1. 4^0 = 1 /\ 4^1 = 4 /\ 4^2 = 16 /\ 4^3 = 64
        OBVIOUS
      <4>2. i - 1 = 0 \/ i - 1 = 1 \/ i - 1 = 2 \/ i - 1 = 3
        OBVIOUS
      <4> QED BY <4>1, <4>2, Zenon
    <3> DEFINE d == 4^(i - 1)
    <3> HIDE DEF d
    <3>2. d \in {1, 4, 16, 64} => v \div d \in Nat
      BY DEF Bytes
    <3> QED BY <3>1, <3>2 DEF d
  <2> QED BY <2>1
<1>2. [q EXCEPT !.tables = [i \in 1..4 |-> (v \div 4^(i - 1)) % 4]] \in Registers
  BY <1>1, SetTables
<1>3. [q EXCEPT !.mode = v % 4] \in Registers
  BY Parts, SetByte
<1>4. \A n : [q EXCEPT !.prg[n] = v] \in Registers /\ [q EXCEPT !.chr[n] = v] \in Registers
  BY SetBank
<1>5. [q EXCEPT !.work = v] \in Registers
  BY SetByte
<1> QED BY <1>2, <1>3, <1>4, <1>5, ZenonT(60) DEF Mmc5Write

\* A digit of a VRC pattern register.
LEMMA Digits ==
  ASSUME NEW w \in Bytes, NEW v \in Bytes, NEW high
  PROVE  Digit(w, high, v) \in Bytes
BY DEF Digit, Bytes

\* The VRC boards: a write changes neither what a snapshot leaves out nor the typing.
LEMMA VrcModes ==
  ASSUME NEW c, NEW q \in Registers, NEW addr \in Addresses, NEW v \in Bytes
  PROVE  LET r == VrcMode(c, q, addr, v) IN
           r \in Registers /\ r.select = q.select /\ r.latch = q.latch /\ r.guard = q.guard
<1>1. [q EXCEPT !.tables = Swapped(v)] \in Registers /\ [q EXCEPT !.tables = FourScreen] \in Registers
  BY SetTables, Layouts
<1>2. [q EXCEPT !.mode = Bit(v, 1)] \in Registers
  <2>1. Bit(v, 1) \in Bytes
    BY Parts DEF Bytes
  <2> QED BY <2>1, SetByte
<1>3. VrcMode(c, q, addr, v) \in Registers
  BY <1>1, <1>2 DEF VrcMode
<1> QED BY <1>3 DEF VrcMode, Registers

\* The pattern registers of the VRC boards.
LEMMA VrcPages ==
  ASSUME NEW c, NEW q \in Registers, NEW addr \in Addresses, NEW v \in Bytes
  PROVE  LET r == VrcPatterns(c, q, addr, v) IN
           r \in Registers /\ r.select = q.select /\ r.latch = q.latch /\ r.guard = q.guard
<1>1. ASSUME NEW n, NEW high PROVE [q EXCEPT !.chr[n] = Digit(@, high, v)] \in Registers
  BY Digits DEF Registers
<1>2. VrcPatterns(c, q, addr, v) \in Registers
  BY <1>1, SetBank DEF VrcPatterns
<1> QED BY <1>2 DEF VrcPatterns, Registers

\* The registers of VRC7.
LEMMA Vrc7Registers ==
  ASSUME NEW q \in Registers, NEW addr \in Addresses, NEW v \in Bytes
  PROVE  LET r == Vrc7Register(q, addr, v) IN
           r \in Registers /\ r.select = q.select /\ r.latch = q.latch /\ r.guard = q.guard
<1>1. Vrc7Register(q, addr, v) \in Registers
  BY SetBank DEF Vrc7Register
<1> QED BY <1>1 DEF Vrc7Register, Registers

\* All registers of the VRC boards.
LEMMA VrcRegisters ==
  ASSUME NEW c, NEW q \in Registers, NEW addr \in Addresses, NEW v \in Bytes
  PROVE  LET r == VrcRegister(c, q, addr, v) IN
           r \in Registers /\ r.select = q.select /\ r.latch = q.latch /\ r.guard = q.guard
<1> DEFINE Kept(r) == r \in Registers /\ r.select = q.select /\ r.latch = q.latch /\ r.guard = q.guard
<1>1. Kept(VrcMode(c, q, addr, v)) /\ Kept(VrcPatterns(c, q, addr, v)) /\ Kept(Vrc7Register(q, addr, v))
  BY VrcModes, VrcPages, Vrc7Registers
<1>2. ASSUME NEW n PROVE Kept([q EXCEPT !.prg[n] = v]) /\ Kept([q EXCEPT !.chr[n] = v])
  BY SetBank DEF Registers
<1>3. Kept(q)
  OBVIOUS
<1> HIDE DEF Kept
<1>4. Kept(VrcRegister(c, q, addr, v))
  BY <1>1, <1>2, <1>3, Zenon DEF VrcRegister
<1> QED BY <1>4 DEF Kept

\* Any write to a VRC board, its sound ports and work RAM included.
LEMMA VrcWrites ==
  ASSUME NEW c, NEW q \in Registers, NEW addr \in Addresses, NEW v \in Bytes
  PROVE  LET r == VrcWrite(c, q, addr, v) IN
           r \in Registers /\ r.select = q.select /\ r.latch = q.latch /\ r.guard = q.guard
<1>1. VrcWrite(c, q, addr, v) \in Registers
  BY SetByte, VrcRegisters DEF VrcWrite
<1> QED BY <1>1, VrcRegisters DEF VrcWrite, Registers

\* FME-7.
LEMMA Fme7Writes ==
  ASSUME NEW q \in Registers, NEW addr \in Addresses, NEW v \in Bytes
  PROVE  Fme7Write(q, addr, v) \in Registers
<1>1. <<Vertical, Horizontal, Single(0), Single(1)>>[(v % 4) + 1] \in [1..4 -> 0..3]
  <2> DEFINE n == (v % 4) + 1
  <2>1. n \in 1..4
    BY DEF Bytes
  <2>2. Vertical \in [1..4 -> 0..3] /\ Horizontal \in [1..4 -> 0..3]
        /\ Single(0) \in [1..4 -> 0..3] /\ Single(1) \in [1..4 -> 0..3]
    BY Layouts
  <2> HIDE DEF n
  <2>3. <<Vertical, Horizontal, Single(0), Single(1)>>[n] \in [1..4 -> 0..3]
    BY <2>1, <2>2
  <2> QED BY <2>3 DEF n
<1>2. [q EXCEPT !.tables = <<Vertical, Horizontal, Single(0), Single(1)>>[(v % 4) + 1]] \in Registers
  BY <1>1, SetTables
<1>3. [q EXCEPT !.select = v % 16] \in Registers
  BY Parts, SetByte
<1> QED BY <1>2, <1>3, SetBank, SetByte, Zenon DEF Fme7Write

(***************************************************************************)
(* All families: each has its own operators, chosen by the number of the   *)
(* mapper.                                                                 *)
(***************************************************************************)

BankFamilies ==
  {"nrom", "uxrom", "vrc3", "cnrom", "simple", "axrom", "mmc2", "mmc3", "probe", "mmc5", "vrc", "fme7",
   "bandai", "jaleco", "shared", "n163"}

\* Every cartridge has one family of boards.
LEMMA FamilyOf ==
  ASSUME NEW c
  PROVE  /\ Family(c) \in BankFamilies
         /\ Family(c) = "simple" => c.mapper \in {11, 13, 66, 79, 34}
         /\ Family(c) = "mmc2" <=> c.mapper \in {9, 10}
         /\ Family(c) = "mmc3" => c.mapper \in {4, 118, 119}
         /\ c.mapper \in {4, 118, 119} => Family(c) = "mmc3"
BY DEF Family, BankFamilies

\* A write of any byte at any address leaves a board of its type (write_prg, all boards).
LEMMA WrittenTyped ==
  ASSUME NEW c, NEW q \in Registers, NEW addr \in Addresses, NEW v \in Bytes
  PROVE  Written(c, q, addr, v) \in Registers
<1>1. /\ {v % 2, v % 4, v % 16, v % 64} \subseteq Bytes /\ v % 2 \in 0..3
      /\ Swapped(v) \in [1..4 -> 0..3]
  BY Parts, Layouts
<1>2. NromWrite(q, addr, v) \in Registers /\ ProbeWrite(q, addr, v) \in Registers
  BY SetByte DEF NromWrite, ProbeWrite
<1>3. Vrc3Write(q, addr, v) \in Registers /\ CnromWrite(q, addr, v) \in Registers
  BY <1>1, SetBank, SetByte DEF Vrc3Write, CnromWrite
<1>4. Mmc2Write(q, addr, v) \in Registers
  BY <1>1, SetBank, SetTables DEF Mmc2Write
<1>5. Mmc3Write(q, addr, v) \in Registers
  BY Mmc3Registers, SetByte DEF Mmc3Write
<1>6. BandaiWrite(q, addr, v) \in Registers
  BY <1>1, SetBank, SetByte, SetTables DEF BandaiWrite
<1>7. JalecoWrite(q, addr, v) \in Registers /\ SharedWrite(q, addr, v) \in Registers
  BY SetBank, SetByte DEF JalecoWrite, SharedWrite
<1>8. N163Write(q, addr, v) \in Registers
  BY <1>1, SetBank, SetByte, SetTable DEF N163Write
<1>9. Family(c) = "simple" => SimpleWrite(c, q, addr, v) \in Registers
  BY FamilyOf, SimpleWrites
<1>10. Family(c) \in BankFamilies
  BY FamilyOf
<1>11. /\ UxromWrite(c, q, addr, v) \in Registers /\ AxromWrite(q, addr, v) \in Registers
       /\ Mmc5Write(q, addr, v) \in Registers /\ VrcWrite(c, q, addr, v) \in Registers
       /\ Fme7Write(q, addr, v) \in Registers
  BY UxromWrites, AxromWrites, Mmc5Writes, VrcWrites, Fme7Writes, Zenon
<1> QED BY <1>2, <1>3, <1>4, <1>5, <1>6, <1>7, <1>8, <1>9, <1>10, <1>11, Zenon DEF Written, BankFamilies

(***************************************************************************)
(* New boards.                                                             *)
(***************************************************************************)

\* There is a bank, and the last one has a number.
LEMMA Counts ==
  ASSUME NEW c \in Carts, NEW size \in {1, 2, 4, 8}
  PROVE  /\ Count(c.prg, size) \in 1..2^16
         /\ LastBank(c, size) = Count(c.prg, size) - 1 /\ LastBank(c, size) \in 0..2^16 - 1
         /\ Count(c.chr, size) \in Nat \ {0}
<1>1. c.prg \in 1..2^16 /\ c.chr \in Nat \ {0}
  BY BanksAssumption
<1>2. Count(c.prg, size) \in 1..2^16
  BY <1>1 DEF Count
<1>3. Count(c.chr, size) \in Nat \ {0}
  BY <1>1 DEF Count
<1> QED BY <1>2, <1>3 DEF LastBank, Floor

\* A board whose program registers are bytes.
LEMMA BlankTyped ==
  ASSUME NEW c, NEW prg \in [Windows -> Bytes]
  PROVE  Blank(c, prg) \in Registers
<1>1. FixedMirroring(c.header) \in [1..4 -> 0..3]
  BY Layouts
<1>2. <<FALSE, FALSE>> \in [1..2 -> BOOLEAN]
  <2>1. \A b \in BOOLEAN : <<b, b>> \in [1..2 -> BOOLEAN]
    OBVIOUS
  <2> QED BY <2>1
<1>3. [i \in Pages |-> 0] \in [Pages -> Bytes] /\ 0 \in Bytes
  BY DEF Bytes
<1> DEFINE tables == FixedMirroring(c.header)
<1> HIDE DEF tables
<1> QED BY <1>1, <1>2, <1>3, SMT DEF Blank, Registers, tables

\* A new board (the constructors of mapper.rs and mapper_scaffolds.rs).
LEMMA FreshTyped ==
  ASSUME NEW c \in Carts
  PROVE  Fresh(c) \in Registers
<1>1. Blank(c, Zeros) \in Registers
  <2>1. Zeros \in [Windows -> Bytes]
    BY DEF Zeros, Bytes
  <2> QED BY <2>1, BlankTyped
<1>2. Blank(c, Ends(c)) \in Registers
  <2>1. Ends(c) \in [Windows -> Bytes]
    <3>1. Count(c.prg, 1) \in 1..2^16
      BY Counts
    <3> QED BY <3>1 DEF Ends, Bytes, Windows, Floor
  <2> QED BY <2>1, BlankTyped
<1>3. Blank(c, [i \in Windows |-> IF i < 3 THEN i ELSE 0]) \in Registers
  <2>1. [i \in Windows |-> IF i < 3 THEN i ELSE 0] \in [Windows -> Bytes]
    BY DEF Bytes, Windows
  <2> QED BY <2>1, BlankTyped
<1>4. UxromFresh(c) \in Registers /\ SimpleFresh(c) \in Registers /\ Mmc2Fresh(c) \in Registers
      /\ Mmc3Fresh(c) \in Registers /\ BandaiFresh(c) \in Registers
  BY <1>1 DEF UxromFresh, SimpleFresh, Mmc2Fresh, Mmc3Fresh, BandaiFresh
<1>5. AxromFresh(c) \in Registers
  BY <1>1, SetTables, Layouts DEF AxromFresh
<1>6. Mmc5Fresh(c) \in Registers
  <2> DEFINE final == LastBank(c, 1) % 256
             prg == [i \in Windows |-> IF i < 2 THEN i ELSE IF i = 2 THEN Floor(final - 1) ELSE final]
             blank == Blank(c, prg)
  <2>1. final \in Bytes
    <3>1. LastBank(c, 1) \in Nat
      BY Counts
    <3> QED BY <3>1 DEF Bytes
  <2> HIDE DEF final
  <2>2. prg \in [Windows -> Bytes]
    BY <2>1 DEF Bytes, Windows, Floor
  <2>3. blank \in Registers
    BY <2>2, BlankTyped
  <2> HIDE DEF blank
  <2>4. \A m \in Bytes : \A t \in [1..4 -> 0..3] : [blank EXCEPT !.mode = m, !.tables = t] \in Registers
    BY <2>3 DEF Registers
  <2>5. 3 \in Bytes /\ Single(0) \in [1..4 -> 0..3]
    BY Layouts DEF Bytes
  <2> QED BY <2>4, <2>5 DEF Mmc5Fresh, blank, final
<1>7. VrcFresh(c) \in Registers /\ SharedFresh(c) \in Registers
  BY <1>2 DEF VrcFresh, SharedFresh
<1>8. Fme7Fresh(c) \in Registers
  BY <1>2, SetTables, Layouts DEF Fme7Fresh
<1>9. JalecoFresh(c) \in Registers
  BY <1>3 DEF JalecoFresh
<1>10. N163Fresh(c) \in Registers
  BY <1>3, SetTables, Layouts DEF N163Fresh
<1>11. Family(c) \in BankFamilies
  BY FamilyOf
<1> QED BY <1>1, <1>4, <1>5, <1>6, <1>7, <1>8, <1>9, <1>10, <1>11, Zenon DEF Fresh, BankFamilies

\* A pattern fetched by the PPU moves the latches of MMC2 and MMC4 and nothing else.
LEMMA NotifyTyped ==
  ASSUME NEW q \in Registers, NEW addr \in 0..2^13 - 1
  PROVE  LET r == Mmc2Notify(q, addr) IN
           /\ r \in Registers
           /\ r.prg = q.prg /\ r.chr = q.chr /\ r.select = q.select /\ r.mode = q.mode
           /\ r.tables = q.tables /\ r.work = q.work /\ r.guard = q.guard
<1>1. \A n : \A b \in BOOLEAN : [q EXCEPT !.latch[n] = b] \in Registers
  BY SetLatch
<1>2. Mmc2Notify(q, addr) \in Registers
  <2> DEFINE n == (addr \div 4096) + 1
  <2>1. Mmc2Notify(q, addr) \in {[q EXCEPT !.latch[n] = FALSE], [q EXCEPT !.latch[n] = TRUE], q}
    BY DEF Mmc2Notify
  <2> HIDE DEF n
  <2>2. [q EXCEPT !.latch[n] = FALSE] \in Registers /\ [q EXCEPT !.latch[n] = TRUE] \in Registers
    BY <1>1
  <2> QED BY <2>1, <2>2
<1> QED BY <1>2 DEF Mmc2Notify, Registers

(***************************************************************************)
(* Snapshots.  A board saves some of its registers and a new board takes   *)
(* them back.  That nothing is lost is an invariant of the run, not of one *)
(* step: a register that is not saved must still hold what a new board     *)
(* holds in it, so that no write may ever touch it.  For each family: what *)
(* is taken back (Restores), and that a write which changes no other       *)
(* register keeps the snapshot whole (Resumes).                            *)
(***************************************************************************)

\* Boards equal in every field are equal.
LEMMA SameRegisters ==
  ASSUME NEW p \in Registers, NEW q \in Registers,
         p.prg = q.prg, p.chr = q.chr, p.select = q.select, p.mode = q.mode,
         p.latch = q.latch, p.tables = q.tables, p.work = q.work, p.guard = q.guard
  PROVE  p = q
BY DEF Registers

\* NROM saves its work RAM.
LEMMA NromResumes ==
  ASSUME NEW new \in Registers, NEW q \in Registers, NEW r \in Registers, NromRestore(new, q) = q,
         r.prg = q.prg, r.chr = q.chr, r.select = q.select, r.mode = q.mode, r.latch = q.latch,
         r.tables = q.tables, r.guard = q.guard
  PROVE  NromRestore(new, r) = r
<1>1. NromRestore(new, r) \in Registers
  BY DEF NromRestore, Registers
<1> QED BY <1>1, SameRegisters DEF NromRestore, Registers

\* UxROM saves its bank.
LEMMA UxromResumes ==
  ASSUME NEW new \in Registers, NEW q \in Registers, NEW r \in Registers, UxromRestore(new, q) = q,
         r.chr = q.chr, r.select = q.select, r.mode = q.mode, r.latch = q.latch, r.tables = q.tables,
         r.work = q.work, r.guard = q.guard, \A n \in Windows : n # 0 => r.prg[n] = q.prg[n]
  PROVE  UxromRestore(new, r) = r
<1>1. UxromRestore(new, r) \in Registers
  BY DEF UxromRestore, Registers, Windows
<1>2. UxromRestore(new, r).prg = r.prg
  BY DEF UxromRestore, Registers, Windows
<1> QED BY <1>1, <1>2, SameRegisters DEF UxromRestore, Registers

\* What VRC3 takes back: the bank and the work RAM; the rest stays as on the new board.
LEMMA Vrc3Restores ==
  ASSUME NEW new \in Registers, NEW saved \in Registers
  PROVE  LET s == Vrc3Restore(new, saved) IN
           /\ s \in Registers /\ s.prg = [new.prg EXCEPT ![0] = saved.prg[0]]
           /\ s.chr = new.chr
           /\ s.select = new.select /\ s.mode = new.mode /\ s.latch = new.latch
           /\ s.tables = new.tables /\ s.work = saved.work /\ s.guard = new.guard
<1>1. \A a \in Bytes : \A w \in Bytes :
        [new EXCEPT !.prg[0] = a, !.work = w] \in Registers
  BY DEF Registers
<1>2. /\ saved.prg[0] \in Bytes /\ saved.work \in Bytes
  BY DEF Registers, Windows, Pages
<1>3. Vrc3Restore(new, saved) \in Registers
  BY <1>1, <1>2 DEF Vrc3Restore
<1> QED BY <1>3 DEF Vrc3Restore, Registers

\* A write that stays within what VRC3 saves keeps the snapshot whole.
LEMMA Vrc3Resumes ==
  ASSUME NEW new \in Registers, NEW q \in Registers, NEW r \in Registers,
         Vrc3Restore(new, q) = q,
         r.chr = q.chr, r.select = q.select, r.mode = q.mode, r.latch = q.latch, r.tables = q.tables,
         r.guard = q.guard, \A n \in Windows : n # 0 => r.prg[n] = q.prg[n]
  PROVE  Vrc3Restore(new, r) = r
<1> DEFINE p == Vrc3Restore(new, r)
<1>1. /\ p \in Registers /\ p.chr = new.chr /\ p.select = new.select
      /\ p.mode = new.mode /\ p.latch = new.latch /\ p.tables = new.tables
      /\ p.guard = new.guard /\ p.work = r.work /\ p.prg = [new.prg EXCEPT ![0] = r.prg[0]]
  BY Vrc3Restores, ZenonT(60)
<1>2. /\ q.chr = new.chr /\ q.select = new.select /\ q.mode = new.mode
      /\ q.latch = new.latch /\ q.tables = new.tables /\ q.guard = new.guard
      /\ q.prg = [new.prg EXCEPT ![0] = q.prg[0]]
  <2> DEFINE s == Vrc3Restore(new, q)
  <2>1. /\ s.chr = new.chr /\ s.select = new.select /\ s.mode = new.mode
        /\ s.latch = new.latch /\ s.tables = new.tables /\ s.guard = new.guard
        /\ s.prg = [new.prg EXCEPT ![0] = q.prg[0]]
    BY Vrc3Restores, ZenonT(60)
  <2> QED BY <2>1
<1> HIDE DEF p
<1>3. {new.prg, q.prg, r.prg} \subseteq [Windows -> Bytes]
  BY DEF Registers
<1>4. p.prg = r.prg
  BY <1>1, <1>2, <1>3
<1>6. p = r
  BY <1>1, <1>2, <1>4, SameRegisters
<1> QED BY <1>6 DEF p

\* What a board with one latch takes back: its two banks.
LEMMA SimpleRestores ==
  ASSUME NEW new \in Registers, NEW saved \in Registers
  PROVE  LET s == SimpleRestore(new, saved) IN
           /\ s \in Registers /\ s.prg = [new.prg EXCEPT ![0] = saved.prg[0]]
           /\ s.chr = [new.chr EXCEPT ![0] = saved.chr[0]]
           /\ s.select = new.select /\ s.mode = new.mode /\ s.latch = new.latch
           /\ s.tables = new.tables /\ s.work = new.work /\ s.guard = new.guard
<1>1. \A a \in Bytes : \A b \in Bytes :
        [new EXCEPT !.prg[0] = a, !.chr[0] = b] \in Registers
  BY DEF Registers
<1>2. /\ saved.prg[0] \in Bytes /\ saved.chr[0] \in Bytes
  BY DEF Registers, Windows, Pages
<1>3. SimpleRestore(new, saved) \in Registers
  BY <1>1, <1>2 DEF SimpleRestore
<1> QED BY <1>3 DEF SimpleRestore, Registers

\* A write that stays within what a board with one latch saves.
LEMMA SimpleResumes ==
  ASSUME NEW new \in Registers, NEW q \in Registers, NEW r \in Registers,
         SimpleRestore(new, q) = q,
         r.select = q.select, r.mode = q.mode, r.latch = q.latch, r.tables = q.tables,
         r.work = q.work, r.guard = q.guard, \A n \in Windows : n # 0 => r.prg[n] = q.prg[n],
         \A n \in Pages : n # 0 => r.chr[n] = q.chr[n]
  PROVE  SimpleRestore(new, r) = r
<1> DEFINE p == SimpleRestore(new, r)
<1>1. /\ p \in Registers /\ p.select = new.select /\ p.mode = new.mode
      /\ p.latch = new.latch /\ p.tables = new.tables /\ p.work = new.work
      /\ p.guard = new.guard /\ p.prg = [new.prg EXCEPT ![0] = r.prg[0]]
      /\ p.chr = [new.chr EXCEPT ![0] = r.chr[0]]
  BY SimpleRestores, ZenonT(60)
<1>2. /\ q.select = new.select /\ q.mode = new.mode /\ q.latch = new.latch
      /\ q.tables = new.tables /\ q.work = new.work /\ q.guard = new.guard
      /\ q.prg = [new.prg EXCEPT ![0] = q.prg[0]] /\ q.chr = [new.chr EXCEPT ![0] = q.chr[0]]
  <2> DEFINE s == SimpleRestore(new, q)
  <2>1. /\ s.select = new.select /\ s.mode = new.mode /\ s.latch = new.latch
        /\ s.tables = new.tables /\ s.work = new.work /\ s.guard = new.guard
        /\ s.prg = [new.prg EXCEPT ![0] = q.prg[0]] /\ s.chr = [new.chr EXCEPT ![0] = q.chr[0]]
    BY SimpleRestores, ZenonT(60)
  <2> QED BY <2>1
<1> HIDE DEF p
<1>3. {new.prg, q.prg, r.prg} \subseteq [Windows -> Bytes] /\ {new.chr, q.chr, r.chr} \subseteq [Pages -> Bytes]
  BY DEF Registers
<1>4. p.prg = r.prg
  BY <1>1, <1>2, <1>3
<1>5. p.chr = r.chr
  BY <1>1, <1>2, <1>3
<1>6. p = r
  BY <1>1, <1>2, <1>4, <1>5, SameRegisters
<1> QED BY <1>6 DEF p

\* What MMC2 and MMC4 take back: the bank, four pattern banks, the latches and the mirroring.
LEMMA Mmc2Restores ==
  ASSUME NEW new \in Registers, NEW saved \in Registers
  PROVE  LET s == Mmc2Restore(new, saved) IN
           /\ s \in Registers /\ s.prg = [new.prg EXCEPT ![0] = saved.prg[0]]
           /\ s.chr = [i \in Pages |-> IF i < 4 THEN saved.chr[i] ELSE new.chr[i]]
           /\ s.select = new.select /\ s.mode = new.mode /\ s.latch = saved.latch
           /\ s.tables = saved.tables /\ s.work = new.work /\ s.guard = new.guard
<1>1. \A a \in Bytes : \A l \in [1..2 -> BOOLEAN] : \A t \in [1..4 -> 0..3] : \A b \in [Pages -> Bytes] :
        [new EXCEPT !.prg[0] = a, !.latch = l, !.tables = t, !.chr = b] \in Registers
  BY DEF Registers
<1>2. /\ saved.prg[0] \in Bytes /\ saved.latch \in [1..2 -> BOOLEAN]
      /\ saved.tables \in [1..4 -> 0..3]
      /\ [i \in Pages |-> IF i < 4 THEN saved.chr[i] ELSE new.chr[i]] \in [Pages -> Bytes]
  BY DEF Registers, Windows, Pages
<1>3. Mmc2Restore(new, saved) \in Registers
  BY <1>1, <1>2 DEF Mmc2Restore
<1> QED BY <1>3 DEF Mmc2Restore, Registers

\* A write that stays within what MMC2 and MMC4 save.
LEMMA Mmc2Resumes ==
  ASSUME NEW new \in Registers, NEW q \in Registers, NEW r \in Registers,
         Mmc2Restore(new, q) = q,
         r.select = q.select, r.mode = q.mode, r.work = q.work, r.guard = q.guard,
         \A n \in Windows : n # 0 => r.prg[n] = q.prg[n],
         \A n \in Pages : n >= 4 => r.chr[n] = q.chr[n]
  PROVE  Mmc2Restore(new, r) = r
<1> DEFINE p == Mmc2Restore(new, r)
<1>1. /\ p \in Registers /\ p.select = new.select /\ p.mode = new.mode
      /\ p.work = new.work /\ p.guard = new.guard /\ p.latch = r.latch
      /\ p.tables = r.tables /\ p.prg = [new.prg EXCEPT ![0] = r.prg[0]]
      /\ p.chr = [i \in Pages |-> IF i < 4 THEN r.chr[i] ELSE new.chr[i]]
  BY Mmc2Restores, ZenonT(60)
<1>2. /\ q.select = new.select /\ q.mode = new.mode /\ q.work = new.work
      /\ q.guard = new.guard /\ q.prg = [new.prg EXCEPT ![0] = q.prg[0]]
      /\ q.chr = [i \in Pages |-> IF i < 4 THEN q.chr[i] ELSE new.chr[i]]
  <2> DEFINE s == Mmc2Restore(new, q)
  <2>1. /\ s.select = new.select /\ s.mode = new.mode /\ s.work = new.work
        /\ s.guard = new.guard /\ s.prg = [new.prg EXCEPT ![0] = q.prg[0]]
        /\ s.chr = [i \in Pages |-> IF i < 4 THEN q.chr[i] ELSE new.chr[i]]
    BY Mmc2Restores, ZenonT(60)
  <2> QED BY <2>1
<1> HIDE DEF p
<1>3. {new.prg, q.prg, r.prg} \subseteq [Windows -> Bytes] /\ {new.chr, q.chr, r.chr} \subseteq [Pages -> Bytes]
  BY DEF Registers
<1>4. p.prg = r.prg
  BY <1>1, <1>2, <1>3
<1>5. p.chr = r.chr
  BY <1>1, <1>2, <1>3 DEF Pages
<1>6. p = r
  BY <1>1, <1>2, <1>4, <1>5, SameRegisters
<1> QED BY <1>6 DEF p

\* What MMC3 takes back: all but its mirroring.
LEMMA Mmc3Restores ==
  ASSUME NEW new \in Registers, NEW saved \in Registers
  PROVE  LET s == Mmc3Restore(new, saved) IN
           /\ s \in Registers /\ s.prg = saved.prg /\ s.chr = saved.chr
           /\ s.select = saved.select /\ s.mode = new.mode /\ s.latch = new.latch
           /\ s.tables = new.tables /\ s.work = saved.work /\ s.guard = new.guard
<1>1. \A s \in Bytes : \A a \in [Windows -> Bytes] : \A b \in [Pages -> Bytes] : \A w \in Bytes :
        [new EXCEPT !.select = s, !.prg = a, !.chr = b, !.work = w] \in Registers
  BY DEF Registers
<1>2. /\ saved.select \in Bytes /\ saved.prg \in [Windows -> Bytes]
      /\ saved.chr \in [Pages -> Bytes] /\ saved.work \in Bytes
  BY DEF Registers, Windows, Pages
<1>3. Mmc3Restore(new, saved) \in Registers
  BY <1>1, <1>2 DEF Mmc3Restore
<1> QED BY <1>3 DEF Mmc3Restore, Registers

\* A write to MMC3: the mirroring alone is lost.
LEMMA Mmc3Resumes ==
  ASSUME NEW new \in Registers, NEW q \in Registers, NEW r \in Registers,
         Mmc3Restore(new, q) = [q EXCEPT !.tables = new.tables],
         r.mode = q.mode, r.latch = q.latch, r.guard = q.guard
  PROVE  Mmc3Restore(new, r) = [r EXCEPT !.tables = new.tables]
<1>1. [q EXCEPT !.tables = new.tables] \in Registers /\ [r EXCEPT !.tables = new.tables] \in Registers
  BY SetTables DEF Registers
<1> QED BY <1>1, Mmc3Restores, SameRegisters, SMTT(30) DEF Registers

\* What a VRC board takes back: all but its mirroring.
LEMMA VrcRestores ==
  ASSUME NEW new \in Registers, NEW saved \in Registers
  PROVE  LET s == VrcRestore(new, saved) IN
           /\ s \in Registers /\ s.prg = saved.prg /\ s.chr = saved.chr
           /\ s.select = new.select /\ s.mode = saved.mode /\ s.latch = new.latch
           /\ s.tables = new.tables /\ s.work = saved.work /\ s.guard = new.guard
<1>1. \A m \in Bytes : \A a \in [Windows -> Bytes] : \A b \in [Pages -> Bytes] : \A w \in Bytes :
        [new EXCEPT !.mode = m, !.prg = a, !.chr = b, !.work = w] \in Registers
  BY DEF Registers
<1>2. /\ saved.mode \in Bytes /\ saved.prg \in [Windows -> Bytes]
      /\ saved.chr \in [Pages -> Bytes] /\ saved.work \in Bytes
  BY DEF Registers, Windows, Pages
<1>3. VrcRestore(new, saved) \in Registers
  BY <1>1, <1>2 DEF VrcRestore
<1> QED BY <1>3 DEF VrcRestore, Registers

\* A write to a VRC board: the mirroring alone is lost.
LEMMA VrcResumes ==
  ASSUME NEW new \in Registers, NEW q \in Registers, NEW r \in Registers,
         VrcRestore(new, q) = [q EXCEPT !.tables = new.tables],
         r.select = q.select, r.latch = q.latch, r.guard = q.guard
  PROVE  VrcRestore(new, r) = [r EXCEPT !.tables = new.tables]
<1>1. [q EXCEPT !.tables = new.tables] \in Registers /\ [r EXCEPT !.tables = new.tables] \in Registers
  BY SetTables DEF Registers
<1> QED BY <1>1, VrcRestores, SameRegisters, SMTT(30) DEF Registers

\* What Namco 163 takes back.
LEMMA N163Restores ==
  ASSUME NEW new \in Registers, NEW saved \in Registers
  PROVE  LET s == N163Restore(new, saved) IN
           /\ s \in Registers /\ s.prg = saved.prg /\ s.chr = saved.chr
           /\ s.select = new.select /\ s.mode = new.mode /\ s.latch = new.latch
           /\ s.tables = saved.tables /\ s.work = saved.work /\ s.guard = saved.guard
<1>1. \A g \in Bytes : \A a \in [Windows -> Bytes] : \A b \in [Pages -> Bytes] : \A t \in [1..4 -> 0..3] :
      \A w \in Bytes :
        [new EXCEPT !.guard = g, !.prg = a, !.chr = b, !.tables = t, !.work = w] \in Registers
  BY DEF Registers
<1>2. /\ saved.guard \in Bytes /\ saved.prg \in [Windows -> Bytes]
      /\ saved.chr \in [Pages -> Bytes] /\ saved.tables \in [1..4 -> 0..3]
      /\ saved.work \in Bytes
  BY DEF Registers, Windows, Pages
<1>3. N163Restore(new, saved) \in Registers
  BY <1>1, <1>2 DEF N163Restore
<1> QED BY <1>3 DEF N163Restore, Registers

\* A write that stays within what Namco 163 saves.
LEMMA N163Resumes ==
  ASSUME NEW new \in Registers, NEW q \in Registers, NEW r \in Registers,
         N163Restore(new, q) = q,
         r.select = q.select, r.mode = q.mode, r.latch = q.latch
  PROVE  N163Restore(new, r) = r
<1> DEFINE p == N163Restore(new, r)
<1>1. /\ p \in Registers /\ p.select = new.select /\ p.mode = new.mode
      /\ p.latch = new.latch /\ p.guard = r.guard /\ p.prg = r.prg
      /\ p.chr = r.chr /\ p.tables = r.tables /\ p.work = r.work
  BY N163Restores, ZenonT(60)
<1>2. /\ q.select = new.select /\ q.mode = new.mode /\ q.latch = new.latch
  <2> DEFINE s == N163Restore(new, q)
  <2>1. /\ s.select = new.select /\ s.mode = new.mode /\ s.latch = new.latch
    BY N163Restores, ZenonT(60)
  <2> QED BY <2>1
<1> HIDE DEF p
<1>6. p = r
  BY <1>1, <1>2, SameRegisters
<1> QED BY <1>6 DEF p

\* A new board that takes the snapshot back is the saved one; but MMC3 and the VRC boards do not save
\* their mirroring (snapshot_bytes, restore_snapshot_bytes).
Resumes(c, q) ==
  Restorable(c) =>
    Restored(c, Fresh(c), q) =
      IF Family(c) \in {"mmc3", "vrc"} THEN [q EXCEPT !.tables = Fresh(c).tables] ELSE q

\* The boards whose snapshot is taken back.
LEMMA RestorableFamily ==
  ASSUME NEW c, Restorable(c)
  PROVE  Family(c) \in {"nrom", "uxrom", "vrc3", "simple", "mmc2", "mmc3", "vrc", "n163"}
BY DEF Restorable

\* A board that takes back its own snapshot stays what it is.
LEMMA RestoredNew ==
  ASSUME NEW q \in Registers
  PROVE  /\ NromRestore(q, q) = q /\ UxromRestore(q, q) = q /\ Vrc3Restore(q, q) = q
         /\ SimpleRestore(q, q) = q /\ Mmc2Restore(q, q) = q /\ Mmc3Restore(q, q) = q
         /\ VrcRestore(q, q) = q /\ N163Restore(q, q) = q
         /\ [q EXCEPT !.tables = q.tables] = q
<1>1. [q EXCEPT !.tables = q.tables] = q /\ NromRestore(q, q) = q /\ UxromRestore(q, q) = q
  BY DEF Registers, NromRestore, UxromRestore, Windows
<1>2. ASSUME NEW p \in Registers, p.prg = q.prg, p.chr = q.chr, p.select = q.select, p.mode = q.mode,
             p.latch = q.latch, p.tables = q.tables, p.work = q.work, p.guard = q.guard
      PROVE  p = q
  BY <1>2, SameRegisters
<1>3. /\ [q.prg EXCEPT ![0] = q.prg[0]] = q.prg /\ [q.chr EXCEPT ![0] = q.chr[0]] = q.chr
      /\ [i \in Pages |-> IF i < 4 THEN q.chr[i] ELSE q.chr[i]] = q.chr
  BY DEF Registers
<1>4. Vrc3Restore(q, q) = q /\ SimpleRestore(q, q) = q /\ Mmc2Restore(q, q) = q
  <2>1. Vrc3Restore(q, q) = q
    BY <1>2, <1>3, Vrc3Restores
  <2>2. SimpleRestore(q, q) = q
    BY <1>2, <1>3, SimpleRestores
  <2>3. Mmc2Restore(q, q) = q
    BY <1>2, <1>3, Mmc2Restores
  <2> QED BY <2>1, <2>2, <2>3
<1>5. Mmc3Restore(q, q) = q /\ VrcRestore(q, q) = q /\ N163Restore(q, q) = q
  BY <1>2, Mmc3Restores, VrcRestores, N163Restores, ZenonT(60)
<1> QED BY <1>1, <1>4, <1>5

\* The snapshot of a new board is taken back whole.
LEMMA FreshResumes ==
  ASSUME NEW c \in Carts
  PROVE  Resumes(c, Fresh(c))
<1> DEFINE new == Fresh(c)
<1>1. new \in Registers
  BY FreshTyped
<1> HIDE DEF new
<1>2. ASSUME Restorable(c) PROVE Restored(c, new, new) = new
  <2>1. Family(c) \in {"nrom", "uxrom", "vrc3", "simple", "mmc2", "mmc3", "vrc", "n163"}
    BY <1>2, RestorableFamily
  <2> QED BY <1>1, <2>1, RestoredNew, Zenon DEF Restored
<1>3. [new EXCEPT !.tables = new.tables] = new
  BY <1>1, RestoredNew
<1> QED BY <1>2, <1>3 DEF Resumes, new

\* Every write keeps that: a board writes no register that its snapshot leaves out, save mirroring.
LEMMA WriteResumes ==
  ASSUME NEW c \in Carts, NEW q \in Registers, NEW addr \in Addresses, NEW v \in Bytes, Resumes(c, q)
  PROVE  Resumes(c, Written(c, q, addr, v))
<1> DEFINE new == Fresh(c)
           r == Written(c, q, addr, v)
<1> SUFFICES ASSUME Restorable(c)
             PROVE  Restored(c, new, r) =
                      IF Family(c) \in {"mmc3", "vrc"} THEN [r EXCEPT !.tables = new.tables] ELSE r
  BY DEF Resumes
<1>1. new \in Registers
  BY FreshTyped
<1>2. r \in Registers
  BY WrittenTyped
<1>3. Restored(c, new, q) = IF Family(c) \in {"mmc3", "vrc"} THEN [q EXCEPT !.tables = new.tables] ELSE q
  BY DEF Resumes
<1>4. Family(c) \in {"nrom", "uxrom", "vrc3", "simple", "mmc2", "mmc3", "vrc", "n163"}
  BY RestorableFamily
<1> HIDE DEF new, r
<1>5. CASE Family(c) = "nrom"
  <2>1. r = NromWrite(q, addr, v)
    BY <1>5, Zenon DEF Written, r
  <2>2. /\ r.prg = q.prg /\ r.chr = q.chr /\ r.select = q.select /\ r.mode = q.mode
        /\ r.latch = q.latch /\ r.tables = q.tables /\ r.guard = q.guard
    BY <2>1 DEF NromWrite, Registers
  <2>3. NromRestore(new, q) = q
    BY <1>5, <1>3, Zenon DEF Restored
  <2>4. NromRestore(new, r) = r
    BY <1>1, <1>2, <2>2, <2>3, NromResumes
  <2> QED BY <1>5, <2>4, Zenon DEF Restored
<1>6. CASE Family(c) = "uxrom"
  <2>1. r = UxromWrite(c, q, addr, v)
    BY <1>6, Zenon DEF Written, r
  <2>2. /\ r.chr = q.chr /\ r.select = q.select /\ r.mode = q.mode /\ r.latch = q.latch
        /\ r.tables = q.tables /\ r.work = q.work /\ r.guard = q.guard
        /\ \A n \in Windows : n # 0 => r.prg[n] = q.prg[n]
    BY <2>1 DEF UxromWrite, Registers
  <2>3. UxromRestore(new, q) = q
    BY <1>6, <1>3, Zenon DEF Restored
  <2>4. UxromRestore(new, r) = r
    BY <1>1, <1>2, <2>2, <2>3, UxromResumes
  <2> QED BY <1>6, <2>4, Zenon DEF Restored
<1>7. CASE Family(c) = "vrc3"
  <2>1. r = Vrc3Write(q, addr, v)
    BY <1>7, Zenon DEF Written, r
  <2>2. /\ r.chr = q.chr /\ r.select = q.select /\ r.mode = q.mode /\ r.latch = q.latch
        /\ r.tables = q.tables /\ r.guard = q.guard
        /\ \A n \in Windows : n # 0 => r.prg[n] = q.prg[n]
    BY <2>1 DEF Vrc3Write, Registers
  <2>3. Vrc3Restore(new, q) = q
    BY <1>7, <1>3, Zenon DEF Restored
  <2>4. Vrc3Restore(new, r) = r
    BY <1>1, <1>2, <2>2, <2>3, Vrc3Resumes
  <2> QED BY <1>7, <2>4, Zenon DEF Restored
<1>8. CASE Family(c) = "simple"
  <2>1. r = SimpleWrite(c, q, addr, v)
    BY <1>8, Zenon DEF Written, r
  <2>2. /\ r.select = q.select /\ r.mode = q.mode /\ r.latch = q.latch /\ r.tables = q.tables
        /\ r.work = q.work /\ r.guard = q.guard
        /\ \A n \in Windows : n # 0 => r.prg[n] = q.prg[n]
        /\ \A n \in Pages : n # 0 => r.chr[n] = q.chr[n]
    BY <2>1 DEF SimpleWrite, Registers
  <2>3. SimpleRestore(new, q) = q
    BY <1>8, <1>3, Zenon DEF Restored
  <2>4. SimpleRestore(new, r) = r
    BY <1>1, <1>2, <2>2, <2>3, SimpleResumes
  <2> QED BY <1>8, <2>4, Zenon DEF Restored
<1>9. CASE Family(c) = "mmc2"
  <2>1. r = Mmc2Write(q, addr, v)
    BY <1>9, Zenon DEF Written, r
  <2>2. /\ r.select = q.select /\ r.mode = q.mode /\ r.work = q.work /\ r.guard = q.guard
        /\ \A n \in Windows : n # 0 => r.prg[n] = q.prg[n]
        /\ \A n \in Pages : n >= 4 => r.chr[n] = q.chr[n]
    BY <2>1 DEF Mmc2Write, Registers
  <2>3. Mmc2Restore(new, q) = q
    BY <1>9, <1>3, Zenon DEF Restored
  <2>4. Mmc2Restore(new, r) = r
    BY <1>1, <1>2, <2>2, <2>3, Mmc2Resumes
  <2> QED BY <1>9, <2>4, Zenon DEF Restored
<1>10. CASE Family(c) = "mmc3"
  <2>1. r = Mmc3Write(q, addr, v)
    BY <1>10, Zenon DEF Written, r
  <2>2. /\ r.mode = q.mode /\ r.latch = q.latch /\ r.guard = q.guard
    BY <2>1 DEF Mmc3Write, Mmc3Register, Registers
  <2>3. Mmc3Restore(new, q) = [q EXCEPT !.tables = new.tables]
    BY <1>10, <1>3, Zenon DEF Restored
  <2>4. Mmc3Restore(new, r) = [r EXCEPT !.tables = new.tables]
    BY <1>1, <1>2, <2>2, <2>3, Mmc3Resumes
  <2> QED BY <1>10, <2>4, Zenon DEF Restored
<1>11. CASE Family(c) = "vrc"
  <2>1. r = VrcWrite(c, q, addr, v)
    BY <1>11, Zenon DEF Written, r
  <2>2. /\ r.select = q.select /\ r.latch = q.latch /\ r.guard = q.guard
    BY <1>11, <2>1, VrcWrites
  <2>3. VrcRestore(new, q) = [q EXCEPT !.tables = new.tables]
    BY <1>11, <1>3, Zenon DEF Restored
  <2>4. VrcRestore(new, r) = [r EXCEPT !.tables = new.tables]
    BY <1>1, <1>2, <2>2, <2>3, VrcResumes
  <2> QED BY <1>11, <2>4, Zenon DEF Restored
<1>12. CASE Family(c) = "n163"
  <2>1. r = N163Write(q, addr, v)
    BY <1>12, Zenon DEF Written, r
  <2>2. /\ r.select = q.select /\ r.mode = q.mode /\ r.latch = q.latch
    BY <2>1 DEF N163Write, Registers
  <2>3. N163Restore(new, q) = q
    BY <1>12, <1>3, Zenon DEF Restored
  <2>4. N163Restore(new, r) = r
    BY <1>1, <1>2, <2>2, <2>3, N163Resumes
  <2> QED BY <1>12, <2>4, Zenon DEF Restored
<1> QED BY <1>4, <1>5, <1>6, <1>7, <1>8, <1>9, <1>10, <1>11, <1>12

\* So does every fetch.
LEMMA NotifyResumes ==
  ASSUME NEW c \in Carts, NEW q \in Registers, NEW addr \in 0..2^13 - 1, Family(c) = "mmc2", Resumes(c, q)
  PROVE  Resumes(c, Mmc2Notify(q, addr))
<1> DEFINE new == Fresh(c)
           r == Mmc2Notify(q, addr)
<1>1. new \in Registers
  BY FreshTyped
<1>2. /\ r \in Registers /\ r.prg = q.prg /\ r.chr = q.chr /\ r.select = q.select /\ r.mode = q.mode
      /\ r.work = q.work /\ r.guard = q.guard
  BY NotifyTyped
<1> HIDE DEF new, r
<1>3. Restorable(c)
  BY DEF Restorable
<1>4. Restored(c, new, q) = Mmc2Restore(new, q) /\ Restored(c, new, r) = Mmc2Restore(new, r)
  BY Zenon DEF Restored
<1>5. Mmc2Restore(new, q) = q
  BY <1>3, <1>4 DEF Resumes, new
<1>6. Mmc2Restore(new, r) = r
  BY <1>1, <1>2, <1>5, Mmc2Resumes
<1> QED BY <1>4, <1>6 DEF Resumes, new, r

(***************************************************************************)
(* What the lost mirroring of MMC3 and VRC means: two boards that are the  *)
(* same but for it show the same, and still do after the same write.       *)
(***************************************************************************)

\* Two boards with the same banks, modes and work RAM.
Alike(p, q) ==
  /\ p.prg = q.prg /\ p.chr = q.chr /\ p.select = q.select /\ p.mode = q.mode /\ p.work = q.work

\* Of such boards of MMC3 and VRC the program, the patterns, the labels and the windows are the same:
\* the mirroring that the snapshot leaves out decides none of them.
LEMMA ShownAlike ==
  ASSUME NEW c, Family(c) \in {"mmc3", "vrc"}, NEW p \in Registers, NEW q \in Registers, Alike(p, q)
  PROVE  Shown(c, p) = Shown(c, q)
<1>1. CASE Family(c) = "mmc3"
  <2>1. Mmc3Windows(c, p) = Mmc3Windows(c, q)
    BY DEF Alike, Mmc3Windows
  <2>2. \A page : Mmc3Bank(p, page) = Mmc3Bank(q, page)
    BY DEF Alike, Mmc3Bank
  <2>3. \A slot : ReadPrg(c, p, slot) = ReadPrg(c, q, slot)
    BY <1>1, <2>1, Zenon DEF ReadPrg, Mmc3Read
  <2>4. \A page : ReadChr(c, p, page) = ReadChr(c, q, page)
    <3>1. \A page : Mmc3Pattern(c, p, page) = Mmc3Pattern(c, q, page)
      BY <2>2 DEF Mmc3Pattern, InVariantRam
    <3> QED BY <1>1, <3>1, Zenon DEF ReadChr
  <2>5. c.mapper \in {4, 119} \/ NameTables(c, p) = NameTables(c, q)
    <3>1. c.mapper \in {4, 119} \/ Mmc3Tables(c, p) = Mmc3Tables(c, q)
      BY <1>1, FamilyOf DEF Mmc3Tables, Alike
    <3> QED BY <1>1, <3>1, Zenon DEF NameTables
  <2> QED BY <2>3, <2>4, <2>5, Zenon DEF Shown, Alike
<1>2. CASE Family(c) = "vrc"
  <2>1. VrcWindows(c, p) = VrcWindows(c, q)
    BY DEF Alike, VrcWindows, LastFixed, Wrapped
  <2>2. \A slot : ReadPrg(c, p, slot) = ReadPrg(c, q, slot)
    BY <1>2, <2>1, Zenon DEF ReadPrg, VrcRead
  <2>3. \A page : ReadChr(c, p, page) = ReadChr(c, q, page)
    BY <1>2, Zenon DEF ReadChr, VrcPattern, Alike
  <2>4. NameTables(c, p) = NameTables(c, q)
    BY <1>2, Zenon DEF NameTables
  <2> QED BY <2>2, <2>3, <2>4, Zenon DEF Shown, Alike
<1> QED BY <1>1, <1>2

\* They stay alike when one register of both takes the same value.
LEMMA SetAlike ==
  ASSUME NEW p \in Registers, NEW q \in Registers, Alike(p, q)
  PROVE  /\ \A n, v : Alike([p EXCEPT !.prg[n] = v], [q EXCEPT !.prg[n] = v])
         /\ \A n, v : Alike([p EXCEPT !.chr[n] = v], [q EXCEPT !.chr[n] = v])
         /\ \A v : Alike([p EXCEPT !.select = v], [q EXCEPT !.select = v])
         /\ \A v : Alike([p EXCEPT !.mode = v], [q EXCEPT !.mode = v])
         /\ \A v : Alike([p EXCEPT !.work = v], [q EXCEPT !.work = v])
         /\ \A v : Alike([p EXCEPT !.tables = v], [q EXCEPT !.tables = v])
BY DEF Alike, Registers

\* They stay alike under every write: MMC3.
LEMMA Mmc3Alike ==
  ASSUME NEW p \in Registers, NEW q \in Registers, Alike(p, q),
         NEW addr \in Addresses, NEW v \in Bytes
  PROVE  Alike(Mmc3Write(p, addr, v), Mmc3Write(q, addr, v))
<1> DEFINE g == addr \div 8192
           n == q.select % 8
           even == addr % 2 = 0
<1>1. p.select = q.select
  BY DEF Alike
<1>2. Alike(Mmc3Register(p, addr, v), Mmc3Register(q, addr, v))
  <2>1. CASE g = 4 /\ even
    <3>1. Mmc3Register(p, addr, v) = [p EXCEPT !.select = v]
      BY <2>1 DEF Mmc3Register
    <3>2. Mmc3Register(q, addr, v) = [q EXCEPT !.select = v]
      BY <2>1 DEF Mmc3Register
    <3>3. Alike([p EXCEPT !.select = v],
                [q EXCEPT !.select = v])
      BY DEF Alike, Registers
    <3> QED BY <3>1, <3>2, <3>3
  <2>2. CASE g = 4 /\ ~even /\ n < 6
    <3>1. n \in Int
      BY DEF Registers, Bytes
    <3>2. Mmc3Register(p, addr, v) = [p EXCEPT !.chr[n] = v]
      BY <1>1, <2>2, <3>1 DEF Mmc3Register
    <3>3. Mmc3Register(q, addr, v) = [q EXCEPT !.chr[n] = v]
      BY <1>1, <2>2, <3>1 DEF Mmc3Register
    <3>4. Alike([p EXCEPT !.chr[n] = v],
                [q EXCEPT !.chr[n] = v])
      BY DEF Alike, Registers
    <3> QED BY <3>2, <3>3, <3>4
  <2>3. CASE g = 4 /\ ~even /\ ~(n < 6)
    <3>1. n \in Int
      BY DEF Registers, Bytes
    <3>2. Mmc3Register(p, addr, v) = [p EXCEPT !.prg[n - 6] = v]
      BY <1>1, <2>3, <3>1 DEF Mmc3Register
    <3>3. Mmc3Register(q, addr, v) = [q EXCEPT !.prg[n - 6] = v]
      BY <1>1, <2>3, <3>1 DEF Mmc3Register
    <3>4. Alike([p EXCEPT !.prg[n - 6] = v],
                [q EXCEPT !.prg[n - 6] = v])
      BY DEF Alike, Registers
    <3> QED BY <3>2, <3>3, <3>4
  <2>4. CASE g = 5 /\ even
    <3>1. Mmc3Register(p, addr, v) = [p EXCEPT !.tables = Swapped(v)]
      BY <2>4 DEF Mmc3Register
    <3>2. Mmc3Register(q, addr, v) = [q EXCEPT !.tables = Swapped(v)]
      BY <2>4 DEF Mmc3Register
    <3>3. Alike([p EXCEPT !.tables = Swapped(v)],
                [q EXCEPT !.tables = Swapped(v)])
      BY DEF Alike, Registers
    <3> QED BY <3>1, <3>2, <3>3
  <2>5. CASE g # 4 /\ ~(g = 5 /\ even)
    BY <2>5 DEF Mmc3Register
  <2> QED BY <2>1, <2>2, <2>3, <2>4, <2>5
<1>3. CASE IsWork(addr)
  BY <1>3, SetAlike DEF Mmc3Write, IsWork, Region
<1>4. CASE ~IsWork(addr)
  BY <1>2, <1>4 DEF Mmc3Write
<1> QED BY <1>3, <1>4

\* The mode registers of the VRC boards.
LEMMA VrcModeAlike ==
  ASSUME NEW c, NEW p \in Registers, NEW q \in Registers, Alike(p, q),
         NEW addr \in Addresses, NEW v \in Bytes
  PROVE  Alike(VrcMode(c, p, addr, v), VrcMode(c, q, addr, v))
<1> DEFINE s == RegisterSelect(c, addr)
<1>1. CASE s = 0 /\ v % 4 < 2
  BY <1>1, SetAlike DEF VrcMode, Bytes
<1>2. CASE s = 0 /\ v % 4 >= 2 /\ ~IsVrc2(c)
  BY <1>2, SetAlike DEF VrcMode, Bytes
<1>3. CASE s = 2 /\ ~IsVrc2(c)
  BY <1>3, SetAlike DEF VrcMode
<1>4. CASE ~(s = 0 /\ v % 4 < 2) /\ ~(s = 0 /\ v % 4 >= 2 /\ ~IsVrc2(c)) /\ ~(s = 2 /\ ~IsVrc2(c))
  BY <1>4 DEF VrcMode
<1> QED BY <1>1, <1>2, <1>3, <1>4

\* Their pattern registers, of which each write sets four bits.
LEMMA VrcPagesAlike ==
  ASSUME NEW c, NEW p \in Registers, NEW q \in Registers, Alike(p, q),
         NEW addr \in Addresses, NEW v \in Bytes
  PROVE  Alike(VrcPatterns(c, p, addr, v), VrcPatterns(c, q, addr, v))
<1>1. p.chr = q.chr
  BY DEF Alike
<1>2. CASE c.mapper \in {21, 22, 23, 25}
  <2> DEFINE s == RegisterSelect(c, addr)
             n == 2 * (Region(addr) - 11) + (s \div 2)
             d == Digit(q.chr[n], s % 2 = 1, v)
  <2>1. VrcPatterns(c, p, addr, v) = [p EXCEPT !.chr[n] = d]
    BY <1>1, <1>2 DEF VrcPatterns, IsVrc6
  <2>2. VrcPatterns(c, q, addr, v) = [q EXCEPT !.chr[n] = d]
    BY <1>2 DEF VrcPatterns, IsVrc6
  <2> HIDE DEF n, d
  <2>3. Alike([p EXCEPT !.chr[n] = d],
              [q EXCEPT !.chr[n] = d])
    BY DEF Alike, Registers
  <2> QED BY <2>1, <2>2, <2>3
<1>3. CASE IsVrc6(c)
  <2>1. VrcPatterns(c, p, addr, v) = [p EXCEPT !.chr[Cut(addr, 11)] = v]
    BY <1>3 DEF VrcPatterns, IsVrc6
  <2>2. VrcPatterns(c, q, addr, v) = [q EXCEPT !.chr[Cut(addr, 11)] = v]
    BY <1>3 DEF VrcPatterns, IsVrc6
  <2>3. Alike([p EXCEPT !.chr[Cut(addr, 11)] = v],
              [q EXCEPT !.chr[Cut(addr, 11)] = v])
    BY DEF Alike, Registers
  <2> QED BY <2>1, <2>2, <2>3
<1>4. CASE c.mapper \notin {21, 22, 23, 25} /\ ~IsVrc6(c)
  BY <1>4 DEF VrcPatterns
<1> QED BY <1>2, <1>3, <1>4

\* The registers of VRC7.
LEMMA Vrc7Alike ==
  ASSUME NEW p \in Registers, NEW q \in Registers, Alike(p, q),
         NEW addr \in Addresses, NEW v \in Bytes
  PROVE  Alike(Vrc7Register(p, addr, v), Vrc7Register(q, addr, v))
<1> DEFINE g == Region(addr)
<1>1. CASE g = 8
  <2>1. Vrc7Register(p, addr, v) = [p EXCEPT !.prg[IF Bit(addr, 4) = 1 /\ Bit(addr, 5) = 0 THEN 1 ELSE 0] = v]
    BY <1>1 DEF Vrc7Register
  <2>2. Vrc7Register(q, addr, v) = [q EXCEPT !.prg[IF Bit(addr, 4) = 1 /\ Bit(addr, 5) = 0 THEN 1 ELSE 0] = v]
    BY <1>1 DEF Vrc7Register
  <2>3. Alike([p EXCEPT !.prg[IF Bit(addr, 4) = 1 /\ Bit(addr, 5) = 0 THEN 1 ELSE 0] = v],
              [q EXCEPT !.prg[IF Bit(addr, 4) = 1 /\ Bit(addr, 5) = 0 THEN 1 ELSE 0] = v])
    BY DEF Alike, Registers
  <2> QED BY <2>1, <2>2, <2>3
<1>2. CASE g = 9
  BY <1>2, SetAlike DEF Vrc7Register
<1>3. CASE g \in 10..13
  <2>1. Vrc7Register(p, addr, v) = [p EXCEPT !.chr[2 * (g - 10) + Bit(addr, 4)] = v]
    BY <1>3 DEF Vrc7Register
  <2>2. Vrc7Register(q, addr, v) = [q EXCEPT !.chr[2 * (g - 10) + Bit(addr, 4)] = v]
    BY <1>3 DEF Vrc7Register
  <2>3. Alike([p EXCEPT !.chr[2 * (g - 10) + Bit(addr, 4)] = v],
              [q EXCEPT !.chr[2 * (g - 10) + Bit(addr, 4)] = v])
    BY DEF Alike, Registers
  <2> QED BY <2>1, <2>2, <2>3
<1>4. CASE g \notin {8, 9} \union (10..13)
  BY <1>4 DEF Vrc7Register
<1> QED BY <1>1, <1>2, <1>3, <1>4

\* Every write to a VRC board.
LEMMA VrcAlike ==
  ASSUME NEW c, NEW p \in Registers, NEW q \in Registers, Alike(p, q),
         NEW addr \in Addresses, NEW v \in Bytes
  PROVE  Alike(VrcWrite(c, p, addr, v), VrcWrite(c, q, addr, v))
<1> DEFINE g == Region(addr)
           plain == ~IsVrc7(c)
<1>1. Alike(VrcRegister(c, p, addr, v), VrcRegister(c, q, addr, v))
  <2>1. CASE IsVrc7(c)
    BY <2>1, Vrc7Alike DEF VrcRegister, IsVrc6, IsVrc7
  <2>2. CASE plain /\ g = 8
    BY <2>2, SetAlike DEF VrcRegister
  <2>3. CASE plain /\ g = 9
    BY <2>3, VrcModeAlike DEF VrcRegister
  <2>4. CASE plain /\ g = 10
    <3>1. VrcRegister(c, p, addr, v) = [p EXCEPT !.prg[1] = v]
      BY <2>4 DEF VrcRegister
    <3>2. VrcRegister(c, q, addr, v) = [q EXCEPT !.prg[1] = v]
      BY <2>4 DEF VrcRegister
    <3>3. Alike([p EXCEPT !.prg[1] = v],
                [q EXCEPT !.prg[1] = v])
      BY DEF Alike, Registers
    <3> QED BY <3>1, <3>2, <3>3
  <2>5. CASE IsVrc6(c) /\ g = 12
    BY <2>5, SetAlike DEF VrcRegister, IsVrc6, IsVrc7
  <2>6. CASE IsVrc6(c) /\ g \in {13, 14}
    <3>1. VrcRegister(c, p, addr, v) = [p EXCEPT !.chr[Vrc6Pattern(c, addr)] = v]
      BY <2>6 DEF VrcRegister, IsVrc6, IsVrc7
    <3>2. VrcRegister(c, q, addr, v) = [q EXCEPT !.chr[Vrc6Pattern(c, addr)] = v]
      BY <2>6 DEF VrcRegister, IsVrc6, IsVrc7
    <3>3. Alike([p EXCEPT !.chr[Vrc6Pattern(c, addr)] = v],
                [q EXCEPT !.chr[Vrc6Pattern(c, addr)] = v])
      BY DEF Alike, Registers
    <3> QED BY <3>1, <3>2, <3>3
  <2>7. CASE plain /\ (g = 11 \/ (g \in 12..14 /\ ~IsVrc6(c)))
    BY <2>7, VrcPagesAlike DEF VrcRegister
  <2>8. CASE plain /\ g \notin 8..14
    BY <2>8 DEF VrcRegister
  <2>9. g \in Int
    BY DEF Region, Addresses
  <2> QED BY <2>1, <2>2, <2>3, <2>4, <2>5, <2>6, <2>7, <2>8, <2>9
<1>2. CASE Vrc6Sound(c, addr) \/ Vrc7Sound(c, addr)
  BY <1>2 DEF VrcWrite, Vrc6Sound, Vrc7Sound, IsWork
<1>3. CASE ~(Vrc6Sound(c, addr) \/ Vrc7Sound(c, addr)) /\ IsWork(addr)
  BY <1>3, SetAlike DEF VrcWrite
<1>4. CASE ~(Vrc6Sound(c, addr) \/ Vrc7Sound(c, addr)) /\ ~IsWork(addr)
  BY <1>1, <1>4 DEF VrcWrite
<1> QED BY <1>2, <1>3, <1>4

\* The types, and the inductive invariant of the banks.
BanksTypeOK == cart \in Carts /\ board \in Registers /\ stores \in Nat
BanksInv == BanksTypeOK /\ Resumes(cart, board)

\* For every cartridge, and whatever bytes the program writes to whatever ports, in any order with the
\* fetches of the PPU: the registers keep their types (write_prg, notify_ppu_fetch), and a snapshot
\* taken at any time holds all that a new board needs, but the mirroring of MMC3 and VRC.
THEOREM BanksInductive == BanksSpec => []BanksInv
<1>1. BanksInit => BanksInv
  BY FreshTyped, FreshResumes, BanksAssumption DEF BanksInit, BanksInv, BanksTypeOK
<1>2. BanksInv /\ [BanksNext]_bankVars => BanksInv'
  <2> SUFFICES ASSUME BanksInv, [BanksNext]_bankVars PROVE BanksInv'
    OBVIOUS
  <2>1. ASSUME NEW addr \in Ports[cart.mapper], NEW v \in Values, Store(addr, v) PROVE BanksInv'
    <3>1. addr \in Addresses /\ v \in Bytes
      BY BanksAssumption DEF BanksInv, BanksTypeOK, Addresses, Bytes
    <3>2. board' \in Registers /\ Resumes(cart, board')
      BY <2>1, <3>1, WrittenTyped, WriteResumes DEF BanksInv, BanksTypeOK, Store
    <3>3. cart' = cart /\ stores' \in Nat
      BY <2>1 DEF BanksInv, BanksTypeOK, Store
    <3> QED BY <3>2, <3>3 DEF BanksInv, BanksTypeOK
  <2>2. ASSUME NEW addr \in Fetches, FetchPattern(addr) PROVE BanksInv'
    <3>1. addr \in 0..2^13 - 1
      BY BanksAssumption
    <3>2. board' \in Registers /\ Resumes(cart, board')
      BY <2>2, <3>1, NotifyTyped, NotifyResumes DEF BanksInv, BanksTypeOK, FetchPattern
    <3> QED BY <2>2, <3>2 DEF BanksInv, BanksTypeOK, FetchPattern
  <2>3. CASE UNCHANGED bankVars
    BY <2>3 DEF BanksInv, BanksTypeOK, bankVars
  <2> QED BY <2>1, <2>2, <2>3 DEF BanksNext
<1> QED BY <1>1, <1>2, PTL DEF BanksSpec

\* ResumeIsExact: a new board that takes the snapshot back (restore_snapshot_bytes) reads, labels and
\* reports the same banks as the board that was saved, and so does it after any one more write; the
\* mirroring of MMC3 and VRC boards is not in their snapshots and not among what is compared.
THEOREM BanksResume == BanksSpec => []ResumeIsExact
<1>1. BanksInv => ResumeIsExact
  <2> SUFFICES ASSUME BanksInv, Restorable(cart) PROVE ResumeIsExact
    BY DEF ResumeIsExact
  <2> DEFINE new == Fresh(cart)
             q == Restored(cart, new, board)
  <2>1. new \in Registers /\ board \in Registers
    BY FreshTyped DEF BanksInv, BanksTypeOK
  <2>2. q = IF Family(cart) \in {"mmc3", "vrc"} THEN [board EXCEPT !.tables = new.tables] ELSE board
    BY DEF BanksInv, Resumes
  <2> HIDE DEF new
  <2>3. CASE Family(cart) \notin {"mmc3", "vrc"}
    <3>1. q = board
      BY <2>2, <2>3
    <3> QED BY <3>1 DEF ResumeIsExact, new
  <2>4. CASE Family(cart) \in {"mmc3", "vrc"}
    <3>1. q = [board EXCEPT !.tables = new.tables]
      BY <2>2, <2>4
    <3> HIDE DEF q
    <3>2. q \in Registers /\ Alike(q, board)
      BY <2>1, <3>1, SetTables DEF Alike, Registers
    <3>3. Shown(cart, q) = Shown(cart, board)
      BY <2>1, <2>4, <3>2, ShownAlike
    <3>4. ASSUME NEW addr \in Ports[cart.mapper], NEW v \in Values
          PROVE  Shown(cart, Written(cart, q, addr, v)) = Shown(cart, Written(cart, board, addr, v))
      <4>1. addr \in Addresses /\ v \in Bytes
        BY BanksAssumption DEF BanksInv, BanksTypeOK, Addresses, Bytes
      <4>2. Written(cart, q, addr, v) \in Registers /\ Written(cart, board, addr, v) \in Registers
        BY <2>1, <3>2, <4>1, WrittenTyped
      <4>3. Alike(Written(cart, q, addr, v), Written(cart, board, addr, v))
        <5>1. Alike(Mmc3Write(q, addr, v), Mmc3Write(board, addr, v))
          BY <2>1, <3>2, <4>1, Mmc3Alike
        <5>2. Alike(VrcWrite(cart, q, addr, v), VrcWrite(cart, board, addr, v))
          BY <2>1, <3>2, <4>1, VrcAlike
        <5> QED BY <2>4, <5>1, <5>2, Zenon DEF Written
      <4> QED BY <2>4, <4>2, <4>3, ShownAlike
    <3> QED BY <3>3, <3>4 DEF ResumeIsExact, q, new
  <2> QED BY <2>3, <2>4
<1> QED BY <1>1, BanksInductive, PTL

(***************************************************************************)
(* Units of a memory: the remainder by which a bank number names a bank    *)
(* that is there.                                                          *)
(***************************************************************************)

\* A bank number taken modulo the banks there are names one of them; and reading, writing and naming
\* agree on it.
LEMMA UnitExists ==
  ASSUME NEW banks \in Nat \ {0}, NEW size \in {1, 2, 4, 8}, NEW bank \in Int, NEW slot \in Int
  PROVE  /\ ReadUnit(banks, size, bank, slot) \in 0..banks - 1
         /\ WriteUnit(banks, size, bank, slot) = ReadUnit(banks, size, bank, slot)
         /\ LabelUnit(banks, size, bank, slot) = ReadUnit(banks, size, bank, slot)
<1> DEFINE count == Count(banks, size)
<1>1. count \in Nat \ {0}
  BY DEF Count
<1> HIDE DEF count
<1>2. bank % count \in Int /\ slot % size \in Int
  BY <1>1
<1> DEFINE x == (bank % count) * size + (slot % size)
<1>3. x \in Int
  BY <1>2
<1> HIDE DEF x
<1>4. x % banks \in 0..banks - 1
  BY <1>3
<1> QED BY <1>4 DEF ReadUnit, WriteUnit, LabelUnit, x, count

\* No memory of a cartridge is empty.
LEMMA Sizes ==
  ASSUME NEW c \in Carts
  PROVE  c.prg \in Nat \ {0} /\ c.chr \in Nat \ {0}
<1>1. c.prg \in 1..2^16 /\ c.chr \in Nat \ {0}
  BY BanksAssumption
<1> QED BY <1>1

\* The registers are numbers.
LEMMA BankRegisters ==
  ASSUME NEW q \in Registers
  PROVE  /\ \A n \in Windows : q.prg[n] \in Bytes /\ q.prg[n] \in Int
         /\ \A n \in Pages : q.chr[n] \in Bytes /\ q.chr[n] \in Int
BY DEF Registers, Bytes

(***************************************************************************)
(* Banks of the program: three functions of each board compute them apart, *)
(* read_prg, physical_prg_bank_8k and debug_state.                         *)
(***************************************************************************)

\* The bank of the slot exists, and the label and the reported window name it.
Named(c, q, slot) ==
  LET d == DebugPrg(c, q)
      per == CASE c.mapper = 9 -> 1 [] c.mapper = 10 -> 2 [] OTHER -> 4 \div Len(d)
  IN /\ ReadPrg(c, q, slot) \in 0..c.prg - 1
     /\ LabelPrg(c, q, slot) = ReadPrg(c, q, slot)
     /\ slot \div per < Len(d)
          => ReadUnit(c.prg, per, d[(slot \div per) + 1], slot) = ReadPrg(c, q, slot)

\* Four windows of 8 KiB name the bank read in them.
LEMMA FourNamed ==
  ASSUME NEW c \in Carts, NEW q, NEW slot \in Windows, NEW d \in Seq(Int), c.mapper \notin {9, 10},
         DebugPrg(c, q) = d, Len(d) = 4,
         ReadPrg(c, q, slot) = ReadUnit(c.prg, 1, d[slot + 1], 0), LabelPrg(c, q, slot) = ReadPrg(c, q, slot)
  PROVE  Named(c, q, slot)
<1>1. c.prg \in Nat \ {0}
  BY Sizes
<1>2. d[slot + 1] \in Int
  <2>1. slot + 1 \in 1..Len(d)
    BY DEF Windows
  <2> QED BY <2>1, ElementOfSeq
<1>3. ReadPrg(c, q, slot) \in 0..c.prg - 1
  <2> DEFINE x == d[slot + 1]
  <2>1. x \in Int /\ 0 \in Int /\ 1 \in {1, 2, 4, 8}
    BY <1>2
  <2> HIDE DEF x
  <2>2. ReadUnit(c.prg, 1, x, 0) \in 0..c.prg - 1
    BY <1>1, <2>1, UnitExists, Zenon
  <2> QED BY <2>2 DEF x
<1>4. 4 \div Len(d) = 1 /\ slot \div 1 = slot /\ slot % 1 = 0
  BY DEF Windows
<1>5. ReadUnit(c.prg, 1, d[slot + 1], slot) = ReadUnit(c.prg, 1, d[slot + 1], 0)
  BY <1>4 DEF ReadUnit
<1> QED BY <1>3, <1>4, <1>5 DEF Named

\* Two windows of 16 KiB name it.
LEMMA TwoNamed ==
  ASSUME NEW c \in Carts, NEW q, NEW slot \in Windows, NEW a \in Int, NEW b \in Int, c.mapper \notin {9, 10},
         DebugPrg(c, q) = <<a, b>>,
         ReadPrg(c, q, slot) = ReadUnit(c.prg, 2, IF slot < 2 THEN a ELSE b, slot),
         LabelPrg(c, q, slot) = ReadPrg(c, q, slot)
  PROVE  Named(c, q, slot)
<1>1. c.prg \in Nat \ {0}
  BY Sizes
<1>2. ReadPrg(c, q, slot) \in 0..c.prg - 1
  <2> DEFINE x == IF slot < 2 THEN a ELSE b
  <2>1. x \in Int /\ slot \in Int
    BY DEF Windows
  <2> HIDE DEF x
  <2>2. ReadUnit(c.prg, 2, x, slot) \in 0..c.prg - 1
    BY <1>1, <2>1, UnitExists
  <2> QED BY <2>2 DEF x
<1>3. Len(<<a, b>>) = 2 /\ 4 \div 2 = 2
  OBVIOUS
<1>4. <<a, b>>[(slot \div 2) + 1] = IF slot < 2 THEN a ELSE b
  BY DEF Windows
<1> QED BY <1>2, <1>3, <1>4 DEF Named

\* One window of 32 KiB names it.
LEMMA OneNamed ==
  ASSUME NEW c \in Carts, NEW q, NEW slot \in Windows, NEW a \in Int, c.mapper \notin {9, 10},
         DebugPrg(c, q) = <<a>>,
         ReadPrg(c, q, slot) = ReadUnit(c.prg, 4, a, slot), LabelPrg(c, q, slot) = ReadPrg(c, q, slot)
  PROVE  Named(c, q, slot)
<1>1. c.prg \in Nat \ {0}
  BY Sizes
<1>2. ReadPrg(c, q, slot) \in 0..c.prg - 1
  BY <1>1, UnitExists DEF Windows
<1>3. Len(<<a>>) = 1 /\ 4 \div 1 = 4 /\ slot \div 4 = 0 /\ <<a>>[0 + 1] = a
  BY DEF Windows
<1> QED BY <1>2, <1>3 DEF Named

\* The windows of the boards with four of them.
LEMMA WindowsTyped ==
  ASSUME NEW c \in Carts, NEW q \in Registers
  PROVE  /\ LastFixed(c, q) \in Seq(Int) /\ Len(LastFixed(c, q)) = 4
         /\ Mmc3Windows(c, q) \in Seq(Int) /\ Len(Mmc3Windows(c, q)) = 4
         /\ VrcWindows(c, q) \in Seq(Int) /\ Len(VrcWindows(c, q)) = 4
         /\ SharedWindows(c, q) \in Seq(Int) /\ Len(SharedWindows(c, q)) = 4
         /\ Mmc5Debug(c, q) \in Seq(Int) /\ Len(Mmc5Debug(c, q)) = 4
<1>1. ASSUME NEW w \in Int, NEW x \in Int, NEW y \in Int, NEW z \in Int
      PROVE  <<w, x, y, z>> \in Seq(Int) /\ Len(<<w, x, y, z>>) = 4
  OBVIOUS
<1>2. Count(c.prg, 1) \in Nat \ {0} /\ LastBank(c, 1) \in Int /\ Floor(Count(c.prg, 1) - 2) \in Int
  BY Counts DEF Floor
<1>3. \A n \in Windows : Wrapped(c, q, n) \in Int /\ q.prg[n] % Count(c.prg, 1) \in Int
  BY <1>2, BankRegisters DEF Wrapped
<1>4. Wrapped(c, q, 0) \in Int /\ Wrapped(c, q, 1) \in Int
      /\ Wrapped(c, q, 2) \in Int /\ Wrapped(c, q, 3) \in Int
  BY <1>3 DEF Windows
<1>5. LastFixed(c, q) \in Seq(Int) /\ Len(LastFixed(c, q)) = 4
  BY <1>1, <1>2, <1>4 DEF LastFixed
<1>6. Mmc3Windows(c, q) \in Seq(Int) /\ Len(Mmc3Windows(c, q)) = 4
  BY <1>1, <1>2, <1>4 DEF Mmc3Windows, Wrapped
<1>7. VrcWindows(c, q) \in Seq(Int) /\ Len(VrcWindows(c, q)) = 4
  BY <1>1, <1>2, <1>4, <1>5 DEF VrcWindows
<1>8. SharedWindows(c, q) \in Seq(Int) /\ Len(SharedWindows(c, q)) = 4
  <2>1. \A i \in 1..4 : Wrapped(c, q, i - 1) \in Int
    BY <1>3 DEF Windows
  <2> QED BY <2>1, IsASeq DEF SharedWindows
<1>9. Mmc5Debug(c, q) \in Seq(Int) /\ Len(Mmc5Debug(c, q)) = 4
  <2>1. \A i \in 1..4 : Mmc5Window(c, q, i - 1) \in Int
    <3>1. ASSUME NEW slot \in Windows PROVE Mmc5Window(c, q, slot) \in Int
      <4>1. \A n \in Windows : \A size \in {2, 4} : Aligned(q, n, size) \in Int
        BY BankRegisters DEF Aligned
      <4> DEFINE bank ==
            CASE q.mode = 0 -> Aligned(q, 3, 4) + slot
              [] q.mode = 1 /\ slot < 2 -> Aligned(q, 1, 2) + slot
              [] q.mode = 2 /\ slot < 2 -> q.prg[slot + 1]
              [] q.mode \in {1, 2} /\ slot >= 2 -> Aligned(q, 3, 2) + (slot - 2)
              [] OTHER -> q.prg[slot]
      <4>2. bank \in Int
        BY <4>1, BankRegisters DEF Windows
      <4> HIDE DEF bank
      <4>3. bank % Count(c.prg, 1) \in Int
        BY <1>2, <4>2
      <4> QED BY <4>3 DEF Mmc5Window, bank
    <3> QED BY <3>1 DEF Windows
  <2> QED BY <2>1, IsASeq DEF Mmc5Debug
<1> QED BY <1>5, <1>6, <1>7, <1>8, <1>9

\* A number below the modulus is its own remainder.
LEMMA Rest ==
  ASSUME NEW m \in Nat \ {0}, NEW x \in 0..m - 1
  PROVE  x % m = x
OBVIOUS

\* NROM and CNROM have no bank registers: a ROM of 16 KiB is there twice, of a larger one the first
\* 32 KiB are.
LEMMA PlainProgram ==
  ASSUME NEW c \in Carts, c.prg % 2 = 0, NEW slot \in Windows
  PROVE  /\ c.prg <= 2 => slot % 2 = ReadUnit(c.prg, 2, IF slot < 2 THEN 0 ELSE 0, slot)
         /\ c.prg > 2 => slot = ReadUnit(c.prg, 2, IF slot < 2 THEN 0 ELSE 1, slot)
         /\ c.prg <= 2 => slot % 2 = LabelUnit(c.prg, 2, 0, slot)
         /\ c.prg > 2 => slot = LabelUnit(c.prg, 4, 0, slot)
<1>1. c.prg \in Nat \ {0} /\ c.prg >= 2
  BY Sizes
<1>2. CASE c.prg <= 2
  <2>1. c.prg = 2
    BY <1>1, <1>2
  <2>2. slot % 2 \in 0..1 /\ Count(2, 2) = 1
    BY DEF Windows, Count
  <2>3. ((0 % 1) * 2 + (slot % 2)) % 2 = slot % 2
    BY DEF Windows
  <2> QED BY <2>1, <2>2, <2>3 DEF ReadUnit, LabelUnit
<1>3. CASE c.prg > 2
  <2>1. c.prg >= 4
    BY <1>1, <1>3
  <2>2. Count(c.prg, 2) \in Nat \ {0, 1} /\ Count(c.prg, 4) \in Nat \ {0}
    BY <1>1, <2>1 DEF Count
  <2>3. 0 % Count(c.prg, 2) = 0 /\ 1 % Count(c.prg, 2) = 1 /\ 0 % Count(c.prg, 4) = 0
    BY <2>2, Rest
  <2>4. slot % c.prg = slot /\ slot \in Int
    BY <1>1, <2>1, Rest DEF Windows
  <2>5. 0 * 4 + (slot % 4) = slot
    BY DEF Windows
  <2>6. slot = LabelUnit(c.prg, 4, 0, slot)
    BY <2>3, <2>4, <2>5 DEF LabelUnit
  <2>7. CASE slot < 2
    <3>1. 0 * 2 + (slot % 2) = slot
      BY <2>7 DEF Windows
    <3>2. slot = ReadUnit(c.prg, 2, 0, slot)
      BY <2>3, <2>4, <3>1 DEF ReadUnit
    <3> QED BY <1>1, <1>3, <2>1, <2>6, <2>7, <3>2
  <2>8. CASE ~(slot < 2)
    <3>1. 1 * 2 + (slot % 2) = slot
      BY <2>8 DEF Windows
    <3>2. slot = ReadUnit(c.prg, 2, 1, slot)
      BY <2>3, <2>4, <3>1 DEF ReadUnit
    <3> QED BY <1>1, <1>3, <2>1, <2>6, <2>8, <3>2
  <2> QED BY <2>7, <2>8
<1> QED BY <1>1, <1>2, <1>3

\* MMC3, VRC, FME-7, Jaleco, Namco 163, the shared boards and MMC5: the three functions that each of
\* them has (read_prg, physical_prg_bank_8k, debug_state) find one window.
LEMMA FourWindows ==
  ASSUME NEW c \in Carts, NEW q \in Registers, NEW slot \in Windows,
         Family(c) \in {"mmc3", "vrc", "fme7", "jaleco", "n163", "shared", "mmc5"}
  PROVE  LET d == DebugPrg(c, q) IN
           /\ d \in Seq(Int) /\ Len(d) = 4
           /\ ReadPrg(c, q, slot) = ReadUnit(c.prg, 1, d[slot + 1], 0)
           /\ LabelPrg(c, q, slot) = ReadPrg(c, q, slot)
<1> DEFINE d == DebugPrg(c, q)
<1>1. d \in Seq(Int) /\ Len(d) = 4
  BY WindowsTyped, Zenon DEF DebugPrg, Mmc3Debug, VrcDebug, Fme7Debug, Fme7Windows, JalecoDebug,
     JalecoWindows, N163Debug, N163Windows, SharedDebug
<1>2. ReadPrg(c, q, slot) = ReadUnit(c.prg, 1, d[slot + 1], 0)
  <2>1. CASE Family(c) = "mmc5"
    <3>1. Mmc5Debug(c, q)[slot + 1] = Mmc5Window(c, q, slot)
      BY DEF Mmc5Debug, Windows
    <3> QED BY <2>1, <3>1, Zenon DEF ReadPrg, DebugPrg, Mmc5Read
  <2>2. CASE Family(c) # "mmc5"
    BY <2>2, Zenon DEF ReadPrg, DebugPrg, Mmc3Debug, VrcDebug, Fme7Debug, JalecoDebug, N163Debug,
       SharedDebug, Mmc3Read, VrcRead, Fme7Read, JalecoRead, N163Read, SharedRead
  <2> QED BY <2>1, <2>2
<1>3. LabelPrg(c, q, slot) = ReadPrg(c, q, slot)
  BY Zenon DEF ReadPrg, LabelPrg, Mmc3Read, VrcRead, Fme7Read, JalecoRead, N163Read, SharedRead,
     Mmc5Read, Mmc3Label, VrcLabel, Fme7Label, JalecoLabel, N163Label, SharedLabel, Mmc5Label,
     ReadUnit, LabelUnit
<1> QED BY <1>1, <1>2, <1>3

\* UxROM, VRC3, the probe and Bandai: the branches of their three functions choose one half.
LEMMA TwoWindows ==
  ASSUME NEW c \in Carts, NEW q \in Registers, NEW slot \in Windows,
         Family(c) \in {"uxrom", "vrc3", "probe", "bandai"}
  PROVE  \E a, b \in Int :
           /\ DebugPrg(c, q) = <<a, b>>
           /\ ReadPrg(c, q, slot) = ReadUnit(c.prg, 2, IF slot < 2 THEN a ELSE b, slot)
           /\ LabelPrg(c, q, slot) = ReadPrg(c, q, slot)
<1> DEFINE final == Count(c.prg, 2) - 1
           lower == Family(c) = "uxrom" /\ FixedLower(c)
           a == IF lower \/ Family(c) = "probe" THEN 0 ELSE q.prg[0]
           b == IF lower THEN q.prg[0] ELSE final
<1>1. final \in Int /\ LastBank(c, 2) = final
  BY Counts
<1>2. a \in Int /\ b \in Int
  BY <1>1, BankRegisters DEF Windows
<1>3. slot >= 2 <=> ~(slot < 2)
  BY DEF Windows
<1>4. DebugPrg(c, q) = <<a, b>>
  <2>1. ProbeDebug(c) = <<0, final>>
    <3>1. c.prg \in Nat \ {0}
      BY Sizes
    <3>2. c.prg <= 2 => final = 0
      BY <3>1 DEF Count
    <3> QED BY <3>2 DEF ProbeDebug
  <2> HIDE DEF final
  <2>2. LastBank(c, 2) = final
        /\ UxromDebug(c, q) = (IF FixedLower(c) THEN <<0, q.prg[0]>> ELSE <<q.prg[0], final>>)
        /\ Vrc3Debug(c, q) = <<q.prg[0], final>>
    BY <1>1 DEF UxromDebug, Vrc3Debug, final
  <2>3. BandaiDebug(c, q) = <<q.prg[0], final>>
    BY <2>2 DEF BandaiDebug
  <2>4. CASE Family(c) = "uxrom"
    BY <2>2, <2>4, Zenon DEF DebugPrg
  <2>5. CASE Family(c) # "uxrom"
    BY <2>1, <2>2, <2>3, <2>5, Zenon DEF DebugPrg
  <2> QED BY <2>4, <2>5
<1>5. ReadPrg(c, q, slot) = ReadUnit(c.prg, 2, IF slot < 2 THEN a ELSE b, slot)
  BY <1>1, Zenon DEF ReadPrg, UxromRead, Vrc3Read, ProbeRead, BandaiRead
<1>6. LabelPrg(c, q, slot) = LabelUnit(c.prg, 2, IF slot < 2 THEN a ELSE b, slot)
  BY <1>1, <1>3, Zenon DEF LabelPrg, UxromLabel, Vrc3Label, ProbeLabel, BandaiLabel
<1> HIDE DEF a, b
<1>7. LabelPrg(c, q, slot) = ReadPrg(c, q, slot)
  BY <1>5, <1>6 DEF ReadUnit, LabelUnit
<1> QED BY <1>2, <1>4, <1>5, <1>7

\* The boards with one latch and AxROM have one window of 32 KiB.
LEMMA OneWindow ==
  ASSUME NEW c \in Carts, NEW q \in Registers, NEW slot \in Windows, Family(c) \in {"simple", "axrom"}
  PROVE  /\ DebugPrg(c, q) = <<q.prg[0]>>
         /\ ReadPrg(c, q, slot) = ReadUnit(c.prg, 4, q.prg[0], slot)
         /\ LabelPrg(c, q, slot) = ReadPrg(c, q, slot)
BY Zenon DEF ReadPrg, LabelPrg, DebugPrg, SimpleRead, SimpleLabel, SimpleDebug, AxromRead, AxromLabel,
   AxromDebug, ReadUnit, LabelUnit

\* NROM and CNROM.
LEMMA PlainWindows ==
  ASSUME NEW c \in Carts, NEW q \in Registers, NEW slot \in Windows, Family(c) \in {"nrom", "cnrom"}
  PROVE  LET b == IF c.prg <= 2 THEN 0 ELSE 1 IN
           /\ DebugPrg(c, q) = <<0, b>>
           /\ ReadPrg(c, q, slot) = ReadUnit(c.prg, 2, IF slot < 2 THEN 0 ELSE b, slot)
           /\ LabelPrg(c, q, slot) = ReadPrg(c, q, slot)
<1> DEFINE b == IF c.prg <= 2 THEN 0 ELSE 1
<1>1. c.prg % 2 = 0 /\ c.prg \in Nat \ {0}
  BY BanksAssumption, Sizes
<1>2. NromRead(c, slot) = ReadUnit(c.prg, 2, IF slot < 2 THEN 0 ELSE b, slot)
      /\ NromLabel(c, slot) = NromRead(c, slot) /\ NromDebug(c) = <<0, b>>
  BY <1>1, PlainProgram DEF NromRead, NromLabel, NromDebug
<1>3. CnromRead(c, slot) = NromRead(c, slot) /\ CnromLabel(c, slot) = NromLabel(c, slot)
      /\ CnromDebug(c) = NromDebug(c)
  BY Zenon DEF NromRead, NromLabel, NromDebug, CnromRead, CnromLabel, CnromDebug
<1> QED BY <1>2, <1>3, Zenon DEF ReadPrg, LabelPrg, DebugPrg

\* Every board, every register value, every slot.
LEMMA ProgramNamed ==
  ASSUME NEW c \in Carts, NEW q \in Registers, NEW slot \in Windows
  PROVE  Named(c, q, slot)
<1>1. c.prg \in Nat \ {0} /\ q.prg[0] \in Int
  BY Sizes, BankRegisters DEF Windows
<1>2. Family(c) # "mmc2" => c.mapper \notin {9, 10}
  BY FamilyOf
<1>3. CASE Family(c) \in {"nrom", "cnrom"}
  <2> DEFINE b == IF c.prg <= 2 THEN 0 ELSE 1
  <2>1. b \in Int
    OBVIOUS
  <2>2. /\ DebugPrg(c, q) = <<0, b>>
        /\ ReadPrg(c, q, slot) = ReadUnit(c.prg, 2, IF slot < 2 THEN 0 ELSE b, slot)
        /\ LabelPrg(c, q, slot) = ReadPrg(c, q, slot)
    BY <1>3, PlainWindows
  <2> HIDE DEF b
  <2> QED BY <1>2, <1>3, <2>1, <2>2, TwoNamed
<1>4. CASE Family(c) \in {"uxrom", "vrc3", "probe", "bandai"}
  BY <1>2, <1>4, TwoWindows, TwoNamed
<1>5. CASE Family(c) \in {"simple", "axrom"}
  BY <1>1, <1>2, <1>5, OneWindow, OneNamed
<1>6. CASE Family(c) \in {"mmc3", "vrc", "fme7", "jaleco", "n163", "shared", "mmc5"}
  BY <1>2, <1>6, FourWindows, FourNamed
<1>7. CASE Family(c) = "mmc2"
  <2> DEFINE final == LastBank(c, 2)
             eighth == IF slot = 0 THEN q.prg[0] ELSE Floor(Count(c.prg, 1) - 4 + slot)
             half == IF slot < 2 THEN q.prg[0] ELSE final
  <2>1. ReadPrg(c, q, slot) = Mmc2Read(c, q, slot) /\ LabelPrg(c, q, slot) = Mmc2Label(c, q, slot)
        /\ DebugPrg(c, q) = Mmc2Debug(q)
    BY <1>7, Zenon DEF ReadPrg, LabelPrg, DebugPrg
  <2>2. Mmc2Debug(q) = <<q.prg[0]>> /\ Len(<<q.prg[0]>>) = 1 /\ <<q.prg[0]>>[1] = q.prg[0]
    BY DEF Mmc2Debug
  <2>3. eighth \in Int /\ half \in Int
    BY <1>1, <1>2, Counts DEF Floor, Windows
  <2>4. CASE c.mapper = 9
    <3>1. Mmc2Read(c, q, slot) = ReadUnit(c.prg, 1, eighth, 0)
      BY <2>4 DEF Mmc2Read
    <3>2. Mmc2Label(c, q, slot) = LabelUnit(c.prg, 1, eighth, 0)
      <4>1. Count(c.prg, 1) \in Int
        BY Counts
      <4>2. eighth = <<q.prg[0], Floor(Count(c.prg, 1) - 3), Floor(Count(c.prg, 1) - 2),
                    Floor(Count(c.prg, 1) - 1)>>[slot + 1]
        BY <4>1 DEF Windows
      <4> QED BY <2>4, <4>2 DEF Mmc2Label
    <3>3. LabelUnit(c.prg, 1, eighth, 0) = ReadUnit(c.prg, 1, eighth, 0)
      BY DEF LabelUnit, ReadUnit
    <3> HIDE DEF eighth, half
    <3>4. ReadUnit(c.prg, 1, eighth, 0) \in 0..c.prg - 1
      <4>1. 0 \in Int /\ 1 \in {1, 2, 4, 8}
        OBVIOUS
      <4> QED BY <1>1, <2>3, <4>1, UnitExists, Zenon
    <3>5. slot \div 1 = slot /\ (slot < 1 => slot = 0)
      BY DEF Windows
    <3>6. slot = 0 => ReadUnit(c.prg, 1, q.prg[0], slot) = ReadUnit(c.prg, 1, eighth, 0)
      BY DEF eighth
    <3> QED BY <2>1, <2>2, <2>4, <3>1, <3>2, <3>3, <3>4, <3>5, <3>6 DEF Named
  <2>5. CASE c.mapper = 10
    <3>1. Mmc2Read(c, q, slot) = ReadUnit(c.prg, 2, half, slot)
      BY <2>5 DEF Mmc2Read
    <3>2. Mmc2Label(c, q, slot) = LabelUnit(c.prg, 2, half, slot)
      BY <2>5 DEF Mmc2Label
    <3>3. LabelUnit(c.prg, 2, half, slot) = ReadUnit(c.prg, 2, half, slot)
      BY DEF LabelUnit, ReadUnit
    <3>4. slot \in Int
      BY DEF Windows
    <3>5. slot < 2 => half = q.prg[0]
      OBVIOUS
    <3> HIDE DEF half
    <3>6. ReadUnit(c.prg, 2, half, slot) \in 0..c.prg - 1
      BY <1>1, <2>3, <3>4, UnitExists
    <3>7. slot \div 2 < 1 => slot \div 2 = 0 /\ slot < 2
      BY DEF Windows
    <3> QED BY <2>1, <2>2, <2>5, <3>1, <3>2, <3>3, <3>5, <3>6, <3>7 DEF Named
  <2> QED BY <1>7, <2>4, <2>5, FamilyOf
<1>8. Family(c) \in BankFamilies
  BY FamilyOf
<1> QED BY <1>3, <1>4, <1>5, <1>6, <1>7, <1>8, Zenon DEF BankFamilies

\* ReportsNameTheBankRead: in every slot of 8 KiB the bank that the disassembler is told
\* (physical_prg_bank_8k) is the one that the CPU reads (read_prg), and so is the window that is reported
\* for the slot (debug_state), for every size of ROM.
THEOREM BanksAreNamed == BanksSpec => []ReportsNameTheBankRead
<1>1. BanksInv => ReportsNameTheBankRead
  <2> SUFFICES ASSUME BanksInv, NEW slot \in Windows PROVE Named(cart, board, slot)
    BY DEF ReportsNameTheBankRead, Named
  <2> QED BY ProgramNamed DEF BanksInv, BanksTypeOK
<1> QED BY <1>1, BanksInductive, PTL

(***************************************************************************)
(* Patterns.                                                               *)
(***************************************************************************)

\* The bank of the page exists, and what is written there is read there.
PageKept(c, q, page) ==
  /\ ReadChr(c, q, page) \in ({"chr"} \X (0..c.chr - 1)) \union ({"ram"} \X (0..7))
  /\ (Writable(c, q, page) /\ ~(Family(c) = "mmc3" /\ ~InVariantRam(c, q, page)))
       => WriteChr(c, q, page) = ReadChr(c, q, page)

\* Every board, every register value, every page.
LEMMA PatternsKept ==
  ASSUME NEW c \in Carts, NEW q \in Registers, NEW page \in Pages
  PROVE  PageKept(c, q, page)
<1>1. c.chr \in Nat \ {0} /\ page \in Int
  BY Sizes DEF Pages
<1>2. \A n \in Pages : q.chr[n] \in Int
  BY BankRegisters
<1>3. ASSUME NEW size \in {1, 2, 4, 8}, NEW bank \in Int, NEW x \in Int
      PROVE  ReadUnit(c.chr, size, bank, x) \in 0..c.chr - 1
  BY <1>1, UnitExists
<1>4. page % c.chr \in 0..c.chr - 1
  BY <1>1
<1>5. c.mapper = 119 => Family(c) = "mmc3"
  BY FamilyOf
<1>6. ASSUME NEW x \in 0..c.chr - 1, ReadChr(c, q, page) = <<"chr", x>>,
             Family(c) = "cnrom" \/ WriteChr(c, q, page) = <<"chr", x>>, Family(c) # "mmc3"
      PROVE  PageKept(c, q, page)
  BY <1>5, <1>6 DEF PageKept, Writable, InVariantRam
<1>7. CASE Family(c) \in {"nrom", "uxrom", "vrc3", "axrom", "probe"}
  <2>1. ReadChr(c, q, page) = <<"chr", page % c.chr>> /\ WriteChr(c, q, page) = <<"chr", page % c.chr>>
    BY <1>7, Zenon DEF ReadChr, WriteChr, PlainRead, PlainWrite
  <2> QED BY <1>4, <1>6, <1>7, <2>1
<1>8. CASE Family(c) = "cnrom"
  <2>1. ReadChr(c, q, page) = <<"chr", ReadUnit(c.chr, 8, q.chr[0], page)>>
    BY <1>8, Zenon DEF ReadChr, CnromPattern
  <2>2. ReadUnit(c.chr, 8, q.chr[0], page) \in 0..c.chr - 1
    <3>1. 0 \in Pages /\ 8 \in {1, 2, 4, 8}
      BY DEF Pages
    <3> QED BY <1>1, <1>2, <1>3, <3>1, Zenon
  <2> QED BY <1>6, <1>8, <2>1, <2>2
<1>9. CASE Family(c) = "simple"
  <2> DEFINE size == IF c.mapper = 13 THEN 4 ELSE 8
             bank == IF c.mapper = 13 THEN CpromBank(q, page) ELSE IF c.mapper = 34 THEN 0 ELSE q.chr[0]
             x == ReadUnit(c.chr, size, bank, page)
  <2>1. size \in {1, 2, 4, 8} /\ bank \in Int
    BY <1>2 DEF CpromBank, Pages
  <2>2. SimplePattern(c, q, page) = x /\ SimpleStore(c, q, page) = x
    BY DEF SimplePattern, SimpleStore, ReadUnit, WriteUnit
  <2>3. ReadChr(c, q, page) = <<"chr", SimplePattern(c, q, page)>>
        /\ WriteChr(c, q, page) = <<"chr", SimpleStore(c, q, page)>>
    BY <1>9, Zenon DEF ReadChr, WriteChr
  <2> HIDE DEF size, bank
  <2>4. x \in 0..c.chr - 1
    BY <1>1, <1>3, <2>1
  <2> HIDE DEF x
  <2> QED BY <1>6, <1>9, <2>2, <2>3, <2>4
<1>10. CASE Family(c) = "mmc2"
  <2> DEFINE bank == Mmc2Selected(q, page)
             x == ReadUnit(c.chr, 4, bank, page)
  <2>1. bank \in Int
    <3> DEFINE half == page \div 4
               n == 2 * half + (IF q.latch[half + 1] THEN 1 ELSE 0)
    <3>1. n \in Pages
      BY DEF Pages
    <3> HIDE DEF n
    <3>2. q.chr[n] \in Int
      BY <1>2, <3>1
    <3> QED BY <3>2 DEF Mmc2Selected, n
  <2>2. Mmc2Pattern(c, q, page) = x /\ Mmc2Store(c, q, page) = x
    BY Zenon DEF Mmc2Pattern, Mmc2Store, ReadUnit, WriteUnit
  <2>3. ReadChr(c, q, page) = <<"chr", Mmc2Pattern(c, q, page)>>
        /\ WriteChr(c, q, page) = <<"chr", Mmc2Store(c, q, page)>>
    BY <1>10, Zenon DEF ReadChr, WriteChr
  <2> HIDE DEF bank
  <2>4. x \in 0..c.chr - 1
    BY <1>1, <1>3, <2>1
  <2> HIDE DEF x
  <2> QED BY <1>6, <1>10, <2>2, <2>3, <2>4
<1>11. CASE Family(c) \in {"mmc5", "vrc", "fme7", "bandai", "jaleco", "shared", "n163"}
  <2> DEFINE bank == IF Family(c) = "mmc5" THEN Mmc5Bank(c, q, page) ELSE q.chr[page]
             x == ReadUnit(c.chr, 1, bank, 0)
  <2>1. bank \in Int
    BY <1>2, Counts DEF Mmc5Bank
  <2>2. ReadChr(c, q, page) = <<"chr", x>>
    BY <1>11, Zenon DEF ReadChr, Mmc5Pattern, VrcPattern, Fme7Pattern, BandaiPattern, JalecoPattern,
       SharedPattern, N163Pattern
  <2>3. WriteChr(c, q, page) = <<"chr", x>>
    BY <1>11, Zenon DEF WriteChr, Mmc5Store, VrcStore, Fme7Store, BandaiStore, JalecoStore,
       SharedStore, N163Store, ReadUnit, WriteUnit
  <2> HIDE DEF bank
  <2>4. x \in 0..c.chr - 1
    BY <1>3, <2>1
  <2> HIDE DEF x
  <2> QED BY <1>6, <1>11, <2>2, <2>3, <2>4
<1>12. CASE Family(c) = "mmc3"
  <2> DEFINE b == Mmc3Bank(q, page)
             bank == IF c.mapper = 119 THEN b % 64 ELSE b
  <2>1. b \in Int
    <3> DEFINE p == IF Bit(q.select, 7) = 0 THEN page ELSE (page + 4) % 8
    <3>1. p \in Pages
      BY DEF Pages
    <3> HIDE DEF p
    <3>2. p \div 2 \in Pages /\ (~(p < 4) => p - 2 \in Pages)
      BY <3>1 DEF Pages
    <3>3. q.chr[p \div 2] \in Int /\ (~(p < 4) => q.chr[p - 2] \in Int)
      BY <1>2, <3>2
    <3>4. p \in Int
      BY <3>1 DEF Pages
    <3>5. (IF p < 4 THEN q.chr[p \div 2] - (q.chr[p \div 2] % 2) + (p % 2) ELSE q.chr[p - 2]) \in Int
      BY <3>3, <3>4
    <3> QED BY <3>5 DEF Mmc3Bank, p
  <2> HIDE DEF b
  <2>2. bank \in Int
    BY <2>1
  <2>3. ReadChr(c, q, page) = Mmc3Pattern(c, q, page) /\ WriteChr(c, q, page) = Mmc3Store(c, q, page)
    BY <1>12, Zenon DEF ReadChr, WriteChr
  <2>4. CASE InVariantRam(c, q, page)
    <3>1. c.mapper = 119 /\ bank = b % 64
      BY <2>4 DEF InVariantRam
    <3>2. Mmc3Pattern(c, q, page) = <<"ram", ReadUnit(8, 1, b % 64, 0)>>
          /\ Mmc3Store(c, q, page) = <<"ram", (b % 64) % 8>>
      BY <2>4, <3>1 DEF Mmc3Pattern, Mmc3Store, b
    <3>3. ReadUnit(8, 1, b % 64, 0) = (b % 64) % 8 /\ (b % 64) % 8 \in 0..7
      BY <2>1 DEF ReadUnit, Count
    <3> QED BY <2>3, <3>2, <3>3 DEF PageKept
  <2>5. CASE ~InVariantRam(c, q, page)
    <3>1. Mmc3Pattern(c, q, page) = <<"chr", ReadUnit(c.chr, 1, bank, 0)>>
      BY <2>5 DEF Mmc3Pattern, b
    <3> HIDE DEF bank
    <3>2. ReadUnit(c.chr, 1, bank, 0) \in 0..c.chr - 1
      BY <1>3, <2>2
    <3> QED BY <1>12, <2>3, <2>5, <3>1, <3>2 DEF PageKept
  <2> QED BY <2>4, <2>5
<1>13. Family(c) \in BankFamilies
  BY FamilyOf
<1> QED BY <1>7, <1>8, <1>9, <1>10, <1>11, <1>12, <1>13 DEF BankFamilies

\* PatternsReadBack: what the PPU writes to a page of pattern RAM (write_chr) is where it reads
\* the page (read_chr), whatever the banks; the plain RAM of MMC3, stored without its bank, is excepted.
THEOREM PatternsAreKept == BanksSpec => []PatternsReadBack
<1>1. BanksInv => PatternsReadBack
  <2> SUFFICES ASSUME BanksInv, NEW page \in Pages PROVE PageKept(cart, board, page)
    BY DEF PatternsReadBack, PageKept
  <2> QED BY PatternsKept DEF BanksInv, BanksTypeOK
<1> QED BY <1>1, BanksInductive, PTL

\* What is read exists: the bank of every slot is in the ROM, and that of every page in the patterns.
BanksExist ==
  /\ \A slot \in Windows : ReadPrg(cart, board, slot) \in 0..cart.prg - 1
  /\ \A page \in Pages :
       ReadChr(cart, board, page) \in ({"chr"} \X (0..cart.chr - 1)) \union ({"ram"} \X (0..7))

\* read_prg and read_chr never read past the memory of the cartridge, whatever byte a bank register holds.
THEOREM BanksReadExist == BanksSpec => []BanksExist
<1>1. BanksInv => BanksExist
  BY ProgramNamed, PatternsKept DEF BanksInv, BanksTypeOK, BanksExist, Named, PageKept
<1> QED BY <1>1, BanksInductive, PTL

=============================================================================
