---------------------------- MODULE SerialPort -----------------------------
(***************************************************************************)
(* What the port of the MMC1 promises its program: five writes, none of    *)
(* them with the reset bit, put their low bits into a register, the first  *)
(* one lowest, and the last write's address says which.  A write with the  *)
(* reset bit drops the bits gathered so far and fixes the upper bank.      *)
(***************************************************************************)
EXTENDS Integers, Sequences

CONSTANTS Registers, Control, Width, Fixing(_)

VARIABLES
  bits,      \* gathered so far
  contents   \* of the registers

ValueOf(s) == LET f[n \in 0..Len(s)] == IF n = 0 THEN 0 ELSE f[n - 1] + s[n] * 2^(n - 1) IN f[Len(s)]

Cleared ==
  /\ bits' = <<>>
  /\ contents' = [contents EXCEPT ![Control] = Fixing(@)]

Gathered(bit) ==
  /\ Len(bits) < Width - 1
  /\ bits' = Append(bits, bit)
  /\ UNCHANGED contents

Filled(bit, name) ==
  /\ Len(bits) = Width - 1
  /\ bits' = <<>>
  /\ contents' = [contents EXCEPT ![name] = ValueOf(Append(bits, bit))]

PortNext ==
  \/ Cleared
  \/ \E bit \in 0..1 : Gathered(bit) \/ \E name \in Registers : Filled(bit, name)

Empty == bits = <<>>
=============================================================================
