------------------------------ MODULE FdsMedia ------------------------------
(***************************************************************************)
(* How the drive rebuilds what a .fds image leaves out.  The image of a    *)
(* side is the bytes of its blocks, end to end; the medium the head reads  *)
(* has a gap of zeros before each block, one byte that ends the gap, and   *)
(* two check bytes after the block.                                        *)
(*                                                                         *)
(* A cell of the medium is "zero" (a gap, or a zero byte in a block),      *)
(* "sync", "body" (any other byte), or "end", the second check byte.  The  *)
(* check bytes are taken not to be zero.                                   *)
(***************************************************************************)
EXTENDS Naturals, Sequences, SequencesExt

CONSTANTS
  BlockSize,  (* the sizes of blocks 1, 2 and 3: 56, 2, 16                *)
  SizeAt,     (* where block 3 holds the size of its file: byte 13        *)
  Lead, Gap   (* zeros before the first block (3537), and after each (122)*)

ASSUME MediaAssumption ==
  /\ BlockSize \in [1..3 -> Nat \ {0}]
  /\ SizeAt \in 1..BlockSize[3] - 1
  /\ Lead \in Nat /\ Gap \in Nat

(* The size of the block that starts with code, 0 when none does.          *)
SizeOf(code, fileSize) ==
  IF code \in 1..3 THEN BlockSize[code]
  ELSE IF code = 4 THEN fileSize + 1 ELSE 0

(* The blocks of raw from byte pos on, up to the first byte that starts    *)
(* none or starts one that the image cuts short.                           *)
RECURSIVE BlocksFrom(_, _, _)
BlocksFrom(raw, pos, fileSize) ==
  LET size == SizeOf(raw[pos], fileSize)
      next == IF raw[pos] = 3 THEN raw[pos + SizeAt] ELSE fileSize
  IN  IF pos > Len(raw) \/ size = 0 \/ pos + size - 1 > Len(raw)
      THEN <<>>
      ELSE <<SubSeq(raw, pos, pos + size - 1)>>
             \o BlocksFrom(raw, pos + size, next)

Zeros(n) == [i \in 1..n |-> "zero"]

Cells(block) ==
  <<"sync">>
    \o [i \in 1..Len(block) |-> IF block[i] = 0 THEN "zero" ELSE "body"]
    \o <<"body", "end">>
    \o Zeros(Gap)

ExpandSide(raw) ==
  LET blocks == BlocksFrom(raw, 1, 0)
  IN  Zeros(Lead) \o FlattenSeq([i \in DOMAIN blocks |-> Cells(blocks[i])])
        \o Zeros(Gap)
=============================================================================
