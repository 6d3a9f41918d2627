------------------------------ MODULE Opcodes ------------------------------
(***************************************************************************)
(* The instructions of the 2A03 as CpuState::step executes them: operation,*)
(* addressing mode and cycles of an opcode.  extra marks the reads that    *)
(* take a cycle more when indexing leaves the page.                        *)
(***************************************************************************)
EXTENDS Integers, Sequences, TLC

Row(code, op, mode, cycles) == [code |-> code, op |-> op, mode |-> mode, cycles |-> cycles, extra |-> FALSE]
Rows(op, table) == {Row(table[i][1], op, table[i][2], table[i][3]) : i \in DOMAIN table}

\* The arithmetic of the accumulator has every mode, at the same distance from its first opcode.
Accumulator ==
  LET first == [ora |-> 0, and |-> 32, eor |-> 64, adc |-> 96, lda |-> 160, cmp |-> 192, sbc |-> 224]
  IN UNION {Rows(op,
       <<<<first[op] + 1, "indx", 6>>, <<first[op] + 5, "zp", 3>>, <<first[op] + 9, "imm", 2>>,
         <<first[op] + 13, "abs", 4>>, <<first[op] + 17, "indy", 5>>, <<first[op] + 21, "zpx", 4>>,
         <<first[op] + 25, "absy", 4>>, <<first[op] + 29, "absx", 4>>>>) : op \in DOMAIN first}

\* Shifts, rotations, DEC and INC of a byte in memory, and of the accumulator.
ReadModifyWrites ==
  LET first == [asl |-> 0, rol |-> 32, lsr |-> 64, ror |-> 96, dec |-> 192, inc |-> 224]
  IN UNION {Rows(op, <<<<first[op] + 6, "zp", 5>>, <<first[op] + 14, "abs", 6>>,
                       <<first[op] + 22, "zpx", 6>>, <<first[op] + 30, "absx", 7>>>>) : op \in DOMAIN first}
       \union {Row(first[op] + 10, op, "acc", 2) : op \in {"asl", "rol", "lsr", "ror"}}

IndexReads ==
  UNION {Rows("ldx", <<<<162, "imm", 2>>, <<166, "zp", 3>>, <<174, "abs", 4>>, <<182, "zpy", 4>>, <<190, "absy", 4>>>>),
         Rows("ldy", <<<<160, "imm", 2>>, <<164, "zp", 3>>, <<172, "abs", 4>>, <<180, "zpx", 4>>, <<188, "absx", 4>>>>),
         Rows("cpx", <<<<224, "imm", 2>>, <<228, "zp", 3>>, <<236, "abs", 4>>>>),
         Rows("cpy", <<<<192, "imm", 2>>, <<196, "zp", 3>>, <<204, "abs", 4>>>>),
         Rows("bit", <<<<36, "zp", 3>>, <<44, "abs", 4>>>>)}

Stores ==
  UNION {Rows("sta", <<<<129, "indx", 6>>, <<133, "zp", 3>>, <<141, "abs", 4>>, <<145, "indy", 6>>,
                       <<149, "zpx", 4>>, <<153, "absy", 5>>, <<157, "absx", 5>>>>),
         Rows("stx", <<<<134, "zp", 3>>, <<142, "abs", 4>>, <<150, "zpy", 4>>>>),
         Rows("sty", <<<<132, "zp", 3>>, <<140, "abs", 4>>, <<148, "zpx", 4>>>>),
         Rows("ahx", <<<<159, "absy", 5>>>>)}

Branches ==
  LET code == [bpl |-> 16, bmi |-> 48, bvc |-> 80, bvs |-> 112, bcc |-> 144, bcs |-> 176, bne |-> 208, beq |-> 240]
  IN {Row(code[op], op, "rel", 2) : op \in DOMAIN code}

Implied ==
  LET fast == [clc |-> 24, sec |-> 56, cli |-> 88, sei |-> 120, dey |-> 136, txa |-> 138, tya |-> 152, txs |-> 154,
               tay |-> 168, tax |-> 170, clv |-> 184, tsx |-> 186, iny |-> 200, dex |-> 202, cld |-> 216,
               inx |-> 232, nop |-> 234, sed |-> 248]
  IN {Row(fast[op], op, "impl", 2) : op \in DOMAIN fast}
       \union {Row(8, "php", "impl", 3), Row(72, "pha", "impl", 3),
               Row(40, "plp", "impl", 4), Row(104, "pla", "impl", 4)}

Jumps ==
  {Row(0, "brk", "impl", 7), Row(32, "jsr", "abs", 6), Row(64, "rti", "impl", 6),
   Row(96, "rts", "impl", 6), Row(76, "jmp", "abs", 3), Row(108, "jmp", "ind", 5)}

\* op_lda_page and its like.
Extra(row) == [row EXCEPT !.extra = row.mode \in {"absx", "absy", "indy"}]
Reads == {Extra(row) : row \in Accumulator \union IndexReads}

Table == Reads \union ReadModifyWrites \union Stores \union Branches \union Implied \union Jumps
ReadOps == {row.op : row \in Reads}
ModifyOps == {row.op : row \in ReadModifyWrites}
BranchOps == {row.op : row \in Branches}

Illegal == [code |-> -1, op |-> "illegal", mode |-> "impl", cycles |-> 0, extra |-> FALSE]
Decode == [code \in 0..255 |->
  IF \E row \in Table : row.code = code THEN CHOOSE row \in Table : row.code = code ELSE Illegal] @@ <<>>

\* The bytes that the modes fetch.
Length(mode) ==
  CASE mode \in {"abs", "absx", "absy", "ind"} -> 3
    [] mode \in {"impl", "acc"} -> 1
    [] OTHER -> 2

\* read_mode: when the operand is read.
ReadOffset(mode, crossed) ==
  CASE mode = "imm" -> 1
    [] mode = "zp" -> 2
    [] mode \in {"zpx", "zpy", "abs"} -> 3
    [] mode \in {"absx", "absy"} -> IF crossed THEN 4 ELSE 3
    [] mode = "indx" -> 5
    [] mode = "indy" -> IF crossed THEN 5 ELSE 4

----------------------------------------------------------------------------
(* OPCODE_NAMES: the display table, a second list of the same opcodes.  Its *)
(* placeholders carry the modes; AHX has an asterisk like the opcodes that *)
(* are not executed, SBC #* has none.                                      *)
Starred(code) == code = 159 \/ (Decode[code] = Illegal /\ code # 235)
Placeholder(code) == IF code = 235 THEN "imm" ELSE Decode[code].mode
IsBranch(code) == code \in {16, 48, 80, 112, 144, 176, 208, 240}

\* instruction_len of the decompiler
InstructionLength(code) ==
  CASE IsBranch(code) -> 2
    [] Starred(code) -> 1
    [] OTHER -> Length(Placeholder(code))
=============================================================================
