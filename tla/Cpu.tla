-------------------------------- MODULE Cpu --------------------------------
(***************************************************************************)
(* The 2A03 and what it reads and writes itself: RAM, the windows of the   *)
(* program, the two controllers and the sprite memory.  A machine m is a   *)
(* record, and an operator that takes one returns the machine afterwards:  *)
(*   a x y s pc p delay   CpuState                                         *)
(*   cost     cycles that step returned, for the devices                   *)
(*   fault    an opcode that is not implemented ended the step             *)
(*   ram      cells of RAM that are not zero                               *)
(*   windows  the 8 KiB bank in each slot from $8000                       *)
(*   state shift strobe   controller_state, _shift, _strobe                *)
(*   oam cursor           sprite memory (<<>>: all zero) and OAMADDR       *)
(* The registers of the PPU, APU and board are in modules of their own:    *)
(* they read as zero here, and a write above $8000 selects the first bank. *)
(* Instructions, pointers and the stack are in RAM and ROM.                *)
(***************************************************************************)
EXTENDS Opcodes, Bitwise, TLC

CONSTANT Rom(_, _)  \* the byte at an offset of an 8 KiB bank

Byte(n) == n % 256
Word(n) == n % 65536
High(w) == w \div 256
Signed(b) == IF b < 128 THEN b ELSE b - 256

Carry == 1      Zero == 2       IrqDisable == 4   Decimal == 8
Break == 16     Unused == 32    Overflow == 64    Negative == 128
Has(p, flag) == (p \div flag) % 2 = 1
With(p, flag, on) == p + (flag * (IF on THEN 1 ELSE 0)) - (flag * (IF Has(p, flag) THEN 1 ELSE 0))
Flag(m, flag, on) == [m EXCEPT !.p = With(With(@, flag, on), Unused, TRUE)]

----------------------------------------------------------------------------
(* The bus *)

\* read without side effects: RAM and its mirrors, and the program.
Peek(m, addr) ==
  IF addr < \H2000 THEN LET cell == addr % 2048 IN IF cell \in DOMAIN m.ram THEN m.ram[cell] ELSE 0
  ELSE IF addr >= \H8000 THEN Rom(m.windows[((addr - \H8000) \div \H2000) + 1], addr % \H2000)
  ELSE 0

\* read_u16, with wrapping; read_u16_zp_bug keeps the page.
Peek16(m, addr) == Peek(m, addr) + (256 * Peek(m, Word(addr + 1)))
PeekPaged(m, addr) == Peek(m, addr) + (256 * Peek(m, (256 * High(addr)) + Byte(addr + 1)))

\* read_joypad: with the strobe up the first button, otherwise the next of the latched ones.
Pads == {\H4016, \H4017}
PadOf(addr) == addr - \H4015
PadBit(m, addr) == (IF m.strobe THEN m.state[PadOf(addr)] ELSE m.shift[PadOf(addr)]) % 2
Shifted(m, addr) ==
  IF m.strobe THEN m ELSE [m EXCEPT !.shift[PadOf(addr)] = (@ \div 2) + 128]

Read(m, addr) == IF addr \in Pads THEN 64 + PadBit(m, addr) ELSE Peek(m, addr)
AfterRead(m, addr) == IF addr \in Pads THEN Shifted(m, addr) ELSE m

\* set_controller_state, latch_controllers
SetControllers(m, pads) == [m EXCEPT !.state = pads, !.shift = IF m.strobe THEN pads ELSE @]
Strobe(m, v) == [m EXCEPT !.strobe = (v % 2 = 1), !.shift = IF v % 2 = 1 THEN m.state ELSE @]

\* oam_dma: 256 reads with their side effects, from OAMADDR and round, which ends where it began.
OamDma(m, page) ==
  LET source(i) == Read(m, (256 * page) + i)
      read == [m EXCEPT !.oam = [k \in 0..255 |-> source(Byte(k - m.cursor))]]
  IN IF page = \H40 THEN AfterRead(AfterRead(read, \H4016), \H4017) ELSE read

\* write
Poke(m, addr, v) ==
  CASE addr < \H2000 -> [m EXCEPT !.ram = [c \in {addr % 2048} |-> v] @@ @]
    [] addr = \H2003 -> [m EXCEPT !.cursor = v]
    [] addr = \H4014 -> OamDma(m, v)
    [] addr = \H4016 -> Strobe(m, v)
    [] addr >= \H8000 -> [m EXCEPT !.windows[1] = v]
    [] OTHER -> m

Push(m, v) == [Poke(m, 256 + m.s, v) EXCEPT !.s = Byte(@ - 1)]
Push16(m, w) == Push(Push(m, High(w)), Byte(w))
Top(m, n) == Peek(m, 256 + Byte(m.s + n))
Dropped(m, n) == [m EXCEPT !.s = Byte(@ + n)]
Return(m, n) == Top(m, n) + (256 * Top(m, n + 1))

----------------------------------------------------------------------------
(* Operands *)

Operand(m) == Peek(m, Word(m.pc + 1))
Operand16(m) == Peek16(m, Word(m.pc + 1))
Pointer(m, z) == Peek(m, Byte(z)) + (256 * Peek(m, Byte(z + 1)))

\* resolve_addr, with pc still at the opcode.
Base(m, mode) == IF mode = "indy" THEN Pointer(m, Operand(m)) ELSE Operand16(m)
Address(m, mode) ==
  CASE mode = "imm" -> Word(m.pc + 1)
    [] mode = "zp" -> Operand(m)
    [] mode = "zpx" -> Byte(Operand(m) + m.x)
    [] mode = "zpy" -> Byte(Operand(m) + m.y)
    [] mode = "abs" -> Operand16(m)
    [] mode = "absx" -> Word(Base(m, mode) + m.x)
    [] mode \in {"absy", "indy"} -> Word(Base(m, mode) + m.y)
    [] mode = "indx" -> Pointer(m, Operand(m) + m.x)
Crossed(m, mode) ==
  mode \in {"absx", "absy", "indy"} /\ High(Base(m, mode)) # High(Address(m, mode))

----------------------------------------------------------------------------
(* Arithmetic *)

SetZn(m, v) == Flag(Flag(m, Zero, v = 0), Negative, v >= 128)
Load(m, reg, v) == SetZn([m EXCEPT ![reg] = v], v)
Compare(m, reg, v) == SetZn(Flag(m, Carry, m[reg] >= v), Byte(m[reg] - v))

Adc(m, v) ==
  LET sum == m.a + v + (m.p % 2)
      over == Has(m.a, Negative) = Has(v, Negative) /\ Has(m.a, Negative) # Has(Byte(sum), Negative)
  IN Load(Flag(Flag(m, Carry, sum > 255), Overflow, over), "a", Byte(sum))
BitTest(m, v) ==
  Flag(Flag(Flag(m, Zero, m.a & v = 0), Overflow, Has(v, Overflow)), Negative, Has(v, Negative))

Applied(m, op, v) ==
  CASE op = "lda" -> Load(m, "a", v)
    [] op = "ldx" -> Load(m, "x", v)
    [] op = "ldy" -> Load(m, "y", v)
    [] op = "ora" -> Load(m, "a", m.a | v)
    [] op = "and" -> Load(m, "a", m.a & v)
    [] op = "eor" -> Load(m, "a", m.a ^^ v)
    [] op = "adc" -> Adc(m, v)
    [] op = "sbc" -> Adc(m, 255 - v)
    [] op = "cmp" -> Compare(m, "a", v)
    [] op = "cpx" -> Compare(m, "x", v)
    [] op = "cpy" -> Compare(m, "y", v)
    [] op = "bit" -> BitTest(m, v)

\* asl_value and its like: the new byte, and the machine with the flags.
NewByte(m, op, v) ==
  CASE op = "asl" -> Byte(2 * v)
    [] op = "rol" -> Byte(2 * v) + (m.p % 2)
    [] op = "lsr" -> v \div 2
    [] op = "ror" -> (v \div 2) + (128 * (m.p % 2))
    [] op = "dec" -> Byte(v - 1)
    [] op = "inc" -> Byte(v + 1)
Modified(m, op, v) ==
  LET out == CASE op \in {"asl", "rol"} -> v >= 128
               [] op \in {"lsr", "ror"} -> v % 2 = 1
               [] OTHER -> Has(m.p, Carry)
  IN SetZn(Flag(m, Carry, out), NewByte(m, op, v))

Stored(m, op) ==
  CASE op = "sta" -> m.a
    [] op = "stx" -> m.x
    [] op = "sty" -> m.y
    [] op = "ahx" -> m.a & m.x & Byte(High(Operand16(m)) + 1)
\* op_ahx_abs_y: beyond the page the byte is the page.
StoreAddress(m, i) ==
  IF i.op = "ahx" /\ Byte(Operand16(m)) + m.y > 255
  THEN (256 * Stored(m, i.op)) + Byte(Operand16(m) + m.y)
  ELSE Address(m, i.mode)

Taken(m, op) ==
  CASE op = "bpl" -> ~Has(m.p, Negative)
    [] op = "bmi" -> Has(m.p, Negative)
    [] op = "bvc" -> ~Has(m.p, Overflow)
    [] op = "bvs" -> Has(m.p, Overflow)
    [] op = "bcc" -> ~Has(m.p, Carry)
    [] op = "bcs" -> Has(m.p, Carry)
    [] op = "bne" -> ~Has(m.p, Zero)
    [] op = "beq" -> Has(m.p, Zero)

----------------------------------------------------------------------------
(* Instructions: i is the row of the opcode at pc. *)

Advanced(m, n, cost) == [m EXCEPT !.pc = Word(@ + n), !.cost = cost]
Next1(m, i) == Advanced(m, Length(i.mode), i.cycles)

ReadInstruction(m, i) ==
  LET addr == Address(m, i.mode)
      crossed == i.extra /\ Crossed(m, i.mode)
      done == Applied(AfterRead(m, addr), i.op, Read(m, addr))
  IN Advanced(done, Length(i.mode), i.cycles + (IF crossed THEN 1 ELSE 0))

\* One read and one write at the first cycle of the instruction.
ModifyInstruction(m, i) ==
  IF i.mode = "acc" THEN Next1([Modified(m, i.op, m.a) EXCEPT !.a = NewByte(m, i.op, m.a)], i)
  ELSE LET addr == Address(m, i.mode)
           v == Read(m, addr)
       IN Next1(Poke(Modified(AfterRead(m, addr), i.op, v), addr, NewByte(m, i.op, v)), i)

StoreInstruction(m, i) == Next1(Poke(m, StoreAddress(m, i), Stored(m, i.op)), i)

BranchInstruction(m, i) ==
  LET next == Word(m.pc + 2)
      target == Word(next + Signed(Operand(m)))
  IN IF ~Taken(m, i.op) THEN [m EXCEPT !.pc = next, !.cost = 2]
     ELSE [m EXCEPT !.pc = target, !.cost = IF High(next) = High(target) THEN 3 ELSE 4]

ImpliedInstruction(m, i) ==
  LET n == Next1(m, i)
      status(v) == With(With(v, Unused, TRUE), Break, FALSE)
  IN CASE i.op = "clc" -> Flag(n, Carry, FALSE)
       [] i.op = "sec" -> Flag(n, Carry, TRUE)
       [] i.op = "cli" -> [Flag(n, IrqDisable, FALSE) EXCEPT !.delay = IF Has(m.p, IrqDisable) THEN 1 ELSE @]
       [] i.op = "sei" -> Flag(n, IrqDisable, TRUE)
       [] i.op = "clv" -> Flag(n, Overflow, FALSE)
       [] i.op = "cld" -> Flag(n, Decimal, FALSE)
       [] i.op = "sed" -> Flag(n, Decimal, TRUE)
       [] i.op = "nop" -> n
       [] i.op = "dey" -> Load(n, "y", Byte(m.y - 1))
       [] i.op = "dex" -> Load(n, "x", Byte(m.x - 1))
       [] i.op = "iny" -> Load(n, "y", Byte(m.y + 1))
       [] i.op = "inx" -> Load(n, "x", Byte(m.x + 1))
       [] i.op = "txa" -> Load(n, "a", m.x)
       [] i.op = "tya" -> Load(n, "a", m.y)
       [] i.op = "tax" -> Load(n, "x", m.a)
       [] i.op = "tay" -> Load(n, "y", m.a)
       [] i.op = "tsx" -> Load(n, "x", m.s)
       [] i.op = "txs" -> [n EXCEPT !.s = m.x]
       [] i.op = "pha" -> Push(n, m.a)
       [] i.op = "php" -> Push(n, With(With(m.p, Break, TRUE), Unused, TRUE))
       [] i.op = "pla" -> Load(Dropped(n, 1), "a", Top(m, 1))
       [] i.op = "plp" -> [Dropped(n, 1) EXCEPT !.p = status(Top(m, 1))]
       [] i.op = "rti" -> [Dropped(n, 3) EXCEPT !.p = status(Top(m, 1)), !.pc = Return(m, 2)]
       [] i.op = "rts" -> [Dropped(n, 2) EXCEPT !.pc = Word(Return(m, 1) + 1)]
       [] i.op = "brk" ->
            LET pushed == Push(Push16(n, Word(m.pc + 2)), With(With(m.p, Break, TRUE), Unused, TRUE))
            IN [pushed EXCEPT !.p = With(@, IrqDisable, TRUE), !.pc = Peek16(pushed, \HFFFE)]

JumpInstruction(m, i) ==
  CASE i.op = "jsr" -> [Push16(Next1(m, i), Word(m.pc + 2)) EXCEPT !.pc = Operand16(m)]
    [] i.mode = "abs" -> [Next1(m, i) EXCEPT !.pc = Operand16(m)]
    [] i.mode = "ind" -> [Next1(m, i) EXCEPT !.pc = PeekPaged(m, Operand16(m))]

\* An opcode that is not implemented: pc has moved on, the step is an error.
IllegalInstruction(m) == [m EXCEPT !.pc = Word(@ + 1), !.cost = 0, !.fault = TRUE]

Executed(m) ==
  LET i == Decode[Peek(m, m.pc)] IN
  CASE i.op \in ReadOps -> ReadInstruction(m, i)
    [] i.op \in ModifyOps -> ModifyInstruction(m, i)
    [] i.op \in {"sta", "stx", "sty", "ahx"} -> StoreInstruction(m, i)
    [] i.op \in BranchOps -> BranchInstruction(m, i)
    [] i.op \in {"jsr", "jmp"} -> JumpInstruction(m, i)
    [] i.op = "illegal" -> IllegalInstruction(m)
    [] OTHER -> ImpliedInstruction(m, i)

\* *mutant* of Entered: the mask is set before the status is pushed.
EnteredMasked(m, vector) ==
  LET masked == [m EXCEPT !.p = With(@, IrqDisable, TRUE)]
      pushed == Push(Push16(masked, m.pc), With(masked.p, Break, FALSE))
  IN [pushed EXCEPT !.pc = Peek16(pushed, vector)]
\* service_nmi, service_irq.  Their seven cycles are not clocked to the devices.
Entered(m, vector) ==
  LET pushed == Push(Push16(m, m.pc), With(m.p, Break, FALSE))
  IN [pushed EXCEPT !.p = With(@, IrqDisable, TRUE), !.pc = Peek16(pushed, vector)]

\* step: the poll, and one instruction, of the handler if an interrupt was taken.
MayInterrupt(m) == m.delay = 0 /\ ~Has(m.p, IrqDisable)
Polled(m) == [m EXCEPT !.delay = IF @ = 0 THEN 0 ELSE @ - 1]
StepPlain(m) == Executed(Polled(m))
StepNmi(m) == Executed(Entered(Polled(m), \HFFFA))
StepIrq(m) == Executed(Entered(Polled(m), \HFFFE))

\* CpuState::default, Bus::new and reset.
PowerOn(banks) ==
  [a |-> 0, x |-> 0, y |-> 0, s |-> 253, pc |-> 0, p |-> 36, delay |-> 0, cost |-> 0, fault |-> FALSE,
   ram |-> <<>>, windows |-> banks, state |-> <<0, 0>>, shift |-> <<0, 0>>, strobe |-> FALSE,
   oam |-> <<>>, cursor |-> 0]
CpuReset(m) == [m EXCEPT !.s = 253, !.p = 36, !.pc = Peek16(m, \HFFFC), !.fault = FALSE, !.delay = 0]
=============================================================================
