------------------------------ MODULE Programs ------------------------------
(***************************************************************************)
(* Programs for Machine, as bytes from $8000, one in each bank.  The last  *)
(* bank holds the vectors and the handlers of NMI and IRQ.                 *)
(***************************************************************************)
EXTENDS Integers, Sequences

Code ==
  << \* 1. CLC LDA $00 LDX #1 ADC $01,X STA $04 LDA $0000,X ADC $0002,X STA $0004,X
     \*    LDY #2 LDX $03,Y STX $08,Y LDX #1 LDA ($05,X) STA ($05,X) STA $0B JMP *
     <<\H18, \HA5, 0, \HA2, 1, \H75, 1, \H85, 4, \HBD, 0, 0, \H7D, 2, 0, \H9D, 4, 0,
       \HA0, 2, \HB6, 3, \H96, 8, \HA2, 1, \HA1, 5, \H81, 5, \H85, 11, \H4C, \H20, \H80>>,
     \* 2. SEC LDA $00 SBC $02 STA $04 LDA $01 SBC $03 STA $05 JMP *
     <<\H38, \HA5, 0, \HE5, 2, \H85, 4, \HA5, 1, \HE5, 3, \H85, 5, \H4C, \H0D, \H80>>,
     \* 3. LDA #0 LDX #8 LSR $00 / BCC + CLC ADC $02 + ROR A ROR $00 DEX BNE / STA $05 LDA $00 STA $04
     <<\HA9, 0, \HA2, 8, \H46, 0, \H90, 3, \H18, \H65, 2, \H6A, \H66, 0, \HCA, \HD0, \HF5,
       \H85, 5, \HA5, 0, \H85, 4, \H4C, \H17, \H80>>,
     \* 4. LDY #2 / LDA ($06),Y JSR $8010 STA $03FE,Y DEY BPL / JMP * ; EOR #$FF ORA #1 AND #$7F PHP PLP RTS
     <<\HA0, 2, \HB1, 6, \H20, \H10, \H80, \H99, \HFE, 3, \H88, \H10, \HF5, \H4C, \H0D, \H80,
       \H49, \HFF, \H09, 1, \H29, \H7F, \H08, \H28, \H60>>,
     \* 5. LDA #1 STA $4016 STA $05 LSR A STA $4016 / LDA $4016 LSR A ROL $05 BCC / JMP *
     <<\HA9, 1, \H8D, \H16, \H40, \H85, 5, \H4A, \H8D, \H16, \H40,
       \HAD, \H16, \H40, \H4A, \H26, 5, \H90, \HF8, \H4C, \H13, \H80>>,
     \* 6. LDA #3 STA $2003 LDA #2 STA $4014 JMP *
     <<\HA9, 3, \H8D, 3, \H20, \HA9, 2, \H8D, \H14, \H40, \H4C, \H0A, \H80>>,
     \* 7. LDA #1 STA $4016 LSR A STA $4016 LDA #$40 STA $4014 LDA $4016 STA $05 JMP *
     <<\HA9, 1, \H8D, \H16, \H40, \H4A, \H8D, \H16, \H40, \HA9, \H40, \H8D, \H14, \H40,
       \HAD, \H16, \H40, \H85, 5, \H4C, \H13, \H80>>,
     \* 8. LDA $01 CMP $03 BNE + LDA $00 CMP $02 + BCS ++ LDA $02 STA $04 LDA $03 JMP +++
     \*    ++ LDA $00 STA $04 LDA $01 +++ STA $05 JMP *
     <<\HA5, 1, \HC5, 3, \HD0, 4, \HA5, 0, \HC5, 2, \HB0, 9, \HA5, 2, \H85, 4, \HA5, 3, \H4C, \H1B, \H80,
       \HA5, 0, \H85, 4, \HA5, 1, \H85, 5, \H4C, \H1D, \H80>>,
     \* 9. LDA #5 BRK NOP STA $04 JMP ($02FF) STA $05 JMP *
     <<\HA9, 5, 0, \HEA, \H85, 4, \H6C, \HFF, 2, 0, 0, 0, 0, 0, 0, 0, \H85, 5, \H4C, \H12, \H80>>,
     \* 10. LDX #$82 TXA LDY #$F0 AHX $8120,Y: its byte selects bank 10 and goes to $8210
     <<\HA2, \H82, \H8A, \HA0, \HF0, \H9F, \H20, \H81>>,
     \* there, an opcode that is not executed
     <<0, 0, 0, 0, 0, 0, 0, 0, 2>> >>
Halts == <<\H8020, \H800D, \H8017, \H800D, \H8013, \H800A, \H8013, \H801D, \H8012, -1>>

Handlers == [offset \in 0..8191 |->
  LET at(first, bytes) == IF offset - first \in 0..(Len(bytes) - 1) THEN bytes[offset - first + 1] ELSE -1
      nmi == at(0, <<\H48, \H8A, \H48, \H38, \HA2, \HFF, \HF6, \HF1, \H68, \HAA, \H68, \H40>>)
      irq == at(32, <<\H48, \H98, \H48, \H18, \HA9, 7, \HE9, 9, \HC6, \HF1, \H68, \HA8, \H68, \H40>>)
      reset == at(64, <<\H58, \H4C, 0, \H80>>)
      vectors == at(8186, <<0, \HE0, 64, \HE0, 32, \HE0>>)
      found == {b \in {nmi, irq, reset, vectors} : b >= 0}
  IN IF found = {} THEN 0 ELSE CHOOSE b \in found : TRUE]

RomByte(bank, offset) ==
  LET b == bank % 12 IN
  IF b = 11 THEN Handlers[offset]
  ELSE IF offset < Len(Code[b + 1]) THEN Code[b + 1][offset + 1] ELSE 0

----------------------------------------------------------------------------
Pair(ram, cell) == ram[cell] + (256 * ram[cell + 1])
Reversed(mask) ==
  LET f[n \in 0..8] == IF n = 0 THEN 0 ELSE (2 * f[n - 1]) + ((mask \div 2^(n - 1)) % 2) IN f[8]

\* What the programs leave in RAM.
Result(program, ram, mask) ==
  LET word(n) == [cell \in {4, 5} |-> IF cell = 4 THEN n % 256 ELSE (n \div 256) % 256]
      x == Pair(ram, 0)
      y == Pair(ram, 2)
  IN CASE program = 0 -> [cell \in {4, 5, 10, 11} |-> IF cell = 11 THEN ram[767] ELSE word(x + y)[IF cell = 4 THEN 4 ELSE 5]]
       [] program = 1 -> word(x - y)
       [] program = 2 -> word(ram[0] * ram[2])
       [] program = 3 -> [cell \in \H3FE..\H400 |->
                            LET b == 255 - ram[Pair(ram, 6) + cell - \H3FE]
                            IN (b % 128) + (IF b % 2 = 0 THEN 1 ELSE 0)]
       [] program = 4 -> [cell \in {5} |-> Reversed(mask)]
       [] program = 6 -> [cell \in {5} |-> 64 + ((mask \div 2) % 2)]
       [] program = 7 -> word(IF x >= y THEN x ELSE y)
       [] program = 8 -> [cell \in {4, 5} |-> 5]
       [] OTHER -> <<>>

Numbers == {<<255, 127, 1, 0>>, <<0, 128, 1, 128>>, <<203, 255, 255, 255>>, <<3, 1, 5, 1>>}
Memory(n) ==
  [cell \in (0..3) \union {6, 7} \union (512..515) \union (767..769) |->
     CASE cell < 4 -> n[cell + 1]
       [] cell = 6 -> 255
       [] cell = 7 -> 2
       [] cell = 512 -> 128
       [] cell = 767 -> 16
       [] OTHER -> cell % 251]
=============================================================================
