------------------------- MODULE InterruptBusProofs -------------------------
(***************************************************************************)
(* Safety of the interrupt path for both kinds of mapper.  The bus latch   *)
(* is the CPU's memory of requests, so the invariant says that it never    *)
(* remembers one that `unseen' does not; the delay is CLI's shadow.        *)
(***************************************************************************)
EXTENDS InterruptBus, TLAPS

Shadow == freshCli => delay = 1

IInv ==
  /\ TypeOK
  /\ latch => unseen
  /\ Shadow

USE DEF cpu, apu, board

(* At power-on nothing is latched.                                         *)
LEMMA InitIInv == Init => IInv
  BY DEF Init, IInv, TypeOK, Shadow

(* Every step keeps IInv.                                                  *)
LEMMA NextIInv == IInv /\ [Next]_vars => IInv'
  <1> USE DEF IInv, TypeOK, Shadow, ApuIrq, Requests, Latched
  <1>1. ASSUME IInv, TakeNmi PROVE IInv'
    <2>1. TypeOK'
      BY <1>1 DEF TakeNmi, PollDone
    <2>2. (latch => unseen)' /\ Shadow'
      BY <1>1 DEF TakeNmi, PollDone
    <2> QED
      BY <2>1, <2>2
  <1>2. ASSUME IInv, TakeIrq PROVE IInv'
    <2>1. TypeOK'
      BY <1>2 DEF TakeIrq, PollDone
    <2>2. (latch => unseen)' /\ Shadow'
      BY <1>2 DEF TakeIrq, PollDone
    <2> QED
      BY <2>1, <2>2
  <1>3. ASSUME IInv, NoInterrupt PROVE IInv'
    <2>1. TypeOK'
      BY <1>3 DEF NoInterrupt, PollDone
    <2>2. (latch => unseen)' /\ Shadow'
      BY <1>3 DEF NoInterrupt, PollDone
    <2> QED
      BY <2>1, <2>2
  <1>4. ASSUME IInv, Other PROVE IInv'
    <2>1. TypeOK'
      BY <1>4 DEF Other, Execute
    <2>2. (latch => unseen)' /\ Shadow'
      BY <1>4 DEF Other, Execute
    <2> QED
      BY <2>1, <2>2
  <1>5. ASSUME IInv, Cli PROVE IInv'
    <2>1. TypeOK'
      BY <1>5 DEF Cli, Execute
    <2>2. (latch => unseen)' /\ Shadow'
      BY <1>5 DEF Cli, Execute
    <2> QED
      BY <2>1, <2>2
  <1>6. ASSUME IInv, SetMask PROVE IInv'
    <2>1. TypeOK'
      BY <1>6 DEF SetMask, Execute
    <2>2. (latch => unseen)' /\ Shadow'
      BY <1>6 DEF SetMask, Execute
    <2> QED
      BY <2>1, <2>2
  <1>7. ASSUME IInv, ReadStatus PROVE IInv'
    <2>1. TypeOK'
      BY <1>7 DEF ReadStatus, StatusRead, Execute
    <2>2. (latch => unseen)' /\ Shadow'
      BY <1>7 DEF ReadStatus, StatusRead, Execute
    <2> QED
      BY <2>1, <2>2
  <1>8. ASSUME IInv, WriteStatus PROVE IInv'
    <2>1. TypeOK'
      BY <1>8 DEF WriteStatus, Execute
    <2>2. (latch => unseen)' /\ Shadow'
      BY <1>8 DEF WriteStatus, Execute
    <2> QED
      BY <2>1, <2>2
  <1>9. ASSUME IInv, WriteDmcControl PROVE IInv'
    <2>1. TypeOK'
      BY <1>9 DEF WriteDmcControl, Execute
    <2>2. (latch => unseen)' /\ Shadow'
      BY <1>9 DEF WriteDmcControl, Execute
    <2> QED
      BY <2>1, <2>2
  <1>10. ASSUME IInv, WriteFrameCounter PROVE IInv'
    <2>1. TypeOK'
      BY <1>10 DEF WriteFrameCounter, Execute
    <2>2. (latch => unseen)' /\ Shadow'
      BY <1>10 DEF WriteFrameCounter, Execute
    <2> QED
      BY <2>1, <2>2
  <1>11. ASSUME IInv, AccessMapper PROVE IInv'
    <2>1. TypeOK'
      <3>1. mapper' \in BOOLEAN /\ mapperOn' \in BOOLEAN
        BY <1>11 DEF AccessMapper
      <3>2. UNCHANGED <<cpu, nmi, latch, apu, level, unseen, freshCli>>
        BY <1>11 DEF AccessMapper
      <3>3. phase' = "clock"
        BY <1>11 DEF AccessMapper, Execute
      <3> QED
        BY <1>11, <3>1, <3>2, <3>3
    <2>2. (latch => unseen)' /\ Shadow'
      BY <1>11 DEF AccessMapper, Execute
    <2> QED
      BY <2>1, <2>2
  <1>12. ASSUME IInv, OamDma PROVE IInv'
    <2>1. TypeOK'
      <3>1. mapper' \in BOOLEAN /\ phase' = "dma"
        BY <1>12 DEF OamDma
      <3>2. UNCHANGED <<cpu, nmi, mapperOn, level, freshCli>>
        BY <1>12 DEF OamDma
      <3>3. CASE StatusRead
        BY <3>1, <3>2, <3>3, <1>12 DEF StatusRead
      <3>4. CASE UNCHANGED <<latch, apu, unseen>>
        BY <3>1, <3>2, <3>4, <1>12
      <3> QED
        BY <1>12, <3>3, <3>4 DEF OamDma
    <2>2. (latch => unseen)' /\ Shadow'
      BY <1>12 DEF OamDma, StatusRead
    <2> QED
      BY <2>1, <2>2
  <1>13. ASSUME IInv, Unimplemented PROVE IInv'
    <2>1. TypeOK'
      BY <1>13 DEF Unimplemented
    <2>2. (latch => unseen)' /\ Shadow'
      BY <1>13 DEF Unimplemented
    <2> QED
      BY <2>1, <2>2
  <1>14. ASSUME IInv, Clock PROVE IInv'
    <2>1. TypeOK'
      <3>1. frame' \in BOOLEAN /\ dmc' \in BOOLEAN /\ playing' \in BOOLEAN /\ mapper' \in BOOLEAN
        BY <1>14 DEF Clock
      <3>2. latch' \in BOOLEAN /\ unseen' \in BOOLEAN
        BY <1>14 DEF Clock
      <3>3. phase' \in {"clock", "poll"} /\ nmi' \in BOOLEAN
        BY <1>14 DEF Clock
      <3>4. UNCHANGED <<cpu, frameOn, dmcOn, mapperOn, level, freshCli>>
        BY <1>14 DEF Clock
      <3> QED
        BY <1>14, <3>1, <3>2, <3>3, <3>4
    <2>2. (latch => unseen)' /\ Shadow'
      BY <1>14 DEF Clock
    <2> QED
      BY <2>1, <2>2
  <1>15. ASSUME IInv, Reset PROVE IInv'
    <2>1. TypeOK'
      BY <1>15 DEF Reset
    <2>2. (latch => unseen)' /\ Shadow'
      BY <1>15 DEF Reset
    <2> QED
      BY <2>1, <2>2
  <1>16. ASSUME IInv, UNCHANGED vars PROVE IInv'
    <2>1. TypeOK'
      BY <1>16 DEF vars
    <2>2. (latch => unseen)' /\ Shadow'
      BY <1>16 DEF vars
    <2> QED
      BY <2>1, <2>2
  <1> HIDE DEF IInv
  <1> QED
    BY <1>1, <1>2, <1>3, <1>4, <1>5, <1>6, <1>7, <1>8, <1>9, <1>10, <1>11, <1>12, <1>13, <1>14, <1>15, <1>16 DEF Next, Instruction

(* IInv is an invariant, for boards of both kinds.                         *)
THEOREM Inductive == Spec => []IInv
  BY InitIInv, NextIInv, PTL DEF Spec

(* The flags and latches keep their types.                                 *)
THEOREM TypeCorrect == Spec => []TypeOK
  BY Inductive, PTL DEF IInv

(* No IRQ is taken for nothing, whichever way the mapper signals.          *)
THEOREM NoUnexplainedIrq == Spec => Explained
  <1>1. IInv /\ [Next]_vars => [TakeIrq => Requests \/ unseen]_vars
    BY DEF IInv, TakeIrq
  <1> QED
    BY <1>1, Inductive, PTL DEF Spec, Explained

(* The instruction after an unmasking CLI runs before any IRQ.             *)
THEOREM NoIrqInCliShadow == Spec => CliShadow
  <1>1. IInv /\ [Next]_vars => [TakeIrq => ~ freshCli]_vars
    BY DEF IInv, Shadow, TakeIrq, IrqEligible
  <1> QED
    BY <1>1, Inductive, PTL DEF Spec, CliShadow
=============================================================================
