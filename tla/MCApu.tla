-------------------------------- MODULE MCApu -------------------------------
(***************************************************************************)
(* Instances of ApuFrame and ApuDmc for TLC.  The delta channel and the    *)
(* parts of the others share nothing but the clocks, so a behaviour plays  *)
(* with one of them.                                                       *)
(***************************************************************************)
EXTENDS ApuFrame, ApuDmc

VARIABLE part

MCInit ==
  /\ Init
  /\ DmcInit
  /\ part \in {"envelope", "sweep", "triangle", "delta"} /\ (part # "sweep" => first)

PlayEnvelope == WriteControl \/ (UNCHANGED timer /\ WriteNote) \/ WriteStatus
PlaySweep == WriteSweep \/ WriteTimer
PlayTriangle == WriteHold \/ WriteTriangle \/ WriteStatus
ClockFrame == Clock /\ part # "delta"
ClockDelta == ClockDmc /\ part = "delta"

MCNext ==
  /\ \/ /\ \/ part = "envelope" /\ PlayEnvelope
           \/ part = "sweep" /\ PlaySweep
           \/ part = "triangle" /\ PlayTriangle
           \/ part # "delta" /\ (ReadStatus \/ WriteFrameCounter)
           \/ ClockFrame
        /\ UNCHANGED dmcVars
     \/ part = "delta" /\ DmcNext /\ UNCHANGED vars
  /\ UNCHANGED part

MCSpec ==
  /\ MCInit /\ [][MCNext]_<<vars, dmcVars, part>>
  /\ WF_vars(ClockFrame) /\ WF_dmcVars(ClockDelta)
=============================================================================
