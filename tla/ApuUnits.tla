------------------------------ MODULE ApuUnits ------------------------------
(***************************************************************************)
(* The parts of a sound channel that the frame sequencer clocks, each as a *)
(* function of its state and of the registers it reads.                    *)
(***************************************************************************)
EXTENDS Integers

CONSTANTS
  Full,       (* the volume an envelope starts at: 15                     *)
  Low, High   (* the timers that a pulse may sound with: 8 and 2047       *)

(* Mutant: the divider starts one too high.                                *)
ClockEnvelopeLate(e, control) ==
  IF e.start
  THEN [start |-> FALSE, decay |-> Full, divider |-> control.period + 1]
  ELSE IF e.divider > 0
  THEN [e EXCEPT !.divider = @ - 1]
  ELSE [start |-> FALSE, divider |-> control.period + 1,
        decay |-> IF e.decay > 0 THEN e.decay - 1
                  ELSE IF control.loop THEN Full ELSE 0]

(* clock_envelope: from Full down to zero, one step every period + 1       *)
(* quarter frames.                                                         *)
ClockEnvelope(e, control) ==
  IF e.start
  THEN [start |-> FALSE, decay |-> Full, divider |-> control.period]
  ELSE IF e.divider > 0
  THEN [e EXCEPT !.divider = @ - 1]
  ELSE [start |-> FALSE, divider |-> control.period,
        decay |-> IF e.decay > 0 THEN e.decay - 1
                  ELSE IF control.loop THEN Full ELSE 0]

(* Mutant: the request to reload is never dropped.                         *)
ClockLinearHeld(t, control) ==
  [t EXCEPT !.counter = IF t.reload THEN control.value
                        ELSE IF @ > 0 THEN @ - 1 ELSE 0]

(* clock_triangle_linear.                                                  *)
ClockLinear(t, control) ==
  [counter |-> IF t.reload THEN control.value
               ELSE IF t.counter > 0 THEN t.counter - 1 ELSE 0,
   reload |-> t.reload /\ control.halt]

(* clock_length_counter.                                                   *)
ClockLength(n, halt) == IF halt \/ n = 0 THEN n ELSE n - 1

-----------------------------------------------------------------------------
(* The sweep unit of a pulse.  Downwards, the first pulse goes one further *)
(* than the second.                                                        *)
Target(s, timer, first) ==
  LET change == timer \div 2^s.shift
  IN IF s.negate THEN timer - change - (IF first THEN 1 ELSE 0)
     ELSE timer + change

Moves(s) == s.enabled /\ s.shift > 0

(* pulse_sweep_mutes.                                                      *)
Mutes(s, timer, first) ==
  \/ timer < Low
  \/ Moves(s) /\ Target(s, timer, first) \notin Low..High

(* The timer after a sweep.                                                *)
SweptTo(s, timer, first) ==
  IF Moves(s) /\ timer >= Low /\ Target(s, timer, first) \in Low..High
  THEN Target(s, timer, first)
  ELSE timer

(* clock_sweep: a new setting waits for the half frame, and the timer      *)
(* moves in each half frame that finds the divider at zero.                *)
ClockSweepDivider(s) ==
  [s EXCEPT !.reload = FALSE,
            !.divider = IF s.reload \/ @ = 0 THEN s.period ELSE @ - 1]

ClockSweepTimer(s, timer, first) ==
  IF s.reload \/ s.divider > 0 THEN timer
  ELSE SweptTo(s, timer, first)
=============================================================================
