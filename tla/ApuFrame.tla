------------------------------ MODULE ApuFrame ------------------------------
(***************************************************************************)
(* The frame sequencer of the APU and what it clocks: a pulse channel with *)
(* length counter, envelope and sweep, and the triangle with length and    *)
(* linear counter.  (The noise channel has the first two.)                 *)
(*                                                                         *)
(* Time comes in chunks of cycles of any size.  A step is an access to a   *)
(* register, the arrival of a chunk, or the part of it up to the next      *)
(* event of the sequencer, to its wrap or to its end.                      *)
(***************************************************************************)
EXTENDS ApuUnits

CONSTANTS
  Point1, Point2, Point3,  (* quarter frames: 7457, 14913, 22371          *)
  Point4, Wrap4,           (* the fourth: 29829 of 29830 cycles           *)
  Point5, Wrap5,           (* the fourth in five-step mode: 37281 of 37282*)
  Chunks,                  (* cycles clocked in one call                  *)
  Lengths,                 (* LENGTH_TABLE                                *)
  Periods,                 (* of an envelope: 0 to 15                     *)
  Beats,                   (* of a sweep: 1 to 8                          *)
  Shifts,                  (* of a sweep: 0 to 7                          *)
  Linears,                 (* reload values of the linear counter         *)
  Page                     (* values of $4002: 256                        *)

ASSUME PointAssumption ==
  /\ {Point1, Point2, Point3, Point4, Wrap4, Point5, Wrap5} \subseteq Nat
  /\ 0 < Point1 /\ Point1 < Point2 /\ Point2 < Point3
  /\ Point3 < Point4 /\ Point4 < Wrap4
  /\ Point3 < Point5 /\ Point5 < Wrap5
  /\ Chunks \subseteq Nat \ {0}

ASSUME RegisterAssumption ==
  /\ Full \in Nat \ {0} /\ Low \in Nat \ {0}
  /\ High \in Nat /\ Low <= High
  /\ Page \in Nat \ {0}
  /\ Lengths \subseteq Nat \ {0}
  /\ Periods \subseteq Nat /\ 0 \in Periods
  /\ Beats \subseteq Nat \ {0} /\ 1 \in Beats
  /\ Shifts \subseteq Nat /\ 0 \in Shifts
  /\ Linears \subseteq Nat /\ 0 \in Linears

VARIABLES
  fiveStep, inhibit,  (* frame_counter, as $4017 set it                   *)
  accum,       (* frame_cycle_accum                                       *)
  left,        (* cycles of the chunk still to come                       *)
  frameIrq,    (* frame_irq_flag                                          *)
  enabled,     (* $4015: which channels are on                            *)
  length,      (* length_counter                                          *)
  control,     (* $4000: period and loop, which halts the length as well  *)
  envelope,    (* start, decay, divider                                   *)
  sweep,       (* $4001, reload, divider                                  *)
  timer,       (* $4002 and $4003                                         *)
  first,       (* the pulse is the first of the two                       *)
  hold,        (* $4008: halt and value                                   *)
  linear,      (* counter and reload                                      *)
  seen,        (* history: cycles since the sequencer was reset, within   *)
               (* its period                                              *)
  rings,       (* history: events since then, mod 4                       *)
  age          (* history: quarter frames since the envelope was full     *)

sequencer == <<fiveStep, inhibit, accum, left, frameIrq, seen, rings>>
quartered == <<envelope, linear, age>>
halved == <<length, sweep, timer>>
settings == <<enabled, control, hold, first>>
vars == <<sequencer, quartered, halved, settings>>

Channels == {"pulse", "triangle"}
Timers == 0..High
Period == IF fiveStep THEN Wrap5 ELSE Wrap4
Span(p) == (p + 1) * (Full + 1)

TypeOK ==
  /\ fiveStep \in BOOLEAN /\ inhibit \in BOOLEAN /\ frameIrq \in BOOLEAN
  /\ accum \in 0..Period - 1 /\ left \in Nat
  /\ enabled \in [Channels -> BOOLEAN]
  /\ length \in [Channels -> Nat]
  /\ control \in [period : Periods, loop : BOOLEAN]
  /\ envelope \in [start : BOOLEAN, decay : 0..Full, divider : Nat]
  /\ sweep \in [enabled : BOOLEAN, period : Beats, negate : BOOLEAN,
                shift : Shifts, reload : BOOLEAN, divider : Nat]
  /\ timer \in Timers /\ first \in BOOLEAN
  /\ hold \in [halt : BOOLEAN, value : Linears]
  /\ linear \in [counter : Nat, reload : BOOLEAN]
  /\ seen \in Nat /\ rings \in 0..3 /\ age \in Nat

Init ==
  /\ fiveStep = FALSE /\ inhibit = FALSE
  /\ accum = 0 /\ left = 0 /\ frameIrq = FALSE
  /\ enabled = [c \in Channels |-> FALSE]
  /\ length = [c \in Channels |-> 0]
  /\ control = [period |-> 0, loop |-> FALSE]
  /\ envelope = [start |-> FALSE, decay |-> 0, divider |-> 0]
  /\ sweep = [enabled |-> FALSE, period |-> 1, negate |-> FALSE, shift |-> 0,
              reload |-> FALSE, divider |-> 0]
  /\ timer = 0 /\ first \in BOOLEAN
  /\ hold = [halt |-> FALSE, value |-> 0]
  /\ linear = [counter |-> 0, reload |-> FALSE]
  /\ seen = 0 /\ rings = 0 /\ age = Full

-----------------------------------------------------------------------------
(* What the sequencer clocks.                                              *)
Halts(c) == IF c = "pulse" THEN control.loop ELSE hold.halt

(* The age of an envelope runs through Full + 1 levels, again and again if *)
(* it loops; otherwise it stays in the last.                               *)
Older ==
  IF age + 1 < Span(control.period) THEN age + 1
  ELSE IF control.loop THEN 0 ELSE (control.period + 1) * Full

ClockQuarterFrame ==
  /\ envelope' = ClockEnvelope(envelope, control)
  /\ linear' = ClockLinear(linear, hold)
  /\ age' = IF envelope.start THEN 0 ELSE Older

ClockHalfFrame ==
  /\ length' = [c \in Channels |-> ClockLength(length[c], Halts(c))]
  /\ sweep' = ClockSweepDivider(sweep)
  /\ timer' = ClockSweepTimer(sweep, timer, first)

-----------------------------------------------------------------------------
(* The registers.                                                          *)
Access == left = 0

(* $4000: the envelope starts again, with every write.                     *)
WriteControl ==
  /\ Access
  /\ control' \in [period : Periods, loop : BOOLEAN]
  /\ envelope' = [envelope EXCEPT !.start = TRUE]
  /\ UNCHANGED <<sequencer, linear, age, halved, enabled, hold, first>>

(* $4001.                                                                  *)
WriteSweep ==
  /\ Access
  /\ \E e, n \in BOOLEAN, p \in Beats, s \in Shifts :
       sweep' = [enabled |-> e, period |-> p, negate |-> n, shift |-> s,
                 reload |-> TRUE, divider |-> sweep.divider]
  /\ UNCHANGED <<sequencer, quartered, length, timer, settings>>

(* $4002: the low byte.                                                    *)
WriteTimer ==
  /\ Access
  /\ timer' \in Timers /\ timer' \div Page = timer \div Page
  /\ UNCHANGED <<sequencer, quartered, length, sweep, settings>>

(* load_length.                                                            *)
LoadLength(c) ==
  \E n \in Lengths : length' = [length EXCEPT ![c] = IF enabled[c] THEN n ELSE @]

(* $4003: the high bits of the timer and a length.                         *)
WriteNote ==
  /\ Access
  /\ timer' \in Timers /\ timer' % Page = timer % Page
  /\ LoadLength("pulse")
  /\ envelope' = [envelope EXCEPT !.start = TRUE]
  /\ UNCHANGED <<sequencer, linear, age, sweep, settings>>

(* $4008.                                                                  *)
WriteHold ==
  /\ Access
  /\ hold' \in [halt : BOOLEAN, value : Linears]
  /\ UNCHANGED <<sequencer, quartered, halved, enabled, control, first>>

(* $400B.                                                                  *)
WriteTriangle ==
  /\ Access
  /\ LoadLength("triangle")
  /\ linear' = [linear EXCEPT !.reload = TRUE]
  /\ UNCHANGED <<sequencer, envelope, age, sweep, timer, settings>>

(* $4015.                                                                  *)
WriteStatus ==
  /\ Access
  /\ enabled' \in [Channels -> BOOLEAN]
  /\ length' = [c \in Channels |-> IF enabled'[c] THEN length[c] ELSE 0]
  /\ UNCHANGED <<sequencer, quartered, sweep, timer, control, hold, first>>

ReadStatus ==
  /\ Access
  /\ frameIrq' = FALSE
  /\ UNCHANGED <<fiveStep, inhibit, accum, left, seen, rings>>
  /\ UNCHANGED <<quartered, halved, settings>>

(* $4017: the sequencer starts again; five-step mode clocks at once.       *)
WriteFrameCounter ==
  /\ Access
  /\ fiveStep' \in BOOLEAN /\ inhibit' \in BOOLEAN
  /\ accum' = 0 /\ seen' = 0 /\ rings' = 0
  /\ frameIrq' = (frameIrq /\ ~ inhibit')
  /\ IF fiveStep' THEN ClockQuarterFrame /\ ClockHalfFrame
     ELSE UNCHANGED <<quartered, halved>>
  /\ UNCHANGED <<left, settings>>

-----------------------------------------------------------------------------
(* clock_frame_sequencer.                                                  *)
Points == {Point1, Point2, Point3, IF fiveStep THEN Point5 ELSE Point4}
IsHalf(p) == p \notin {Point1, Point3}
IsIrq(p) == ~ fiveStep /\ p = Point4

(* The events in (start, end] that the chunk still reaches.                *)
Due == {p \in Points : accum < p /\ p <= accum + left}

Begin(n) ==
  /\ left = 0
  /\ left' = n
  /\ seen' = (seen + n) % Period
  /\ UNCHANGED <<fiveStep, inhibit, accum, frameIrq, rings>>
  /\ UNCHANGED <<quartered, halved, settings>>

(* clock_frame_events_between.                                             *)
Ring(p) ==
  /\ p \in Due /\ \A q \in Due : p <= q
  /\ accum' = p /\ left' = left - (p - accum)
  /\ ClockQuarterFrame
  /\ IF IsHalf(p) THEN ClockHalfFrame ELSE UNCHANGED halved
  /\ frameIrq' = (frameIrq \/ (IsIrq(p) /\ ~ inhibit))
  /\ rings' = (rings + 1) % 4
  /\ UNCHANGED <<fiveStep, inhibit, seen, settings>>

(* Mutant: what is left over after the last event is lost.                 *)
WrapToStart ==
  /\ left > 0 /\ Due = {} /\ accum + left >= Period
  /\ accum' = 0 /\ left' = 0
  /\ UNCHANGED <<fiveStep, inhibit, frameIrq, seen, rings>>
  /\ UNCHANGED <<quartered, halved, settings>>

Wrap ==
  /\ left > 0 /\ Due = {} /\ accum + left >= Period
  /\ accum' = 0 /\ left' = accum + left - Period
  /\ UNCHANGED <<fiveStep, inhibit, frameIrq, seen, rings>>
  /\ UNCHANGED <<quartered, halved, settings>>

Settle ==
  /\ left > 0 /\ Due = {} /\ accum + left < Period
  /\ accum' = accum + left /\ left' = 0
  /\ UNCHANGED <<fiveStep, inhibit, frameIrq, seen, rings>>
  /\ UNCHANGED <<quartered, halved, settings>>

Clock ==
  \/ \E n \in Chunks : Begin(n)
  \/ \E p \in Points : Ring(p)
  \/ Wrap \/ Settle

Next ==
  \/ WriteControl \/ WriteSweep \/ WriteTimer \/ WriteNote
  \/ WriteHold \/ WriteTriangle
  \/ WriteStatus \/ ReadStatus \/ WriteFrameCounter
  \/ Clock

(* The run loops clock the devices after every instruction.                *)
Spec == Init /\ [][Next]_vars /\ WF_vars(Clock)

-----------------------------------------------------------------------------
(* How the cycles are cut into chunks is invisible: between two chunks the *)
(* sequencer stands where the cycles since its reset put it, and just the  *)
(* events up to there have come, none twice.                               *)
Rank(a) ==
  IF a < Point1 THEN 0
  ELSE IF a < Point2 THEN 1
  ELSE IF a < Point3 THEN 2
  ELSE IF a < (IF fiveStep THEN Point5 ELSE Point4) THEN 3
  ELSE 0
EventsOnTime == left = 0 => accum = seen /\ rings = Rank(seen)

(* The volume of an envelope follows from its age alone: one level down    *)
(* every period + 1 quarter frames since it was full, whatever was written *)
(* before.                                                                 *)
EnvelopeOnSchedule ==
  ~ envelope.start =>
    LET step == control.period + 1
    IN /\ envelope.decay = Full - age \div step
       /\ envelope.divider = control.period - (age % step)

(* A channel that is switched off stays silent: no write, load or clock    *)
(* gives it a length.                                                      *)
DisabledIsSilent == \A c \in Channels : ~ enabled[c] => length[c] = 0

(* A sweep does not move a muted pulse and mutes none by moving it out of  *)
(* its range, and a new setting waits a half frame.                        *)
SweepKeepsRange ==
  [][sweep' # sweep /\ timer' # timer =>
       /\ ~ sweep.reload /\ ~ Mutes(sweep, timer, first)
       /\ timer' \in Low..High]_vars

(* A note ends: unless its counter is halted, a length runs out, and so    *)
(* does the linear counter of the triangle, if the program from some point *)
(* on leaves its settings and the sequencer alone and starts no note.      *)
Undisturbed ==
  <>[][~ (\/ WriteNote \/ WriteTriangle \/ WriteFrameCounter
          \/ WriteControl \/ WriteHold)]_vars
NotesEnd ==
  Undisturbed =>
    <>[]/\ \A c \in Channels : length[c] = 0 \/ Halts(c)
        /\ linear.counter = 0 \/ hold.halt
=============================================================================
