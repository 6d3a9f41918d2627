----------------------------- MODULE ApuProofs ------------------------------
(***************************************************************************)
(* The audio unit: the frame sequencer and its channels, for any points of *)
(* the sequencer, any chunks and any ranges of the registers; and the      *)
(* delta modulation channel, for every memory, period and chunk.  They     *)
(* share nothing but the clocks.                                           *)
(***************************************************************************)
EXTENDS ApuFrame, ApuDmc, TLAPS

----------------------------------------------------------------------------
(* The frame sequencer and the channels *)

(* The position between events: the cycles still to come are those that    *)
(* the history is ahead, and the events up to here have come.              *)
Placed == seen = (accum + left) % Period /\ rings = Rank(accum)

(* The age of an envelope, level by level.                                 *)
Aged ==
  ~ envelope.start =>
    /\ envelope.divider <= control.period
    /\ age = (control.period + 1) * (Full - envelope.decay)
               + (control.period - envelope.divider)

FrameInv == TypeOK /\ Placed /\ Aged /\ DisabledIsSilent

-----------------------------------------------------------------------------
(* Arithmetic.                                                             *)

(* A sum of whole steps and a part of one is divided into them.            *)
LEMMA Divided ==
  ASSUME NEW k \in Nat \ {0}, NEW q \in Nat, NEW r \in 0..k - 1
  PROVE  (k * q + r) \div k = q /\ (k * q + r) % k = r
  OBVIOUS

(* Taking off a whole period leaves the remainder.                         *)
LEMMA Reduced ==
  ASSUME NEW a \in Nat, NEW m \in Nat \ {0}, a >= m
  PROVE  (a - m) % m = a % m
<1>. DEFINE q == (a - m) \div m
            r == (a - m) % m
<1>1. a - m \in Nat
  OBVIOUS
<1>2. a - m = m * q + r /\ q \in Nat /\ r \in 0..m - 1
  <2>. DEFINE b == a - m
  <2>. HIDE DEF b
  <2>1. ASSUME b \in Nat
        PROVE  b = m * (b \div m) + (b % m) /\ b \div m \in Nat
               /\ b % m \in 0..m - 1
    BY <2>1
  <2>. QED BY <1>1, <2>1 DEF b
<1>. HIDE DEF q, r
<1>3. a = m * (q + 1) + r
  BY <1>2
<1>4. a % m = r
  BY <1>2, <1>3, Divided
<1>. QED BY <1>4 DEF r

(* Adding to the remainder is adding to the number.                        *)
LEMMA Remainder ==
  ASSUME NEW a \in Nat, NEW m \in Nat \ {0}, a < m
  PROVE  a % m = a
OBVIOUS

LEMMA OneMoreStep ==
  ASSUME NEW q \in Int, NEW m \in Int
  PROVE  m * (q + 1) = m * q + m
OBVIOUS

LEMMA NoMore ==
  ASSUME NEW q \in Nat, NEW n \in Nat, NEW m \in Nat, q <= n
  PROVE  m * q <= m * n
OBVIOUS

-----------------------------------------------------------------------------
(* What the sequencer clocks.                                              *)

(* A quarter frame keeps the envelope on its schedule.                     *)
LEMMA QuarterKeeps ==
  ASSUME TypeOK, Aged, ClockQuarterFrame, UNCHANGED <<control, hold>>
  PROVE  /\ envelope' \in [start : BOOLEAN, decay : 0..Full, divider : Nat]
         /\ linear' \in [counter : Nat, reload : BOOLEAN]
         /\ age' \in Nat
         /\ Aged'
<1>. DEFINE p == control.period
            step == p + 1
<1>. USE RegisterAssumption
<1>1. p \in Nat /\ control.loop \in BOOLEAN
  BY DEF TypeOK
<1>2. /\ envelope = [start |-> envelope.start, decay |-> envelope.decay,
                     divider |-> envelope.divider]
      /\ envelope.start \in BOOLEAN
      /\ envelope.decay \in 0..Full /\ envelope.divider \in Nat
  BY DEF TypeOK
<1>3. linear' \in [counter : Nat, reload : BOOLEAN]
  <2>1. linear.counter \in Nat /\ linear.reload \in BOOLEAN
        /\ hold.value \in Nat /\ hold.halt \in BOOLEAN
    BY DEF TypeOK
  <2>2. (linear.reload /\ hold.halt) \in BOOLEAN
    BY <2>1
  <2>3. (IF linear.reload THEN hold.value
         ELSE IF linear.counter > 0 THEN linear.counter - 1 ELSE 0) \in Nat
    BY <2>1
  <2>. QED BY <2>2, <2>3 DEF ClockQuarterFrame, ClockLinear
<1>4. CASE envelope.start
  <2>1. envelope' = [start |-> FALSE, decay |-> Full, divider |-> p]
    BY <1>4 DEF ClockQuarterFrame, ClockEnvelope
  <2>2. age' = 0
    BY <1>4 DEF ClockQuarterFrame
  <2>3. age' = step * (Full - Full) + (p - p)
    BY <1>1, <2>2
  <2>. QED BY <1>1, <1>3, <2>1, <2>2, <2>3 DEF Aged
<1>5. CASE ~ envelope.start
  <2>. DEFINE d == Full - envelope.decay
  <2>1. /\ envelope.divider <= p
        /\ age = step * d + (p - envelope.divider)
        /\ age' = Older
    BY <1>5 DEF Aged, ClockQuarterFrame
  <2>2. d \in 0..Full /\ step \in Nat \ {0}
    BY <1>1, <1>2
  <2>3. Span(p) = step * Full + step
    BY <1>1, OneMoreStep DEF Span
  <2>. HIDE DEF d, step
  <2>4. step * d \in Nat /\ step * Full \in Nat /\ step * d <= step * Full
    BY <2>2, NoMore
  <2>. USE DEF step
  <2>5. CASE envelope.divider > 0
    <3>1. envelope' = [start |-> FALSE, decay |-> envelope.decay,
                       divider |-> envelope.divider - 1]
      BY <1>2, <1>5, <2>5 DEF ClockQuarterFrame, ClockEnvelope
    <3>2. age + 1 < Span(p)
      BY <1>1, <1>2, <2>1, <2>3, <2>4, <2>5
    <3>3. age' = step * d + (p - (envelope.divider - 1))
      BY <1>1, <1>2, <2>1, <2>4, <2>5, <3>2 DEF Older
    <3>4. age' \in Nat /\ envelope.divider - 1 \in Nat
          /\ envelope.divider - 1 <= p
      BY <1>1, <1>2, <2>1, <2>4, <2>5, <3>3
    <3>. QED BY <1>2, <1>3, <3>1, <3>3, <3>4 DEF Aged, d
  <2>6. CASE envelope.divider = 0 /\ envelope.decay > 0
    <3>1. envelope' = [start |-> FALSE, decay |-> envelope.decay - 1,
                       divider |-> p]
      BY <1>2, <1>5, <2>6 DEF ClockQuarterFrame, ClockEnvelope
    <3>2. d + 1 \in 0..Full
      BY <1>2, <2>6 DEF d
    <3>3. step * (d + 1) = step * d + step
      BY <2>2, OneMoreStep
    <3>4. step * (d + 1) <= step * Full
      BY <2>2, <3>2, NoMore
    <3>5. age + 1 = step * (d + 1)
      BY <1>1, <2>1, <2>4, <2>6, <3>3
    <3>6. age + 1 < Span(p)
      BY <1>1, <2>2, <2>3, <2>4, <3>4, <3>5
    <3>7. age' = step * (d + 1)
      BY <2>1, <3>5, <3>6 DEF Older
    <3>8. age' = step * (Full - (envelope.decay - 1)) + (p - p) /\ age' \in Nat
      <4>1. Full - (envelope.decay - 1) = d + 1
        BY <1>2 DEF d
      <4>. QED BY <1>1, <2>2, <2>4, <3>3, <3>7, <4>1
    <3>. QED BY <1>1, <1>2, <1>3, <2>6, <3>1, <3>8 DEF Aged
  <2>7. CASE envelope.divider = 0 /\ envelope.decay = 0
    <3>1. d = Full
      BY <2>7 DEF d
    <3>2. age + 1 = Span(p)
      BY <1>1, <2>1, <2>3, <2>4, <2>7, <3>1
    <3>3. CASE control.loop
      <4>1. envelope' = [start |-> FALSE, decay |-> Full, divider |-> p]
        BY <1>2, <1>5, <2>7, <3>3 DEF ClockQuarterFrame, ClockEnvelope
      <4>2. age' = 0
        BY <1>1, <2>1, <2>3, <2>4, <3>2, <3>3 DEF Older
      <4>3. age' = step * (Full - Full) + (p - p)
        BY <1>1, <4>2
      <4>. QED BY <1>1, <1>3, <4>1, <4>2, <4>3 DEF Aged
    <3>4. CASE ~ control.loop
      <4>1. envelope' = [start |-> FALSE, decay |-> 0, divider |-> p]
        BY <1>2, <1>5, <2>7, <3>4 DEF ClockQuarterFrame, ClockEnvelope
      <4>2. age' = step * Full
        BY <1>1, <2>1, <2>3, <2>4, <3>2, <3>4 DEF Older
      <4>3. age' = step * (Full - 0) + (p - p)
        BY <1>1, <2>4, <4>2
      <4>. QED BY <1>1, <1>3, <2>4, <4>1, <4>2, <4>3 DEF Aged
    <3>. QED BY <3>3, <3>4
  <2>. QED BY <1>2, <2>5, <2>6, <2>7
<1>. QED BY <1>2, <1>4, <1>5

(* A half frame keeps the timer in its range and silence silent.           *)
LEMMA HalfKeeps ==
  ASSUME TypeOK, ClockHalfFrame
  PROVE  /\ length' \in [Channels -> Nat]
         /\ sweep' \in [enabled : BOOLEAN, period : Beats, negate : BOOLEAN,
                        shift : Shifts, reload : BOOLEAN, divider : Nat]
         /\ timer' \in Timers
         /\ \A c \in Channels : length[c] = 0 => length'[c] = 0
<1>. USE RegisterAssumption
<1>1. \A c \in Channels : ClockLength(length[c], Halts(c)) \in Nat
  BY DEF TypeOK, ClockLength
<1>2. length' \in [Channels -> Nat]
  BY <1>1 DEF ClockHalfFrame
<1>3. \A c \in Channels : length[c] = 0 => length'[c] = 0
  BY DEF ClockHalfFrame, ClockLength
<1>4. (IF sweep.reload \/ sweep.divider = 0 THEN sweep.period
       ELSE sweep.divider - 1) \in Nat
  <2>1. sweep.period \in Nat /\ sweep.divider \in Nat
    BY DEF TypeOK
  <2>. QED BY <2>1
<1>5. sweep' \in [enabled : BOOLEAN, period : Beats, negate : BOOLEAN,
                  shift : Shifts, reload : BOOLEAN, divider : Nat]
  BY <1>4 DEF TypeOK, ClockHalfFrame, ClockSweepDivider
<1>6. timer' \in Timers
  <2>1. timer' = timer \/ timer' \in Low..High
    BY DEF ClockHalfFrame, ClockSweepTimer, SweptTo
  <2>. QED BY <2>1 DEF TypeOK, Timers
<1>. QED BY <1>2, <1>3, <1>5, <1>6

-----------------------------------------------------------------------------
(* The actions.                                                            *)

LEMMA FrameBase == Init => FrameInv
<1>. SUFFICES ASSUME Init PROVE FrameInv
  OBVIOUS
<1>. USE PointAssumption, RegisterAssumption
<1>1. TypeOK
  <2>1. /\ fiveStep \in BOOLEAN /\ inhibit \in BOOLEAN /\ frameIrq \in BOOLEAN
        /\ first \in BOOLEAN
    BY DEF Init
  <2>2. accum \in 0..Period - 1 /\ left \in Nat /\ seen \in Nat
        /\ rings \in 0..3 /\ age \in Nat /\ timer \in Timers
    BY DEF Init, Period, Timers
  <2>3. enabled \in [Channels -> BOOLEAN] /\ length \in [Channels -> Nat]
    BY DEF Init
  <2>4. /\ control \in [period : Periods, loop : BOOLEAN]
        /\ envelope \in [start : BOOLEAN, decay : 0..Full, divider : Nat]
        /\ hold \in [halt : BOOLEAN, value : Linears]
        /\ linear \in [counter : Nat, reload : BOOLEAN]
    BY DEF Init
  <2>5. sweep \in [enabled : BOOLEAN, period : Beats, negate : BOOLEAN,
                   shift : Shifts, reload : BOOLEAN, divider : Nat]
    BY DEF Init
  <2>. QED BY <2>1, <2>2, <2>3, <2>4, <2>5 DEF TypeOK
<1>2. Placed
  BY DEF Init, Placed, Rank, Period
<1>3. Aged
  BY DEF Init, Aged
<1>4. DisabledIsSilent
  BY DEF Init, DisabledIsSilent
<1>. QED BY <1>1, <1>2, <1>3, <1>4 DEF FrameInv

(* The registers of the sound parts do not touch the sequencer.            *)
LEMMA PlacedStays ==
  ASSUME Placed, UNCHANGED sequencer
  PROVE  Placed'
BY DEF Placed, sequencer, Period, Rank

(* The age of an envelope that is to start is of no matter.                *)
LEMMA AgedStays ==
  ASSUME Aged, envelope'.start \/ UNCHANGED <<envelope, age, control>>
  PROVE  Aged'
BY DEF Aged

LEMMA ControlKeeps == ASSUME FrameInv, WriteControl PROVE FrameInv'
<1>. USE DEF FrameInv
<1>1. envelope'.start /\ envelope' \in [start : BOOLEAN, decay : 0..Full, divider : Nat]
  BY DEF WriteControl, TypeOK
<1>2. TypeOK'
  BY <1>1 DEF WriteControl, TypeOK, sequencer, halved, Period, Timers
<1>3. Placed'
  BY PlacedStays DEF WriteControl
<1>4. Aged'
  BY <1>1, AgedStays
<1>5. DisabledIsSilent'
  BY DEF WriteControl, DisabledIsSilent, halved
<1>. QED BY <1>2, <1>3, <1>4, <1>5

LEMMA SweepKeeps == ASSUME FrameInv, WriteSweep PROVE FrameInv'
<1>. USE DEF FrameInv
<1>1. sweep' \in [enabled : BOOLEAN, period : Beats, negate : BOOLEAN,
                  shift : Shifts, reload : BOOLEAN, divider : Nat]
  BY DEF WriteSweep, TypeOK
<1>2. TypeOK'
  BY <1>1 DEF WriteSweep, TypeOK, sequencer, quartered, settings, Period, Timers
<1>3. Placed'
  BY PlacedStays DEF WriteSweep
<1>4. Aged'
  BY AgedStays DEF WriteSweep, quartered, settings
<1>5. DisabledIsSilent'
  BY DEF WriteSweep, DisabledIsSilent, settings
<1>. QED BY <1>2, <1>3, <1>4, <1>5

LEMMA TimerKeeps == ASSUME FrameInv, WriteTimer PROVE FrameInv'
<1>. USE DEF FrameInv
<1>1. timer' \in Timers
  BY DEF WriteTimer
<1>2. TypeOK'
  BY <1>1 DEF WriteTimer, TypeOK, sequencer, quartered, settings, Period, Timers
<1>3. Placed'
  BY PlacedStays DEF WriteTimer
<1>4. Aged'
  BY AgedStays DEF WriteTimer, quartered, settings
<1>5. DisabledIsSilent'
  BY DEF WriteTimer, DisabledIsSilent, settings
<1>. QED BY <1>2, <1>3, <1>4, <1>5

(* A length is taken only by a channel that is on.                         *)
LEMMA LengthLoaded ==
  ASSUME FrameInv, NEW c \in Channels, LoadLength(c), UNCHANGED enabled
  PROVE  length' \in [Channels -> Nat] /\ DisabledIsSilent'
<1>. USE RegisterAssumption DEF FrameInv
<1>1. PICK n \in Lengths :
        length' = [length EXCEPT ![c] = IF enabled[c] THEN n ELSE @]
  BY DEF LoadLength
<1>2. length' \in [Channels -> Nat]
  BY <1>1 DEF TypeOK
<1>3. DisabledIsSilent'
  BY <1>1 DEF TypeOK, DisabledIsSilent
<1>. QED BY <1>2, <1>3

LEMMA NoteKeeps == ASSUME FrameInv, WriteNote PROVE FrameInv'
<1>. USE DEF FrameInv
<1>1. envelope'.start /\ envelope' \in [start : BOOLEAN, decay : 0..Full, divider : Nat]
  BY DEF WriteNote, TypeOK
<1>2. length' \in [Channels -> Nat] /\ DisabledIsSilent'
  BY LengthLoaded DEF WriteNote, Channels, settings
<1>3. timer' \in Timers
  BY DEF WriteNote
<1>4. TypeOK'
  BY <1>1, <1>2, <1>3 DEF WriteNote, TypeOK, sequencer, settings, Period, Timers
<1>5. Placed'
  BY PlacedStays DEF WriteNote
<1>6. Aged'
  BY <1>1, AgedStays
<1>. QED BY <1>2, <1>4, <1>5, <1>6

LEMMA HoldKeeps == ASSUME FrameInv, WriteHold PROVE FrameInv'
<1>. USE DEF FrameInv
<1>1. hold' \in [halt : BOOLEAN, value : Linears]
  BY DEF WriteHold
<1>2. TypeOK'
  BY <1>1 DEF WriteHold, TypeOK, sequencer, quartered, halved, Period, Timers
<1>3. Placed'
  BY PlacedStays DEF WriteHold
<1>4. Aged'
  BY AgedStays DEF WriteHold, quartered
<1>5. DisabledIsSilent'
  BY DEF WriteHold, DisabledIsSilent, halved
<1>. QED BY <1>2, <1>3, <1>4, <1>5

LEMMA TriangleKeeps == ASSUME FrameInv, WriteTriangle PROVE FrameInv'
<1>. USE DEF FrameInv
<1>1. linear' \in [counter : Nat, reload : BOOLEAN]
  BY DEF WriteTriangle, TypeOK
<1>2. length' \in [Channels -> Nat] /\ DisabledIsSilent'
  BY LengthLoaded DEF WriteTriangle, Channels, settings
<1>3. TypeOK'
  BY <1>1, <1>2 DEF WriteTriangle, TypeOK, sequencer, settings, Period, Timers
<1>4. Placed'
  BY PlacedStays DEF WriteTriangle
<1>5. Aged'
  BY AgedStays DEF WriteTriangle, settings
<1>. QED BY <1>2, <1>3, <1>4, <1>5

LEMMA StatusKeeps == ASSUME FrameInv, WriteStatus \/ ReadStatus PROVE FrameInv'
<1>. USE DEF FrameInv
<1>1. CASE WriteStatus
  <2>1. enabled' \in [Channels -> BOOLEAN] /\ length' \in [Channels -> Nat]
    BY <1>1 DEF WriteStatus, TypeOK
  <2>2. TypeOK'
    BY <1>1, <2>1 DEF WriteStatus, TypeOK, sequencer, quartered, Period, Timers
  <2>3. Placed'
    BY <1>1, PlacedStays DEF WriteStatus
  <2>4. Aged'
    BY <1>1, AgedStays DEF WriteStatus, quartered
  <2>5. DisabledIsSilent'
    BY <1>1 DEF WriteStatus, DisabledIsSilent
  <2>. QED BY <2>2, <2>3, <2>4, <2>5
<1>2. CASE ReadStatus
  <2>1. TypeOK'
    BY <1>2 DEF ReadStatus, TypeOK, quartered, halved, settings, Period, Timers
  <2>2. Placed'
    BY <1>2 DEF ReadStatus, Placed, Period, Rank
  <2>3. Aged'
    BY <1>2, AgedStays DEF ReadStatus, quartered, settings
  <2>4. DisabledIsSilent'
    BY <1>2 DEF ReadStatus, DisabledIsSilent, halved, settings
  <2>. QED BY <2>1, <2>2, <2>3, <2>4
<1>. QED BY <1>1, <1>2

LEMMA FrameCounterKeeps == ASSUME FrameInv, WriteFrameCounter PROVE FrameInv'
<1>. USE PointAssumption DEF FrameInv
<1>1. /\ fiveStep' \in BOOLEAN /\ inhibit' \in BOOLEAN /\ frameIrq' \in BOOLEAN
      /\ UNCHANGED <<left, enabled, control, hold, first>>
  <2>1. (frameIrq /\ ~ inhibit') \in BOOLEAN
    OBVIOUS
  <2>2. frameIrq' = (frameIrq /\ ~ inhibit')
    BY DEF WriteFrameCounter
  <2>3. frameIrq' \in BOOLEAN
    BY <2>1, <2>2
  <2>. QED BY <2>3 DEF WriteFrameCounter, settings
<1>2. /\ accum' \in 0..Period' - 1 /\ left' \in Nat
      /\ seen' \in Nat /\ rings' \in 0..3
  BY DEF WriteFrameCounter, TypeOK, Period
<1>3. Placed'
  <2>1. left' = 0
    BY DEF WriteFrameCounter, Access
  <2>2. Period' \in Nat \ {0}
    BY DEF Period
  <2>3. 0 % Period' = 0
    <3>1. \A m \in Nat \ {0} : 0 % m = 0
      OBVIOUS
    <3>. QED BY <2>2, <3>1
  <2>4. /\ accum' = 0 /\ seen' = 0 /\ rings' = 0 /\ accum' + left' = 0
    BY <2>1 DEF WriteFrameCounter
  <2>5. Rank(accum)' = 0
    BY <2>4 DEF Rank
  <2>. QED BY <2>3, <2>4, <2>5 DEF Placed
<1>4. CASE ClockQuarterFrame /\ ClockHalfFrame
  <2>1. TypeOK'
    BY <1>1, <1>2, <1>4, QuarterKeeps, HalfKeeps DEF TypeOK, Timers
  <2>2. Aged'
    BY <1>1, <1>4, QuarterKeeps
  <2>3. DisabledIsSilent'
    BY <1>1, <1>4, HalfKeeps DEF DisabledIsSilent
  <2>. QED BY <1>3, <2>1, <2>2, <2>3
<1>5. CASE UNCHANGED <<quartered, halved>>
  <2>1. /\ length' = length /\ sweep' = sweep /\ timer' = timer
        /\ envelope' = envelope /\ linear' = linear /\ age' = age
    BY <1>5 DEF quartered, halved
  <2>2. TypeOK'
    BY <1>1, <1>2, <2>1 DEF TypeOK, Timers
  <2>3. Aged'
    BY <1>1, <1>5, AgedStays DEF quartered
  <2>4. DisabledIsSilent'
    BY <1>1, <1>5 DEF DisabledIsSilent, halved
  <2>. QED BY <1>3, <2>2, <2>3, <2>4
<1>. QED BY <1>4, <1>5 DEF WriteFrameCounter

-----------------------------------------------------------------------------
(* Time.                                                                   *)

LEMMA BeginKeeps == ASSUME FrameInv, NEW n \in Chunks, Begin(n) PROVE FrameInv'
<1>. USE PointAssumption DEF FrameInv
<1>1. n \in Nat /\ Period \in Nat \ {0} /\ Period' = Period
  BY DEF Begin, Period
<1>2. seen' = (accum + left') % Period
  <2>1. accum \in Nat /\ accum < Period
    BY <1>1 DEF TypeOK
  <2>2. seen = accum
    <3>1. accum + left = accum
      BY <2>1 DEF Begin
    <3>. QED BY <1>1, <2>1, <3>1, Remainder DEF Placed
  <2>. QED BY <2>2 DEF Begin
<1>3. seen' \in Nat
  BY <1>1, <1>2 DEF Begin, TypeOK
<1>4. TypeOK'
  BY <1>1, <1>3 DEF Begin, TypeOK, quartered, halved, settings, Timers
<1>5. Placed'
  BY <1>1, <1>2 DEF Begin, Placed, Rank
<1>6. Aged'
  BY AgedStays DEF Begin, quartered, settings
<1>7. DisabledIsSilent'
  BY DEF Begin, DisabledIsSilent, halved, settings
<1>. QED BY <1>4, <1>5, <1>6, <1>7

(* Between the position and the next event, the rank is one less.          *)
LEMMA NextRank ==
  ASSUME TypeOK, NEW p \in Due, \A q \in Due : p <= q
  PROVE  /\ p \in 0..Period - 1 /\ p > accum /\ p - accum <= left
         /\ Rank(p) = (Rank(accum) + 1) % 4
<1>. USE PointAssumption
<1>1. accum \in Nat /\ left \in Nat /\ fiveStep \in BOOLEAN
  BY DEF TypeOK, Period
<1>2. p \in Points /\ accum < p /\ p <= accum + left /\ p \in Nat
  BY DEF Due, Points
<1>3. \A q \in Points : q <= accum \/ p <= q
  <2>. SUFFICES ASSUME NEW q \in Points, ~ (q <= accum), ~ (p <= q) PROVE FALSE
    OBVIOUS
  <2>1. q \in Nat
    BY DEF Points
  <2>2. q \in Due
    BY <1>1, <1>2, <2>1 DEF Due
  <2>. QED BY <2>2
<1>4. CASE fiveStep
  BY <1>1, <1>2, <1>3, <1>4 DEF Points, Rank, Period
<1>5. CASE ~ fiveStep
  BY <1>1, <1>2, <1>3, <1>5 DEF Points, Rank, Period
<1>. QED BY <1>1, <1>4, <1>5

LEMMA RingKeeps == ASSUME FrameInv, NEW p \in Points, Ring(p) PROVE FrameInv'
<1>. USE PointAssumption DEF FrameInv
<1>1. /\ p \in 0..Period - 1 /\ p > accum /\ p - accum <= left
      /\ Rank(p) = (Rank(accum) + 1) % 4
  BY NextRank DEF Ring
<1>2. /\ Period' = Period /\ accum \in Nat /\ left \in Nat /\ Period \in Nat
      /\ UNCHANGED <<fiveStep, inhibit, seen, enabled, control, hold, first>>
  BY DEF Ring, Period, TypeOK, settings
<1>3. /\ accum' \in 0..Period' - 1 /\ left' \in Nat /\ accum' + left' = accum + left
  BY <1>1, <1>2 DEF Ring
<1>4. frameIrq' \in BOOLEAN
  <2>1. (frameIrq \/ (IsIrq(p) /\ ~ inhibit)) \in BOOLEAN
    OBVIOUS
  <2>. QED BY <2>1 DEF Ring
<1>5. rings' = Rank(p) /\ rings' \in 0..3
  BY <1>1 DEF Ring, Placed, TypeOK
<1>6. Placed'
  <2>1. Rank(p)' = Rank(p)
    BY <1>2 DEF Rank
  <2>. QED BY <1>2, <1>3, <1>5 DEF Placed, Ring, Rank
<1>7. /\ envelope' \in [start : BOOLEAN, decay : 0..Full, divider : Nat]
      /\ linear' \in [counter : Nat, reload : BOOLEAN]
      /\ age' \in Nat /\ Aged'
  BY <1>2, QuarterKeeps DEF Ring
<1>8. /\ length' \in [Channels -> Nat]
      /\ sweep' \in [enabled : BOOLEAN, period : Beats, negate : BOOLEAN,
                     shift : Shifts, reload : BOOLEAN, divider : Nat]
      /\ timer' \in Timers
      /\ \A c \in Channels : length[c] = 0 => length'[c] = 0
  <2>1. CASE ClockHalfFrame
    BY <2>1, HalfKeeps
  <2>2. CASE UNCHANGED halved
    BY <2>2 DEF halved, TypeOK
  <2>. QED BY <2>1, <2>2 DEF Ring
<1>9. TypeOK'
  BY <1>2, <1>3, <1>4, <1>5, <1>7, <1>8 DEF TypeOK, Timers
<1>10. DisabledIsSilent'
  BY <1>2, <1>8 DEF DisabledIsSilent
<1>. QED BY <1>6, <1>7, <1>9, <1>10

(* Where no event is due, the rank stays; after the last, it is zero.      *)
LEMMA NoEvent ==
  ASSUME TypeOK, Due = {}
  PROVE  /\ accum + left < Period => Rank(accum + left) = Rank(accum)
         /\ accum + left >= Period => Rank(accum) = 0
<1>. USE PointAssumption
<1>1. accum \in Nat /\ left \in Nat /\ fiveStep \in BOOLEAN
  BY DEF TypeOK, Period
<1>2. \A q \in Points : q <= accum \/ q > accum + left
  <2>. SUFFICES ASSUME NEW q \in Points, ~ (q <= accum), ~ (q > accum + left)
                PROVE  FALSE
    OBVIOUS
  <2>1. q \in Nat
    BY DEF Points
  <2>2. q \in Due
    BY <1>1, <2>1 DEF Due
  <2>. QED BY <2>2
<1>3. CASE fiveStep
  BY <1>1, <1>2, <1>3 DEF Points, Rank, Period
<1>4. CASE ~ fiveStep
  BY <1>1, <1>2, <1>4 DEF Points, Rank, Period
<1>. QED BY <1>1, <1>3, <1>4

LEMMA PassKeeps == ASSUME FrameInv, Wrap \/ Settle PROVE FrameInv'
<1>. USE PointAssumption DEF FrameInv
<1>1. /\ UNCHANGED <<fiveStep, inhibit, frameIrq, seen, rings>>
      /\ UNCHANGED <<quartered, halved, settings>>
      /\ Due = {} /\ left > 0
  BY DEF Wrap, Settle
<1>2. /\ accum \in Nat /\ left \in Nat /\ accum < Period
      /\ Period \in Nat \ {0} /\ Period' = Period
  BY <1>1 DEF TypeOK, Period
<1>3. /\ accum' \in 0..Period - 1 /\ left' \in Nat
      /\ (accum' + left') % Period = (accum + left) % Period
      /\ Rank(accum') = Rank(accum)
  <2>1. CASE Wrap
    <3>1. /\ accum' = 0 /\ left' = accum + left - Period
          /\ accum + left >= Period
      BY <2>1 DEF Wrap
    <3>2. (accum + left - Period) % Period = (accum + left) % Period
      <4>. DEFINE b == accum + left
      <4>1. b \in Nat /\ b >= Period
        BY <1>2, <3>1
      <4>. HIDE DEF b
      <4>2. (b - Period) % Period = b % Period
        BY <1>2, <4>1, Reduced
      <4>. QED BY <1>2, <4>1, <4>2 DEF b
    <3>3. Rank(accum) = 0
      BY <1>1, <1>2, <3>1, NoEvent
    <3>4. Rank(0) = 0
      BY DEF Rank
    <3>5. accum' + left' = accum + left - Period
      BY <1>2, <3>1
    <3>. QED BY <1>2, <3>1, <3>2, <3>3, <3>4, <3>5
  <2>2. CASE Settle
    <3>1. accum' = accum + left /\ left' = 0 /\ accum + left < Period
      BY <2>2 DEF Settle
    <3>2. Rank(accum') = Rank(accum)
      BY <1>1, <1>2, <3>1, NoEvent
    <3>. QED BY <1>2, <3>1, <3>2
  <2>. QED BY <2>1, <2>2
<1>4. TypeOK'
  BY <1>1, <1>2, <1>3 DEF TypeOK, quartered, halved, settings, Timers
<1>5. Placed'
  <2>1. Rank(accum)' = Rank(accum')
    BY <1>1 DEF Rank
  <2>. QED BY <1>1, <1>2, <1>3, <2>1 DEF Placed
<1>6. Aged'
  BY <1>1, AgedStays DEF quartered, settings
<1>7. DisabledIsSilent'
  BY <1>1 DEF DisabledIsSilent, halved, settings
<1>. QED BY <1>4, <1>5, <1>6, <1>7

LEMMA FramePreserved == FrameInv /\ [Next]_vars => FrameInv'
<1>. SUFFICES ASSUME FrameInv, [Next]_vars PROVE FrameInv'
  OBVIOUS
<1>1. CASE WriteControl
  BY <1>1, ControlKeeps
<1>2. CASE WriteSweep
  BY <1>2, SweepKeeps
<1>3. CASE WriteTimer
  BY <1>3, TimerKeeps
<1>4. CASE WriteNote
  BY <1>4, NoteKeeps
<1>5. CASE WriteHold
  BY <1>5, HoldKeeps
<1>6. CASE WriteTriangle
  BY <1>6, TriangleKeeps
<1>7. CASE WriteStatus \/ ReadStatus
  BY <1>7, StatusKeeps
<1>8. CASE WriteFrameCounter
  BY <1>8, FrameCounterKeeps
<1>9. CASE Clock
  <2>1. CASE \E n \in Chunks : Begin(n)
    BY <2>1, BeginKeeps
  <2>2. CASE \E p \in Points : Ring(p)
    BY <2>2, RingKeeps
  <2>3. CASE Wrap \/ Settle
    BY <2>3, PassKeeps
  <2>. QED BY <1>9, <2>1, <2>2, <2>3 DEF Clock
<1>10. CASE UNCHANGED vars
  BY <1>10 DEF FrameInv, TypeOK, Placed, Aged, DisabledIsSilent, vars, sequencer,
     quartered, halved, settings, Period, Rank, Timers
<1>. QED BY <1>1, <1>2, <1>3, <1>4, <1>5, <1>6, <1>7, <1>8, <1>9, <1>10
     DEF Next

(* The strengthened invariant holds.                                       *)
THEOREM FrameInductive == Spec => []FrameInv
<1>. QED BY FrameBase, FramePreserved, PTL DEF Spec

-----------------------------------------------------------------------------
(* What follows.                                                           *)

(* Every register and counter keeps its range, the timer of a swept pulse  *)
(* above all.                                                              *)
THEOREM FrameTypes == Spec => []TypeOK
<1>1. FrameInv => TypeOK
  BY DEF FrameInv
<1>. QED BY <1>1, FrameInductive, PTL

(* The events of the sequencer depend on the cycles alone, however these   *)
(* are cut into chunks.                                                    *)
THEOREM SequencerOnTime == Spec => []EventsOnTime
<1>1. FrameInv => EventsOnTime
  <2>. SUFFICES ASSUME FrameInv, left = 0 PROVE accum = seen /\ rings = Rank(seen)
    BY DEF EventsOnTime
  <2>1. accum \in Nat /\ Period \in Nat \ {0} /\ accum < Period
    BY PointAssumption DEF FrameInv, TypeOK, Period
  <2>2. accum + left = accum
    BY <2>1
  <2>3. seen = accum
    BY <2>1, <2>2, Remainder DEF FrameInv, Placed
  <2>. QED BY <2>3 DEF FrameInv, Placed
<1>. QED BY <1>1, FrameInductive, PTL

(* The volume of an envelope follows from its age.                         *)
THEOREM EnvelopeAges == Spec => []EnvelopeOnSchedule
<1>1. FrameInv => EnvelopeOnSchedule
  <2>. SUFFICES ASSUME FrameInv, ~ envelope.start
                PROVE  LET step == control.period + 1
                       IN /\ envelope.decay = Full - age \div step
                          /\ envelope.divider = control.period - (age % step)
    BY DEF EnvelopeOnSchedule
  <2>. DEFINE step == control.period + 1
              q == Full - envelope.decay
              r == control.period - envelope.divider
  <2>1. /\ control.period \in Nat /\ envelope.divider \in Nat
        /\ envelope.divider <= control.period /\ envelope.decay \in 0..Full
        /\ Full \in Nat
        /\ age = step * q + r
    BY RegisterAssumption DEF FrameInv, TypeOK, Aged
  <2>2. step \in Nat \ {0} /\ q \in Nat /\ r \in 0..step - 1
    BY <2>1
  <2>3. age \div step = q /\ age % step = r
    <3>. HIDE DEF step, q, r
    <3>. QED BY <2>1, <2>2, Divided
  <2>4. envelope.decay = Full - q /\ envelope.divider = control.period - r
    BY <2>1
  <2>. QED BY <2>3, <2>4
<1>. QED BY <1>1, FrameInductive, PTL

(* A channel that is off has no length.                                    *)
THEOREM OffMeansSilent == Spec => []DisabledIsSilent
<1>1. FrameInv => DisabledIsSilent
  BY DEF FrameInv
<1>. QED BY <1>1, FrameInductive, PTL

(* A sweep keeps a pulse in its range and leaves a muted one alone.        *)
THEOREM SweepsKeepRange == Spec => SweepKeepsRange
<1>1. FrameInv /\ [Next]_vars =>
        [sweep' # sweep /\ timer' # timer =>
           /\ ~ sweep.reload /\ ~ Mutes(sweep, timer, first)
           /\ timer' \in Low..High]_vars
  <2>. SUFFICES ASSUME FrameInv, Next, sweep' # sweep, timer' # timer
                PROVE  /\ ~ sweep.reload /\ ~ Mutes(sweep, timer, first)
                       /\ timer' \in Low..High
    OBVIOUS
  <2>1. ClockHalfFrame
    BY DEF Next, Clock, WriteControl, WriteSweep, WriteTimer, WriteNote,
       WriteHold, WriteTriangle, WriteStatus, ReadStatus, WriteFrameCounter,
       Begin, Ring, Wrap, Settle, halved
  <2>2. ~ sweep.reload /\ timer' = SweptTo(sweep, timer, first)
    BY <2>1 DEF ClockHalfFrame, ClockSweepTimer
  <2>3. /\ Moves(sweep) /\ timer >= Low
        /\ Target(sweep, timer, first) \in Low..High
        /\ timer' = Target(sweep, timer, first)
    BY <2>2 DEF SweptTo
  <2>4. ~ (timer < Low)
    BY <2>3, RegisterAssumption DEF FrameInv, TypeOK, Timers
  <2>. QED BY <2>2, <2>3, <2>4 DEF Mutes
<1>. QED BY <1>1, FrameInductive, PTL DEF Spec, SweepKeepsRange

----------------------------------------------------------------------------
(* The delta modulation channel *)

(***************************************************************************)
(* The inductive invariant.  Within a chunk that Patience allows, `InHand' *)
(* says that less than a byte and a bit's worth of cycles is left; once    *)
(* the buffer has been emptied, `InShifter' says that what is left does    *)
(* not outlast the bits in the shifter.  Between chunks less than a bit is *)
(* left over, at whichever period it was (`LeftOver').                     *)
(***************************************************************************)
Typed == DmcTypeOK /\ from \in Base..Top /\ total \in 0..MemorySize /\ chunk \in Nat

Fetching == remaining <= total /\ SampleInPlace

LeftOver == ~ clocking => \E p \in BitPeriods : bitAccum < p
InHand == clocking /\ chunk <= Patience => bitAccum < (Bits + 1) * period
InShifter ==
  clocking /\ chunk <= Patience /\ Pending => bitAccum < (bits + 1) * period

Timing == LeftOver /\ InHand /\ InShifter /\ OnlyLongChunksStarve

DeltaInv == Typed /\ IrqMeansEnded /\ Fetching /\ Timing

USE DEF selected, sample, reader, shifter, chunked

(* Sizes, for the provers.                                                 *)
LEMMA Sized ==
  /\ Base \in Nat /\ Top \in Nat /\ Base <= Top
  /\ MemorySize \in Nat \ {0} /\ MemorySize = Top - Base + 1
  /\ Bits \in Nat \ {0} /\ Dac \in Nat /\ Dac >= 3 /\ Patience \in Nat
  BY MemoryAssumption, TimeAssumption, PatienceAssumption DEF MemorySize

(* The channel at power-on.                                                *)
LEMMA DeltaBase == DmcInit => DeltaInv
<1> SUFFICES ASSUME DmcInit PROVE DeltaInv
  OBVIOUS
<1>1. Lowest \in Starts /\ Lowest \in Base..Top
  <2>1. Lowest \in Starts
    BY MemoryAssumption DEF Lowest
  <2> QED BY <2>1, MemoryAssumption
<1>2. Slowest \in BitPeriods /\ Slowest \in Nat \ {0}
  <2>1. Slowest \in BitPeriods
    BY TimeAssumption DEF Slowest
  <2> QED BY <2>1, TimeAssumption
<1>3. Typed
  <2>1. 0 \in 0..Bits - 1 /\ 0 \in 0..Dac /\ 0 \in 0..MemorySize /\ 1 \in Sizes
    BY Sized, MemoryAssumption
  <2> QED BY <1>1, <1>2, <2>1 DEF DmcInit, Typed, DmcTypeOK
<1>4. IrqMeansEnded /\ Fetching /\ InHand /\ InShifter /\ OnlyLongChunksStarve
  BY DEF DmcInit, IrqMeansEnded, Fetching, SampleInPlace, InHand, InShifter,
         OnlyLongChunksStarve
<1>5. LeftOver
  BY <1>2 DEF DmcInit, LeftOver
<1> QED BY <1>3, <1>4, <1>5 DEF DeltaInv, Timing

-----------------------------------------------------------------------------
(* A sample that starts is in place.                                       *)
LEMMA Restarted ==
  ASSUME Typed, Restart
  PROVE  /\ addr' \in Base..Top /\ remaining' \in 1..MemorySize
         /\ from' \in Base..Top /\ total' \in 0..MemorySize
         /\ remaining' <= total'
         /\ addr' = Wrapped(from' + total' - remaining')
<1>1. start \in Base..Top /\ size \in 1..MemorySize
  BY MemoryAssumption DEF Typed, DmcTypeOK
<1> QED BY <1>1, Sized DEF Restart, Wrapped

(* The next address of a sample, across the end of memory.                 *)
LEMMA Advanced ==
  ASSUME Typed, Fetching, remaining > 0
  PROVE  /\ Following(addr) \in Base..Top
         /\ Following(addr) = Wrapped(from + total - (remaining - 1))
<1>1. /\ from \in Base..Top /\ total \in 0..MemorySize /\ remaining \in 1..MemorySize
      /\ addr = Wrapped(from + total - remaining) /\ remaining <= total
      /\ addr \in Base..Top
  BY Sized DEF Typed, DmcTypeOK, Fetching, SampleInPlace
<1> DEFINE n == from + total - remaining
<1>2. n \in Base..Top + MemorySize - 1 /\ from + total - (remaining - 1) = n + 1
  BY <1>1, Sized
<1>3. addr = Wrapped(n)
  BY <1>1
<1> HIDE DEF n
<1>4. Following(addr) = Wrapped(n + 1)
  <2>1. CASE n < Top
    BY <1>2, <1>3, <2>1, Sized DEF Following, Wrapped
  <2>2. CASE n = Top
    BY <1>2, <1>3, <2>2, Sized DEF Following, Wrapped
  <2>3. CASE n > Top
    BY <1>2, <1>3, <2>3, Sized DEF Following, Wrapped
  <2> QED BY <1>2, <2>1, <2>2, <2>3, Sized
<1>5. Following(addr) \in Base..Top
  BY <1>1, Sized DEF Following
<1> QED BY <1>2, <1>4, <1>5

(* What a fetch, if one is due, keeps and achieves.                        *)
LEMMA Fetched ==
  ASSUME Typed, IrqMeansEnded, Fetching, Fetch,
         irqOn' = irqOn
  PROVE  /\ addr' \in Base..Top /\ remaining' \in 0..MemorySize
         /\ from' \in Base..Top /\ total' \in 0..MemorySize
         /\ full' \in BOOLEAN /\ irq' \in BOOLEAN
         /\ IrqMeansEnded' /\ Fetching'
         /\ ~ Pending'
<1>0. /\ addr \in Base..Top /\ remaining \in 0..MemorySize
      /\ from \in Base..Top /\ total \in 0..MemorySize
      /\ full \in BOOLEAN /\ irq \in BOOLEAN /\ irqOn \in BOOLEAN
      /\ remaining <= total
  BY DEF Typed, DmcTypeOK, Fetching
<1>1. full' \in BOOLEAN /\ (Pending => full')
  BY <1>0 DEF Fetch, Pending
<1>2. CASE LastByte
  <2>1. remaining = 1 /\ Pending /\ full' /\ ~ irq
    BY <1>0, <1>1, <1>2 DEF LastByte, IrqMeansEnded
  <2>2. CASE loop
    <3>1. Restart /\ irq' = irq
      BY <1>2, <2>2 DEF LastByte
    <3>2. /\ addr' \in Base..Top /\ remaining' \in 1..MemorySize
          /\ from' \in Base..Top /\ total' \in 0..MemorySize
          /\ Fetching'
      BY <3>1, Restarted DEF Fetching, SampleInPlace
    <3>3. IrqMeansEnded' /\ irq' \in BOOLEAN
      BY <1>0, <2>1, <3>1 DEF IrqMeansEnded
    <3> QED BY <1>1, <2>1, <3>2, <3>3, Sized DEF Pending
  <2>3. CASE ~ loop
    <3>1. /\ addr' = Following(addr) /\ remaining' = 0
          /\ irq' = (irq \/ irqOn) /\ from' = from /\ total' = total
      BY <1>2, <2>3 DEF LastByte
    <3>2. addr' \in Base..Top
      BY <2>1, <3>1, Advanced
    <3>3. irq' \in BOOLEAN
      BY <1>0, <3>1
    <3>4. IrqMeansEnded'
      BY <2>1, <3>1 DEF IrqMeansEnded
    <3>5. Fetching'
      BY <1>0, <3>1, Sized DEF Fetching, SampleInPlace
    <3> QED BY <1>0, <1>1, <2>1, <3>1, <3>2, <3>3, <3>4, <3>5, Sized DEF Pending
  <2> QED BY <2>2, <2>3
<1>3. CASE AnotherByte
  <2>1. /\ remaining > 1 /\ Pending /\ full'
        /\ addr' = Following(addr) /\ remaining' = remaining - 1
        /\ from' = from /\ total' = total /\ irq' = irq
    BY <1>1, <1>3 DEF AnotherByte
  <2>2. addr' \in Base..Top /\ addr' = Wrapped(from' + total' - remaining')
    BY <1>0, <2>1, Advanced, Sized
  <2>3. Fetching'
    BY <1>0, <2>1, <2>2, Sized DEF Fetching, SampleInPlace
  <2>4. ~ irq /\ IrqMeansEnded'
    BY <1>0, <2>1, Sized DEF IrqMeansEnded
  <2>5. remaining' \in 0..MemorySize
    BY <1>0, <2>1, Sized
  <2> QED BY <1>0, <2>1, <2>2, <2>3, <2>4, <2>5 DEF Pending
<1>4. CASE ~ Pending /\ UNCHANGED <<reader, irq>>
  <2>1. full' = full
    BY <1>0, <1>4 DEF Fetch
  <2> QED BY <1>0, <1>4, <2>1
          DEF Pending, IrqMeansEnded, Fetching, SampleInPlace, Wrapped
<1> QED BY <1>2, <1>3, <1>4 DEF Fetch

-----------------------------------------------------------------------------
(* Each action keeps DeltaInv.                                                 *)

(* $4010 withdraws a flag whose interrupt it switches off.                 *)
LEMMA DeltaControlKeeps == ASSUME DeltaInv, WriteDmcControl PROVE DeltaInv'
<1> USE DEF DeltaInv
<1>1. /\ UNCHANGED <<dmcEnabled, start, size, reader, full, shifter, chunked>>
      /\ irqOn' \in BOOLEAN /\ loop' \in BOOLEAN /\ period' \in BitPeriods
      /\ irq' = (irq /\ irqOn') /\ ~ clocking
  BY DEF WriteDmcControl, Write
<1>2. Typed'
  BY <1>1 DEF Typed, DmcTypeOK
<1>3. IrqMeansEnded' /\ Fetching'
  BY <1>1 DEF IrqMeansEnded, Fetching, SampleInPlace, Wrapped
<1>4. Timing'
  BY <1>1 DEF Timing, LeftOver, InHand, InShifter, OnlyLongChunksStarve
<1> QED BY <1>2, <1>3, <1>4

(* $4011 sets the level.                                                   *)
LEMMA LevelKeeps == ASSUME DeltaInv, WriteLevel PROVE DeltaInv'
<1> USE DEF DeltaInv, WriteLevel, Write
<1>1. Typed'
  BY DEF Typed, DmcTypeOK
<1>2. IrqMeansEnded' /\ Fetching'
  BY DEF IrqMeansEnded, Fetching, SampleInPlace, Wrapped
<1>3. Timing'
  BY DEF Timing, LeftOver, InHand, InShifter, OnlyLongChunksStarve, Pending
<1> QED BY <1>1, <1>2, <1>3

(* $4012 and $4013 are for the next sample.                                *)
LEMMA SampleKeeps == ASSUME DeltaInv, WriteSample PROVE DeltaInv'
<1> USE DEF DeltaInv, WriteSample, Write
<1>1. Typed'
  BY DEF Typed, DmcTypeOK
<1>2. IrqMeansEnded' /\ Fetching'
  BY DEF IrqMeansEnded, Fetching, SampleInPlace, Wrapped
<1>3. Timing'
  BY DEF Timing, LeftOver, InHand, InShifter, OnlyLongChunksStarve, Pending
<1> QED BY <1>1, <1>2, <1>3

(* $4015 acknowledges, and starts or ends a sample.                        *)
LEMMA DeltaStatusKeeps == ASSUME DeltaInv, WriteDmcStatus PROVE DeltaInv'
<1> USE DEF DeltaInv
<1>1. /\ ~ clocking /\ UNCHANGED <<selected, chunked>> /\ irq' = FALSE
      /\ SwitchOn \/ SwitchOff
  BY DEF WriteDmcStatus, Write
<1>2. /\ dmcEnabled' \in BOOLEAN /\ full' \in BOOLEAN
      /\ bits' \in 0..Bits - 1 /\ silence' \in BOOLEAN /\ level' \in 0..Dac
      /\ bitAccum' = bitAccum \/ bitAccum' = 0
  <2>1. CASE SwitchOn
    <3>1. dmcEnabled' = TRUE /\ full' = full
      BY <2>1 DEF SwitchOn
    <3>2. CASE dmcEnabled
      BY <2>1, <3>1, <3>2 DEF SwitchOn, Typed, DmcTypeOK
    <3>3. CASE ~ dmcEnabled
      <4>1. bitAccum' = 0 /\ bits' = 0 /\ silence' = TRUE /\ level' = level
        BY <2>1, <3>3 DEF SwitchOn
      <4>2. 0 \in 0..Bits - 1
        BY Sized
      <4> QED BY <3>1, <4>1, <4>2 DEF Typed, DmcTypeOK
    <3> QED BY <3>2, <3>3
  <2>2. CASE SwitchOff
    BY <2>2 DEF SwitchOff, Typed, DmcTypeOK
  <2> QED BY <1>1, <2>1, <2>2
<1>3. /\ addr' \in Base..Top /\ remaining' \in 0..MemorySize
      /\ from' \in Base..Top /\ total' \in 0..MemorySize /\ Fetching'
  <2>1. CASE SwitchOn /\ remaining = 0
    <3>1. Restart
      BY <2>1 DEF SwitchOn
    <3> QED BY <3>1, Restarted, Sized DEF Fetching, SampleInPlace
  <2>2. CASE SwitchOn /\ remaining # 0
    <3>1. UNCHANGED reader
      BY <2>2 DEF SwitchOn
    <3> QED BY <3>1 DEF Typed, DmcTypeOK, Fetching, SampleInPlace, Wrapped
  <2>3. CASE SwitchOff
    BY <2>3, Sized DEF SwitchOff, Typed, DmcTypeOK, Fetching, SampleInPlace
  <2> QED BY <1>1, <2>1, <2>2, <2>3
<1>4. Typed'
  <2>1. bitAccum' \in Nat
    BY <1>2 DEF Typed, DmcTypeOK
  <2> QED BY <1>1, <1>2, <1>3, <2>1 DEF Typed, DmcTypeOK
<1>5. IrqMeansEnded'
  BY <1>1 DEF IrqMeansEnded
<1>6. Timing'
  <2>1. \E p \in BitPeriods : bitAccum' < p
    <3>1. PICK p \in BitPeriods : bitAccum < p
      BY <1>1 DEF Timing, LeftOver
    <3>2. 0 < p
      BY <3>1, TimeAssumption
    <3> QED BY <1>2, <3>1, <3>2
  <2> QED BY <1>1, <2>1
          DEF Timing, LeftOver, InHand, InShifter, OnlyLongChunksStarve
<1> QED BY <1>3, <1>4, <1>5, <1>6

(* The fetch before a chunk fills the buffer, or nothing remains.          *)
LEMMA DeltaBeginKeeps == ASSUME DeltaInv, NEW n \in DmcChunks, BeginDmc(n) PROVE DeltaInv'
<1> USE DEF DeltaInv
<1>1. /\ ~ clocking /\ Fetch /\ clocking' = TRUE /\ chunk' = n
      /\ starved' = FALSE /\ bitAccum' = bitAccum + n
      /\ UNCHANGED <<dmcEnabled, selected, bits, silence, level>>
  BY DEF BeginDmc
<1>2. /\ addr' \in Base..Top /\ remaining' \in 0..MemorySize
      /\ from' \in Base..Top /\ total' \in 0..MemorySize
      /\ full' \in BOOLEAN /\ irq' \in BOOLEAN
      /\ IrqMeansEnded' /\ Fetching' /\ ~ Pending'
  BY <1>1, Fetched
<1>3. Typed'
  <2>1. chunk' \in Nat /\ bitAccum' \in Nat
    BY <1>1, TimeAssumption DEF Typed, DmcTypeOK
  <2> QED BY <1>1, <1>2, <2>1 DEF Typed, DmcTypeOK
<1>4. InHand'
  <2> SUFFICES ASSUME chunk' <= Patience PROVE bitAccum' < (Bits + 1) * period'
    BY DEF InHand
  <2>1. PICK p \in BitPeriods : bitAccum < p
    BY <1>1 DEF Timing, LeftOver
  <2>2. period \in BitPeriods /\ period' = period /\ bitAccum \in Nat
    BY <1>1 DEF Typed, DmcTypeOK
  <2>3. p - 1 + Patience < (Bits + 1) * period
    BY <2>1, <2>2, PatienceAssumption
  <2>4. p \in Nat /\ n \in Nat /\ n <= Patience /\ (Bits + 1) * period \in Nat
    BY <1>1, <2>1, <2>2, TimeAssumption, Sized
  <2> QED BY <1>1, <2>1, <2>2, <2>3, <2>4, Sized
<1>5. Timing'
  BY <1>1, <1>2, <1>4 DEF Timing, LeftOver, InShifter, OnlyLongChunksStarve
<1> QED BY <1>2, <1>3, <1>5

(* A bit: the buffer is emptied at most once in a short chunk.             *)
LEMMA TickKeeps == ASSUME DeltaInv, Tick PROVE DeltaInv'
<1> USE DEF DeltaInv
<1>1. /\ clocking /\ bitAccum >= period /\ bitAccum' = bitAccum - period
      /\ UNCHANGED <<dmcEnabled, selected, reader, irq, clocking, chunk>>
  BY DEF Tick
<1>2. /\ bitAccum \in Nat /\ period \in Nat \ {0} /\ bits \in 0..Bits - 1
      /\ level \in 0..Dac /\ full \in BOOLEAN /\ silence \in BOOLEAN
      /\ starved \in BOOLEAN /\ remaining \in Nat /\ Bits \in Nat \ {0}
  BY TimeAssumption, Sized DEF Typed, DmcTypeOK
<1>3. /\ full' \in BOOLEAN /\ silence' \in BOOLEAN /\ starved' \in BOOLEAN
      /\ bits' \in 0..Bits - 1
  <2>1. CASE bits = 0
    <3>1. /\ full' = FALSE /\ silence' = ~ full
          /\ starved' = (starved \/ Pending)
      BY <2>1 DEF Tick
    <3>2. bits' \in 0..Bits - 1
      BY <1>2, <2>1 DEF Tick
    <3>3. full' \in BOOLEAN /\ silence' \in BOOLEAN /\ starved' \in BOOLEAN
      BY <1>2, <3>1
    <3> QED BY <3>2, <3>3
  <2>2. CASE bits # 0
    BY <1>2, <2>2 DEF Tick
  <2> QED BY <2>1, <2>2
<1>4. level' \in 0..Dac
  <2>1. \A m \in LevelMoves(level) : m \in 0..Dac
    BY <1>2, Sized DEF LevelMoves
  <2>2. level' \in {level} \/ level' \in LevelMoves(level)
    BY DEF Tick
  <2> QED BY <1>2, <2>1, <2>2
<1>5. Typed'
  <2>1. bitAccum' \in Nat
    BY <1>1, <1>2
  <2> QED BY <1>1, <1>3, <1>4, <2>1 DEF Typed, DmcTypeOK
<1>6. IrqMeansEnded' /\ Fetching'
  BY <1>1 DEF IrqMeansEnded, Fetching, SampleInPlace, Wrapped
<1>7. LeftOver' /\ InHand'
  <2>1. (Bits + 1) * period \in Nat /\ bitAccum' < bitAccum
    BY <1>1, <1>2
  <2> QED BY <1>1, <1>2, <2>1 DEF Timing, LeftOver, InHand
<1>8. InShifter' /\ OnlyLongChunksStarve'
  <2>1. CASE bits = 0
    <3>1. /\ full' = FALSE /\ bits' = Bits - 1
          /\ starved' = (starved \/ Pending)
      BY <2>1 DEF Tick
    <3>2. (bits' + 1) * period = Bits * period
      BY <1>2, <3>1
    <3>3. (Bits + 1) * period = Bits * period + period /\ Bits * period \in Nat
      BY <1>2
    <3>4. InShifter'
      BY <1>1, <1>2, <3>2, <3>3 DEF Timing, InHand, InShifter
    <3>5. ASSUME Pending, chunk <= Patience PROVE FALSE
      <4>1. bitAccum < (bits + 1) * period
        BY <1>1, <3>5 DEF Timing, InShifter
      <4>2. (bits + 1) * period = period
        BY <1>2, <2>1
      <4> QED BY <1>1, <1>2, <4>1, <4>2
    <3>6. starved' => chunk' > Patience
      <4>1. CASE starved
        BY <1>1, <4>1 DEF Timing, OnlyLongChunksStarve
      <4>2. CASE Pending
        BY <1>1, <3>5, <4>2, Sized DEF Typed
      <4> QED BY <3>1, <4>1, <4>2
    <3> QED BY <3>4, <3>6 DEF OnlyLongChunksStarve
  <2>2. CASE bits # 0
    <3>1. /\ full' = full /\ bits' = bits - 1 /\ starved' = starved
      BY <2>2 DEF Tick
    <3>2. /\ (bits' + 1) * period + period = (bits + 1) * period
          /\ (bits' + 1) * period \in Nat /\ (bits + 1) * period \in Nat
      BY <1>2, <2>2, <3>1
    <3>3. InShifter'
      <4> SUFFICES ASSUME chunk <= Patience, Pending
                   PROVE  bitAccum' < (bits' + 1) * period
        BY <1>1, <3>1 DEF InShifter, Pending
      <4>1. bitAccum < (bits + 1) * period
        BY <1>1 DEF Timing, InShifter
      <4> QED BY <1>1, <1>2, <3>2, <4>1
    <3> QED BY <1>1, <3>1, <3>3 DEF Timing, OnlyLongChunksStarve
  <2> QED BY <2>1, <2>2
<1> QED BY <1>5, <1>6, <1>7, <1>8 DEF Timing

(* The end of a chunk, and the fetch after it.                             *)
LEMMA FinishKeeps == ASSUME DeltaInv, Finish PROVE DeltaInv'
<1> USE DEF DeltaInv
<1>1. /\ bitAccum < period /\ Fetch /\ clocking' = FALSE
      /\ UNCHANGED <<dmcEnabled, selected, shifter, chunk, starved>>
  BY DEF Finish
<1>2. /\ addr' \in Base..Top /\ remaining' \in 0..MemorySize
      /\ from' \in Base..Top /\ total' \in 0..MemorySize
      /\ full' \in BOOLEAN /\ irq' \in BOOLEAN
      /\ IrqMeansEnded' /\ Fetching'
  BY <1>1, Fetched
<1>3. Typed'
  BY <1>1, <1>2 DEF Typed, DmcTypeOK
<1>4. Timing'
  BY <1>1 DEF Typed, DmcTypeOK, Timing, LeftOver, InHand, InShifter,
              OnlyLongChunksStarve
<1> QED BY <1>2, <1>3, <1>4

(* Every step keeps DeltaInv.                                                  *)
LEMMA DeltaPreserved == DeltaInv /\ [DmcNext]_dmcVars => DeltaInv'
<1> SUFFICES ASSUME DeltaInv, [DmcNext]_dmcVars PROVE DeltaInv'
  OBVIOUS
<1>1. ASSUME NEW n \in DmcChunks, BeginDmc(n) PROVE DeltaInv'
  BY <1>1, DeltaBeginKeeps
<1>2. CASE UNCHANGED dmcVars
  BY <1>2 DEF dmcVars, DeltaInv, Typed, DmcTypeOK, IrqMeansEnded, Fetching, SampleInPlace,
     Wrapped, Timing, LeftOver, InHand, InShifter, Pending, OnlyLongChunksStarve
<1> QED BY <1>1, <1>2, DeltaControlKeeps, LevelKeeps, SampleKeeps, DeltaStatusKeeps,
           TickKeeps, FinishKeeps DEF DmcNext, ClockDmc

(* DeltaInv is an invariant.                                                   *)
THEOREM DeltaInductive == DmcSpec => []DeltaInv
BY DeltaBase, DeltaPreserved, PTL DEF DmcSpec

(* The channel's state keeps its types: addresses stay in cartridge        *)
(* memory and the level within the range of the converter.                 *)
THEOREM DeltaTypes == DmcSpec => []DmcTypeOK
<1>1. DeltaInv => DmcTypeOK
  BY DEF DeltaInv, Typed
<1> QED BY <1>1, DeltaInductive, PTL

(* The interrupt flag always belongs to a sample that has ended.           *)
THEOREM IrqEndsSample == DmcSpec => []IrqMeansEnded
<1>1. DeltaInv => IrqMeansEnded
  BY DEF DeltaInv
<1> QED BY <1>1, DeltaInductive, PTL

(* The reader never leaves the sample that it started with.                *)
THEOREM ReaderInPlace == DmcSpec => []SampleInPlace
<1>1. DeltaInv => SampleInPlace
  BY DEF DeltaInv, Fetching
<1> QED BY <1>1, DeltaInductive, PTL

(* No instruction is long enough to make a gap in a sample.                *)
THEOREM NoGaps == DmcSpec => []OnlyLongChunksStarve
<1>1. DeltaInv => OnlyLongChunksStarve
  BY DEF DeltaInv, Timing
<1> QED BY <1>1, DeltaInductive, PTL
=============================================================================
