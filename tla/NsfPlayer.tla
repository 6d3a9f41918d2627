------------------------------ MODULE NsfPlayer ------------------------------
(***************************************************************************)
(* Playback of a music file (nsf.rs, NsfPlayer): the host asks for samples *)
(* in requests of any size; the player calls PLAY when a beat is due and   *)
(* lets the sound chips run in between.  Beats are a fraction of cycles    *)
(* apart, samples too.  Time counts the cycles since INIT returned.        *)
(***************************************************************************)
EXTENDS Integers

CONSTANTS
  BeatNum, BeatDen,  \* cycles between beats: interval = BeatNum / BeatDen
  Hz, Rate,          \* cycles and samples of a second
  IdleCap,           \* 4096, cycles of an idle step
  LeastBudget,       \* 100 000 cycles, what a PLAY may always take
  InitBudget,        \* two seconds
  PlayCosts,         \* cycles of an instruction of INIT and PLAY
  PlayStalls,        \* cycles of the DMC DMA it meets
  Counts,          \* samples of a request
  MaxTime            \* bound: cycles

ASSUME NsfAssumption ==
  /\ {BeatNum, BeatDen, Hz, Rate, IdleCap, LeastBudget, InitBudget, MaxTime} \subseteq Nat \ {0}
  /\ BeatNum >= BeatDen
  /\ PlayCosts \subseteq Nat \ {0} /\ PlayStalls \subseteq Nat /\ Counts \subseteq Nat \ {0}

VARIABLES
  at,      \* "init", "ready" (between requests), "render", "play", "gone" (INIT has failed)
  time,
  spent,   \* cycles of the routine
  tick,    \* next_tick
  phase,   \* of the next sample, in parts of 1 / Hz
  buffer,  \* samples in the APU's buffer
  wanted,  \* samples of the request
  failed   \* history: the last PLAY did not return
nsfVars == <<at, time, spent, tick, phase, buffer, wanted, failed>>

NsfInit ==
  /\ at = "init" /\ time = 0 /\ spent = 0 /\ tick = 0
  /\ phase = 0 /\ buffer = 0 /\ wanted = 0 /\ failed = FALSE

\* The cycle of a beat: interval times its number, rounded half up.
Due(t) == ((2 * t * BeatNum) + BeatDen) \div (2 * BeatDen)
CeilDiv(a, b) == (a + b - 1) \div b
PlayBudget == IF 4 * (BeatNum \div BeatDen) > LeastBudget THEN 4 * (BeatNum \div BeatDen) ELSE LeastBudget

\* The sound chips run for n cycles.
ClockAudio(n) ==
  /\ time' = time + n
  /\ phase' = (phase + (n * Rate)) % Hz
  /\ buffer' = buffer + ((phase + (n * Rate)) \div Hz)

----------------------------------------------------------------------------
(* call *)

\* An instruction that does not return, with its DMA.
Execute(cost, stall) ==
  /\ \/ at = "init" /\ spent < InitBudget
     \/ at = "play" /\ spent < PlayBudget
  /\ time < MaxTime
  /\ ClockAudio(cost + stall) /\ spent' = spent + cost + stall
  /\ UNCHANGED <<at, tick, wanted, failed>>

\* new clears the buffer, but not the APU's phase.
InitReturns ==
  /\ at = "init" /\ spent > 0
  /\ at' = "ready" /\ time' = 0 /\ buffer' = 0
  /\ UNCHANGED <<spent, tick, phase, wanted, failed>>

InitFails ==
  /\ at = "init" /\ spent >= InitBudget
  /\ at' = "gone"
  /\ UNCHANGED <<time, spent, tick, phase, buffer, wanted, failed>>

----------------------------------------------------------------------------
(* render_samples *)

Render(count) ==
  /\ at = "ready" /\ time < MaxTime
  /\ at' = "render" /\ wanted' = count
  /\ UNCHANGED <<time, spent, tick, phase, buffer, failed>>

Drain ==
  /\ at = "render" /\ buffer >= wanted
  /\ at' = "ready" /\ buffer' = buffer - wanted /\ wanted' = 0
  /\ UNCHANGED <<time, spent, tick, phase, failed>>

CallPlay ==
  /\ at = "render" /\ buffer < wanted /\ time >= Due(tick)
  /\ at' = "play" /\ spent' = 0
  /\ UNCHANGED <<time, tick, phase, buffer, wanted, failed>>

\* *mutant* of NextTick: overdue beats are made up for.
NextTickAlways(t) == t + 1
\* A long PLAY skips missed beats rather than issuing a burst of them.
NextTick(t) ==
  LET next == CeilDiv(time * BeatDen, BeatNum)
  IN IF next > t + 1 THEN next ELSE t + 1

PlayReturns ==
  /\ at = "play" /\ spent > 0
  /\ at' = "render" /\ tick' = NextTick(tick) /\ failed' = FALSE
  /\ UNCHANGED <<time, spent, phase, buffer, wanted>>

\* The error leaves the beat uncounted and the samples in the buffer.
PlayFails ==
  /\ at = "play" /\ spent >= PlayBudget
  /\ at' = "ready" /\ wanted' = 0 /\ failed' = TRUE
  /\ UNCHANGED <<time, spent, tick, phase, buffer>>

\* *mutant* of IdleCycles: the samples alone bound the idle step.
IdleForSamples == LET needed == CeilDiv((wanted - buffer) * Hz, Rate) IN IF needed < IdleCap THEN needed ELSE IdleCap
IdleCycles ==
  LET needed == CeilDiv((wanted - buffer) * Hz, Rate)
      gap == IF Due(tick) - time < needed THEN Due(tick) - time ELSE needed
  IN IF gap < 1 THEN 1 ELSE IF gap > IdleCap THEN IdleCap ELSE gap

RunIdle ==
  /\ at = "render" /\ buffer < wanted /\ time < Due(tick) /\ time < MaxTime
  /\ ClockAudio(IdleCycles)
  /\ UNCHANGED <<at, spent, tick, wanted, failed>>

NsfNext ==
  \/ \E cost \in PlayCosts, stall \in PlayStalls : Execute(cost, stall)
  \/ InitReturns \/ InitFails \/ Drain \/ CallPlay \/ PlayReturns \/ PlayFails \/ RunIdle
  \/ \E count \in Counts : Render(count)
NsfSpec == NsfInit /\ [][NsfNext]_nsfVars

----------------------------------------------------------------------------
(* Properties *)

\* PLAY starts on a beat to the cycle, whatever the sizes of the requests and of the idle steps, but for a
\* retry of one that failed; a beat is left out only if it has passed while a PLAY ran, and the next one never
\* has.
PlaysOnTheBeat ==
  [][/\ (at = "render" /\ at' = "play") => (time = Due(tick) \/ failed)
     /\ (at = "play" /\ at' = "render") =>
          /\ tick' > tick /\ Due(tick') >= time
          /\ \A b \in (tick + 1)..(tick' - 1) : Due(b) <= time]_nsfVars
=============================================================================
