----------------------------- MODULE HostProofs -----------------------------
(***************************************************************************)
(* The host's side for all constants: the music player for every tempo,    *)
(* sample rate and length of PLAY, the session for every length of frame   *)
(* and every replay, and rebasing for every request.  The three share no   *)
(* state.                                                                  *)
(***************************************************************************)
EXTENDS NsfPlayer, Session, Rebase, Loops, FiniteSetTheorems, FunctionTheorems, SequenceTheorems

(* The music player *)

(***************************************************************************)
(* The inductive invariant.  Between calls of PLAY the player never runs   *)
(* past the next beat, unless that PLAY has been called and has failed.    *)
(***************************************************************************)
PlayerTyped ==
  /\ at \in {"init", "ready", "render", "play", "gone"}
  /\ {time, spent, tick, phase, buffer, wanted} \subseteq Nat
  /\ failed \in BOOLEAN
Early == at \in {"ready", "render"} /\ ~failed => time <= Due(tick)
Fresh == at = "init" => tick = 0 /\ ~failed
PlayerInv == PlayerTyped /\ Early /\ Fresh

(* Sizes, for the provers.                                                 *)
LEMMA Sized ==
  /\ BeatNum \in Nat \ {0} /\ BeatDen \in Nat \ {0} /\ Hz \in Nat \ {0} /\ Rate \in Nat \ {0}
  /\ IdleCap \in Nat \ {0}
  /\ PlayCosts \subseteq Nat \ {0} /\ PlayStalls \subseteq Nat /\ Counts \subseteq Nat \ {0}
  BY NsfAssumption

----------------------------------------------------------------------------
(* Rounded division *)

LEMMA Division ==
  ASSUME NEW a \in Nat, NEW d \in Nat \ {0}
  PROVE  a \div d \in Nat /\ d * (a \div d) <= a /\ a < d * (a \div d) + d
  BY Z3

(* A quotient is the greatest number whose multiple is not above.          *)
LEMMA DivisionBounds ==
  ASSUME NEW a \in Nat, NEW d \in Nat \ {0}, NEW q \in Nat
  PROVE  /\ d * q <= a => q <= a \div d
         /\ a < d * q + d => a \div d <= q
<1> DEFINE r == a \div d
<1>1. r \in Nat /\ d * r <= a /\ a < d * r + d
  BY Division
<1> HIDE DEF r
<1>2. ASSUME d * q <= a, r < q PROVE FALSE
  <2>1. d * (r + 1) <= d * q
    BY <1>1, <1>2, Z3
  <2>2. d * (r + 1) = d * r + d
    BY <1>1, Z3
  <2> QED BY <1>1, <1>2, <2>1, <2>2, Z3
<1>3. ASSUME a < d * q + d, q < r PROVE FALSE
  <2>1. d * (q + 1) <= d * r
    BY <1>1, <1>3, Z3
  <2>2. d * (q + 1) = d * q + d
    BY Z3
  <2> QED BY <1>1, <1>3, <2>1, <2>2, Z3
<1> QED BY <1>1, <1>2, <1>3 DEF r

(* A beat is due in time when its number of intervals has not passed.      *)
LEMMA DueAtOrAfter ==
  ASSUME NEW n \in Nat, NEW t \in Nat, t * BeatDen <= n * BeatNum
  PROVE  Due(n) \in Nat /\ t <= Due(n)
<1> DEFINE a == n * BeatNum
           b == t * BeatDen
<1>1. a \in Nat /\ b \in Nat /\ b <= a /\ BeatDen \in Nat \ {0} /\ BeatNum \in Nat
  BY Sized
<1>2. 2 * n * BeatNum = 2 * a /\ (2 * BeatDen) * t = 2 * b
  BY <1>1, Z3
<1>3. 2 * a + BeatDen \in Nat /\ 2 * BeatDen \in Nat \ {0} /\ (2 * BeatDen) * t <= 2 * a + BeatDen
  BY <1>1, <1>2
<1> HIDE DEF a, b
<1>4. t <= (2 * a + BeatDen) \div (2 * BeatDen) /\ (2 * a + BeatDen) \div (2 * BeatDen) \in Nat
  BY <1>3, DivisionBounds, Division
<1> QED BY <1>2, <1>4 DEF Due

(* It has been due when its intervals have passed.                         *)
LEMMA DueAtOrBefore ==
  ASSUME NEW n \in Nat, NEW t \in Nat, n * BeatNum < t * BeatDen
  PROVE  Due(n) <= t
<1> DEFINE a == n * BeatNum
           b == t * BeatDen
<1>1. a \in Nat /\ b \in Nat /\ a < b /\ BeatDen \in Nat \ {0} /\ BeatNum \in Nat
  BY Sized
<1>2. 2 * n * BeatNum = 2 * a /\ (2 * BeatDen) * t = 2 * b
  BY <1>1, Z3
<1>3. 2 * a + BeatDen \in Nat /\ 2 * BeatDen \in Nat \ {0}
      /\ 2 * a + BeatDen < (2 * BeatDen) * t + 2 * BeatDen
  BY <1>1, <1>2
<1> HIDE DEF a, b
<1>4. (2 * a + BeatDen) \div (2 * BeatDen) <= t
  BY <1>3, DivisionBounds
<1> QED BY <1>2, <1>4 DEF Due

LEMMA DueTyped == \A n \in Nat : Due(n) \in Nat
<1> SUFFICES ASSUME NEW n \in Nat PROVE Due(n) \in Nat
  OBVIOUS
<1>1. 0 * BeatDen = 0 /\ n * BeatNum \in Nat
  BY Sized
<1> QED BY <1>1, DueAtOrAfter

(* The first beat is due when INIT returns.                                *)
LEMMA DueAtZero == Due(0) \in Nat
BY DueTyped

(* Rounded up, a quotient is the least number whose multiple is not below. *)
LEMMA CeilBounds ==
  ASSUME NEW a \in Nat, NEW d \in Nat \ {0}
  PROVE  /\ CeilDiv(a, d) \in Nat
         /\ a <= CeilDiv(a, d) * d
         /\ \A k \in Nat : k < CeilDiv(a, d) => k * d < a
<1> DEFINE c == (a + d - 1) \div d
<1>1. a + d - 1 \in Nat
  OBVIOUS
<1>2. c \in Nat /\ d * c <= a + d - 1 /\ a + d - 1 < d * c + d
  BY <1>1, Division
<1> HIDE DEF c
<1>3. d * c = c * d /\ a <= c * d
  BY <1>2, Z3
<1>4. ASSUME NEW k \in Nat, k < c PROVE k * d < a
  <2>1. d * (k + 1) <= d * c
    BY <1>2, <1>4, Z3
  <2>2. d * (k + 1) = k * d + d /\ k * d \in Nat
    BY Z3
  <2>3. d * c \in Nat
    BY <1>2, Z3
  <2> QED BY <1>2, <2>1, <2>2, <2>3
<1> QED BY <1>2, <1>3, <1>4 DEF c, CeilDiv

----------------------------------------------------------------------------
(* The next beat *)

LEMMA NextBeat ==
  ASSUME PlayerTyped
  PROVE  /\ NextTick(tick) \in Nat /\ NextTick(tick) > tick
         /\ time <= Due(NextTick(tick))
         /\ \A b \in (tick + 1)..(NextTick(tick) - 1) : Due(b) <= time
<1> DEFINE next == CeilDiv(time * BeatDen, BeatNum)
           n == NextTick(tick)
<1>1. time \in Nat /\ tick \in Nat /\ BeatNum \in Nat \ {0} /\ BeatDen \in Nat
  BY Sized DEF PlayerTyped
<1>2. time * BeatDen \in Nat
  BY <1>1, Z3
<1>3. /\ next \in Nat /\ time * BeatDen <= next * BeatNum
      /\ \A k \in Nat : k < next => k * BeatNum < time * BeatDen
  BY <1>1, <1>2, CeilBounds
<1>4. n = IF next > tick + 1 THEN next ELSE tick + 1
  BY DEF NextTick
<1> HIDE DEF next, n
<1>5. n \in Nat /\ n > tick /\ next <= n
  BY <1>1, <1>3, <1>4
<1>6. time * BeatDen <= n * BeatNum
  <2>1. next * BeatNum <= n * BeatNum
    BY <1>1, <1>3, <1>5, Z3
  <2>2. next * BeatNum \in Nat /\ n * BeatNum \in Nat
    BY <1>1, <1>3, <1>5, Z3
  <2> QED BY <1>2, <1>3, <2>1, <2>2
<1>7. time <= Due(n)
  BY <1>1, <1>5, <1>6, DueAtOrAfter
<1>8. ASSUME NEW b \in (tick + 1)..(n - 1) PROVE Due(b) <= time
  <2>1. b \in Nat /\ b < next
    BY <1>1, <1>3, <1>4, <1>5
  <2> QED BY <1>1, <1>3, <2>1, DueAtOrBefore
<1> QED BY <1>5, <1>7, <1>8 DEF n

(* An idle step ends at the next beat at the latest.                       *)
LEMMA IdleFits ==
  ASSUME PlayerTyped, at = "render", buffer < wanted, time < Due(tick)
  PROVE  IdleCycles \in Nat \ {0} /\ time + IdleCycles <= Due(tick)
<1> DEFINE needed == CeilDiv((wanted - buffer) * Hz, Rate)
<1>1. time \in Nat /\ wanted - buffer \in Nat /\ Hz \in Nat /\ Rate \in Nat \ {0} /\ IdleCap \in Nat \ {0}
      /\ Due(tick) \in Nat
  BY Sized, DueTyped DEF PlayerTyped
<1>2. (wanted - buffer) * Hz \in Nat
  BY <1>1, Z3
<1>3. needed \in Nat
  BY <1>1, <1>2, CeilBounds
<1> HIDE DEF needed
<1> DEFINE gap == IF Due(tick) - time < needed THEN Due(tick) - time ELSE needed
<1>4. IdleCycles = IF gap < 1 THEN 1 ELSE IF gap > IdleCap THEN IdleCap ELSE gap
  BY DEF IdleCycles, needed
<1>5. gap \in Nat /\ gap <= Due(tick) - time
  BY <1>1, <1>3
<1> HIDE DEF gap
<1> QED BY <1>1, <1>4, <1>5

(* The chips keep the sample phase and the buffer in range.                *)
LEMMA AudioPlayerTyped ==
  ASSUME PlayerTyped, NEW n \in Nat, ClockAudio(n)
  PROVE  time' = time + n /\ {time', phase', buffer'} \subseteq Nat
<1>1. {time, phase, buffer} \subseteq Nat /\ Hz \in Nat \ {0} /\ Rate \in Nat
  BY Sized DEF PlayerTyped
<1>2. n * Rate \in Nat
  BY <1>1, Z3
<1> DEFINE a == phase + (n * Rate)
<1>3. a \in Nat
  BY <1>1, <1>2
<1>4. phase' = a % Hz /\ buffer' = buffer + (a \div Hz) /\ time' = time + n
  BY DEF ClockAudio
<1> HIDE DEF a
<1>5. a % Hz \in Nat /\ a \div Hz \in Nat
  BY <1>1, <1>3, Division
<1> QED BY <1>1, <1>4, <1>5

----------------------------------------------------------------------------
(* The invariant, action by action *)

LEMMA Start == NsfInit => PlayerInv
<1> SUFFICES ASSUME NsfInit PROVE PlayerInv
  OBVIOUS
<1>1. PlayerTyped
  <2>1. at \in {"init", "ready", "render", "play", "gone"} /\ failed \in BOOLEAN
    BY Zenon DEF NsfInit
  <2>2. 0 \in Nat
    OBVIOUS
  <2>3. {time, spent, tick, phase, buffer, wanted} \subseteq Nat
    BY <2>2, Zenon DEF NsfInit
  <2> QED BY <2>1, <2>3 DEF PlayerTyped
<1>2. Early /\ Fresh
  BY DEF NsfInit, Early, Fresh
<1> QED BY <1>1, <1>2 DEF PlayerInv

LEMMA ExecuteKeeps ==
  ASSUME PlayerInv, NEW cost \in PlayCosts, NEW stall \in PlayStalls, Execute(cost, stall)
  PROVE  PlayerInv'
<1>1. cost \in Nat /\ stall \in Nat /\ cost + stall \in Nat
  BY Sized
<1>2. {time', phase', buffer'} \subseteq Nat
  BY <1>1, AudioPlayerTyped DEF Execute, PlayerInv
<1>3. at \in {"init", "play"} /\ UNCHANGED <<at, tick, wanted, failed>> /\ spent' = spent + cost + stall
  BY DEF Execute
<1> QED BY <1>1, <1>2, <1>3 DEF PlayerInv, PlayerTyped, Early, Fresh

LEMMA InitKeeps ==
  ASSUME PlayerInv, InitReturns \/ InitFails
  PROVE  PlayerInv'
<1>1. CASE InitReturns
  <2>1. Early'
    BY <1>1, DueAtZero DEF PlayerInv, Early, Fresh, InitReturns, Due
  <2> QED BY <1>1, <2>1 DEF PlayerInv, PlayerTyped, Fresh, InitReturns
<1>2. CASE InitFails
  BY <1>2 DEF PlayerInv, PlayerTyped, Early, Fresh, InitFails
<1> QED BY <1>1, <1>2

LEMMA RequestKeeps ==
  ASSUME PlayerInv, Drain \/ \E count \in Counts : Render(count)
  PROVE  PlayerInv'
<1>1. CASE Drain
  BY <1>1 DEF PlayerInv, PlayerTyped, Early, Fresh, Drain, Due
<1>2. ASSUME NEW count \in Counts, Render(count) PROVE PlayerInv'
  <2>1. count \in Nat
    BY Sized
  <2> QED BY <1>2, <2>1 DEF PlayerInv, PlayerTyped, Early, Fresh, Render, Due
<1> QED BY <1>1, <1>2

LEMMA PlayKeeps ==
  ASSUME PlayerInv, CallPlay \/ PlayReturns \/ PlayFails
  PROVE  PlayerInv'
<1>1. CASE CallPlay
  BY <1>1 DEF PlayerInv, PlayerTyped, Early, Fresh, CallPlay
<1>2. CASE PlayReturns
  <2>1. tick' \in Nat /\ time' <= Due(tick')
    BY <1>2, NextBeat DEF PlayerInv, PlayReturns
  <2> QED BY <1>2, <2>1 DEF PlayerInv, PlayerTyped, Early, Fresh, PlayReturns, Due
<1>3. CASE PlayFails
  BY <1>3 DEF PlayerInv, PlayerTyped, Early, Fresh, PlayFails
<1> QED BY <1>1, <1>2, <1>3

LEMMA IdleKeeps ==
  ASSUME PlayerInv, RunIdle
  PROVE  PlayerInv'
<1>1. IdleCycles \in Nat /\ time + IdleCycles <= Due(tick)
  BY IdleFits DEF RunIdle, PlayerInv
<1>2. time' = time + IdleCycles /\ {time', phase', buffer'} \subseteq Nat
  BY <1>1, AudioPlayerTyped DEF RunIdle, PlayerInv
<1>3. Due(tick)' = Due(tick)
  BY DEF RunIdle, Due
<1> QED BY <1>1, <1>2, <1>3 DEF PlayerInv, PlayerTyped, Early, Fresh, RunIdle

LEMMA Preserved == PlayerInv /\ [NsfNext]_nsfVars => PlayerInv'
<1> SUFFICES ASSUME PlayerInv, [NsfNext]_nsfVars PROVE PlayerInv'
  OBVIOUS
<1>1. CASE UNCHANGED nsfVars
  BY <1>1 DEF nsfVars, PlayerInv, PlayerTyped, Early, Fresh, Due
<1>2. CASE \E cost \in PlayCosts, stall \in PlayStalls : Execute(cost, stall)
  BY <1>2, ExecuteKeeps
<1> QED BY <1>1, <1>2, InitKeeps, RequestKeeps, PlayKeeps, IdleKeeps DEF NsfNext

(* PlayerInv is an invariant.                                                   *)
THEOREM PlayerInductive == NsfSpec => []PlayerInv
BY Start, Preserved, PTL DEF NsfSpec

(* Times, beats and samples are numbers: no count of samples is ever       *)
(* negative, although requests are taken from the buffer.                  *)
THEOREM TypeCorrect == NsfSpec => []PlayerTyped
<1>1. PlayerInv => PlayerTyped
  BY DEF PlayerInv
<1> QED BY <1>1, PlayerInductive, PTL

----------------------------------------------------------------------------
(* The property *)

(* A step that calls PLAY does so on its beat, or retries one that failed. *)
LEMMA CallIsOnTime ==
  ASSUME PlayerInv, [NsfNext]_nsfVars, at = "render", at' = "play"
  PROVE  time = Due(tick) \/ failed
<1>1. CallPlay
  BY DEF NsfNext, nsfVars, Execute, InitReturns, InitFails, Render, Drain, PlayReturns, PlayFails, RunIdle
<1>2. time \in Nat /\ Due(tick) \in Nat /\ failed \in BOOLEAN
  BY DueTyped DEF PlayerInv, PlayerTyped
<1>3. time >= Due(tick)
  BY <1>1 DEF CallPlay
<1>4. ~failed => time <= Due(tick)
  BY DEF PlayerInv, Early
<1> QED BY <1>2, <1>3, <1>4

(* A step that returns from PLAY leaves out beats that have passed.        *)
LEMMA ReturnSkipsThePast ==
  ASSUME PlayerInv, [NsfNext]_nsfVars, at = "play", at' = "render"
  PROVE  /\ tick' > tick /\ Due(tick') >= time
         /\ \A b \in (tick + 1)..(tick' - 1) : Due(b) <= time
<1>1. PlayReturns
  BY DEF NsfNext, nsfVars, Execute, InitReturns, InitFails, Render, Drain, CallPlay, PlayFails, RunIdle
<1>2. tick' = NextTick(tick)
  BY <1>1 DEF PlayReturns
<1>3. /\ NextTick(tick) \in Nat /\ NextTick(tick) > tick /\ time <= Due(NextTick(tick))
      /\ \A b \in (tick + 1)..(NextTick(tick) - 1) : Due(b) <= time
  BY NextBeat DEF PlayerInv
<1>4. time \in Nat /\ Due(NextTick(tick)) \in Nat
  BY <1>3, DueTyped DEF PlayerInv, PlayerTyped
<1> QED BY <1>2, <1>3, <1>4

(* PLAY is on the beat at every tempo and sample rate, whatever the sizes  *)
(* of requests and idle steps, and leaves out only beats that have passed. *)
THEOREM PlayIsOnTheBeat == NsfSpec => PlaysOnTheBeat
<1> DEFINE Beat ==
      /\ (at = "render" /\ at' = "play") => (time = Due(tick) \/ failed)
      /\ (at = "play" /\ at' = "render") =>
           /\ tick' > tick /\ Due(tick') >= time
           /\ \A b \in (tick + 1)..(tick' - 1) : Due(b) <= time
<1>1. PlayerInv /\ [NsfNext]_nsfVars => [Beat]_nsfVars
  BY CallIsOnTime, ReturnSkipsThePast
<1>2. PlaysOnTheBeat <=> [][Beat]_nsfVars
  BY DEF PlaysOnTheBeat
<1> HIDE DEF Beat
<1> QED BY <1>1, <1>2, PlayerInductive, PTL DEF NsfSpec

----------------------------------------------------------------------------
(* Replays *)

(* An entry's buttons are laid over those of the frames that it covers.    *)
LEMMA Covered ==
  ASSUME NEW r \in [frame : Nat, duration : Nat, pads : Nat, reset : BOOLEAN], NEW f \in Nat
  PROVE  Covers(r, f) <=> \E k \in {0} \union 1..(r.duration - 1) : f = r.frame + k
<1>1. ASSUME Covers(r, f) PROVE \E k \in {0} \union 1..(r.duration - 1) : f = r.frame + k
  <2>1. f - r.frame \in {0} \union 1..(r.duration - 1) /\ f = r.frame + (f - r.frame)
    BY <1>1 DEF Covers, EndFrameExclusive
  <2> QED BY <2>1, Zenon
<1>2. ASSUME NEW k \in {0} \union 1..(r.duration - 1), f = r.frame + k PROVE Covers(r, f)
  BY <1>2 DEF Covers, EndFrameExclusive
<1> QED BY <1>1, <1>2

(* Laying the entries one over the other leaves the buttons of the last    *)
(* one that covers the frame.                                              *)
LEMMA LastButtons ==
  ASSUME replay \in Replays, NEW f \in Nat
  PROVE  /\ Buttons(f) \in Nat
         /\ Buttons(f) = IF Covering(f) = {} THEN DefaultPads
                         ELSE replay[LastCovering(Covering(f))].pads
<1> DEFINE N == Len(replay)
           Below(n) == {i \in 1..n : Covers(replay[i], f)}
           last(n) == IF Below(n) = {} THEN DefaultPads ELSE replay[LastCovering(Below(n))].pads
           held(n) == \E k \in {0} \union 1..(replay[n].duration - 1) : f = replay[n].frame + k
           closed == [n \in 0..N |-> last(n)]
           laid[n \in 0..N] ==
             IF n = 0 THEN DefaultPads
             ELSE IF \E k \in {0} \union 1..(replay[n].duration - 1) : f = replay[n].frame + k THEN replay[n].pads
             ELSE laid[n - 1]
<1>1. N \in Nat /\ DOMAIN replay = 1..N
      /\ \A n \in 1..N : replay[n] \in [frame : Nat, duration : Nat, pads : Nat, reset : BOOLEAN]
  <2> DEFINE E == [frame : Nat, duration : Nat, pads : Nat, reset : BOOLEAN]
  <2>1. replay \in Seq(E)
    BY SessionAssumption
  <2> HIDE DEF E
  <2>2. N \in Nat /\ DOMAIN replay = 1..N /\ \A n \in 1..N : replay[n] \in E
    BY <2>1
  <2> QED BY <2>2 DEF E
<1>2. Buttons(f) = laid[N]
  BY DEF Buttons
<1>3. last(0) = DefaultPads
  OBVIOUS
<1>4. ASSUME NEW n \in 1..N PROVE last(n) = IF held(n) THEN replay[n].pads ELSE last(n - 1)
  <2>1. CASE held(n)
    <3>1. Covers(replay[n], f)
      BY <1>1, <2>1, Covered
    <3>2. n \in Below(n) /\ \A i \in Below(n) : i \in Nat /\ i <= n
      BY <3>1
    <3>3. LastCovering(Below(n)) = n
      BY <3>2 DEF LastCovering
    <3> QED BY <2>1, <3>2, <3>3
  <2>2. CASE ~held(n)
    <3>1. ~Covers(replay[n], f)
      BY <1>1, <2>2, Covered
    <3>2. Below(n) = Below(n - 1)
      BY <3>1
    <3> QED BY <2>2, <3>2
  <2> QED BY <2>1, <2>2
<1> HIDE DEF last, held
<1>5. closed = [n \in 0..N |-> IF n = 0 THEN DefaultPads
                               ELSE IF held(n) THEN replay[n].pads ELSE closed[n - 1]]
  BY <1>1, <1>3, <1>4
<1>6. laid = [n \in 0..N |-> IF n = 0 THEN DefaultPads
                             ELSE IF held(n) THEN replay[n].pads ELSE laid[n - 1]]
  <2> HIDE DEF closed
  <2>1. \E g : g = [n \in 0..N |-> IF n = 0 THEN DefaultPads
                             ELSE IF held(n) THEN replay[n].pads ELSE g[n - 1]]
    BY <1>5
  <2> QED BY <2>1 DEF held
<1> HIDE DEF laid, closed
<1>7. \A n \in 0..N : laid[n] = last(n) /\ laid[n] \in Nat
  <2> DEFINE S == {n \in 0..N : laid[n] = last(n) /\ laid[n] \in Nat}
  <2>1. 0 \in S
    BY <1>1, <1>3, <1>6, SessionAssumption
  <2>2. \A n \in 1..N : n - 1 \in S => n \in S
    <3> SUFFICES ASSUME NEW n \in 1..N, n - 1 \in S PROVE n \in S
      OBVIOUS
    <3>1. laid[n] = IF held(n) THEN replay[n].pads ELSE laid[n - 1]
      BY <1>1, <1>6
    <3> QED BY <1>1, <1>4, <3>1
  <2> HIDE DEF S
  <2>3. 0..N \subseteq S
    BY <1>1, <2>1, <2>2, Induction
  <2> QED BY <2>3 DEF S
<1>8. Below(N) = Covering(f)
  BY <1>1 DEF Covering
<1>9. last(N) = IF Covering(f) = {} THEN DefaultPads ELSE replay[LastCovering(Covering(f))].pads
  BY <1>8, Zenon DEF last
<1>10. N \in 0..N
  BY <1>1
<1> QED BY <1>2, <1>7, <1>9, <1>10

----------------------------------------------------------------------------
(* The session *)

(* The types of the session's state.                                       *)
Emulators == [dots : 0..(FrameLength - 1), rendered : Nat, frame : Nat, stopped : BOOLEAN, pads : Nat]
Runs ==
  [phase : {"idle", "between", "frame"}, left : Nat, limited : BOOLEAN, allow : BOOLEAN, spent : Nat, from : Nat]
SessionTypeOK ==
  /\ replay \in Replays
  /\ emu \in Emulators /\ saved \in Emulators /\ run \in Runs
  /\ resets \in [DOMAIN replay -> 0..2]

(* The snapshot is of a session that counted its frames; and the buttons   *)
(* of a frame are right until the PPU has rendered it.                     *)
SessionInv ==
  /\ SessionTypeOK
  /\ emu.frame = emu.rendered /\ saved.frame = saved.rendered
  /\ run.phase = "frame" /\ emu.rendered = run.from => emu.pads = Buttons(emu.frame)

(* Clocking the devices adds the same frames to both counters.             *)
LEMMA ClockedCounts ==
  ASSUME NEW e \in Emulators, NEW n \in Nat, e.frame = e.rendered
  PROVE  /\ Clocked(e, n) \in Emulators
         /\ Clocked(e, n).frame = Clocked(e, n).rendered
         /\ Clocked(e, n).pads = e.pads
<1>1. FrameLength \in Nat \ {0} /\ e.dots + n \in Nat
  BY SessionAssumption DEF Emulators
<1> DEFINE q == (e.dots + n) \div FrameLength
           m == (e.dots + n) % FrameLength
<1>2. q \in Nat /\ m \in 0..(FrameLength - 1)
  BY <1>1, Z3
<1>3. Clocked(e, n) = [e EXCEPT !.dots = m, !.rendered = @ + q, !.frame = @ + q]
  BY DEF Clocked
<1> HIDE DEF q, m
<1>4. Clocked(e, n) = [dots |-> m, rendered |-> e.rendered + q, frame |-> e.frame + q,
                       stopped |-> e.stopped, pads |-> e.pads]
  BY <1>3 DEF Emulators
<1> QED BY <1>2, <1>4 DEF Emulators

(* An instruction, in a frame or alone, keeps what the session is.         *)
LEMMA StepCounts ==
  ASSUME SessionInv, NEW cost \in InstructionCosts, NEW stall \in Stalls, StepInstruction(cost, stall)
  PROVE  /\ emu' \in Emulators /\ emu'.frame = emu'.rendered /\ emu'.pads = emu.pads
<1>1. cost + stall \in Nat
  BY SessionAssumption
<1> QED BY <1>1, ClockedCounts DEF SessionInv, SessionTypeOK, StepInstruction

(* A run's record at its end, between frames, and when a frame begins.     *)
LEMMA Begun ==
  /\ NoRun \in Runs
  /\ \A r \in Runs : [r EXCEPT !.phase = "between"] \in Runs
  /\ \A r \in Runs, n \in Nat :
       r.left > 0 => [r EXCEPT !.phase = "frame", !.left = @ - 1, !.spent = 0, !.from = n] \in Runs
<1>1. NoRun \in Runs
  BY DEF NoRun, Runs
<1>2. ASSUME NEW r \in Runs PROVE [r EXCEPT !.phase = "between"] \in Runs
  BY DEF Runs
<1>3. ASSUME NEW r \in Runs, NEW n \in Nat, r.left > 0
      PROVE [r EXCEPT !.phase = "frame", !.left = @ - 1, !.spent = 0, !.from = n] \in Runs
  <2> DEFINE left == r.left - 1
  <2>1. left \in Nat
    BY <1>3 DEF Runs
  <2>2. [r EXCEPT !.phase = "frame", !.left = @ - 1, !.spent = 0, !.from = n]
          = [r EXCEPT !.phase = "frame", !.left = left, !.spent = 0, !.from = n]
    OBVIOUS
  <2> HIDE DEF left
  <2>3. [r EXCEPT !.phase = "frame", !.left = left, !.spent = 0, !.from = n] \in Runs
    BY <2>1 DEF Runs
  <2> QED BY <2>2, <2>3
<1> QED BY <1>1, <1>2, <1>3

(* The same frame of the same replay has the same buttons.                 *)
LEMMA SameButtons ==
  ASSUME replay' = replay, emu'.frame = emu.frame
  PROVE  Buttons(emu.frame)' = Buttons(emu.frame)
BY DEF Buttons

(* The head of run_current's loop lays the replay over the buttons.        *)
LEMMA IterateKeeps ==
  ASSUME SessionInv, Iterate
  PROVE  SessionInv'
<1> USE DEF SessionInv, SessionTypeOK, Emulators, Runs, NoRun
<1> DEFINE found == Covering(emu.frame)
           entry == LastCovering(found)
           edge == found # {} /\ replay[entry].reset /\ replay[entry].frame = emu.frame
           pads == IF found = {} THEN DefaultPads ELSE replay[entry].pads
<1>1. pads = Buttons(emu.frame)
  BY LastButtons
<1>2. pads \in Nat
  BY <1>1, LastButtons
<1>3. /\ emu' = [(IF edge THEN ResetCpu(emu) ELSE emu) EXCEPT !.pads = pads]
      /\ resets' = IF edge THEN [resets EXCEPT ![entry] = IF @ < 2 THEN @ + 1 ELSE 2] ELSE resets
      /\ \/ run' = [run EXCEPT !.phase = "frame", !.left = @ - 1, !.spent = 0, !.from = emu.rendered]
         \/ run.limited /\ run' = NoRun
      /\ UNCHANGED <<replay, saved>> /\ run.left > 0
  BY DEF Iterate
<1> HIDE DEF found, entry, edge, pads
<1>4. emu' \in Emulators /\ emu'.frame = emu.frame /\ emu'.rendered = emu.rendered /\ emu'.pads = pads
  BY <1>2, <1>3 DEF ResetCpu
<1>5. run' \in Runs
  <2>1. run.left > 0
    BY <1>3
  <2>2. NoRun \in Runs
        /\ [run EXCEPT !.phase = "frame", !.left = @ - 1, !.spent = 0, !.from = emu.rendered] \in Runs
    <3>1. run \in Runs /\ emu.rendered \in Nat
      OBVIOUS
    <3> HIDE DEF SessionInv, SessionTypeOK, Emulators, Runs, NoRun
    <3> QED BY <2>1, <3>1, Begun
  <2> QED BY <1>3, <2>2
<1>6. resets' \in [DOMAIN replay -> 0..2]
  <2>1. resets \in [DOMAIN replay -> 0..2]
    OBVIOUS
  <2>2. \A v \in 0..2 : (IF v < 2 THEN v + 1 ELSE 2) \in 0..2
    OBVIOUS
  <2> QED BY <1>3, <2>1, <2>2
<1>7. Buttons(emu.frame)' = Buttons(emu.frame)
  BY <1>3, <1>4, SameButtons
<1> QED BY <1>1, <1>3, <1>4, <1>5, <1>6, <1>7

(* A run begins and ends between frames.                                   *)
LEMMA StartRunKeeps ==
  ASSUME SessionInv, NEW frames \in 1..2, NEW limited \in BOOLEAN, NEW allow \in BOOLEAN, NEW fresh \in BOOLEAN,
         StartRun(frames, limited, allow, fresh)
  PROVE  SessionInv'
<1>1. run' = [NoRun EXCEPT !.phase = "between", !.left = frames, !.limited = limited, !.allow = allow]
  BY DEF StartRun
<1>2. run' = [phase |-> "between", left |-> frames, limited |-> limited, allow |-> allow, spent |-> 0, from |-> 0]
  BY <1>1 DEF NoRun
<1>3. run' \in Runs /\ run'.phase = "between"
  BY <1>2 DEF Runs
<1>4. emu' \in Emulators /\ emu'.frame = emu.frame /\ emu'.rendered = emu.rendered
  BY DEF SessionInv, SessionTypeOK, StartRun, ResetCpu, Emulators
<1> QED BY <1>3, <1>4 DEF SessionInv, SessionTypeOK, StartRun

(* A step within a frame: the frame is still the one of its buttons, or    *)
(* the PPU has rendered it.                                                *)
LEMMA StepInFrameKeeps ==
  ASSUME SessionInv, NEW cost \in InstructionCosts, NEW stall \in Stalls, NEW entered \in BOOLEAN,
         StepInFrame(cost, stall, entered)
  PROVE  SessionInv'
<1>1. emu' \in Emulators /\ emu'.frame = emu'.rendered /\ emu'.pads = emu.pads
  BY StepCounts DEF StepInFrame
<1>2. run' \in Runs /\ run'.phase = "frame" /\ run'.from = run.from
  <2> DEFINE so_far == run.spent + cost + (IF entered THEN EntryCost ELSE 0)
  <2>1. so_far \in Nat
    BY SessionAssumption DEF SessionInv, SessionTypeOK, Runs
  <2>2. run' = [run EXCEPT !.spent = so_far] /\ run.phase = "frame"
    BY DEF StepInFrame
  <2> HIDE DEF so_far
  <2> QED BY <2>1, <2>2 DEF SessionInv, SessionTypeOK, Runs
<1>3. emu.rendered = run.from
  BY DEF StepInFrame, Goes
<1>4. ASSUME emu'.rendered = run'.from PROVE emu'.pads = Buttons(emu.frame)'
  <2>1. emu'.frame = emu.frame /\ replay' = replay
    BY <1>1, <1>2, <1>3, <1>4 DEF SessionInv, StepInFrame
  <2>2. Buttons(emu.frame)' = Buttons(emu.frame)
    BY <2>1, SameButtons
  <2> QED BY <1>1, <1>3, <2>2 DEF SessionInv, StepInFrame
<1> QED BY <1>1, <1>2, <1>4 DEF SessionInv, SessionTypeOK, StepInFrame

(* The other steps of a run count nothing and press nothing.               *)
LEMMA RestOfRunKeeps ==
  ASSUME SessionInv, FailInFrame \/ EndFrame \/ EndRun
  PROVE  SessionInv'
<1>1. emu' \in Emulators /\ emu'.frame = emu.frame /\ emu'.rendered = emu.rendered /\ emu'.pads = emu.pads
  BY DEF SessionInv, SessionTypeOK, FailInFrame, EndFrame, EndRun, Emulators
<1>2. run' \in Runs /\ (run'.phase = "frame" => run' = run)
  <2>1. run \in Runs /\ NoRun.phase = "idle"
    BY DEF SessionInv, SessionTypeOK, NoRun
  <2>2. CASE run' = NoRun
    BY <2>1, <2>2, Begun
  <2>3. CASE run' = run
    BY <2>1, <2>3
  <2>4. CASE run' = [run EXCEPT !.phase = "between"]
    BY <2>1, <2>4, Begun DEF Runs
  <2> QED BY <2>2, <2>3, <2>4 DEF FailInFrame, EndFrame, EndRun
<1>3. Buttons(emu.frame)' = Buttons(emu.frame)
  BY <1>1, SameButtons DEF FailInFrame, EndFrame, EndRun
<1> QED BY <1>1, <1>2, <1>3 DEF SessionInv, SessionTypeOK, FailInFrame, EndFrame, EndRun

(* What the host does while no run is going.                               *)
LEMMA HostKeeps ==
  ASSUME SessionInv, run.phase = "idle", UNCHANGED <<replay, run, resets>>,
         emu' \in Emulators, emu'.frame = emu'.rendered,
         saved' \in Emulators, saved'.frame = saved'.rendered
  PROVE  SessionInv'
BY DEF SessionInv, SessionTypeOK

(* Every step of the session keeps the invariant.                          *)
LEMMA SessionStep == SessionInv /\ [SessionNext]_sessionVars => SessionInv'
<1> SUFFICES ASSUME SessionInv, [SessionNext]_sessionVars PROVE SessionInv'
  OBVIOUS
<1>0. emu \in Emulators /\ saved \in Emulators /\ emu.frame = emu.rendered /\ saved.frame = saved.rendered
  BY DEF SessionInv, SessionTypeOK
<1>1. ASSUME NEW cost \in InstructionCosts, NEW stall \in Stalls, HostStep(cost, stall) PROVE SessionInv'
  BY <1>0, <1>1, StepCounts, HostKeeps DEF HostStep
<1>2. CASE HostReset
  BY <1>0, <1>2, HostKeeps DEF HostReset, ResetCpu, Emulators
<1>3. ASSUME NEW pads \in {0, 3}, HostSetInput(pads) PROVE SessionInv'
  <2>1. emu' \in Emulators /\ emu'.frame = emu'.rendered
    BY <1>0, <1>3 DEF HostSetInput, Emulators
  <2> QED BY <1>0, <1>3, <2>1, HostKeeps DEF HostSetInput
<1>4. CASE TakeSnapshot \/ RestoreSnapshot
  BY <1>0, <1>4, HostKeeps DEF TakeSnapshot, RestoreSnapshot
<1>5. CASE UNCHANGED sessionVars
  <2>1. Buttons(emu.frame)' = Buttons(emu.frame)
    BY <1>5, SameButtons DEF sessionVars
  <2> QED BY <1>5, <2>1 DEF sessionVars, SessionInv, SessionTypeOK
<1> QED BY <1>1, <1>2, <1>3, <1>4, <1>5, StartRunKeeps, IterateKeeps, StepInFrameKeeps, RestOfRunKeeps DEF SessionNext

(* The session keeps its types, its snapshot counts frames as it does, and *)
(* a frame that is not over has its buttons.                               *)
THEOREM SessionInductive == SessionSpec => []SessionInv
<1>1. SessionInit => SessionInv
  <2> SUFFICES ASSUME SessionInit PROVE SessionInv
    OBVIOUS
  <2>1. NewEmulator \in Emulators
    BY SessionAssumption DEF NewEmulator, Emulators
  <2>2. resets \in [DOMAIN replay -> 0..2]
    BY DEF SessionInit
  <2> QED BY <2>1, <2>2, Begun DEF SessionInit, SessionInv, SessionTypeOK, NewEmulator, NoRun
<1> QED BY <1>1, SessionStep, PTL DEF SessionSpec

(* However a session is stepped, reset and taken back, its frame is the    *)
(* PPU's count, for any frame length and any costs.                        *)
THEOREM FramesStayCounted == SessionSpec => []FramesAreCounted
<1>1. SessionInv => FramesAreCounted
  BY DEF SessionInv, FramesAreCounted
<1> QED BY <1>1, SessionInductive, PTL

(* Any replay is played to the frame: from the first instruction of a      *)
(* frame to its last, the buttons are those of the entries laid over one   *)
(* another.                                                                *)
THEOREM FramesHaveTheirInput == SessionSpec => []FramesSeeTheirInput
<1>1. SessionInv => FramesSeeTheirInput
  BY DEF SessionInv, FramesSeeTheirInput, Goes
<1> QED BY <1>1, SessionInductive, PTL

----------------------------------------------------------------------------
(* The ranges of a contract *)

WalkStates == [fits : BOOLEAN, end : Nat, covered : SUBSET Nat, changed : Nat]
Walking == [fits |-> TRUE, end |-> 0, covered |-> {}, changed |-> 0]
WalkOn(r, c, before) ==
  IF ~before.fits \/ ~RangeFits(r, c, before.end) THEN [before EXCEPT !.fits = FALSE]
  ELSE [fits |-> TRUE, end |-> c.offset + c.length,
        covered |-> before.covered \union ((c.offset + 1)..(c.offset + c.length)),
        changed |-> before.changed + Cardinality(Changed(c.source, c.target))]
RangeType == [offset : Nat, length : Nat, source : Seq(Nat), target : Seq(Nat)]

(* Sequences have finitely many places where they differ.                  *)
LEMMA ChangedFinite ==
  ASSUME NEW a \in Seq(Nat), NEW b
  PROVE  IsFiniteSet(Changed(a, b)) /\ Cardinality(Changed(a, b)) \in Nat
<1>1. DOMAIN a = 1..Len(a) /\ Len(a) \in Nat
  OBVIOUS
<1>2. IsFiniteSet(1..Len(a))
  BY <1>1, FS_Interval
<1>3. Changed(a, b) \in SUBSET (1..Len(a))
  BY <1>1 DEF Changed
<1>4. IsFiniteSet(Changed(a, b))
  BY <1>2, <1>3, FS_Subset
<1> QED BY <1>4, FS_CardinalityType

(* One range keeps the types.                                              *)
LEMMA WalkOnType ==
  ASSUME NEW r, NEW c \in RangeType, NEW before \in WalkStates
  PROVE  WalkOn(r, c, before) \in WalkStates
<1>1. Cardinality(Changed(c.source, c.target)) \in Nat
  BY ChangedFinite DEF RangeType
<1> DEFINE cells == before.covered \union ((c.offset + 1)..(c.offset + c.length))
           count == before.changed + Cardinality(Changed(c.source, c.target))
<1>2. cells \in SUBSET Nat /\ count \in Nat /\ c.offset + c.length \in Nat
  BY <1>1 DEF RangeType, WalkStates
<1> HIDE DEF cells, count
<1>3. [before EXCEPT !.fits = FALSE] \in WalkStates
  BY DEF WalkStates
<1>4. [fits |-> TRUE, end |-> c.offset + c.length, covered |-> cells, changed |-> count] \in WalkStates
  BY <1>2 DEF WalkStates
<1> QED BY <1>3, <1>4 DEF WalkOn, cells, count

(* The loop is a walk from range to range.                                 *)
LEMMA WalkIs ==
  ASSUME NEW r, NEW ranges \in Seq(RangeType)
  PROVE  \E walked \in [0..Len(ranges) -> WalkStates] :
           /\ walked[0] = Walking
           /\ \A n \in 1..Len(ranges) : walked[n] = WalkOn(r, ranges[n], walked[n - 1])
           /\ Walk(r, ranges) = walked[Len(ranges)]
<1> DEFINE N == Len(ranges)
           step == [p \in (1..N) \X WalkStates |-> WalkOn(r, ranges[p[1]], p[2])]
<1>1. N \in Nat /\ \A n \in 1..N : ranges[n] \in RangeType
  OBVIOUS
<1>2. Walking \in WalkStates
  BY DEF Walking, WalkStates
<1>3. step \in [(1..N) \X WalkStates -> WalkStates]
  BY <1>1, WalkOnType
<1>4. PICK f \in [0..N -> WalkStates] : f[0] = Walking /\ \A n \in 1..N : f[n] = step[<<n, f[n - 1]>>]
  <2>1. N \in Nat
    BY <1>1
  <2> HIDE DEF step, N
  <2>2. PICK f : IsRun(f, N, WalkStates, Walking, step)
    BY <2>1, <1>2, <1>3, Recursion, Zenon
  <2> QED BY <2>2 DEF IsRun
<1>5. \A n \in 1..N : f[n] = WalkOn(r, ranges[n], f[n - 1])
  <2> SUFFICES ASSUME NEW n \in 1..N PROVE f[n] = WalkOn(r, ranges[n], f[n - 1])
    OBVIOUS
  <2>1. n - 1 \in 0..N
    OBVIOUS
  <2>2. f[n - 1] \in WalkStates
    BY <2>1
  <2> QED BY <1>4, <2>2
<1>6. f = [n \in 0..N |-> IF n = 0 THEN Walking ELSE WalkOn(r, ranges[n], f[n - 1])]
  BY <1>1, <1>4, <1>5
<1> DEFINE walked[n \in 0..N] == IF n = 0 THEN Walking ELSE WalkOn(r, ranges[n], walked[n - 1])
<1>7. Walk(r, ranges) = walked[N]
  BY DEF Walk, WalkOn, Walking
<1>8. walked = [n \in 0..N |-> IF n = 0 THEN Walking ELSE WalkOn(r, ranges[n], walked[n - 1])]
  <2>1. \E g : g = [n \in 0..N |-> IF n = 0 THEN Walking ELSE WalkOn(r, ranges[n], g[n - 1])]
    BY <1>6
  <2> QED BY <2>1
<1> HIDE DEF walked
<1>9. walked[0] = Walking /\ \A n \in 1..N : walked[n] = WalkOn(r, ranges[n], walked[n - 1])
  BY <1>1, <1>8
<1>10. 0..N \subseteq {n \in 0..N : walked[n] \in WalkStates}
  <2> DEFINE T == {n \in 0..N : walked[n] \in WalkStates}
  <2>1. 0 \in T
    BY <1>1, <1>2, <1>9
  <2>2. \A n \in 1..N : n - 1 \in T => n \in T
    BY <1>1, <1>9, WalkOnType
  <2> HIDE DEF T
  <2>3. 0..N \subseteq T
    BY <1>1, <2>1, <2>2, Induction
  <2> QED BY <2>3 DEF T
<1>11. walked \in [0..N -> WalkStates]
  BY <1>8, <1>10
<1> QED BY <1>7, <1>9, <1>11

(* The places in a set where the two programs differ.                      *)
Differs(r, cells) == {i \in cells : r.source.prg[i] # r.target.prg[i]}
Programs(r) ==
  /\ r.source.prg \in Seq(Nat) /\ r.target.prg \in Seq(Nat)
  /\ Len(r.source.prg) <= Len(r.target.prg)

(* A part of a sequence, element by element.                               *)
LEMMA PartIs ==
  ASSUME NEW bytes \in Seq(Nat), NEW from \in Nat, NEW length \in Nat, from + length <= Len(bytes)
  PROVE  /\ Part(bytes, from, from + length) \in Seq(Nat)
         /\ Len(Part(bytes, from, from + length)) = length
         /\ \A k \in 1..length : Part(bytes, from, from + length)[k] = bytes[from + k]
BY DEF Part

(* A range that fits shows the two programs, and counts their differences. *)
LEMMA RangeShows ==
  ASSUME NEW r, Programs(r), NEW c \in RangeType, NEW previousEnd \in Nat, RangeFits(r, c, previousEnd)
  PROVE  /\ c.length >= 1 /\ c.offset >= previousEnd /\ c.offset + c.length <= Len(r.source.prg)
         /\ \A k \in 1..c.length : c.source[k] = r.source.prg[c.offset + k] /\ c.target[k] = r.target.prg[c.offset + k]
         /\ RangeFits(r, c, 0)
         /\ IsFiniteSet(Differs(r, (c.offset + 1)..(c.offset + c.length)))
         /\ Cardinality(Differs(r, (c.offset + 1)..(c.offset + c.length))) = Cardinality(Changed(c.source, c.target))
         /\ Cardinality(Changed(c.source, c.target)) \in Nat
         /\ Cardinality(Changed(c.source, c.target)) >= 1
<1> DEFINE A == Changed(c.source, c.target)
           B == Differs(r, (c.offset + 1)..(c.offset + c.length))
           f == [k \in A |-> c.offset + k]
<1>1. c.offset \in Nat /\ c.length \in Nat /\ c.source \in Seq(Nat) /\ c.target \in Seq(Nat)
  BY DEF RangeType
<1>2. /\ c.length >= 1 /\ c.offset >= previousEnd /\ c.offset + c.length <= Len(r.source.prg)
      /\ c.source = Part(r.source.prg, c.offset, c.offset + c.length)
      /\ c.target = Part(r.target.prg, c.offset, c.offset + c.length)
      /\ A # {}
  BY <1>1 DEF RangeFits
<1>3. /\ Len(c.source) = c.length
      /\ \A k \in 1..c.length : c.source[k] = r.source.prg[c.offset + k] /\ c.target[k] = r.target.prg[c.offset + k]
  <2> DEFINE source == r.source.prg
             target == r.target.prg
             from == c.offset
             length == c.length
  <2>1. source \in Seq(Nat) /\ target \in Seq(Nat)
    BY DEF Programs
  <2>2. from \in Nat /\ length \in Nat
    BY <1>1
  <2>3. from + length <= Len(source) /\ Len(source) <= Len(target)
    BY <1>2 DEF Programs
  <2>4. c.source = Part(source, from, from + length) /\ c.target = Part(target, from, from + length)
    BY <1>2
  <2> HIDE DEF A, B, f, source, target, from, length
  <2>5. from + length <= Len(target)
    <3>1. Len(source) \in Nat /\ Len(target) \in Nat
      BY <2>1
    <3> QED BY <2>2, <2>3, <3>1
  <2>6. Len(c.source) = length /\ \A k \in 1..length : c.source[k] = source[from + k]
    <3>1. /\ Len(Part(source, from, from + length)) = length
          /\ \A k \in 1..length : Part(source, from, from + length)[k] = source[from + k]
      BY <2>1, <2>2, <2>3, PartIs, Zenon
    <3> QED BY <2>4, <3>1
  <2>7. \A k \in 1..length : c.target[k] = target[from + k]
    <3>1. \A k \in 1..length : Part(target, from, from + length)[k] = target[from + k]
      BY <2>1, <2>2, <2>5, PartIs, Zenon
    <3> QED BY <2>4, <3>1
  <2> QED BY <2>6, <2>7 DEF source, target, from, length
<1>4. RangeFits(r, c, 0)
  BY <1>1, <1>2 DEF RangeFits
<1>5. A = {k \in 1..c.length : c.source[k] # c.target[k]}
  BY <1>1, <1>3 DEF Changed
<1>6. IsFiniteSet(A) /\ Cardinality(A) \in Nat
  BY <1>1, ChangedFinite
<1>7. \A k \in A : c.offset + k \in B
  <2> SUFFICES ASSUME NEW k \in A PROVE c.offset + k \in B
    OBVIOUS
  <2> HIDE DEF A
  <2>1. k \in 1..c.length /\ c.source[k] # c.target[k]
    BY <1>5
  <2>2. c.offset + k \in (c.offset + 1)..(c.offset + c.length)
    BY <1>1, <2>1
  <2>3. r.source.prg[c.offset + k] # r.target.prg[c.offset + k]
    BY <1>3, <2>1
  <2> QED BY <2>2, <2>3 DEF Differs
<1>8. f \in [A -> B]
  BY <1>7
<1>9. \A a, b \in A : f[a] = f[b] => a = b
  BY <1>1, <1>5
<1>10. \A i \in B : \E k \in A : f[k] = i
  <2> SUFFICES ASSUME NEW i \in B PROVE i - c.offset \in A /\ f[i - c.offset] = i
    OBVIOUS
  <2>1. i \in (c.offset + 1)..(c.offset + c.length) /\ r.source.prg[i] # r.target.prg[i]
    BY DEF Differs
  <2>2. i - c.offset \in 1..c.length /\ c.offset + (i - c.offset) = i
    BY <1>1, <2>1
  <2>3. c.source[i - c.offset] = r.source.prg[i] /\ c.target[i - c.offset] = r.target.prg[i]
    BY <1>3, <2>2
  <2>4. i - c.offset \in A
    BY <1>5, <2>1, <2>2, <2>3
  <2> QED BY <2>2, <2>4
<1> HIDE DEF f
<1>11. ExistsBijection(A, B)
  <2>1. f \in Bijection(A, B)
    BY <1>8, <1>9, <1>10, Fun_IsBij
  <2> QED BY <2>1, Fun_ExistsBij
<1> HIDE DEF A, B
<1>12. IsFiniteSet(B) /\ Cardinality(B) = Cardinality(A)
  BY <1>6, <1>11, FS_Bijection
<1>13. Cardinality(A) >= 1
  <2>1. Cardinality(A) # 0
    BY <1>2, <1>6, FS_EmptySet
  <2> QED BY <1>6, <2>1
<1> QED BY <1>2, <1>3, <1>4, <1>6, <1>12, <1>13 DEF A, B

(* What the loop knows of the ranges that it has seen.                     *)
Seen(r, ranges, n, s) ==
  s.fits =>
    /\ s.end \in 0..Len(r.source.prg)
    /\ s.covered \subseteq {i \in 1..s.end : \E m \in 1..n : i - ranges[m].offset \in 1..ranges[m].length}
    /\ \A m \in 1..n : RangeFits(r, ranges[m], 0)
    /\ IsFiniteSet(Differs(r, s.covered))
    /\ s.changed = Cardinality(Differs(r, s.covered))
    /\ s.changed >= n
LEMMA SeesOneMore ==
  ASSUME NEW r, Programs(r), NEW ranges \in Seq(RangeType), NEW n \in 1..Len(ranges), NEW before \in WalkStates,
         Seen(r, ranges, n - 1, before)
  PROVE  Seen(r, ranges, n, WalkOn(r, ranges[n], before))
<1> DEFINE c == ranges[n]
           cells == (c.offset + 1)..(c.offset + c.length)
           after == WalkOn(r, c, before)
<1> SUFFICES ASSUME after.fits PROVE Seen(r, ranges, n, after)
  BY DEF Seen
<1>1. c \in RangeType
  OBVIOUS
<1>2. before.fits /\ RangeFits(r, c, before.end)
  <2>1. [before EXCEPT !.fits = FALSE].fits = FALSE
    BY DEF WalkStates
  <2> QED BY <2>1 DEF WalkOn
<1>3. after = [fits |-> TRUE, end |-> c.offset + c.length, covered |-> before.covered \union cells,
               changed |-> before.changed + Cardinality(Changed(c.source, c.target))]
  BY <1>2 DEF WalkOn
<1>4. /\ c.offset \in Nat /\ c.length \in Nat
      /\ before.end \in 0..Len(r.source.prg)
      /\ before.covered \subseteq {i \in 1..before.end : \E m \in 1..(n - 1) : i - ranges[m].offset \in 1..ranges[m].length}
      /\ \A m \in 1..(n - 1) : RangeFits(r, ranges[m], 0)
      /\ IsFiniteSet(Differs(r, before.covered))
      /\ before.changed = Cardinality(Differs(r, before.covered))
      /\ before.changed >= n - 1
      /\ before.changed \in Nat
  BY <1>1, <1>2 DEF Seen, RangeType, WalkStates
<1> DEFINE count == Cardinality(Changed(c.source, c.target))
<1>5. /\ c.length >= 1 /\ c.offset >= before.end /\ c.offset + c.length <= Len(r.source.prg)
      /\ RangeFits(r, c, 0)
      /\ IsFiniteSet(Differs(r, cells)) /\ Cardinality(Differs(r, cells)) = count
      /\ count \in Nat /\ count >= 1
  <2>1. before.end \in Nat
    BY <1>4
  <2> QED BY <1>1, <1>2, <2>1, RangeShows
<1> HIDE DEF c
<1>6. after.end = c.offset + c.length /\ after.covered = before.covered \union cells /\ after.changed = before.changed + count
  BY <1>3
<1> HIDE DEF after, count
<1>7. after.end \in 0..Len(r.source.prg)
  <2>1. Len(r.source.prg) \in Nat
    BY DEF Programs
  <2> HIDE DEF cells
  <2> QED BY <1>4, <1>5, <1>6, <2>1
<1>8. after.covered \subseteq {i \in 1..after.end : \E m \in 1..n : i - ranges[m].offset \in 1..ranges[m].length}
  <2> SUFFICES ASSUME NEW i \in after.covered
               PROVE  i \in 1..after.end /\ \E m \in 1..n : i - ranges[m].offset \in 1..ranges[m].length
    OBVIOUS
  <2>1. CASE i \in cells
    <3>1. i \in 1..after.end /\ i - c.offset \in 1..c.length
      BY <1>4, <1>6, <2>1
    <3>2. n \in 1..n
      OBVIOUS
    <3> QED BY <3>1, <3>2 DEF c
  <2>2. CASE i \in before.covered
    <3>1. i \in 1..before.end /\ \E m \in 1..(n - 1) : i - ranges[m].offset \in 1..ranges[m].length
      BY <1>4, <2>2
    <3>2. i \in 1..after.end
      BY <1>4, <1>5, <1>6, <3>1
    <3>3. PICK m \in 1..(n - 1) : i - ranges[m].offset \in 1..ranges[m].length
      BY <3>1
    <3>4. m \in 1..n
      OBVIOUS
    <3> QED BY <3>2, <3>3, <3>4
  <2> QED BY <1>6, <2>1, <2>2
<1>9. \A m \in 1..n : RangeFits(r, ranges[m], 0)
  <2> SUFFICES ASSUME NEW m \in 1..n PROVE RangeFits(r, ranges[m], 0)
    OBVIOUS
  <2>1. CASE m = n
    BY <1>5, <2>1 DEF c
  <2>2. CASE m # n
    <3>1. m \in 1..(n - 1)
      BY <2>2
    <3> QED BY <1>4, <3>1
  <2> QED BY <2>1, <2>2
<1>10. IsFiniteSet(Differs(r, after.covered)) /\ Cardinality(Differs(r, after.covered)) = after.changed
  <2>1. Differs(r, after.covered) = Differs(r, before.covered) \union Differs(r, cells)
    BY <1>6 DEF Differs
  <2>2. Differs(r, before.covered) \cap Differs(r, cells) = {}
    <3>1. \A i \in before.covered : i \in 1..before.end
      BY <1>4
    <3>2. \A i \in cells : i \notin 1..before.end
      BY <1>4, <1>5
    <3> QED BY <3>1, <3>2 DEF Differs
  <2>3. Cardinality(Differs(r, before.covered) \cap Differs(r, cells)) = 0
    BY <2>2, FS_EmptySet
  <2> HIDE DEF cells
  <2>0. IsFiniteSet(Differs(r, before.covered)) /\ IsFiniteSet(Differs(r, cells))
    BY <1>4, <1>5
  <2>4. /\ IsFiniteSet(Differs(r, before.covered) \union Differs(r, cells))
        /\ Cardinality(Differs(r, before.covered) \union Differs(r, cells)) =
             Cardinality(Differs(r, before.covered)) + Cardinality(Differs(r, cells))
               - Cardinality(Differs(r, before.covered) \cap Differs(r, cells))
    BY <2>0, FS_Union, Zenon
  <2> DEFINE old == Cardinality(Differs(r, before.covered))
             new == Cardinality(Differs(r, cells))
  <2>5. IsFiniteSet(Differs(r, after.covered)) /\ Cardinality(Differs(r, after.covered)) = old + new - 0
    BY <2>1, <2>3, <2>4
  <2>6. old \in Nat /\ new \in Nat /\ after.changed = old + new
    BY <1>4, <1>5, <1>6
  <2> HIDE DEF old, new
  <2> QED BY <2>5, <2>6
<1>11. after.changed >= n
  BY <1>4, <1>5, <1>6
<1> QED BY <1>7, <1>8, <1>9, <1>10, <1>11 DEF Seen, c

(* What the loop knows when it ends.                                       *)
LEMMA WalkSees ==
  ASSUME NEW r, Programs(r), NEW ranges \in Seq(RangeType)
  PROVE  Seen(r, ranges, Len(ranges), Walk(r, ranges))
<1>1. PICK walked \in [0..Len(ranges) -> WalkStates] :
           /\ walked[0] = Walking
           /\ \A n \in 1..Len(ranges) : walked[n] = WalkOn(r, ranges[n], walked[n - 1])
           /\ Walk(r, ranges) = walked[Len(ranges)]
  BY WalkIs
<1> DEFINE T == {n \in 0..Len(ranges) : Seen(r, ranges, n, walked[n])}
<1>2. 0 \in T
  <2>1. Differs(r, {}) = {} /\ Len(r.source.prg) \in Nat
    BY DEF Differs, Programs
  <2>2. IsFiniteSet({}) /\ Cardinality({}) = 0
    BY FS_EmptySet
  <2>0. Walking.end = 0 /\ Walking.covered = {} /\ Walking.changed = 0
    BY DEF Walking
  <2>3. Seen(r, ranges, 0, Walking)
    <3>1. Walking.end \in 0..Len(r.source.prg) /\ ~\E m \in Nat : m \in 1..0
      BY <2>1, <2>0
    <3>2. Differs(r, Walking.covered) = {} /\ Walking.changed = 0
      BY <2>1, <2>0
    <3>3. Walking.covered \subseteq {i \in 1..Walking.end : \E m \in 1..0 : i - ranges[m].offset \in 1..ranges[m].length}
      BY <2>0
    <3>4. \A m \in 1..0 : RangeFits(r, ranges[m], 0)
      OBVIOUS
    <3>5. Walking.changed >= 0
      BY <3>2
    <3> QED BY <2>2, <3>1, <3>2, <3>3, <3>4, <3>5, Zenon DEF Seen
  <2> QED BY <1>1, <2>3
<1>3. ASSUME NEW n \in 1..Len(ranges), n - 1 \in T PROVE n \in T
  <2>1. walked[n - 1] \in WalkStates /\ Seen(r, ranges, n - 1, walked[n - 1])
    BY <1>3
  <2>2. Seen(r, ranges, n, WalkOn(r, ranges[n], walked[n - 1]))
    BY <2>1, SeesOneMore
  <2> QED BY <1>1, <2>2
<1> HIDE DEF T
<1>0. Len(ranges) \in Nat
  OBVIOUS
<1>4. 0..Len(ranges) \subseteq T
  BY <1>0, <1>2, <1>3, Induction
<1>5. Len(ranges) \in T
  BY <1>0, <1>4
<1> QED BY <1>1, <1>5 DEF T

(* A sequence is what comes before and what comes after a place of it.     *)
LEMMA SplitSequence ==
  ASSUME NEW T \in Seq(Nat), NEW n \in 0..Len(T)
  PROVE  SubSeq(T, 1, n) \o SubSeq(T, n + 1, Len(T)) = T
<1> DEFINE A == SubSeq(T, 1, n)
           B == SubSeq(T, n + 1, Len(T))
           C == A \o B
<1>1. Len(T) \in Nat /\ n \in Nat /\ n <= Len(T)
  OBVIOUS
<1>2. A \in Seq(Nat) /\ Len(A) = n /\ \A i \in 1..n : A[i] = T[i]
  OBVIOUS
<1>3. B \in Seq(Nat) /\ Len(B) = Len(T) - n /\ \A i \in 1..(Len(T) - n) : B[i] = T[n + i]
  OBVIOUS
<1> HIDE DEF A, B
<1>4. /\ C \in Seq(Nat) /\ Len(C) = Len(A) + Len(B)
      /\ \A i \in 1..Len(A) : C[i] = A[i]
      /\ \A i \in (Len(A) + 1)..(Len(A) + Len(B)) : C[i] = B[i - Len(A)]
  <2>1. /\ C \in Seq(Nat) /\ Len(C) = Len(A) + Len(B)
        /\ \A i \in 1..(Len(A) + Len(B)) : C[i] = IF i <= Len(A) THEN A[i] ELSE B[i - Len(A)]
    BY <1>2, <1>3, ConcatProperties, Zenon
  <2>2. Len(A) \in Nat /\ Len(B) \in Nat
    BY <1>2, <1>3
  <2> HIDE DEF C
  <2>3. ASSUME NEW i \in 1..Len(A) PROVE C[i] = A[i]
    <3>1. i \in 1..(Len(A) + Len(B)) /\ i <= Len(A)
      BY <2>2
    <3> QED BY <2>1, <3>1
  <2>4. ASSUME NEW i \in (Len(A) + 1)..(Len(A) + Len(B)) PROVE C[i] = B[i - Len(A)]
    <3>1. i \in 1..(Len(A) + Len(B)) /\ ~(i <= Len(A))
      BY <2>2
    <3> QED BY <2>1, <3>1
  <2> QED BY <2>1, <2>3, <2>4
<1> HIDE DEF C
<1>5. Len(C) = Len(T)
  BY <1>1, <1>2, <1>3, <1>4
<1>6. ASSUME NEW i \in 1..Len(T) PROVE C[i] = T[i]
  <2>1. i \in Nat /\ i >= 1 /\ i <= Len(T)
    BY <1>1
  <2>2. CASE i <= n
    BY <1>1, <1>2, <1>4, <2>1, <2>2
  <2>3. CASE i > n
    <3>1. i - n \in 1..(Len(T) - n) /\ n + (i - n) = i
      BY <1>1, <2>1, <2>3
    <3>2. i \in (Len(A) + 1)..(Len(A) + Len(B))
      BY <1>1, <1>2, <1>3, <2>1, <2>3
    <3>3. C[i] = B[i - n]
      BY <1>2, <1>4, <3>2
    <3>4. B[i - n] = T[n + (i - n)]
      BY <1>3, <3>1
    <3> QED BY <3>1, <3>3, <3>4
  <2> QED BY <1>1, <2>1, <2>2, <2>3
<1>7. C = T
  <2>1. \A i \in 1..Len(C) : C[i] = T[i]
    BY <1>5, <1>6
  <2> QED BY <1>4, <1>5, <2>1, SeqEqual, Zenon
<1> QED BY <1>7 DEF A, B, C

(* The contract describes the target to the byte, and the report counts    *)
(* each changed byte once.                                                 *)
LEMMA ContractIsTarget ==
  ASSUME NEW r, WellFormed(r), GeometryHolds(r), PrgChangesFit(r)
  PROVE  /\ Described(r) = r.target.prg
         /\ Walk(r, r.contract.changes).changed = Cardinality(Changed(r.source.prg, r.target.prg))
         /\ Walk(r, r.contract.changes).changed >= Len(r.contract.changes)
<1> DEFINE source == r.source.prg
           target == r.target.prg
           changes == r.contract.changes
           walk == Walk(r, changes)
           in(n, i) == i - changes[n].offset \in 1..changes[n].length
           over == [i \in DOMAIN source |->
                      IF \E n \in DOMAIN changes : in(n, i)
                      THEN LET n == CHOOSE n \in DOMAIN changes : in(n, i) IN changes[n].target[i - changes[n].offset]
                      ELSE source[i]]
           region == r.contract.append
<1>1. Programs(r) /\ changes \in Seq(RangeType) /\ source \in Seq(Nat) /\ target \in Seq(Nat) /\ region.target \in Seq(Nat)
  BY DEF WellFormed, GeometryHolds, Programs, RangeType
<1>2. Len(source) <= Len(target)
  BY DEF GeometryHolds
<1>3. walk.fits /\ Changed(source, target) \subseteq walk.covered
  BY DEF PrgChangesFit
<1>4. Seen(r, changes, Len(changes), walk)
  BY <1>1, WalkSees
<1> HIDE DEF walk
<1>5. /\ walk.end \in 0..Len(source)
      /\ walk.covered \subseteq {i \in 1..walk.end : \E m \in 1..Len(changes) : in(m, i)}
      /\ \A m \in 1..Len(changes) : RangeFits(r, changes[m], 0)
      /\ walk.changed = Cardinality(Differs(r, walk.covered))
      /\ walk.changed >= Len(changes)
  BY <1>3, <1>4 DEF Seen
<1>6. DOMAIN source = 1..Len(source) /\ DOMAIN changes = 1..Len(changes) /\ Len(source) \in Nat /\ Len(target) \in Nat
  BY <1>1
<1>7. Differs(r, walk.covered) = Changed(source, target)
  <2>1. walk.covered \subseteq DOMAIN source
    BY <1>5, <1>6
  <2> QED BY <1>3, <2>1 DEF Differs, Changed
<1>8. ASSUME NEW i \in DOMAIN source PROVE over[i] = target[i]
  <2>1. CASE \E n \in DOMAIN changes : in(n, i)
    <3> DEFINE n == CHOOSE n \in DOMAIN changes : in(n, i)
               c == changes[n]
    <3>1. n \in DOMAIN changes /\ in(n, i)
      BY <2>1
    <3>2. over[i] = c.target[i - c.offset]
      BY <2>1
    <3> HIDE DEF n, over
    <3>3. c \in RangeType /\ RangeFits(r, c, 0) /\ i - c.offset \in 1..c.length
      BY <1>1, <1>5, <1>6, <3>1
    <3> HIDE DEF c
    <3>4. \A k \in 1..c.length : c.target[k] = target[c.offset + k]
      BY <1>1, <3>3, RangeShows
    <3>5. c.offset \in Nat /\ i \in Nat
      BY <1>6, <3>3 DEF RangeType
    <3>6. c.offset + (i - c.offset) = i
      BY <3>5
    <3> QED BY <3>2, <3>3, <3>4, <3>6
  <2>2. CASE ~\E n \in DOMAIN changes : in(n, i)
    <3>1. over[i] = source[i]
      BY <2>2
    <3>2. i \notin walk.covered
      BY <1>5, <1>6, <2>2
    <3>3. i \notin Changed(source, target)
      BY <1>3, <3>2
    <3> QED BY <3>1, <3>3 DEF Changed
  <2> QED BY <2>1, <2>2
<1>9. DOMAIN over = 1..Len(source)
  BY <1>6
<1>10. Described(r) = over \o (IF region = NoAppend THEN <<>> ELSE region.target)
  BY DEF Described
<1> HIDE DEF over
<1>11. over = SubSeq(target, 1, Len(source))
  <2> DEFINE part == [i \in 1..Len(source) |-> target[i]]
  <2>1. over = part
    <3>1. \E g : over = [i \in DOMAIN source |-> g[i]]
      <4> WITNESS over
      <4> QED BY <1>9 DEF over
    <3> QED BY <1>6, <1>8, <3>1
  <2>2. part = SubSeq(target, 1, Len(source))
    BY <1>1, <1>2, <1>6
  <2> QED BY <2>1, <2>2
<1>12. Described(r) = target
  <2> DEFINE T == target
             n == Len(source)
  <2>1. T \in Seq(Nat) /\ n \in 0..Len(T)
    BY <1>1, <1>2, <1>6
  <2>2. AppendFits(r)
    BY DEF PrgChangesFit
  <2>3. CASE region = NoAppend
    <3>1. Len(T) = n
      BY <1>6, <2>2, <2>3 DEF AppendFits
    <3>2. Described(r) = SubSeq(T, 1, n) \o <<>>
      BY <1>10, <1>11, <2>3
    <3> HIDE DEF T, n
    <3> QED BY <2>1, <3>1, <3>2 DEF T
  <2>4. CASE region # NoAppend
    <3>1. region.target = SubSeq(T, n + 1, Len(T))
      BY <2>2, <2>4 DEF AppendFits, Part
    <3>2. Described(r) = SubSeq(T, 1, n) \o SubSeq(T, n + 1, Len(T))
      BY <1>10, <1>11, <2>4, <3>1
    <3> HIDE DEF T, n
    <3> QED BY <2>1, <3>2, SplitSequence DEF T
  <2> QED BY <2>3, <2>4
<1> QED BY <1>5, <1>7, <1>12 DEF walk

----------------------------------------------------------------------------
(* The patches of a request *)

PatchType == [address : Nat, bytes : Seq(Nat)]
\* Patches that lie one after the other in a memory of a size that begins at base.
InOrder(size, base, patches) ==
  \A n \in 1..Len(patches) :
    /\ patches[n].address >= base
    /\ patches[n].address - base + Len(patches[n].bytes) <= size
    /\ n > 1 => patches[n].address >= patches[n - 1].address + Len(patches[n - 1].bytes)
\* A memory on which the first n patches have been laid.
HasFirst(memory, after, base, patches, n) ==
  /\ \A m \in 1..n : patches[m].address + Len(patches[m].bytes) <= patches[n].address + Len(patches[n].bytes)
  /\ \A m \in 1..n : \A k \in 1..Len(patches[m].bytes) :
       after[patches[m].address - base + k - 1] = patches[m].bytes[k]
  /\ \A cell \in DOMAIN memory :
       (\A m \in 1..n : \A k \in 1..Len(patches[m].bytes) : cell # patches[m].address - base + k - 1)
         => after[cell] = memory[cell]

(* The cells of a patch that lies in a memory are cells of the memory, and *)
(* those of a patch that lies after it are others.                         *)
LEMMA CellsOf ==
  ASSUME NEW size \in Nat, NEW base \in Nat, NEW a \in Nat, NEW l \in Nat, a >= base, a - base + l <= size,
         NEW k \in 1..l, NEW b \in Nat, a + l <= b
  PROVE  /\ a - base + k - 1 \in 0..(size - 1)
         /\ \A j \in Nat : j >= 1 => a - base + k - 1 # b - base + j - 1
OBVIOUS

(* A patch replaces its cells.                                             *)
LEMMA PatchLies ==
  ASSUME NEW size \in Nat, NEW memory \in [0..(size - 1) -> Nat], NEW base \in Nat, NEW patch \in PatchType,
         patch.address >= base, patch.address - base + Len(patch.bytes) <= size
  PROVE  /\ Laid(memory, base, patch) \in [0..(size - 1) -> Nat]
         /\ \A k \in 1..Len(patch.bytes) :
              Laid(memory, base, patch)[patch.address - base + k - 1] = patch.bytes[k]
         /\ \A cell \in 0..(size - 1) :
              (\A k \in 1..Len(patch.bytes) : cell # patch.address - base + k - 1)
                => Laid(memory, base, patch)[cell] = memory[cell]
<1> DEFINE a == patch.address
           bytes == patch.bytes
           after == Laid(memory, base, patch)
<1>1. a \in Nat /\ bytes \in Seq(Nat)
  BY DEF PatchType
<1>2. after = [cell \in 0..(size - 1) |->
                 IF cell + base - a \in 0..(Len(bytes) - 1) THEN bytes[cell + base - a + 1] ELSE memory[cell]]
  BY DEF Laid
<1>3. a >= base /\ a - base + Len(bytes) <= size
  OBVIOUS
<1> HIDE DEF a, bytes, after
<1>4. Len(bytes) \in Nat /\ \A k \in 1..Len(bytes) : bytes[k] \in Nat
  BY <1>1
<1>5. ASSUME NEW cell \in 0..(size - 1)
      PROVE  (IF cell + base - a \in 0..(Len(bytes) - 1) THEN bytes[cell + base - a + 1] ELSE memory[cell]) \in Nat
  <2>1. CASE cell + base - a \in 0..(Len(bytes) - 1)
    <3>1. cell + base - a + 1 \in 1..Len(bytes)
      BY <1>1, <1>4, <2>1
    <3> QED BY <1>4, <2>1, <3>1
  <2>2. CASE cell + base - a \notin 0..(Len(bytes) - 1)
    BY <2>2
  <2> QED BY <2>1, <2>2
<1>6. after \in [0..(size - 1) -> Nat]
  BY <1>2, <1>5
<1>7. ASSUME NEW k \in 1..Len(bytes) PROVE after[a - base + k - 1] = bytes[k]
  <2> DEFINE cell == a - base + k - 1
  <2>1. cell \in 0..(size - 1) /\ cell + base - a \in 0..(Len(bytes) - 1) /\ cell + base - a + 1 = k
    BY <1>1, <1>3, <1>4
  <2> HIDE DEF cell
  <2>2. after[cell] = bytes[k]
    BY <1>2, <2>1
  <2> QED BY <2>2 DEF cell
<1>8. ASSUME NEW cell \in 0..(size - 1), \A k \in 1..Len(bytes) : cell # a - base + k - 1
      PROVE  after[cell] = memory[cell]
  <2>1. CASE cell + base - a \in 0..(Len(bytes) - 1)
    <3>1. cell + base - a + 1 \in 1..Len(bytes) /\ cell = a - base + (cell + base - a + 1) - 1
      BY <1>1, <1>4, <2>1
    <3> QED BY <1>8, <3>1
  <2>2. CASE cell + base - a \notin 0..(Len(bytes) - 1)
    BY <1>2, <2>2
  <2> QED BY <2>1, <2>2
<1> QED BY <1>6, <1>7, <1>8 DEF a, bytes, after

(* One patch after the others leaves them whole.                           *)
LEMMA OneMorePatch ==
  ASSUME NEW size \in Nat, NEW memory \in [0..(size - 1) -> Nat], NEW base \in Nat,
         NEW patches \in Seq(PatchType), InOrder(size, base, patches), NEW n \in 1..Len(patches),
         NEW before \in [0..(size - 1) -> Nat], HasFirst(memory, before, base, patches, n - 1)
  PROVE  /\ Laid(before, base, patches[n]) \in [0..(size - 1) -> Nat]
         /\ HasFirst(memory, Laid(before, base, patches[n]), base, patches, n)
<1> DEFINE after == Laid(before, base, patches[n])
           place(m) == patches[m].address
           long(m) == Len(patches[m].bytes)
<1>1. \A m \in 1..Len(patches) : patches[m] \in PatchType /\ place(m) \in Nat /\ long(m) \in Nat
  <2> SUFFICES ASSUME NEW m \in 1..Len(patches)
               PROVE  patches[m] \in PatchType /\ place(m) \in Nat /\ long(m) \in Nat
    OBVIOUS
  <2>1. patches[m] \in PatchType
    OBVIOUS
  <2>2. patches[m].address \in Nat /\ patches[m].bytes \in Seq(Nat)
    BY <2>1 DEF PatchType
  <2> QED BY <2>1, <2>2
<1>2. /\ place(n) >= base /\ place(n) - base + long(n) <= size
      /\ n > 1 => place(n) >= place(n - 1) + long(n - 1)
  BY DEF InOrder
<1> HIDE DEF after
<1>3. /\ after \in [0..(size - 1) -> Nat]
      /\ \A k \in 1..long(n) : after[place(n) - base + k - 1] = patches[n].bytes[k]
      /\ \A cell \in 0..(size - 1) :
           (\A k \in 1..long(n) : cell # place(n) - base + k - 1) => after[cell] = before[cell]
  <2> DEFINE patch == patches[n]
  <2>1. patch \in PatchType /\ patch.address >= base /\ patch.address - base + Len(patch.bytes) <= size
    BY <1>1, <1>2
  <2> HIDE DEF patch
  <2>2. /\ Laid(before, base, patch) \in [0..(size - 1) -> Nat]
        /\ \A k \in 1..Len(patch.bytes) :
             Laid(before, base, patch)[patch.address - base + k - 1] = patch.bytes[k]
        /\ \A cell \in 0..(size - 1) :
             (\A k \in 1..Len(patch.bytes) : cell # patch.address - base + k - 1)
               => Laid(before, base, patch)[cell] = before[cell]
    BY <2>1, PatchLies
  <2> QED BY <2>2 DEF patch, after
<1>4. /\ \A m \in 1..(n - 1) : place(m) + long(m) <= place(n - 1) + long(n - 1)
      /\ \A m \in 1..(n - 1) : \A k \in 1..long(m) : before[place(m) - base + k - 1] = patches[m].bytes[k]
      /\ \A cell \in 0..(size - 1) :
           (\A m \in 1..(n - 1) : \A k \in 1..long(m) : cell # place(m) - base + k - 1) => before[cell] = memory[cell]
  BY DEF HasFirst
<1>5. \A m \in 1..Len(patches) : place(m) >= base /\ place(m) - base + long(m) <= size
  BY DEF InOrder
<1> HIDE DEF after, place, long
<1>6. \A m \in 1..(n - 1) : place(m) + long(m) <= place(n)
  <2> SUFFICES ASSUME NEW m \in 1..(n - 1) PROVE place(m) + long(m) <= place(n)
    OBVIOUS
  <2>1. m \in 1..Len(patches) /\ n - 1 \in 1..Len(patches) /\ n > 1
    OBVIOUS
  <2>2. place(m) + long(m) <= place(n - 1) + long(n - 1) /\ place(n) >= place(n - 1) + long(n - 1)
    BY <1>2, <1>4, <2>1
  <2>3. place(m) \in Nat /\ long(m) \in Nat /\ place(n) \in Nat /\ place(n - 1) \in Nat /\ long(n - 1) \in Nat
    BY <1>1, <2>1
  <2> QED BY <2>2, <2>3
<1>7. ASSUME NEW m \in 1..n PROVE place(m) + long(m) <= place(n) + long(n)
  <2>1. m \in 1..Len(patches)
    OBVIOUS
  <2>2. place(m) \in Nat /\ long(m) \in Nat /\ place(n) \in Nat /\ long(n) \in Nat
    BY <1>1, <2>1
  <2>3. CASE m = n
    BY <2>2, <2>3
  <2>4. CASE m # n
    <3>1. m \in 1..(n - 1)
      BY <2>4
    <3> QED BY <1>6, <2>2, <3>1
  <2> QED BY <2>3, <2>4
<1>8. ASSUME NEW m \in 1..n, NEW k \in 1..long(m) PROVE after[place(m) - base + k - 1] = patches[m].bytes[k]
  <2>1. CASE m = n
    BY <1>3, <2>1
  <2>2. CASE m # n
    <3>1. m \in 1..(n - 1) /\ m \in 1..Len(patches)
      BY <2>2
    <3> DEFINE cell == place(m) - base + k - 1
    <3>2. place(m) \in Nat /\ long(m) \in Nat /\ place(n) \in Nat /\ long(n) \in Nat
      BY <1>1, <3>1
    <3>3. place(m) >= base /\ place(m) - base + long(m) <= size /\ place(m) + long(m) <= place(n)
      BY <1>5, <1>6, <3>1
    <3>5. cell \in 0..(size - 1) /\ \A j \in Nat : j >= 1 => cell # place(n) - base + j - 1
      BY <3>2, <3>3, CellsOf
    <3>6. ASSUME NEW j \in 1..long(n) PROVE cell # place(n) - base + j - 1
      <4>1. j \in Nat /\ j >= 1
        BY <3>2
      <4> HIDE DEF cell
      <4> QED BY <3>5, <4>1
    <3>7. before[cell] = patches[m].bytes[k]
      BY <1>4, <3>1
    <3> HIDE DEF cell
    <3>8. after[cell] = before[cell]
      BY <1>3, <3>5, <3>6
    <3> QED BY <3>7, <3>8 DEF cell
  <2> QED BY <2>1, <2>2
<1>9. ASSUME NEW cell \in 0..(size - 1), \A m \in 1..n : \A k \in 1..long(m) : cell # place(m) - base + k - 1
      PROVE  after[cell] = memory[cell]
  <2>1. n \in 1..n /\ \A m \in 1..(n - 1) : m \in 1..n
    OBVIOUS
  <2>2. after[cell] = before[cell]
    BY <1>3, <1>9, <2>1
  <2>3. before[cell] = memory[cell]
    BY <1>4, <1>9, <2>1
  <2> QED BY <2>2, <2>3
<1>10. DOMAIN memory = 0..(size - 1)
  OBVIOUS
<1> QED BY <1>3, <1>7, <1>8, <1>9, <1>10 DEF HasFirst, after, place, long

LEMMA PatchIs ==
  ASSUME NEW patches \in Seq(PatchType), NEW m \in 1..Len(patches)
  PROVE  /\ patches[m] \in PatchType
         /\ patches[m].address \in Nat /\ patches[m].bytes \in Seq(Nat)
         /\ Len(patches[m].bytes) \in Nat /\ DOMAIN patches[m].bytes = 1..Len(patches[m].bytes)
<1>1. patches[m] \in PatchType
  OBVIOUS
<1>2. patches[m].address \in Nat /\ patches[m].bytes \in Seq(Nat)
  BY <1>1 DEF PatchType
<1> QED BY <1>1, <1>2

(* All of the patches are in the memory, whole.                            *)
LEMMA LaidWhole ==
  ASSUME NEW size \in Nat, NEW memory \in [0..(size - 1) -> Nat], NEW base \in Nat,
         NEW patches \in Seq(PatchType), InOrder(size, base, patches)
  PROVE  Patched(memory, LaidAll(memory, base, patches), base, patches)
<1> DEFINE N == Len(patches)
           M == [0..(size - 1) -> Nat]
           step == [p \in (1..N) \X M |->
                      IF HasFirst(memory, p[2], base, patches, p[1] - 1) THEN Laid(p[2], base, patches[p[1]]) ELSE memory]
           laid[n \in 0..N] == IF n = 0 THEN memory ELSE Laid(laid[n - 1], base, patches[n])
<1>1. N \in Nat /\ memory \in M
  OBVIOUS
<1>2. step \in [(1..N) \X M -> M]
  <2> SUFFICES ASSUME NEW n \in 1..N, NEW before \in M, HasFirst(memory, before, base, patches, n - 1)
               PROVE  Laid(before, base, patches[n]) \in M
    BY <1>1
  <2> QED BY OneMorePatch
<1>3. PICK f : IsRun(f, N, M, memory, step)
  <2> HIDE DEF step, M, N
  <2> QED BY <1>1, <1>2, Recursion, Zenon
<1> DEFINE Good == {n \in 0..N : HasFirst(memory, f[n], base, patches, n)}
<1>4. f \in [0..N -> M] /\ f[0] = memory /\ \A n \in 1..N : f[n] = step[<<n, f[n - 1]>>]
  <2> HIDE DEF step, M, N
  <2> QED BY <1>3 DEF IsRun
<1>5. ASSUME NEW n \in 1..N, n - 1 \in Good
      PROVE  f[n] = Laid(f[n - 1], base, patches[n]) /\ n \in Good
  <2>1. n - 1 \in 0..N /\ HasFirst(memory, f[n - 1], base, patches, n - 1)
    BY <1>5
  <2>2. f[n - 1] \in M
    <3> HIDE DEF step, M, Good
    <3> QED BY <1>4, <2>1
  <2>3. f[n] = Laid(f[n - 1], base, patches[n])
    BY <1>4, <2>1, <2>2
  <2>4. HasFirst(memory, f[n], base, patches, n)
    BY <2>1, <2>2, <2>3, OneMorePatch
  <2> QED BY <2>3, <2>4
<1>6. 0 \in Good
  <2>1. HasFirst(memory, memory, base, patches, 0)
    BY DEF HasFirst
  <2> QED BY <1>1, <1>4, <2>1
<1>7. 0..N \subseteq Good
  <2> HIDE DEF Good
  <2> QED BY <1>1, <1>5, <1>6, Induction
<1>8. \A n \in 1..N : f[n] = Laid(f[n - 1], base, patches[n])
  <2> SUFFICES ASSUME NEW n \in 1..N PROVE f[n] = Laid(f[n - 1], base, patches[n])
    OBVIOUS
  <2>1. n - 1 \in 0..N
    BY <1>1
  <2> HIDE DEF Good
  <2> QED BY <1>5, <1>7, <2>1
<1>9. f = [n \in 0..N |-> IF n = 0 THEN memory ELSE Laid(f[n - 1], base, patches[n])]
  <2> HIDE DEF step, M
  <2> QED BY <1>1, <1>4, <1>8
<1>10. laid = [n \in 0..N |-> IF n = 0 THEN memory ELSE Laid(laid[n - 1], base, patches[n])]
  <2>1. \E g : g = [n \in 0..N |-> IF n = 0 THEN memory ELSE Laid(g[n - 1], base, patches[n])]
    BY <1>9
  <2> QED BY <2>1
<1>11. LaidAll(memory, base, patches) = laid[N]
  BY DEF LaidAll
<1> HIDE DEF laid
<1> DEFINE Same == {n \in 0..N : laid[n] = f[n]}
<1>12. 0 \in Same
  BY <1>1, <1>4, <1>10
<1>13. ASSUME NEW n \in 1..N, n - 1 \in Same PROVE n \in Same
  <2>1. laid[n] = Laid(laid[n - 1], base, patches[n])
    <3>1. n \in 0..N /\ n # 0
      BY <1>1
    <3> HIDE DEF N
    <3> QED BY <1>10, <3>1, Zenon
  <2>2. laid[n - 1] = f[n - 1]
    BY <1>13
  <2> QED BY <1>8, <2>1, <2>2
<1>14. 0..N \subseteq Same
  <2> HIDE DEF Same
  <2> QED BY <1>1, <1>12, <1>13, Induction
<1>15. N \in 0..N
  BY <1>1
<1>16. LaidAll(memory, base, patches) = f[N] /\ HasFirst(memory, f[N], base, patches, N)
  BY <1>7, <1>11, <1>14, <1>15
<1>17. f[N] \in M
  BY <1>4, <1>15
<1> DEFINE after == f[N]
<1> HIDE DEF after
<1>18. /\ \A m \in 1..N : \A k \in 1..Len(patches[m].bytes) :
            after[patches[m].address - base + k - 1] = patches[m].bytes[k]
       /\ \A cell \in DOMAIN memory :
            (\A m \in 1..N : \A k \in 1..Len(patches[m].bytes) : cell # patches[m].address - base + k - 1)
              => after[cell] = memory[cell]
  BY <1>16 DEF HasFirst, after
<1>19. DOMAIN patches = 1..N /\ \A m \in 1..N : DOMAIN patches[m].bytes = 1..Len(patches[m].bytes)
  BY PatchIs
<1>20. DOMAIN after = DOMAIN memory
  BY <1>1, <1>17 DEF after
<1>21. Patched(memory, after, base, patches)
  <2> HIDE DEF N, M
  <2>1. \A n \in DOMAIN patches : \A k \in DOMAIN patches[n].bytes :
          after[patches[n].address - base + k - 1] = patches[n].bytes[k]
    BY <1>18, <1>19, Zenon
  <2>2. ASSUME NEW cell \in DOMAIN memory,
               \A n \in DOMAIN patches : cell \notin {patches[n].address - base + k - 1 : k \in DOMAIN patches[n].bytes}
        PROVE  after[cell] = memory[cell]
    <3>1. ASSUME NEW m \in 1..N, NEW k \in 1..Len(patches[m].bytes) PROVE cell # patches[m].address - base + k - 1
      BY <1>19, <2>2, Zenon
    <3> QED BY <1>18, <3>1, Zenon
  <2> QED BY <1>20, <2>1, <2>2, Zenon DEF Patched
<1> QED BY <1>16, <1>21 DEF after

(* Patches that the contract allows lie in order.                          *)
LEMMA PatchesInOrder ==
  ASSUME NEW size \in Nat, NEW base \in Nat, NEW patches \in Seq(PatchType), NEW expected, NEW end,
         PatchesFit(expected, patches, base, end),
         \A n \in 1..Len(patches) : patches[n].address - base + Len(patches[n].bytes) <= size
  PROVE  InOrder(size, base, patches)
<1> SUFFICES ASSUME NEW n \in 1..Len(patches)
             PROVE  /\ patches[n].address >= base
                    /\ n > 1 => patches[n].address >= patches[n - 1].address + Len(patches[n - 1].bytes)
  BY DEF InOrder
<1>1. DOMAIN patches = 1..Len(patches) /\ Len(patches) \in Nat
  OBVIOUS
<1>2. \A m \in 1..Len(patches) :
        /\ expected[m].address >= IF m = 1 THEN base ELSE expected[m - 1].address + expected[m - 1].length
        /\ patches[m].address = expected[m].address /\ Len(patches[m].bytes) = expected[m].length
  BY <1>1 DEF PatchesFit
<1>3. \A m \in 1..Len(patches) : patches[m].address \in Nat /\ Len(patches[m].bytes) \in Nat
  BY PatchIs
<1>4. ASSUME n > 1 PROVE patches[n].address >= patches[n - 1].address + Len(patches[n - 1].bytes)
  <2>1. n - 1 \in 1..Len(patches) /\ n # 1
    BY <1>1, <1>4
  <2> QED BY <1>2, <2>1
<1>5. patches[n].address >= base
  <2>1. CASE n = 1
    BY <1>2, <2>1
  <2>2. CASE n # 1
    <3> DEFINE Low == {m \in 0..(Len(patches) - 1) : patches[m + 1].address >= base}
    <3>1. Len(patches) - 1 \in Nat /\ 0 \in Low
      BY <1>1, <1>2
    <3>2. ASSUME NEW m \in 1..(Len(patches) - 1), m - 1 \in Low PROVE m \in Low
      <4>1. m \in 1..Len(patches) /\ m + 1 \in 1..Len(patches) /\ m + 1 # 1 /\ m + 1 - 1 = m /\ m - 1 + 1 = m
        BY <1>1
      <4>2. patches[m + 1].address >= expected[m].address + expected[m].length
        BY <1>2, <4>1
      <4>3. patches[m + 1].address >= patches[m].address + Len(patches[m].bytes)
        BY <1>2, <4>1, <4>2
      <4>4. patches[m].address >= base
        BY <3>2, <4>1
      <4>5. patches[m + 1].address >= base
        <5>1. patches[m + 1].address \in Nat /\ patches[m].address \in Nat /\ Len(patches[m].bytes) \in Nat
          BY <1>3, <4>1
        <5> QED BY <4>3, <4>4, <5>1
      <4> QED BY <1>1, <4>5
    <3> HIDE DEF Low
    <3>3. 0..(Len(patches) - 1) \subseteq Low
      BY <3>1, <3>2, Induction
    <3>4. n - 1 \in Low /\ n - 1 + 1 = n
      BY <1>1, <3>3
    <3> QED BY <3>4 DEF Low
  <2> QED BY <2>1, <2>2
<1> QED BY <1>4, <1>5

----------------------------------------------------------------------------
(* The snapshot that comes out *)

(* What the conclusion of the checks is worth.                             *)
LEMMA AcceptedIsExact ==
  ASSUME NEW r, WellFormed(r), Accepts(r)
  PROVE  /\ Patched(r.snapshot.cpu, Output(r).cpu, 0, r.cpuPatches)
         /\ Patched(r.snapshot.private.ram, Output(r).private.ram, RamBase, r.prgPatches)
         /\ Output(r).frame = r.snapshot.frame /\ Output(r).private.variant = r.target.variant
         /\ \A cart \in {r.source, r.target} : Restores(cart, Output(r)) <=> cart = r.target
<1>1. DOMAIN r.snapshot = {"rom", "mapper", "cpu", "frame", "private"}
  BY DEF WellFormed
<1>2. /\ Output(r).cpu = LaidAll(r.snapshot.cpu, 0, r.cpuPatches)
      /\ Output(r).private.ram = LaidAll(r.snapshot.private.ram, RamBase, r.prgPatches)
      /\ Output(r).private.variant = r.target.variant
      /\ Output(r).frame = r.snapshot.frame /\ Output(r).rom = r.target
  BY <1>1 DEF Output
<1>3. RamBase \in Nat /\ CpuEnd \in Nat
  BY RebaseAssumption
<1>4. r.cpuPatches \in Seq(PatchType) /\ r.prgPatches \in Seq(PatchType)
  BY DEF WellFormed, PatchType
<1>5. Patched(r.snapshot.cpu, LaidAll(r.snapshot.cpu, 0, r.cpuPatches), 0, r.cpuPatches)
  <2>1. r.snapshot.cpu \in [0..(CpuEnd - 1) -> Nat]
    BY DEF WellFormed
  <2>2. PatchesFit(r.contract.cpuRam, r.cpuPatches, 0, CpuEnd)
    BY DEF Accepts
  <2>3. \A n \in 1..Len(r.cpuPatches) : r.cpuPatches[n].address - 0 + Len(r.cpuPatches[n].bytes) <= CpuEnd
    <3> SUFFICES ASSUME NEW n \in 1..Len(r.cpuPatches)
                 PROVE  r.cpuPatches[n].address - 0 + Len(r.cpuPatches[n].bytes) <= CpuEnd
      OBVIOUS
    <3>1. r.cpuPatches[n].address \in Nat /\ Len(r.cpuPatches[n].bytes) \in Nat
      BY <1>4, PatchIs
    <3>2. n \in DOMAIN r.cpuPatches
      BY <1>4
    <3>3. r.cpuPatches[n].address + Len(r.cpuPatches[n].bytes) <= CpuEnd
      BY <2>2, <3>2 DEF PatchesFit
    <3> QED BY <3>1, <3>3
  <2>4. InOrder(CpuEnd, 0, r.cpuPatches)
    BY <1>3, <1>4, <2>2, <2>3, PatchesInOrder
  <2> QED BY <1>3, <1>4, <2>1, <2>4, LaidWhole
<1>6. Patched(r.snapshot.private.ram, LaidAll(r.snapshot.private.ram, RamBase, r.prgPatches), RamBase, r.prgPatches)
  <2>1. r.target.ramSize \in Nat /\ r.snapshot.private.ram \in [0..(r.target.ramSize - 1) -> Nat]
    BY DEF WellFormed, Accepts, RestoresRebased
  <2>2. PatchesFit(r.contract.prgRam, r.prgPatches, RamBase, RamEnd) /\ PatchesFitBoard(r.target, r.prgPatches)
    BY DEF Accepts
  <2>3. \A n \in 1..Len(r.prgPatches) :
          r.prgPatches[n].address - RamBase + Len(r.prgPatches[n].bytes) <= r.target.ramSize
    BY <1>4, <2>2 DEF PatchesFitBoard
  <2>4. InOrder(r.target.ramSize, RamBase, r.prgPatches)
    BY <1>3, <1>4, <2>1, <2>2, <2>3, PatchesInOrder
  <2> QED BY <1>3, <1>4, <2>1, <2>4, LaidWhole
<1>7. ASSUME NEW cart \in {r.source, r.target} PROVE Restores(cart, Output(r)) <=> cart = r.target
  <2>1. Restores(r.target, Output(r))
    BY DEF Accepts
  <2>2. Restores(cart, Output(r)) => cart = r.target
    BY <1>2 DEF Restores
  <2> QED BY <2>1, <2>2
<1> QED BY <1>2, <1>5, <1>6, <1>7

(* What a state knows: a request that has been answered with a snapshot    *)
(* has passed every check, and the answer is that of the request.          *)
RebaseInv ==
  /\ WellFormed(request)
  /\ outcome.verdict = "rebased" =>
       /\ Accepts(request)
       /\ outcome.output = Output(request)
       /\ outcome.changed = Walk(request, request.contract.changes).changed

LEMMA RebaseInvExact == RebaseInv => RebaseIsExact
<1> SUFFICES ASSUME RebaseInv, outcome.verdict = "rebased" PROVE RebaseIsExact
  BY DEF RebaseIsExact
<1>1. /\ WellFormed(request) /\ Accepts(request) /\ outcome.output = Output(request)
      /\ outcome.changed = Walk(request, request.contract.changes).changed
  BY DEF RebaseInv
<1>2. GeometryHolds(request) /\ PrgChangesFit(request)
  BY <1>1 DEF Accepts
<1>3. /\ Described(request) = request.target.prg
      /\ outcome.changed = Cardinality(Changed(request.source.prg, request.target.prg))
      /\ outcome.changed >= Len(request.contract.changes)
  BY <1>1, <1>2, ContractIsTarget
<1>4. LET output == Output(request) IN
      /\ Patched(request.snapshot.cpu, output.cpu, 0, request.cpuPatches)
      /\ Patched(request.snapshot.private.ram, output.private.ram, RamBase, request.prgPatches)
      /\ output.frame = request.snapshot.frame /\ output.private.variant = request.target.variant
      /\ \A cart \in {request.source, request.target} : Restores(cart, output) <=> cart = request.target
  BY <1>1, AcceptedIsExact, Zenon
<1> QED BY <1>1, <1>3, <1>4, Zenon DEF RebaseIsExact

(* A snapshot is rebased only on a target that the contract describes to   *)
(* the byte, and comes out with the patches and no other difference        *)
(* (rebase_snapshot).                                                      *)
THEOREM RebaseIsAlwaysExact == RebaseSpec => []RebaseIsExact
<1>1. RebaseInit => RebaseInv
  <2> SUFFICES ASSUME RebaseInit PROVE RebaseInv
    OBVIOUS
  <2>1. WellFormed(request)
    BY RebaseAssumption DEF RebaseInit
  <2>2. outcome.verdict = "pending"
    BY DEF RebaseInit
  <2> QED BY <2>1, <2>2 DEF RebaseInv
<1>2. RebaseInv /\ [RebaseNext]_rebaseVars => RebaseInv'
  <2> SUFFICES ASSUME RebaseInv, [RebaseNext]_rebaseVars PROVE RebaseInv'
    OBVIOUS
  <2>1. CASE RebaseSnapshot
    <3>1. request' = request
      BY <2>1 DEF RebaseSnapshot
    <3>2. CASE Accepts(request)
      <4>1. outcome' = [verdict |-> "rebased", output |-> Output(request),
                        changed |-> Walk(request, request.contract.changes).changed,
                        appended |-> Len(request.target.prg) - Len(request.source.prg)]
        BY <2>1, <3>2 DEF RebaseSnapshot
      <4>2. outcome'.output = Output(request) /\ outcome'.changed = Walk(request, request.contract.changes).changed
        BY <4>1
      <4> QED BY <3>1, <3>2, <4>2 DEF RebaseInv
    <3>3. CASE ~Accepts(request)
      <4>1. outcome' = [verdict |-> "refused"]
        BY <2>1, <3>3 DEF RebaseSnapshot
      <4>2. outcome'.verdict # "rebased"
        BY <4>1
      <4> QED BY <3>1, <4>2 DEF RebaseInv
    <3> QED BY <3>2, <3>3
  <2>2. CASE UNCHANGED rebaseVars
    <3>1. request' = request /\ outcome' = outcome
      BY <2>2 DEF rebaseVars
    <3> QED BY <3>1 DEF RebaseInv
  <2> QED BY <2>1, <2>2 DEF RebaseNext
<1> QED BY <1>1, <1>2, RebaseInvExact, PTL DEF RebaseSpec
=============================================================================
