----------------------------- MODULE PpuProofs ------------------------------
(***************************************************************************)
(* The PPU's beam, for every frame geometry, every set of instruction      *)
(* lengths and every read offset of at most a line; and its address        *)
(* registers, for every size of plane, tile and frame.  They share no      *)
(* state.                                                                  *)
(***************************************************************************)
EXTENDS PpuTiming, PpuAddress, TLAPS

----------------------------------------------------------------------------
(* The beam and the vertical blank *)

(***************************************************************************)
(* The inductive invariant says which part of the frame the history of the *)
(* flag belongs to.  Before the blank nobody has been given the flag,      *)
(* unless a read has just seen it coming: then the instruction still owes  *)
(* the PPU the dots that take it into the blank.  In the blank the flag is *)
(* up or has been given away, and not both.                                *)
(***************************************************************************)
Owed == suppress =>
  /\ line = PostRender /\ left >= Dots - dot
  /\ shown = 1 /\ ~ vblank

BeforeBlank ==
  line <= PostRender /\ ~ suppress => shown = 0

InsideBlank ==
  /\ line \in VblankLine..PreRender - 1 => vblank \/ shown = 1
  /\ vblank => shown = 0

AfterBlank == line = PreRender /\ dot > 0 => shown = 0

Numbers ==
  /\ line \in 0..Lines - 1 /\ dot \in 0..Dots - 1
  /\ left \in Nat /\ shown \in Nat

Booleans ==
  /\ vblank \in BOOLEAN /\ suppress \in BOOLEAN
  /\ nmiOn \in BOOLEAN /\ nmi \in BOOLEAN /\ missed \in BOOLEAN

BeamInv ==
  /\ Numbers /\ Booleans /\ OncePerFrame /\ FlagOnlyInBlank /\ NeverMissed
  /\ Owed /\ BeforeBlank /\ InsideBlank /\ AfterBlank

(* A read at most a line ahead of the beam lies in the blank only when the *)
(* beam is on a blank line, or on the line before and the border within    *)
(* reach.                                                                  *)
LEMMA BlankInReach ==
  ASSUME Numbers, NEW ticks \in Nat, ticks <= Dots, InBlank(ticks)
  PROVE  line \in VblankLine..PreRender - 1 \/ StartsWithin(ticks)
<1> USE FrameAssumption DEF Numbers, VblankLine, PreRender, PostRender
<1>0. /\ line * Dots \in Nat /\ Beam(ticks) \in Nat
      /\ Beam(ticks) = line * Dots + dot + ticks
  BY DEF Beam
<1>1. CASE line < Visible
  <2>1. (line + 1) * Dots <= Visible * Dots
    BY <1>1
  <2>2. (line + 1) * Dots = line * Dots + Dots
    OBVIOUS
  <2>3. (Visible + 1) * Dots = Visible * Dots + Dots /\ Visible * Dots \in Nat
    OBVIOUS
  <2>4. Beam(ticks) < (Visible + 1) * Dots
    BY <1>0, <2>1, <2>2, <2>3
  <2> QED BY <1>0, <2>3, <2>4 DEF InBlank
<1>2. CASE line = Visible
  <2>1. (Visible + 1) * Dots = Visible * Dots + Dots
    OBVIOUS
  <2> QED BY <1>0, <1>2, <2>1 DEF InBlank, StartsWithin
<1>3. CASE line = Lines - 1
  <2>1. Beam(ticks) >= (Lines - 1) * Dots /\ (Lines - 1) * Dots \in Nat
    BY <1>0, <1>3
  <2> QED BY <1>0, <2>1 DEF InBlank
<1> QED BY <1>1, <1>2, <1>3

(* BeamInv holds initially.                                                   *)
LEMMA BeamBase == Init => BeamInv
<1> SUFFICES ASSUME Init PROVE BeamInv
  OBVIOUS
<1>1. Numbers
  BY FrameAssumption DEF Init, Numbers
<1>2. Booleans /\ NeverMissed
  BY DEF Init, Booleans, NeverMissed
<1>3. OncePerFrame /\ FlagOnlyInBlank
  BY DEF Init, OncePerFrame, FlagOnlyInBlank
<1>4. Owed /\ BeforeBlank /\ InsideBlank /\ AfterBlank
  BY FrameAssumption
     DEF Init, Owed, BeforeBlank, InsideBlank, AfterBlank,
         VblankLine, PreRender, PostRender
<1> QED BY <1>1, <1>2, <1>3, <1>4 DEF BeamInv

(* Reading the status keeps BeamInv: the flag is returned at most once, and   *)
(* in the blank it is returned or has been.                                *)
LEMMA ReadKeeps ==
  ASSUME BeamInv, NEW r \in Reads, ReadStatus(r[1], r[2])
  PROVE  BeamInv'
<1> DEFINE offset == r[1]
           early == ~ vblank /\ StartsWithin(3 * offset)
           returned == vblank \/ early
<1>1. offset \in Nat /\ r[2] \in Nat /\ offset < r[2] /\ 3 * offset <= Dots
  BY InstructionAssumption
<1>2. /\ left = 0 /\ left' = 3 * r[2] /\ line' = line /\ dot' = dot
      /\ shown' = IF returned THEN shown + 1 ELSE shown
  BY DEF ReadStatus, Instruction, position
<1>3. /\ nmi' = FALSE /\ nmiOn' = nmiOn /\ vblank' = FALSE
      /\ suppress' = (suppress \/ early)
      /\ missed' = (missed \/ (InBlank(3 * offset) /\ ~ returned /\ shown = 0))
  BY DEF ReadStatus, Instruction
<1>4. Numbers'
  BY <1>1, <1>2 DEF BeamInv, Numbers
<1>5. ~ suppress
  BY FrameAssumption, <1>2 DEF BeamInv, Numbers, Owed
<1>6. NeverMissed'
  <2>1. SUFFICES ASSUME InBlank(3 * offset), ~ returned, shown = 0
                 PROVE  FALSE
    BY <1>3 DEF NeverMissed, BeamInv
  <2>2. 3 * offset \in Nat
    BY <1>1
  <2>3. line \in VblankLine..PreRender - 1 \/ StartsWithin(3 * offset)
    BY <1>1, <2>1, <2>2, BlankInReach DEF BeamInv
  <2>4. line \in VblankLine..PreRender - 1 => vblank \/ shown = 1
    BY DEF BeamInv, InsideBlank
  <2> QED BY <2>1, <2>3, <2>4
<1>7. Booleans'
  BY <1>3 DEF BeamInv, Booleans
<1>8. returned => shown = 0
  BY <1>5 DEF BeamInv, InsideBlank, BeforeBlank, StartsWithin, Numbers
<1> HIDE DEF returned
<1>9. OncePerFrame' /\ FlagOnlyInBlank'
  BY <1>2, <1>3, <1>8 DEF BeamInv, OncePerFrame, FlagOnlyInBlank
<1>10. Owed'
  <2>1. suppress' => early
    BY <1>3, <1>5
  <2>2. early => line = PostRender /\ 3 * offset >= Dots - dot /\ returned
    BY DEF StartsWithin, returned
  <2>3. 3 * r[2] >= 3 * offset
    BY <1>1
  <2>4. early => line' = PostRender /\ left' >= Dots - dot' /\ shown' = 1
    BY FrameAssumption, <1>1, <1>2, <1>8, <2>2, <2>3 DEF BeamInv, Numbers
  <2> QED BY <1>3, <2>1, <2>4 DEF Owed
<1>11. BeforeBlank'
  <2>1. SUFFICES ASSUME line <= PostRender, ~ early PROVE shown' = 0
    BY <1>2, <1>3 DEF BeforeBlank
  <2>2. ~ vblank
    BY FrameAssumption, <2>1
       DEF BeamInv, FlagOnlyInBlank, Numbers, VblankLine, PreRender, PostRender
  <2> QED BY <1>2, <1>5, <2>1, <2>2 DEF BeamInv, BeforeBlank, returned
<1>12. InsideBlank'
  <2>1. line \in VblankLine..PreRender - 1 => vblank \/ shown = 1
    BY DEF BeamInv, InsideBlank
  <2>2. vblank => returned
    BY DEF returned
  <2>3. line \in VblankLine..PreRender - 1 => shown' = 1
    BY <1>2, <1>8, <2>1, <2>2
  <2> QED BY <1>2, <1>3, <2>3 DEF InsideBlank
<1>13. AfterBlank'
  <2>1. SUFFICES ASSUME line = PreRender, dot > 0 PROVE shown' = 0
    BY <1>2 DEF AfterBlank
  <2>2. ~ returned
    BY FrameAssumption, <2>1
       DEF BeamInv, FlagOnlyInBlank, Numbers, returned, StartsWithin,
           VblankLine, PreRender, PostRender
  <2> QED BY <1>2, <2>1, <2>2 DEF BeamInv, AfterBlank
<1> QED BY <1>4, <1>6, <1>7, <1>9, <1>10, <1>11, <1>12, <1>13 DEF BeamInv

(* The start of any other instruction only gives the clock work to do.     *)
LEMMA StartKeeps ==
  ASSUME BeamInv, NEW cycles \in Lengths, Instruction(cycles),
         nmiOn' \in BOOLEAN, UNCHANGED <<flags, history>>
  PROVE  BeamInv'
<1>1. /\ left = 0 /\ left' = 3 * cycles /\ cycles \in Nat
      /\ line' = line /\ dot' = dot /\ shown' = shown
  BY InstructionAssumption DEF Instruction, position, history
<1>2. /\ nmi' = FALSE /\ vblank' = vblank /\ suppress' = suppress
      /\ missed' = missed
  BY DEF Instruction, flags, history
<1>3. Numbers'
  BY <1>1 DEF BeamInv, Numbers
<1>4. Booleans' /\ NeverMissed'
  BY <1>2 DEF BeamInv, Booleans, NeverMissed
<1>5. ~ suppress
  BY FrameAssumption, <1>1 DEF BeamInv, Numbers, Owed
<1>6. Owed'
  BY <1>2, <1>5 DEF Owed
<1>7. OncePerFrame' /\ FlagOnlyInBlank' /\ BeforeBlank' /\ InsideBlank'
      /\ AfterBlank'
  BY <1>1, <1>2 DEF BeamInv, OncePerFrame, FlagOnlyInBlank, BeforeBlank,
     InsideBlank, AfterBlank
<1> QED BY <1>3, <1>4, <1>6, <1>7 DEF BeamInv

(* Part of a line: dot 1 of the pre-render line starts a new history.      *)
LEMMA AdvanceKeeps == ASSUME BeamInv, Advance PROVE BeamInv'
<1> USE FrameAssumption DEF VblankLine, PreRender, PostRender
<1>1. /\ line' = line /\ nmiOn' = nmiOn /\ nmi' = nmi /\ missed' = missed
  BY DEF Advance
<1>2. CASE ClearsFlags
  <2>1. line = Lines - 1 /\ dot' = 1 /\ left' = left - 1 /\ left > 0
    BY <1>2 DEF Advance, ClearsFlags, Room, BeamInv, Numbers
  <2>2. vblank' = FALSE /\ suppress' = FALSE /\ shown' = 0
    BY <1>2 DEF Advance
  <2>3. Numbers'
    BY <1>1, <2>1, <2>2 DEF BeamInv, Numbers
  <2>4. Booleans' /\ NeverMissed' /\ Owed' /\ FlagOnlyInBlank'
    BY <1>1, <2>2 DEF BeamInv, Booleans, NeverMissed, Owed, FlagOnlyInBlank
  <2>5. OncePerFrame' /\ BeforeBlank' /\ InsideBlank' /\ AfterBlank'
    BY <1>1, <2>1, <2>2 DEF OncePerFrame, BeforeBlank, InsideBlank, AfterBlank
  <2> QED BY <2>3, <2>4, <2>5 DEF BeamInv
<1>3. CASE ~ ClearsFlags
  <2>1. /\ left > 0 /\ left < Dots - dot
        /\ dot' = dot + left /\ left' = 0 /\ shown' = shown
    BY <1>3 DEF Advance, Room, BeamInv, Numbers
  <2>2. vblank' = vblank /\ suppress' = suppress
    BY <1>3 DEF Advance, flags
  <2>3. Numbers'
    BY <1>1, <2>1 DEF BeamInv, Numbers
  <2>4. Booleans' /\ NeverMissed'
    BY <1>1, <2>2 DEF BeamInv, Booleans, NeverMissed
  <2>5. ~ suppress
    BY <2>1 DEF BeamInv, Owed, Numbers
  <2>6. Owed'
    BY <2>2, <2>5 DEF Owed
  <2>7. OncePerFrame' /\ BeforeBlank' /\ InsideBlank'
    BY <1>1, <2>1, <2>2
       DEF BeamInv, OncePerFrame, BeforeBlank, InsideBlank
  <2>8. line = Lines - 1 => dot > 0
    BY <1>3 DEF ClearsFlags, BeamInv, Numbers
  <2>9. FlagOnlyInBlank' /\ AfterBlank'
    BY <1>1, <2>1, <2>2, <2>8
       DEF BeamInv, FlagOnlyInBlank, AfterBlank, Numbers
  <2> QED BY <2>3, <2>4, <2>6, <2>7, <2>9 DEF BeamInv
<1> QED BY <1>2, <1>3

(* The rest of a line: the blank begins after the post-render line, and    *)
(* the pre-render line has lost the flag before the next frame.            *)
LEMMA NextLineKeeps == ASSUME BeamInv, NextLine PROVE BeamInv'
<1> USE FrameAssumption DEF VblankLine, PreRender, PostRender
<1>1. /\ line' = After(line) /\ dot' = 0 /\ left' = left - (Dots - dot)
      /\ left >= Dots - dot /\ ~ (line = Lines - 1 /\ dot = 0)
      /\ shown' = shown
  BY DEF NextLine, Room, ClearsFlags, history
<1>2. nmiOn' = nmiOn /\ missed' = missed
  BY DEF NextLine, history
<1>3. Numbers'
  BY <1>1 DEF BeamInv, Numbers, After
<1>4. NeverMissed' /\ OncePerFrame'
  BY <1>1, <1>2 DEF BeamInv, NeverMissed, OncePerFrame
<1>5. line' = Visible + 1 <=> line = Visible
  BY <1>1 DEF After, BeamInv, Numbers
<1>6. CASE line = Visible
  <2>1. /\ vblank' = (vblank \/ ~ suppress) /\ suppress' = FALSE
        /\ nmi' = (nmi \/ nmiOn)
    BY <1>5, <1>6 DEF NextLine, BeginVblank
  <2>2. Booleans'
    BY <1>2, <2>1 DEF BeamInv, Booleans
  <2>3. ~ vblank
    BY <1>6 DEF BeamInv, FlagOnlyInBlank
  <2>4a. (suppress => shown = 1) /\ (~ suppress => shown = 0)
    BY <1>6, <2>3 DEF BeamInv, Owed, BeforeBlank
  <2>4b. (suppress => ~ vblank') /\ (~ suppress => vblank')
    BY <2>1, <2>3
  <2>4. /\ suppress => (shown = 1 /\ ~ vblank')
        /\ ~ suppress => (shown = 0 /\ vblank')
    BY <2>4a, <2>4b
  <2>5. Owed'
    BY <2>1 DEF Owed
  <2>6. FlagOnlyInBlank' /\ BeforeBlank' /\ InsideBlank' /\ AfterBlank'
    BY <1>1, <1>5, <1>6, <2>4
       DEF FlagOnlyInBlank, BeforeBlank, InsideBlank, AfterBlank
  <2> QED BY <1>3, <1>4, <2>2, <2>5, <2>6 DEF BeamInv
<1>7. CASE line # Visible
  <2>1. vblank' = vblank /\ suppress' = suppress /\ nmi' = nmi
    BY <1>5, <1>7 DEF NextLine, flags
  <2>2. Booleans'
    BY <1>2, <2>1 DEF BeamInv, Booleans
  <2>3. ~ suppress
    BY <1>7 DEF BeamInv, Owed
  <2>4. Owed'
    BY <2>1, <2>3 DEF Owed
  <2>5. BeforeBlank'
    BY <1>1, <1>7, <2>1, <2>3
       DEF BeamInv, Numbers, BeforeBlank, AfterBlank, After
  <2>6. FlagOnlyInBlank' /\ InsideBlank' /\ AfterBlank'
    BY <1>1, <1>7, <2>1, <2>3
       DEF BeamInv, Numbers, FlagOnlyInBlank, InsideBlank, AfterBlank, After
  <2> QED BY <1>3, <1>4, <2>2, <2>4, <2>5, <2>6 DEF BeamInv
<1> QED BY <1>6, <1>7

(* Every step of the specification keeps BeamInv.                             *)
LEMMA BeamPreserved == BeamInv /\ [Next]_vars => BeamInv'
<1> SUFFICES ASSUME BeamInv, [Next]_vars PROVE BeamInv'
  OBVIOUS
<1>1. ASSUME NEW r \in Reads, ReadStatus(r[1], r[2]) PROVE BeamInv'
  BY <1>1, ReadKeeps
<1>2. ASSUME NEW cycles \in Lengths, WriteControl(cycles) PROVE BeamInv'
  BY <1>2, StartKeeps DEF WriteControl
<1>3. ASSUME NEW cycles \in Lengths, Other(cycles) PROVE BeamInv'
  <2>1. nmiOn' \in BOOLEAN
    BY <1>3 DEF Other, BeamInv, Booleans
  <2> QED BY <1>3, <2>1, StartKeeps DEF Other
<1>4. CASE Advance
  BY <1>4, AdvanceKeeps
<1>5. CASE NextLine
  BY <1>5, NextLineKeeps
<1>6. CASE UNCHANGED vars
  <2>1. BeamInv' <=> BeamInv
    BY <1>6 DEF vars, position, flags, history, BeamInv, Numbers, Booleans,
       OncePerFrame, FlagOnlyInBlank, NeverMissed, Owed, BeforeBlank,
       InsideBlank, AfterBlank
  <2> QED BY <2>1
<1> QED BY <1>1, <1>2, <1>3, <1>4, <1>5, <1>6 DEF Next, Run, Clock

(* BeamInv is an invariant of the PPU's clock, whatever the frame geometry.   *)
THEOREM BeamInductive == Spec => []BeamInv
BY BeamBase, BeamPreserved, PTL DEF Spec

(* Every variable keeps its type; the beam stays inside the frame.         *)
THEOREM BeamTypes == Spec => []TypeOK
<1>1. BeamInv => TypeOK
  BY DEF BeamInv, Numbers, Booleans, TypeOK
<1> QED BY BeamInductive, <1>1, PTL

(* One vblank flag is returned by at most one status read.                 *)
THEOREM FlagGivenOnce == Spec => []OncePerFrame
<1>1. BeamInv => OncePerFrame
  BY DEF BeamInv
<1> QED BY BeamInductive, <1>1, PTL

(* The first status read in a blank returns the flag.                      *)
THEOREM FlagNotMissed == Spec => []NeverMissed
<1>1. BeamInv => NeverMissed
  BY DEF BeamInv
<1> QED BY BeamInductive, <1>1, PTL

(* suppress_next_vblank_status is down whenever the CPU runs.              *)
THEOREM SuppressionEnds == Spec => []SuppressionIsSpent
<1>1. BeamInv => SuppressionIsSpent
  BY FrameAssumption DEF BeamInv, Numbers, Owed, SuppressionIsSpent
<1> QED BY BeamInductive, <1>1, PTL

(* The flag is up only on the lines of the blank.                          *)
THEOREM FlagConfined == Spec => []FlagOnlyInBlank
<1>1. BeamInv => FlagOnlyInBlank
  BY DEF BeamInv
<1> QED BY BeamInductive, <1>1, PTL

----------------------------------------------------------------------------
(* The address registers *)

(***************************************************************************)
(* Arithmetic of the fields of an address.                                 *)
(***************************************************************************)

(* Division with remainder.                                                *)
LEMMA Divided ==
  ASSUME NEW n \in Nat, NEW k \in Nat \ {0}
  PROVE  n = k * (n \div k) + (n % k) /\ n \div k \in Nat /\ n % k \in 0..k - 1
  OBVIOUS

(* Quotient and remainder are unique.                                      *)
LEMMA DividedOnce ==
  ASSUME NEW k \in Nat \ {0}, NEW q \in Nat, NEW r \in 0..k - 1
  PROVE  (k * q + r) \div k = q /\ (k * q + r) % k = r
  OBVIOUS

(* A factor keeps the order.                                               *)
LEMMA Monotone ==
  ASSUME NEW a \in Nat, NEW b \in Nat, NEW c \in Nat, a >= b
  PROVE  c * a >= c * b /\ c * a \in Nat /\ c * b \in Nat
  OBVIOUS

(* A field of `span' values over fields of `below' values.                 *)
LEMMA DividedTwice ==
  ASSUME NEW n \in Nat, NEW below \in Nat \ {0}, NEW span \in Nat \ {0}
  PROVE  n \div (span * below) = (n \div below) \div span
<1> DEFINE q == n \div below
           r == n % below
           p == q \div span
           s == q % span
<1>1. n = below * q + r /\ q \in Nat /\ r \in 0..below - 1
  BY Divided
<1>2. q = span * p + s /\ p \in Nat /\ s \in 0..span - 1
  BY <1>1, Divided
<1> HIDE DEF q, r, p, s
<1>3. span * below \in Nat \ {0} /\ below * s \in Nat
  BY <1>2
<1>4. below * s + r \in 0..span * below - 1
  <2>1. s + 1 <= span /\ below * (s + 1) = below * s + below
    BY <1>2
  <2>2. below * (s + 1) <= below * span
    BY <2>1, <1>2
  <2> QED BY <1>1, <1>3, <2>1, <2>2
<1>5. n = (span * below) * p + (below * s + r)
  BY <1>1, <1>2
<1>6. n \div (span * below) = p
  BY <1>2, <1>3, <1>4, <1>5, DividedOnce
<1> QED BY <1>6 DEF p, q

(* Adding to a number and to its remainder comes to the same remainder.    *)
LEMMA RemainderAdds ==
  ASSUME NEW n \in Nat, NEW i \in Nat, NEW k \in Nat \ {0}
  PROVE  (n + i) % k = ((n % k) + i) % k
<1> DEFINE q == n \div k
           r == n % k
           p == (r + i) \div k
           s == (r + i) % k
<1>1. n = k * q + r /\ q \in Nat /\ r \in 0..k - 1
  BY Divided
<1>2. r + i = k * p + s /\ p \in Nat /\ s \in 0..k - 1
  <2>1. r + i \in Nat
    BY <1>1
  <2> HIDE DEF r
  <2> QED BY <2>1, Divided
<1> HIDE DEF q, r, p, s
<1>3. n + i = k * (q + p) + s /\ q + p \in Nat
  BY <1>1, <1>2
<1>4. (n + i) % k = s
  BY <1>2, <1>3, DividedOnce
<1> QED BY <1>4 DEF r, s

(* Every number yields a well-formed address.                              *)
LEMMA AddressTyped == ASSUME NEW n \in Nat PROVE Address(n) \in Addresses
<1> USE PlaneAssumption
<1>1. Rows \in Nat \ {0} /\ Fine \in Nat \ {0}
  OBVIOUS
<1>2. Cols * Rows \in Nat \ {0}
  BY <1>1
<1>3. 2 * Cols * Rows \in Nat \ {0} /\ 4 * Cols * Rows \in Nat \ {0}
  BY <1>1, <1>2
<1>4. n % Cols \in 0..Cols - 1
  BY Divided
<1>5. (n \div Cols) % Rows \in 0..Rows - 1
  BY <1>1, Divided
<1>6. (n \div (Cols * Rows)) % 2 \in 0..1
  BY <1>2, Divided
<1>7. (n \div (2 * Cols * Rows)) % 2 \in 0..1
  BY <1>3, Divided
<1>8. (n \div (4 * Cols * Rows)) % Fine \in 0..Fine - 1
  BY <1>1, <1>3, Divided
<1> QED BY <1>4, <1>5, <1>6, <1>7, <1>8 DEF Address, Addresses

(* A number of the width of v is the number of its address.                *)
LEMMA NumberOfAddress ==
  ASSUME NEW n \in Nat, n < 2 * BusSize
  PROVE  Number(Address(n)) = n
<1> USE PlaneAssumption
<1> DEFINE CR == Cols * Rows
           c == n % Cols
           q0 == n \div Cols
           r == q0 % Rows
           q1 == q0 \div Rows
           x == q1 % 2
           q2 == q1 \div 2
           y == q2 % 2
           q3 == q2 \div 2
<1>0. Rows \in Nat \ {0} /\ Fine \in Nat \ {0} /\ CR \in Nat \ {0}
  OBVIOUS
<1>1. n = Cols * q0 + c /\ q0 \in Nat /\ c \in 0..Cols - 1
  BY Divided
<1>2. q0 = Rows * q1 + r /\ q1 \in Nat /\ r \in 0..Rows - 1
  BY <1>0, <1>1, Divided
<1>3. q1 = 2 * q2 + x /\ q2 \in Nat /\ x \in 0..1
  BY <1>2, Divided
<1>4. q2 = 2 * q3 + y /\ q3 \in Nat /\ y \in 0..1
  BY <1>3, Divided
<1>5. n \div (Cols * Rows) = q1
  <2>1. n \div (Rows * Cols) = q1
    BY <1>0, DividedTwice
  <2>2. Rows * Cols = Cols * Rows
    OBVIOUS
  <2> QED BY <2>1, <2>2
<1>6. n \div (2 * Cols * Rows) = q2
  <2>1. n \div (2 * CR) = (n \div CR) \div 2
    BY <1>0, DividedTwice
  <2>2. 2 * CR = 2 * Cols * Rows
    OBVIOUS
  <2> QED BY <1>5, <2>1, <2>2
<1>7. n \div (4 * Cols * Rows) = q3
  <2>1. 2 * CR \in Nat \ {0}
    BY <1>0
  <2>2. n \div (2 * (2 * CR)) = (n \div (2 * CR)) \div 2
    BY <2>1, DividedTwice
  <2>3. 2 * (2 * CR) = 4 * Cols * Rows /\ 2 * CR = 2 * Cols * Rows
    OBVIOUS
  <2> QED BY <1>6, <2>2, <2>3
<1>8. Address(n) = [col |-> c, row |-> r, x |-> x, y |-> y, fine |-> q3 % Fine]
  BY <1>5, <1>6, <1>7 DEF Address
<1> HIDE DEF c, q0, r, q1, x, q2, y, q3
<1>9. n = c + Cols * (r + Rows * (x + 2 * y + 4 * q3))
  <2>1. q1 = x + 2 * y + 4 * q3
    BY <1>3, <1>4
  <2>2. q0 = r + Rows * (x + 2 * y + 4 * q3)
    BY <1>2, <2>1
  <2> QED BY <1>1, <2>2
<1>10. q3 < Fine
  <2> SUFFICES ASSUME q3 >= Fine PROVE FALSE
    BY <1>4
  <2>1. q1 >= 4 * Fine /\ 4 * Fine \in Nat
    BY <1>3, <1>4
  <2>2. q0 >= Rows * q1
    BY <1>2
  <2>3. Rows * q1 >= Rows * (4 * Fine) /\ Rows * (4 * Fine) \in Nat
    BY <1>2, <2>1, Monotone
  <2>4. Cols * q0 >= Cols * (Rows * (4 * Fine))
    <3>1. q0 >= Rows * (4 * Fine)
      BY <1>1, <1>2, <2>2, <2>3
    <3> QED BY <1>1, <2>3, <3>1, Monotone
  <2>5. Cols * (Rows * (4 * Fine)) = 2 * BusSize
    BY DEF BusSize
  <2>6. n >= Cols * q0 /\ Cols * q0 \in Nat /\ 2 * BusSize \in Nat
    BY <1>1 DEF BusSize
  <2> QED BY <2>4, <2>5, <2>6
<1>11. q3 % Fine = q3
  <2>1. q3 \in 0..Fine - 1 /\ q3 = Fine * 0 + q3
    BY <1>4, <1>10
  <2> QED BY <1>0, <2>1, DividedOnce
<1> QED BY <1>8, <1>9, <1>11 DEF Number

-----------------------------------------------------------------------------
(***************************************************************************)
(* The inductive invariant has a part for each port.  While a page waits   *)
(* for its low byte it is in t; what the program asked of the scroll is in *)
(* t field by field; and the line that is due is on the plane, since the   *)
(* rows of attributes are never asked for.                                 *)
(***************************************************************************)
PortsTyped ==
  /\ PortsTypeOK
  /\ page \in Pages \cup {None}
  /\ sought \in 0..BusSize - 1 \cup {None}
  /\ table \in {None, 0, 1}
  /\ pixel \in 0..Rows * Fine - 1 \cup {None}
  /\ due \in Nat \cup {None}

Counted == begun = second

PageHeld ==
  page # None => \E k \in 0..Low - 1 : Number(t) = page * Low + k

ScrollHeld ==
  /\ table # None => t.y = table
  /\ pixel # None => t.row * Fine + t.fine = pixel

DueOnPlane == due # None => v.row < Shown

SeekInv == PageHeld /\ SeekArrives
ScrollInv == ScrollHeld /\ DueOnPlane /\ ScrollIsObeyed
PortsInv == PortsTyped /\ Counted /\ SeekInv /\ ScrollInv

(* Sizes, for the provers.                                                 *)
LEMMA Sizes ==
  /\ Cols \in Nat \ {0} /\ Rows \in Nat \ {0} /\ Fine \in Nat \ {0}
  /\ Low \in Nat \ {0} /\ FieldLines \in Nat \ {0}
  /\ Shown \in Nat \ {0} /\ Shown < Rows
  /\ Rows * Fine \in Nat /\ HalfPlane \in Nat \ {0} /\ BusSize \in Nat \ {0}
<1> USE PlaneAssumption
<1>1. Rows \in Nat \ {0} /\ Fine \in Nat \ {0} /\ Shown \in Nat \ {0}
  OBVIOUS
<1>2. Rows * Fine \in Nat \ {0} /\ Shown * Fine \in Nat \ {0}
  BY <1>1
<1>3. Cols * Rows \in Nat \ {0}
  BY <1>1
<1>4. 2 * Cols * Rows \in Nat \ {0}
  BY <1>3
<1>5. 2 * Cols * Rows * Fine \in Nat \ {0}
  BY <1>1, <1>4
<1> QED BY <1>1, <1>2, <1>5 DEF HalfPlane, BusSize

(* The number of an address is a natural number.                           *)
LEMMA NumberTyped == ASSUME NEW a \in Addresses PROVE Number(a) \in Nat
<1>1. a.col \in Nat /\ a.row \in Nat /\ a.x \in Nat /\ a.y \in Nat /\ a.fine \in Nat
  BY PlaneAssumption DEF Addresses
<1>2. Rows * (a.x + 2 * a.y + 4 * a.fine) \in Nat
  BY <1>1, Sizes
<1>3. Cols * (a.row + Rows * (a.x + 2 * a.y + 4 * a.fine)) \in Nat
  BY <1>1, <1>2, Sizes
<1> QED BY <1>1, <1>3 DEF Number

(* A page is a number of pages below the end of the bus.                   *)
LEMMA PageBelowTop ==
  ASSUME NEW high \in Pages, NEW k \in 0..Low - 1
  PROVE  /\ high \in Nat /\ high * Low \in Nat
         /\ high * Low + k \in 0..BusSize - 1
<1>1. /\ BusSize = Low * (BusSize \div Low) + (BusSize % Low)
      /\ BusSize \div Low \in Nat /\ BusSize % Low \in 0..Low - 1
  BY Sizes, Divided
<1>2. high \in Nat /\ high + 1 <= BusSize \div Low
  BY <1>1, ValueAssumption DEF BusSize
<1>3. (high + 1) * Low = high * Low + Low /\ high * Low \in Nat
  BY <1>2, Sizes
<1>4. Low * (BusSize \div Low) >= Low * (high + 1)
      /\ Low * (BusSize \div Low) \in Nat
  BY <1>1, <1>2, Sizes, Monotone
<1>5. Low * (high + 1) = (high + 1) * Low
  BY <1>2, Sizes
<1> QED BY <1>1, <1>2, <1>3, <1>4, <1>5, Sizes

(* PortsInv holds initially.                                                   *)
LEMMA PortsBase == PortsInit => PortsInv
<1> SUFFICES ASSUME PortsInit PROVE PortsInv
  OBVIOUS
<1>1. PortsTyped
  <2>1. Zero \in Addresses
    BY Sizes DEF Zero, Addresses
  <2>2. PortsTypeOK
    <3>1. v \in Addresses /\ t \in Addresses
      BY <2>1 DEF PortsInit
    <3>2. scan \in 0..FieldLines - 1
      BY Sizes DEF PortsInit
    <3>3. second \in BOOLEAN /\ rendering \in BOOLEAN /\ inc \in {1, Cols}
      BY DEF PortsInit
    <3> QED BY <3>1, <3>2, <3>3 DEF PortsTypeOK
  <2> QED BY <2>2 DEF PortsInit, PortsTyped, None
<1>2. Counted /\ SeekInv /\ ScrollInv
  BY DEF PortsInit, Counted, SeekInv, PageHeld, SeekArrives, ScrollInv,
     ScrollHeld, DueOnPlane, ScrollIsObeyed, None
<1> QED BY <1>1, <1>2 DEF PortsInv

-----------------------------------------------------------------------------
(* The next row of an address is a row of the plane.                       *)
LEMMA NextRowTyped == ASSUME NEW a \in Addresses PROVE NextRow(a) \in Addresses
<1>0. a.row \in 0..Rows - 1 /\ a.y \in 0..1
  BY DEF Addresses
<1>1. 0 \in 0..Rows - 1 /\ 1 - a.y \in 0..1
  BY <1>0, Sizes
<1>2. [a EXCEPT !.row = 0, !.y = 1 - @] \in Addresses
  BY <1>1 DEF Addresses
<1>3. [a EXCEPT !.row = 0] \in Addresses
  BY <1>1 DEF Addresses
<1>4. a.row # Rows - 1 => [a EXCEPT !.row = @ + 1] \in Addresses
  BY <1>0, Sizes DEF Addresses
<1> QED BY <1>2, <1>3, <1>4 DEF NextRow

(* What the renderer does to v: one line down the plane.                   *)
LEMMA OneLineDown ==
  ASSUME NEW a \in Addresses, NEW b \in Addresses
  PROVE  /\ AcrossOf(Down(a), b) \in Addresses
         /\ a.row < Shown =>
              /\ AcrossOf(Down(a), b).row < Shown
              /\ PlaneLine(a) \in Nat
              /\ PlaneLine(AcrossOf(Down(a), b)) = Following(PlaneLine(a))
<1> DEFINE d == AcrossOf(Down(a), b)
<1>0. /\ a.fine \in 0..Fine - 1 /\ a.row \in 0..Rows - 1
      /\ a.y \in 0..1 /\ a.x \in 0..1 /\ a.col \in 0..Cols - 1
      /\ b.x \in 0..1 /\ b.col \in 0..Cols - 1
  BY DEF Addresses
<1>1. d \in Addresses
  <2>1. Down(a) \in Addresses
    <3>1. [a EXCEPT !.fine = 0] \in Addresses
      BY <1>0, Sizes DEF Addresses
    <3>2. NextRow([a EXCEPT !.fine = 0]) \in Addresses
      BY <3>1, NextRowTyped
    <3>3. a.fine < Fine - 1 => [a EXCEPT !.fine = @ + 1] \in Addresses
      BY <1>0, Sizes DEF Addresses
    <3> QED BY <3>2, <3>3 DEF Down
  <2> QED BY <1>0, <2>1 DEF AcrossOf, Addresses
<1>2. ASSUME a.row < Shown
      PROVE  /\ d.row < Shown /\ PlaneLine(a) \in Nat
             /\ PlaneLine(d) = Following(PlaneLine(a))
  <2>1. /\ a.row * Fine \in Nat /\ a.y * HalfPlane \in Nat
        /\ PlaneLine(a) \in Nat
        /\ PlaneLine(a) = a.y * HalfPlane + a.row * Fine + a.fine
    BY <1>0, Sizes DEF PlaneLine
  <2>2. a.row * Fine + Fine <= HalfPlane
    <3>1. Fine * Shown >= Fine * (a.row + 1)
      BY <1>0, <1>2, Sizes, Monotone
    <3>2. Fine * (a.row + 1) = a.row * Fine + Fine /\ Fine * Shown = HalfPlane
      BY <1>0, Sizes DEF HalfPlane
    <3> QED BY <3>1, <3>2
  <2>3. a.y * HalfPlane = IF a.y = 0 THEN 0 ELSE HalfPlane
    BY <1>0, Sizes
  <2>4. CASE a.fine < Fine - 1
    <3>1. d.y = a.y /\ d.row = a.row /\ d.fine = a.fine + 1
      BY <2>4 DEF AcrossOf, Down, Addresses
    <3>2. PlaneLine(d) = PlaneLine(a) + 1
      BY <1>0, <2>1, <3>1 DEF PlaneLine
    <3>3. PlaneLine(a) + 1 # 2 * HalfPlane
      <4>1. PlaneLine(a) < a.y * HalfPlane + HalfPlane - 1
        BY <1>0, <2>1, <2>2, <2>4, Sizes
      <4> QED BY <2>1, <2>3, <4>1, Sizes
    <3> QED BY <1>2, <2>1, <3>1, <3>2, <3>3 DEF Following, None
  <2>5. CASE a.fine = Fine - 1 /\ a.row # Shown - 1
    <3>1. d.y = a.y /\ d.row = a.row + 1 /\ d.fine = 0
      BY <1>0, <1>2, <2>5, Sizes DEF AcrossOf, Down, NextRow, Addresses
    <3>2. (a.row + 1) * Fine = a.row * Fine + Fine
      BY <1>0, Sizes
    <3>3. PlaneLine(d) = PlaneLine(a) + 1
      BY <1>0, <2>1, <2>5, <3>1, <3>2, Sizes DEF PlaneLine
    <3>4. d.row < Shown
      BY <1>0, <1>2, <2>5, <3>1, Sizes
    <3>5. a.row * Fine + Fine < HalfPlane
      <4>1. Fine * Shown >= Fine * (a.row + 2)
        BY <1>0, <3>1, <3>4, Sizes, Monotone
      <4>2. Fine * (a.row + 2) = a.row * Fine + Fine + Fine
            /\ Fine * Shown = HalfPlane
        BY <1>0, Sizes DEF HalfPlane
      <4> QED BY <2>1, <4>1, <4>2, Sizes
    <3>6. PlaneLine(a) + 1 # 2 * HalfPlane
      BY <2>1, <2>3, <2>5, <3>5, Sizes
    <3> QED BY <2>1, <3>3, <3>4, <3>6 DEF Following, None
  <2>6. CASE a.fine = Fine - 1 /\ a.row = Shown - 1
    <3>1. d.y = 1 - a.y /\ d.row = 0 /\ d.fine = 0
      BY <1>0, <2>6, Sizes DEF AcrossOf, Down, NextRow, Addresses
    <3>2. a.row * Fine + Fine = HalfPlane
      BY <2>6, Sizes DEF HalfPlane
    <3>3. PlaneLine(d) = IF a.y = 0 THEN HalfPlane ELSE 0
      BY <1>0, <3>1, Sizes DEF PlaneLine
    <3>4. PlaneLine(a) + 1 = IF a.y = 0 THEN HalfPlane ELSE 2 * HalfPlane
      BY <1>0, <2>1, <2>3, <2>6, <3>2, Sizes
    <3>5. CASE a.y = 0
      <4>1. PlaneLine(a) + 1 # 2 * HalfPlane
        BY <3>4, <3>5, Sizes
      <4> QED BY <2>1, <3>1, <3>3, <3>4, <3>5, <4>1, Sizes DEF Following, None
    <3>6. CASE a.y = 1
      BY <2>1, <3>1, <3>3, <3>4, <3>6, Sizes DEF Following, None
    <3> QED BY <1>0, <3>5, <3>6
  <2> QED BY <1>0, <2>4, <2>5, <2>6, Sizes
<1> QED BY <1>1, <1>2

-----------------------------------------------------------------------------
(* Each action keeps PortsInv.                                                 *)

(* A control write changes the tables in t, and asks for them.             *)
LEMMA ControlKeeps == ASSUME PortsInv, WriteTables PROVE PortsInv'
<1> USE DEF PortsInv
<1>1. PICK x, y \in 0..1 : t' = [t EXCEPT !.x = x, !.y = y] /\ table' = y
  BY DEF WriteTables
<1>2. /\ v' = v /\ second' = second /\ begun' = begun /\ rendering' = rendering
      /\ scan' = scan /\ sought' = sought /\ pixel' = pixel /\ due' = due
      /\ inc' \in {1, Cols} /\ page' = None
  BY DEF WriteTables
<1>3. /\ t' \in Addresses
      /\ t'.y = y /\ t'.row = t.row /\ t'.fine = t.fine
  BY <1>1 DEF PortsTyped, PortsTypeOK, Addresses
<1>4. PortsTyped'
  <2>1. table' \in {None, 0, 1}
    BY <1>1
  <2> QED BY <1>2, <1>3, <2>1 DEF PortsTyped, PortsTypeOK
<1>5. Counted' /\ SeekInv'
  BY <1>2 DEF Counted, SeekInv, PageHeld, SeekArrives
<1>6. ScrollInv'
  BY <1>1, <1>2, <1>3
     DEF ScrollInv, ScrollHeld, DueOnPlane, ScrollIsObeyed, PlaneLine
<1> QED BY <1>4, <1>5, <1>6

(* A mask write touches no address.                                        *)
LEMMA MaskKeeps == ASSUME PortsInv, WriteMask PROVE PortsInv'
<1> USE DEF PortsInv, seeking, scrolling
<1>1. PortsTyped' /\ Counted'
  BY DEF WriteMask, PortsTyped, PortsTypeOK, Counted
<1>2. SeekInv'
  BY DEF WriteMask, SeekInv, PageHeld, SeekArrives
<1>3. ScrollInv'
  BY DEF WriteMask, ScrollInv, ScrollHeld, DueOnPlane, ScrollIsObeyed, PlaneLine
<1> QED BY <1>1, <1>2, <1>3

(* A status read restarts the pair for both sides.                         *)
LEMMA StatusKeeps == ASSUME PortsInv, ReadToggle PROVE PortsInv'
<1> USE DEF PortsInv, setup, scrolling
<1>1. PortsTyped' /\ Counted'
  BY DEF ReadToggle, PortsTyped, PortsTypeOK, Counted
<1>2. SeekInv'
  BY DEF ReadToggle, SeekInv, PageHeld, SeekArrives
<1>3. ScrollInv'
  BY DEF ReadToggle, ScrollInv, ScrollHeld, DueOnPlane, ScrollIsObeyed, PlaneLine
<1> QED BY <1>1, <1>2, <1>3

(* A scroll write stores its value field by field.                         *)
LEMMA ScrollKeeps ==
  ASSUME PortsInv, NEW value \in Scrolls, WriteScroll(value) PROVE PortsInv'
<1> USE DEF PortsInv
<1>1. /\ v' = v /\ inc' = inc /\ rendering' = rendering /\ scan' = scan
      /\ sought' = sought /\ table' = table /\ due' = due /\ page' = None
      /\ second' = ~ second /\ begun' = ~ begun
      /\ pixel' = IF begun THEN value ELSE pixel
  BY DEF WriteScroll, setup
<1>2. value \in Nat /\ value < Rows * Fine
  BY ValueAssumption, Sizes
<1>3. /\ value = Fine * (value \div Fine) + (value % Fine)
      /\ value \div Fine \in Nat /\ value % Fine \in 0..Fine - 1
  BY <1>2, Sizes, Divided
<1>4. value \div Fine \in 0..Rows - 1
  <2> DEFINE q == value \div Fine
             m == value % Fine
  <2>1. value = Fine * q + m /\ q \in Nat /\ m \in 0..Fine - 1
    BY <1>3
  <2> HIDE DEF q, m
  <2>2. Fine * q \in Nat /\ Fine * q <= value
    BY <2>1, Sizes
  <2>3. q >= Rows => Fine * q >= Fine * Rows
    BY <2>1, Sizes, Monotone
  <2>4. Fine * Rows = Rows * Fine /\ Fine * Rows \in Nat
    BY Sizes
  <2>5. q < Rows
    BY <1>2, <2>1, <2>2, <2>3, <2>4, Sizes
  <2>6. q \in 0..Rows - 1
    BY <2>1, <2>5, Sizes
  <2> QED BY <2>6 DEF q
<1>5. (value \div Fine) % Cols \in 0..Cols - 1
  BY <1>3, Sizes, Divided
<1>6. /\ t' \in Addresses /\ t'.y = t.y
      /\ ~ second => t'.row = t.row /\ t'.fine = t.fine
      /\ second => t'.row = value \div Fine /\ t'.fine = value % Fine
  <2>1. CASE ~ second
    <3>1. t' = [t EXCEPT !.col = (value \div Fine) % Cols]
      BY <2>1 DEF WriteScroll
    <3> QED BY <1>5, <2>1, <3>1 DEF PortsTyped, PortsTypeOK, Addresses
  <2>2. CASE second
    <3>1. t' = [t EXCEPT !.fine = value % Fine, !.row = value \div Fine]
      BY <2>2 DEF WriteScroll
    <3> QED BY <1>3, <1>4, <2>2, <3>1 DEF PortsTyped, PortsTypeOK, Addresses
  <2> QED BY <2>1, <2>2
<1>7. second => t'.row * Fine + t'.fine = value
  <2>1. (value \div Fine) * Fine = Fine * (value \div Fine)
    BY <1>3, Sizes
  <2> QED BY <1>3, <1>6, <2>1
<1>8. PortsTyped'
  <2>1. second' \in BOOLEAN
    BY <1>1
  <2>2. pixel' \in 0..Rows * Fine - 1 \cup {None}
    BY <1>1, ValueAssumption DEF PortsTyped
  <2> QED BY <1>1, <1>6, <2>1, <2>2 DEF PortsTyped, PortsTypeOK
<1>9. Counted' /\ SeekInv'
  BY <1>1 DEF Counted, SeekInv, PageHeld, SeekArrives
<1>10. ScrollHeld'
  BY <1>1, <1>6, <1>7 DEF ScrollInv, ScrollHeld, Counted
<1>11. DueOnPlane' /\ ScrollIsObeyed'
  BY <1>1 DEF ScrollInv, DueOnPlane, ScrollIsObeyed, PlaneLine
<1> QED BY <1>8, <1>9, <1>10, <1>11 DEF ScrollInv

(* An address write: the high byte waits in t, the low byte completes it.  *)
LEMMA AddressKeeps ==
  ASSUME PortsInv, NEW high \in Pages, NEW low \in 0..Low - 1,
         WriteAddress(high, low)
  PROVE  PortsInv'
<1> USE DEF PortsInv
<1>1. /\ inc' = inc /\ rendering' = rendering /\ scan' = scan
      /\ second' = ~ second /\ begun' = ~ begun
      /\ table' = None /\ pixel' = None
  BY DEF WriteAddress, setup
<1>2. second' \in BOOLEAN /\ Counted'
  BY <1>1 DEF Counted
<1>3. Number(t) \in Nat
  BY NumberTyped DEF PortsTyped, PortsTypeOK
<1>4. CASE ~ second
  <2>1. t' = Paged(t, high) /\ v' = v /\ page' = high
        /\ sought' = sought /\ due' = due
    BY <1>4 DEF Counted, WriteAddress, WritePage, WriteLow, NotePage
  <2> DEFINE k == Number(t) % Low
  <2>2. k \in 0..Low - 1
    BY <1>3, Sizes, Divided
  <2> HIDE DEF k
  <2>3. high * Low + k \in 0..BusSize - 1
    BY <2>2, PageBelowTop
  <2>4. t' = Address(high * Low + k)
    BY <2>1 DEF Paged, k
  <2>5. t' \in Addresses /\ Number(t') = high * Low + k
    <3>1. high * Low + k \in Nat /\ high * Low + k < 2 * BusSize
      BY <2>3, Sizes
    <3> QED BY <2>4, <3>1, AddressTyped, NumberOfAddress
  <2>6. PortsTyped'
    BY <1>1, <1>2, <2>1, <2>5 DEF PortsTyped, PortsTypeOK
  <2>7. SeekInv'
    BY <2>1, <2>2, <2>5 DEF SeekInv, PageHeld, SeekArrives
  <2>8. ScrollInv'
    BY <1>1, <2>1
       DEF ScrollInv, ScrollHeld, DueOnPlane, ScrollIsObeyed, PlaneLine
  <2> QED BY <1>2, <2>6, <2>7, <2>8
<1>5. CASE second
  <2>1. /\ t' = Lowered(t, low) /\ v' = t' /\ page' = None /\ due' = None
        /\ sought' = IF page = None THEN None ELSE page * Low + low
    BY <1>5 DEF Counted, WriteAddress, WritePage, WriteLow, NoteLow
  <2>2. (Number(t) \div Low) * Low + low \in Nat
    <3>1. Number(t) \div Low \in Nat
      BY <1>3, Sizes, Divided
    <3>2. (Number(t) \div Low) * Low \in Nat
      BY <3>1, Sizes
    <3> QED BY <3>2, Sizes
  <2>3. t' \in Addresses
    BY <2>1, <2>2, AddressTyped DEF Lowered
  <2>4. ASSUME page # None
        PROVE  page * Low + low \in 0..BusSize - 1 /\ Number(v') = page * Low + low
    <3>1. page \in Pages
      BY <2>4 DEF PortsTyped
    <3>2. PICK k \in 0..Low - 1 : Number(t) = page * Low + k
      BY <2>4 DEF SeekInv, PageHeld
    <3>3. page \in Nat /\ page * Low + low \in 0..BusSize - 1
      BY <3>1, PageBelowTop
    <3>4. Number(t) \div Low = page
      <4>1. Low * page + k = page * Low + k
        BY <3>3, Sizes
      <4> QED BY <3>2, <3>3, <4>1, Sizes, DividedOnce
    <3>5. v' = Address(page * Low + low)
      BY <2>1, <3>4 DEF Lowered
    <3>6. page * Low + low \in Nat /\ page * Low + low < 2 * BusSize
      BY <3>3, Sizes
    <3> QED BY <3>3, <3>5, <3>6, NumberOfAddress
  <2>5. sought' \in 0..BusSize - 1 \cup {None}
    BY <2>1, <2>4
  <2>6. PortsTyped'
    BY <1>1, <1>2, <2>1, <2>3, <2>5 DEF PortsTyped, PortsTypeOK
  <2>7. SeekArrives'
    <3> SUFFICES ASSUME sought' # None PROVE Number(v') % BusSize = sought'
      BY DEF SeekArrives
    <3>1. page # None /\ sought' = page * Low + low
      BY <2>1
    <3> DEFINE n == page * Low + low
    <3>2. n \in 0..BusSize - 1 /\ Number(v') = n /\ sought' = n
      BY <2>4, <3>1
    <3> HIDE DEF n
    <3>3. n = BusSize * 0 + n
      BY <3>2, Sizes
    <3>4. n % BusSize = n
      BY <3>2, <3>3, Sizes, DividedOnce
    <3> QED BY <3>2, <3>4
  <2>8. PageHeld'
    BY <2>1 DEF PageHeld
  <2>9. ScrollInv'
    BY <1>1, <2>1 DEF ScrollInv, ScrollHeld, DueOnPlane, ScrollIsObeyed
  <2> QED BY <1>2, <2>6, <2>7, <2>8, <2>9 DEF SeekInv
<1> QED BY <1>4, <1>5

(* An access steps over the bus, and the program can count along.          *)
LEMMA DataKeeps == ASSUME PortsInv, AccessData PROVE PortsInv'
<1> USE DEF PortsInv
<1>1. /\ t' = t /\ second' = second /\ inc' = inc /\ rendering' = rendering
      /\ scan' = scan /\ begun' = begun /\ page' = page /\ table' = table
      /\ pixel' = pixel /\ due' = None
      /\ sought' = IF sought = None THEN None ELSE (sought + inc) % BusSize
      /\ v' = Address((Number(v) + inc) % BusSize)
  BY DEF AccessData, Stepped, setup, scrolling
<1>2. inc \in Nat /\ Number(v) \in Nat
  BY Sizes, NumberTyped DEF PortsTyped, PortsTypeOK
<1> DEFINE n == (Number(v) + inc) % BusSize
<1>3. n \in 0..BusSize - 1
  <2>1. Number(v) + inc \in Nat
    BY <1>2
  <2> QED BY <2>1, Sizes, Divided
<1>4. v' = Address(n)
  BY <1>1
<1>5. v' \in Addresses /\ Number(v') = n
  <2> HIDE DEF n
  <2>1. n \in Nat /\ n < 2 * BusSize
    BY <1>3, Sizes
  <2> QED BY <1>4, <2>1, AddressTyped, NumberOfAddress
<1>6. n % BusSize = n
  <2> HIDE DEF n
  <2>1. n = BusSize * 0 + n
    BY <1>3, Sizes
  <2> QED BY <1>3, <2>1, Sizes, DividedOnce
<1>7. sought # None => sought' = n
  <2>1. sought # None => Number(v) % BusSize = sought
    BY DEF SeekInv, SeekArrives
  <2>2. n = ((Number(v) % BusSize) + inc) % BusSize
    BY <1>2, Sizes, RemainderAdds
  <2> QED BY <1>1, <2>1, <2>2
<1> HIDE DEF n
<1>8. sought' # None => sought # None
  BY <1>1
<1>9. PortsTyped'
  <2>1. sought' \in 0..BusSize - 1 \cup {None}
    BY <1>1, <1>3, <1>7
  <2> QED BY <1>1, <1>5, <2>1 DEF PortsTyped, PortsTypeOK
<1>10. Counted' /\ PageHeld'
  BY <1>1 DEF Counted, SeekInv, PageHeld
<1>11. SeekArrives'
  BY <1>5, <1>6, <1>7, <1>8 DEF SeekArrives
<1>12. ScrollInv'
  BY <1>1 DEF ScrollInv, ScrollHeld, DueOnPlane, ScrollIsObeyed
<1> QED BY <1>9, <1>10, <1>11, <1>12 DEF SeekInv

(* The end of a line.                                                      *)
LEMMA LineKeeps == ASSUME PortsInv, EndLine PROVE PortsInv'
<1> USE DEF PortsInv
<1>1. /\ t' = t /\ second' = second /\ inc' = inc /\ rendering' = rendering
      /\ begun' = begun /\ page' = page /\ table' = table /\ pixel' = pixel
      /\ scan' = (scan + 1) % FieldLines
      /\ sought' = IF v' = v THEN sought ELSE None
  BY DEF EndLine, setup, scrolling
<1>2. scan' \in 0..FieldLines - 1
  <2>1. scan + 1 \in Nat
    BY Sizes DEF PortsTyped, PortsTypeOK
  <2> QED BY <1>1, <2>1, Sizes, Divided
<1>3. v \in Addresses /\ t \in Addresses
  BY DEF PortsTyped, PortsTypeOK
<1>4. /\ v' \in Addresses /\ due' \in Nat \cup {None}
      /\ DueOnPlane' /\ ScrollIsObeyed'
  <2>1. CASE v' = v /\ due' = due
    BY <2>1, <1>3
       DEF PortsTyped, ScrollInv, DueOnPlane, ScrollIsObeyed, PlaneLine
  <2>2. CASE v' = AcrossOf(Down(v), t) /\ due' = Following(due)
    <3>1. v' \in Addresses
      BY <1>3, <2>2, OneLineDown
    <3>2. CASE due = None
      BY <2>2, <3>1, <3>2 DEF Following, DueOnPlane, ScrollIsObeyed
    <3>3. CASE due # None
      <4>1. v.row < Shown /\ PlaneLine(v) = due /\ due \in Nat
        BY <3>3 DEF PortsTyped, ScrollInv, DueOnPlane, ScrollIsObeyed
      <4>2. v'.row < Shown /\ PlaneLine(v') = due'
        BY <1>3, <2>2, <4>1, OneLineDown
      <4>3. due' \in Nat
        BY <2>2, <4>1 DEF Following, None
      <4>4. ScrollIsObeyed'
        BY <4>2 DEF ScrollIsObeyed
      <4> QED BY <3>1, <4>2, <4>3, <4>4 DEF DueOnPlane
    <3> QED BY <3>2, <3>3
  <2>3. CASE v' = AcrossOf(DownOf(v, t), t) /\ due' = Asked
    <3>1. /\ v' \in Addresses
          /\ v'.y = t.y /\ v'.row = t.row /\ v'.fine = t.fine
      BY <1>3, <2>3 DEF AcrossOf, DownOf, Addresses
    <3>2. CASE due' = None
      BY <3>1, <3>2 DEF DueOnPlane, ScrollIsObeyed
    <3>3. CASE due' # None
      <4>1. /\ table # None /\ pixel # None /\ pixel < HalfPlane
            /\ due' = table * HalfPlane + pixel
            /\ table \in 0..1 /\ pixel \in Nat
        BY <2>3, <3>3, Sizes DEF Asked, PortsTyped
      <4>2. t.y = table /\ t.row * Fine + t.fine = pixel
        BY <4>1 DEF ScrollInv, ScrollHeld
      <4>3. t.row \in Nat /\ t.fine \in Nat /\ t.row * Fine \in Nat
        BY <1>3, Sizes DEF Addresses
      <4>4. t.row < Shown
        <5>1. t.row >= Shown => Fine * t.row >= Fine * Shown
          BY <4>3, Sizes, Monotone
        <5>2. Fine * t.row = t.row * Fine /\ Fine * Shown = HalfPlane
          BY <4>3, Sizes DEF HalfPlane
        <5> QED BY <4>1, <4>2, <4>3, <5>1, <5>2, Sizes
      <4>5. table * HalfPlane \in Nat
        BY <4>1, Sizes
      <4>6. PlaneLine(v') = due'
        BY <3>1, <4>1, <4>2, <4>3, <4>5 DEF PlaneLine
      <4>7. due' \in Nat /\ ScrollIsObeyed'
        BY <4>1, <4>5, <4>6 DEF ScrollIsObeyed
      <4> QED BY <3>1, <4>4, <4>7 DEF DueOnPlane
    <3> QED BY <3>2, <3>3
  <2> QED BY <2>1, <2>2, <2>3
     DEF EndLine, ShowLine, PrepareFrame, Rest
<1>5. PortsTyped'
  BY <1>1, <1>2, <1>4 DEF PortsTyped, PortsTypeOK
<1>6. Counted' /\ SeekInv'
  BY <1>1 DEF Counted, SeekInv, PageHeld, SeekArrives
<1>7. ScrollHeld'
  BY <1>1 DEF ScrollInv, ScrollHeld
<1> QED BY <1>4, <1>5, <1>6, <1>7 DEF ScrollInv

(* Every step of the specification keeps PortsInv.                             *)
LEMMA PortsPreserved == PortsInv /\ [PortsNext]_portVars => PortsInv'
<1> SUFFICES ASSUME PortsInv, [PortsNext]_portVars PROVE PortsInv'
  OBVIOUS
<1>1. ASSUME NEW value \in Scrolls, WriteScroll(value) PROVE PortsInv'
  BY <1>1, ScrollKeeps
<1>2. ASSUME NEW high \in Pages, NEW low \in 0..Low - 1, WriteAddress(high, low)
      PROVE  PortsInv'
  BY <1>2, AddressKeeps
<1>3. CASE UNCHANGED portVars
  BY <1>3 DEF portVars, setup, seeking, scrolling, PortsInv, PortsTyped, PortsTypeOK, Counted,
     SeekInv, PageHeld, SeekArrives, ScrollInv, ScrollHeld, DueOnPlane,
     ScrollIsObeyed, PlaneLine
<1> QED BY <1>1, <1>2, <1>3, ControlKeeps, MaskKeeps, StatusKeeps, DataKeeps,
           LineKeeps DEF PortsNext

(* PortsInv is an invariant, whatever the sizes and the values written.        *)
THEOREM PortsInductive == PortsSpec => []PortsInv
BY PortsBase, PortsPreserved, PTL DEF PortsSpec

(* The address registers are well typed.                                   *)
THEOREM PortsTypes == PortsSpec => []PortsTypeOK
<1>1. PortsInv => PortsTypeOK
  BY DEF PortsInv, PortsTyped
<1> QED BY <1>1, PortsInductive, PTL

(* A program that seeks an address through $2002 and $2006 gets there, and *)
(* its accesses through $2007 go on from there.                            *)
THEOREM SeeksArrive == PortsSpec => []SeekArrives
<1>1. PortsInv => SeekArrives
  BY DEF PortsInv, SeekInv
<1> QED BY <1>1, PortsInductive, PTL

(* The renderer shows the line of the plane that the program asked for.    *)
THEOREM ScrollObeyed == PortsSpec => []ScrollIsObeyed
<1>1. PortsInv => ScrollIsObeyed
  BY DEF PortsInv, ScrollInv
<1> QED BY <1>1, PortsInductive, PTL
=============================================================================
