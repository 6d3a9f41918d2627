----------------------------- MODULE FdsProofs -----------------------------
(***************************************************************************)
(* The disk system for every disk, every period and spin-up time, every    *)
(* program that writes to its registers and every size of batch.           *)
(***************************************************************************)
EXTENDS FdsMapper, Loops

(* Sizes, for the provers.                                                 *)
LEMMA Sized ==
  /\ Period \in Nat /\ Period > 0 /\ SpinUp \in Nat /\ SpinUp > 0
  /\ Len(Sides) \in Nat /\ Len(Sides) > 0 /\ DOMAIN Sides = 1..Len(Sides)
  /\ \A side \in 1..Len(Sides) : Len(Sides[side]) \in Nat
  /\ Controls \subseteq SUBSET Bits /\ Reloads \subseteq Words /\ Batches \subseteq Nat \ {0}
<1>1. Sides \in Seq(Seq({"zero", "sync", "body", "end"})) /\ Sides # <<>>
  BY DriveAssumption
<1>2. Len(Sides) \in Nat /\ Len(Sides) > 0 /\ DOMAIN Sides = 1..Len(Sides)
      /\ \A side \in 1..Len(Sides) : Len(Sides[side]) \in Nat
  BY <1>1
<1>3. Period \in Nat /\ Period > 0 /\ SpinUp \in Nat /\ SpinUp > 0
  BY DriveAssumption
<1>4. Controls \subseteq SUBSET Bits /\ Reloads \subseteq Words /\ Batches \subseteq Nat \ {0}
  BY MapperAssumption, Zenon
<1> QED BY <1>2, <1>3, <1>4, Zenon

-----------------------------------------------------------------------------
(* The drive's operations *)

Drives ==
  [inserted : 0..Len(Sides), control : SUBSET Bits, position : Nat,
   countdown : Nat, scanning : BOOLEAN, end : BOOLEAN, data : Nat,
   ready : BOOLEAN, irq : BOOLEAN, crcError : BOOLEAN, inBlock : BOOLEAN,
   crc : SUBSET Nat, previousCrc : BOOLEAN, crcSeen : 0..2, rose : Nat]
LEMMA FieldsOf ==
  ASSUME NEW d \in Drives
  PROVE  /\ d.inserted \in 0..Len(Sides) /\ d.control \in SUBSET Bits /\ d.position \in Nat
         /\ d.countdown \in Nat /\ d.data \in Nat /\ d.crc \in SUBSET Nat /\ d.crcSeen \in 0..2
         /\ d.rose \in Nat
         /\ d.scanning \in BOOLEAN /\ d.end \in BOOLEAN /\ d.ready \in BOOLEAN /\ d.irq \in BOOLEAN
         /\ d.crcError \in BOOLEAN /\ d.inBlock \in BOOLEAN /\ d.previousCrc \in BOOLEAN
BY DEF Drives

(* Judged, one field at a time.                                            *)
Phase(d) == "crc" \in d.control
Rises(d) == Phase(d) /\ ~d.previousCrc
SeenAfter(d) ==
  IF Rises(d) THEN 1 ELSE IF Phase(d) /\ d.crcSeen < 2 THEN d.crcSeen + 1 ELSE d.crcSeen
ErrorAfter(d) ==
  IF Rises(d) THEN FALSE
  ELSE IF Phase(d) /\ d.crcSeen = 1 THEN ~ Residue(Sides[d.inserted], d.crc) ELSE d.crcError
RoseAfter(d) == IF Rises(d) THEN d.position ELSE d.rose
LEMMA JudgedIs ==
  ASSUME NEW d \in Drives
  PROVE  Judged(d) = [d EXCEPT !.crcSeen = SeenAfter(d), !.crcError = ErrorAfter(d), !.rose = RoseAfter(d),
                               !.previousCrc = Phase(d)]
<1> DEFINE bad == ~ Residue(Sides[d.inserted], d.crc)
           phase == "crc" \in d.control
<1>2. Judged(d) =
        LET fresh == IF phase /\ ~ d.previousCrc
                     THEN [d EXCEPT !.crcSeen = 0, !.crcError = FALSE, !.rose = d.position] ELSE d
            counted == IF phase /\ fresh.crcSeen < 2 THEN [fresh EXCEPT !.crcSeen = @ + 1] ELSE fresh
            due == phase /\ fresh.crcSeen = 1
        IN  [counted EXCEPT !.previousCrc = phase, !.crcError = IF due THEN bad ELSE @]
  BY Zenon DEF Judged
<1> HIDE DEF bad
<1>3. CASE Rises(d)
  <2>1. SeenAfter(d) = 1 /\ ErrorAfter(d) = FALSE /\ RoseAfter(d) = d.position /\ Phase(d) = TRUE /\ phase = TRUE
    BY <1>3 DEF SeenAfter, ErrorAfter, RoseAfter, Rises, Phase
  <2> DEFINE fresh == [d EXCEPT !.crcSeen = 0, !.crcError = FALSE, !.rose = d.position]
  <2>2. Judged(d) = [[fresh EXCEPT !.crcSeen = @ + 1] EXCEPT !.previousCrc = TRUE, !.crcError = @]
    <3>1. fresh.crcSeen = 0
      BY DEF Drives
    <3>2. ~d.previousCrc
      BY <1>3 DEF Rises
    <3>3. Judged(d) =
            LET counted == IF fresh.crcSeen < 2 THEN [fresh EXCEPT !.crcSeen = @ + 1] ELSE fresh
            IN  [counted EXCEPT !.previousCrc = TRUE, !.crcError = IF fresh.crcSeen = 1 THEN bad ELSE @]
      <4> HIDE DEF phase
      <4> QED BY <1>2, <2>1, <3>2
    <3> HIDE DEF fresh
    <3> QED BY <3>1, <3>3
  <2>3. [fresh EXCEPT !.crcSeen = @ + 1] = [d EXCEPT !.crcSeen = 1, !.crcError = FALSE, !.rose = d.position]
    <3>1. fresh.crcSeen = 0 /\ 0 + 1 = 1
      BY DEF Drives
    <3>2. [fresh EXCEPT !.crcSeen = @ + 1] = [fresh EXCEPT !.crcSeen = 1]
      BY <3>1
    <3>3. [fresh EXCEPT !.crcSeen = 1] = [d EXCEPT !.crcSeen = 1, !.crcError = FALSE, !.rose = d.position]
      BY DEF Drives
    <3> QED BY <3>2, <3>3
  <2> DEFINE raised == [d EXCEPT !.crcSeen = 1, !.crcError = FALSE, !.rose = d.position]
  <2>4. Judged(d) = [raised EXCEPT !.previousCrc = TRUE, !.crcError = @]
    BY <2>2, <2>3
  <2>5. raised.crcError = FALSE
    BY DEF Drives
  <2>6. [raised EXCEPT !.previousCrc = TRUE, !.crcError = @]
          = [d EXCEPT !.crcSeen = 1, !.crcError = FALSE, !.rose = d.position, !.previousCrc = TRUE]
    BY DEF Drives
  <2> QED BY <2>1, <2>4, <2>6
<1>4. CASE Phase(d) /\ ~Rises(d)
  <2>1. phase = TRUE /\ d.previousCrc /\ RoseAfter(d) = d.rose /\ Phase(d) = TRUE
        /\ SeenAfter(d) = (IF d.crcSeen < 2 THEN d.crcSeen + 1 ELSE d.crcSeen)
        /\ ErrorAfter(d) = (IF d.crcSeen = 1 THEN bad ELSE d.crcError)
    BY <1>4, FieldsOf DEF SeenAfter, ErrorAfter, RoseAfter, Rises, Phase, bad
  <2>2. Judged(d) = [(IF d.crcSeen < 2 THEN [d EXCEPT !.crcSeen = @ + 1] ELSE d)
                       EXCEPT !.previousCrc = TRUE, !.crcError = IF d.crcSeen = 1 THEN bad ELSE @]
    BY <1>2, <2>1
  <2>3. CASE d.crcSeen < 2
    BY <2>1, <2>2, <2>3 DEF Drives
  <2>4. CASE ~(d.crcSeen < 2)
    BY <2>1, <2>2, <2>4 DEF Drives
  <2> QED BY <2>3, <2>4
<1>5. CASE ~Phase(d)
  <2>1. phase = FALSE /\ RoseAfter(d) = d.rose /\ Phase(d) = FALSE /\ SeenAfter(d) = d.crcSeen /\ ErrorAfter(d) = d.crcError
    BY <1>5 DEF SeenAfter, ErrorAfter, RoseAfter, Rises, Phase
  <2>2. Judged(d) = [d EXCEPT !.previousCrc = FALSE, !.crcError = @]
    BY <1>2, <2>1
  <2> QED BY <2>1, <2>2 DEF Drives
<1> QED BY <1>3, <1>4, <1>5 DEF Rises

(* Setting the fields that the operations set keeps the types.             *)
LEMMA SetBlock ==
  ASSUME NEW d \in Drives, NEW a \in BOOLEAN, NEW cells \in SUBSET Nat, NEW b \in BOOLEAN,
         NEW n \in 0..2, NEW p \in Nat
  PROVE  [d EXCEPT !.inBlock = a, !.crc = cells, !.crcError = b, !.crcSeen = n, !.rose = p] \in Drives
BY DEF Drives

LEMMA SetVerdict ==
  ASSUME NEW d \in Drives, NEW n \in 0..2, NEW a \in BOOLEAN, NEW p \in Nat, NEW b \in BOOLEAN
  PROVE  [d EXCEPT !.crcSeen = n, !.crcError = a, !.rose = p, !.previousCrc = b] \in Drives
BY DEF Drives

LEMMA SetByte ==
  ASSUME NEW d \in Drives, NEW cells \in SUBSET Nat, NEW p \in Nat, NEW a \in BOOLEAN, NEW b \in BOOLEAN
  PROVE  [d EXCEPT !.inBlock = TRUE, !.crc = cells, !.data = p, !.ready = a, !.irq = b] \in Drives
BY DEF Drives

LEMMA SetPlace ==
  ASSUME NEW d \in Drives, NEW side \in 0..Len(Sides), NEW p \in Nat, NEW q \in Nat
  PROVE  [d EXCEPT !.inserted = side, !.position = p, !.countdown = q] \in Drives
BY DEF Drives

LEMMA RearmedTyped ==
  ASSUME NEW d \in Drives
  PROVE  Rearmed(d) \in Drives
<1>1. {} \in SUBSET Nat /\ 0 \in 0..2 /\ 0 \in Nat /\ FALSE \in BOOLEAN
  OBVIOUS
<1>2. [d EXCEPT !.inBlock = FALSE, !.crc = {}, !.crcError = FALSE, !.crcSeen = 0, !.rose = 0] \in Drives
  BY <1>1, SetBlock, Zenon
<1> QED BY <1>2, Zenon DEF Rearmed

-----------------------------------------------------------------------------
(* What the operations keep *)

(* The head is on the side that is in the drive; a disk that turns has its  *)
(* motor on and a byte to come.                                            *)
Seated(d) ==
  /\ d.inserted = Ejected => d.position = 0
  /\ d.inserted # Ejected => d.position <= Len(Sides[d.inserted])
  /\ d.countdown <= SpinUp + Period
  /\ ~ d.end => d.inserted # Ejected /\ "motor" \in d.control /\ d.countdown >= 1

(* The transfer interrupt has its byte, and is gone before the disk can     *)
(* turn again.                                                             *)
Caused(d) ==
  /\ d.irq => /\ d.ready /\ d.inBlock /\ "irq" \in d.control /\ d.inserted # Ejected
              /\ "motor" \in d.control => ~ d.end
  /\ "start" \notin d.control =>
       ~ d.inBlock /\ ~ d.ready /\ ~ d.crcError /\ d.crc = {}

(* The verdict on a set of bytes is that on those up to position p, the    *)
(* first since the bit rose.                                               *)
Verdict(inserted, crc, rose, error, p) ==
  /\ \A k \in crc : k <= rose \/ p <= k
  /\ error = ~ Residue(Sides[inserted], {k \in crc : k <= p})

(* What the CRC register has heard, and what it said at the second byte    *)
(* under the bit.                                                          *)
Heard(d) ==
  ~ d.end =>
    /\ d.crc \subseteq 1..d.position
    /\ d.previousCrc => d.crcSeen # 0
    /\ d.previousCrc /\ d.crcSeen = 1 =>
         d.rose <= d.position /\ \A k \in d.crc : k <= d.rose
    /\ d.crcSeen = 2 =>
         \E p \in d.rose + 1..d.position : Verdict(d.inserted, d.crc, d.rose, d.crcError, p)

Fit == {d \in Drives : Seated(d) /\ Caused(d) /\ Heard(d)}

LEMMA DefaultFits == Default \in Fit
<1>1. Default \in Drives
  BY Sized DEF Default, Drives
<1>2. Seated(Default)
  BY Sized DEF Default, Seated, Ejected
<1>3. Caused(Default) /\ Heard(Default)
  BY DEF Default, Caused, Heard
<1> QED BY <1>1, <1>2, <1>3 DEF Fit

LEMMA QuietFits ==
  ASSUME NEW d \in Fit
  PROVE  Quiet(d) \in Fit /\ ReadData(d) \in Fit /\ ReadData(d) = Quiet(d)
<1>1. d \in Drives /\ Seated(d) /\ Caused(d) /\ Heard(d)
  BY DEF Fit
<1>2. Quiet(d) \in Drives /\ ReadData(d) = Quiet(d)
  BY <1>1 DEF Quiet, ReadData, Drives
<1>3. Seated(Quiet(d))
  BY <1>1 DEF Seated, Quiet, Drives
<1>4. Caused(Quiet(d))
  BY <1>1 DEF Caused, Quiet, Drives
<1>5. Heard(Quiet(d))
  BY <1>1 DEF Heard, Quiet, Drives
<1> QED BY <1>2, <1>3, <1>4, <1>5 DEF Fit

LEMMA InsertFits ==
  ASSUME NEW d \in Fit, NEW side \in DOMAIN Sides \cup {Ejected}
  PROVE  Insert(d, side) \in Fit
<1>1. d \in Drives /\ Seated(d) /\ Caused(d) /\ Heard(d)
  BY DEF Fit
<1>2. Insert(d, side) \in Drives
  <2>1. side \in 0..Len(Sides)
    BY Sized DEF Ejected
  <2>2. [d EXCEPT !.inserted = side, !.position = 0, !.countdown = 0] \in Drives
    BY <1>1, <2>1, SetPlace, Zenon, 0 \in Nat
  <2> DEFINE e == [d EXCEPT !.inserted = side, !.position = 0, !.countdown = 0]
  <2>3. Insert(d, side) = [e EXCEPT !.scanning = FALSE, !.end = TRUE, !.ready = FALSE, !.irq = FALSE]
    BY <1>1 DEF Insert, Drives
  <2> HIDE DEF e
  <2> QED BY <2>2, <2>3 DEF Drives, e
<1>3. Seated(Insert(d, side))
  BY <1>1, Sized DEF Seated, Insert, Drives, Ejected
<1>4. Caused(Insert(d, side))
  BY <1>1 DEF Caused, Insert, Drives
<1>5. Heard(Insert(d, side))
  BY <1>1 DEF Heard, Insert, Drives
<1> QED BY <1>2, <1>3, <1>4, <1>5 DEF Fit

LEMMA SetControlFits ==
  ASSUME NEW d \in Fit, NEW value \in SUBSET Bits
  PROVE  SetControl(d, value) \in Fit
<1>1. d \in Drives /\ Seated(d) /\ Caused(d) /\ Heard(d)
  BY DEF Fit
<1> DEFINE armed == IF "start" \in value THEN d
                    ELSE [Rearmed(d) EXCEPT !.previousCrc = FALSE, !.ready = FALSE]
           moved == IF "motor" \in value THEN armed
                    ELSE [armed EXCEPT !.end = TRUE, !.scanning = FALSE, !.ready = FALSE]
           e == SetControl(d, value)
<1>2. e = [moved EXCEPT !.irq = FALSE, !.control = value]
  BY DEF SetControl
<1>3. /\ armed \in Drives /\ Seated(armed) /\ Heard(armed)
      /\ "start" \notin value => /\ ~ armed.inBlock /\ ~ armed.ready /\ ~ armed.crcError /\ armed.crc = {}
  <2>1. CASE "start" \in value
    BY <1>1, <2>1
  <2>2. CASE "start" \notin value
    <3>1. armed = [Rearmed(d) EXCEPT !.previousCrc = FALSE, !.ready = FALSE]
      BY <2>2
    <3> HIDE DEF armed
    <3>2. armed \in Drives
      <4>1. Rearmed(d) \in Drives
        BY <1>1, RearmedTyped
      <4> HIDE DEF armed
      <4> QED BY <3>1, <4>1 DEF Drives
    <3>3. Seated(armed)
      BY <1>1, <3>1 DEF Drives, Rearmed, Seated
    <3>4. Heard(armed)
      BY <1>1, <3>1 DEF Drives, Rearmed, Heard
    <3>5. ~ armed.inBlock /\ ~ armed.ready /\ ~ armed.crcError /\ armed.crc = {}
      BY <1>1, <3>1 DEF Drives, Rearmed
    <3> QED BY <3>2, <3>3, <3>4, <3>5
  <2> QED BY <2>1, <2>2
<1> HIDE DEF armed
<1>4. /\ moved \in Drives /\ Heard(moved)
      /\ moved.inserted = armed.inserted /\ moved.position = armed.position /\ moved.countdown = armed.countdown
      /\ moved.end = (armed.end \/ "motor" \notin value)
      /\ "start" \notin value => /\ ~ moved.inBlock /\ ~ moved.ready /\ ~ moved.crcError /\ moved.crc = {}
  <2>1. CASE "motor" \in value
    <3>1. armed.end \in BOOLEAN
      BY <1>3 DEF Drives
    <3> QED BY <1>3, <2>1, <3>1
  <2>2. CASE "motor" \notin value
    <3>1. moved = [armed EXCEPT !.end = TRUE, !.scanning = FALSE, !.ready = FALSE]
      BY <2>2
    <3> HIDE DEF moved
    <3>2. moved \in Drives
      BY <1>3, <3>1 DEF Drives
    <3>3. Heard(moved)
      BY <1>3, <3>1 DEF Drives, Heard
    <3>4. moved.inserted = armed.inserted /\ moved.position = armed.position /\ moved.countdown = armed.countdown
          /\ moved.end = TRUE /\ moved.ready = FALSE /\ moved.inBlock = armed.inBlock /\ moved.crcError = armed.crcError
          /\ moved.crc = armed.crc
      BY <1>3, <3>1 DEF Drives
    <3> QED BY <1>3, <2>2, <3>2, <3>3, <3>4
  <2> QED BY <2>1, <2>2
<1> HIDE DEF moved, e
<1>5. e \in Drives
  BY <1>2, <1>4 DEF Drives
<1>6. Seated(e)
  BY <1>2, <1>3, <1>4 DEF Drives, Seated
<1>7. Caused(e)
  BY <1>2, <1>4 DEF Drives, Caused
<1>8. Heard(e)
  BY <1>2, <1>4 DEF Drives, Heard
<1>9. e \in Fit
  BY <1>5, <1>6, <1>7, <1>8 DEF Fit
<1> QED BY <1>9 DEF e

LEMMA RewoundFits ==
  ASSUME NEW d \in Fit, d.inserted # Ejected, "motor" \in d.control, d.end
  PROVE  Rewound(d) \in Fit
<1>1. d \in Drives /\ Seated(d) /\ Caused(d) /\ Heard(d)
  BY DEF Fit
<1>2. Rewound(d) \in Drives
  <2>1. Rearmed(d) \in Drives /\ SpinUp \in Nat
    BY <1>1, RearmedTyped, Sized
  <2> QED BY <2>1 DEF Rewound, Drives
<1>3. Seated(Rewound(d))
  BY <1>1, Sized DEF Seated, Rewound, Rearmed, Drives, Ejected
<1>4. Caused(Rewound(d))
  BY <1>1 DEF Caused, Rewound, Rearmed, Drives
<1>5. Heard(Rewound(d))
  BY <1>1 DEF Heard, Rewound, Rearmed, Drives
<1> QED BY <1>2, <1>3, <1>4, <1>5 DEF Fit

(* A byte that has been gathered, and not judged yet.                       *)
HeardNow(d) ==
  /\ d.position >= 1 /\ d.crc \subseteq 1..d.position
  /\ d.previousCrc /\ d.crcSeen = 0 => d.crc = {} /\ d.rose = 0
  /\ d.previousCrc /\ d.crcSeen = 1 =>
       d.rose + 1 <= d.position /\ \A k \in d.crc : k <= d.rose \/ d.position <= k
  /\ d.crcSeen = 2 =>
       \E p \in d.rose + 1..d.position : Verdict(d.inserted, d.crc, d.rose, d.crcError, p)

LEMMA GatheredFits ==
  ASSUME NEW d \in Drives, Seated(d), Caused(d), ~ d.end, d.position >= 1, NEW cell,
         d.crc \subseteq 1..d.position - 1,
         d.previousCrc => d.crcSeen # 0,
         d.previousCrc /\ d.crcSeen = 1 =>
           d.rose + 1 <= d.position /\ \A k \in d.crc : k <= d.rose,
         d.crcSeen = 2 =>
           \E p \in d.rose + 1..d.position - 1 : Verdict(d.inserted, d.crc, d.rose, d.crcError, p)
  PROVE  /\ Gathered(d, cell) \in Drives /\ Seated(Gathered(d, cell)) /\ Caused(Gathered(d, cell))
         /\ HeardNow(Gathered(d, cell)) /\ ~ Gathered(d, cell).end
         /\ Gathered(d, cell).position = d.position
<1> DEFINE e == Gathered(d, cell)
           sync == ~ d.inBlock /\ cell # "zero"
<1>1. CASE "start" \notin d.control
  <2>1. e = Rearmed(d)
    BY <1>1 DEF Gathered
  <2> HIDE DEF e
  <2>2. e \in Drives
    BY <2>1, RearmedTyped
  <2>3. Seated(e) /\ ~ e.end /\ e.position = d.position
    BY <2>1 DEF Rearmed, Seated, Drives
  <2>4. Caused(e)
    BY <1>1, <2>1 DEF Rearmed, Caused, Drives
  <2>5. HeardNow(e)
    BY <2>1 DEF Rearmed, HeardNow, Drives
  <2> QED BY <2>2, <2>3, <2>4, <2>5 DEF e
<1>2. CASE "start" \in d.control /\ (d.inBlock \/ sync)
  <2>1. PICK ask \in BOOLEAN, offer \in BOOLEAN :
          /\ e = [d EXCEPT !.inBlock = TRUE, !.crc = @ \cup {d.position}, !.data = d.position,
                           !.ready = offer, !.irq = ask]
          /\ offer = (~ sync) /\ ask = (d.irq \/ (~ sync /\ "irq" \in d.control))
    <3>1. (~ sync) \in BOOLEAN /\ (d.irq \/ (~ sync /\ "irq" \in d.control)) \in BOOLEAN
      OBVIOUS
    <3>2. e = [d EXCEPT !.inBlock = TRUE, !.crc = @ \cup {d.position}, !.data = d.position,
                        !.ready = ~ sync, !.irq = @ \/ (~ sync /\ "irq" \in d.control)]
      BY <1>2 DEF Gathered
    <3> QED BY <3>1, <3>2
  <2>2. ask => offer /\ "irq" \in d.control /\ d.inserted # Ejected
    <3>1. d.irq => d.inBlock /\ "irq" \in d.control
      BY DEF Caused
    <3>2. d.inserted # Ejected
      BY DEF Seated
    <3> QED BY <2>1, <3>1, <3>2
  <2>3. d.position \in Nat /\ d.crc \cup {d.position} \in SUBSET Nat
    BY FieldsOf
  <2> HIDE DEF e, sync
  <2>4. e \in Drives
    BY <2>1, <2>3, SetByte
  <2>5. Seated(e) /\ ~ e.end /\ e.position = d.position
    BY <2>1 DEF Seated, Drives
  <2>6. Caused(e)
    BY <1>2, <2>1, <2>2 DEF Caused, Drives
  <2>7. HeardNow(e)
    <3>1. /\ e.position = d.position /\ e.crc = d.crc \cup {d.position} /\ e.previousCrc = d.previousCrc
          /\ e.crcSeen = d.crcSeen /\ e.rose = d.rose /\ e.crcError = d.crcError /\ e.inserted = d.inserted
      BY <2>1 DEF Drives
    <3>2. ASSUME d.crcSeen = 2
          PROVE  \E p \in d.rose + 1..d.position :
                   Verdict(d.inserted, d.crc \cup {d.position}, d.rose, d.crcError, p)
      <4>1. PICK p \in d.rose + 1..d.position - 1 : Verdict(d.inserted, d.crc, d.rose, d.crcError, p)
        BY <3>2
      <4>2. {k \in d.crc \cup {d.position} : k <= p} = {k \in d.crc : k <= p}
        BY <2>3, FieldsOf
      <4>3. \A k \in d.crc \cup {d.position} : k <= d.rose \/ p <= k
        BY <4>1, FieldsOf DEF Verdict
      <4>4. Verdict(d.inserted, d.crc \cup {d.position}, d.rose, d.crcError, p)
        BY <4>1, <4>2, <4>3, Zenon DEF Verdict
      <4>5. p \in d.rose + 1..d.position
        BY FieldsOf
      <4> QED BY <4>4, <4>5
    <3>3. d.position >= 1 /\ d.crc \cup {d.position} \subseteq 1..d.position
      BY <2>3
    <3>4. d.previousCrc /\ d.crcSeen = 1 =>
            d.rose + 1 <= d.position /\ \A k \in d.crc \cup {d.position} : k <= d.rose \/ d.position <= k
      BY <2>3
    <3> QED BY <3>1, <3>2, <3>3, <3>4 DEF HeardNow
  <2> QED BY <2>4, <2>5, <2>6, <2>7 DEF e
<1>3. CASE "start" \in d.control /\ ~ (d.inBlock \/ sync)
  <2>1. e = d
    BY <1>3 DEF Gathered
  <2>2. HeardNow(d)
    <3>1. d.crc \subseteq 1..d.position
      BY FieldsOf
    <3>2. \A p \in d.rose + 1..d.position - 1 : p \in d.rose + 1..d.position
      BY FieldsOf
    <3>3. d.previousCrc /\ d.crcSeen = 1 =>
            d.rose + 1 <= d.position /\ \A k \in d.crc : k <= d.rose \/ d.position <= k
      OBVIOUS
    <3>4. d.crcSeen = 2 =>
            \E p \in d.rose + 1..d.position : Verdict(d.inserted, d.crc, d.rose, d.crcError, p)
      BY <3>2
    <3> QED BY <3>1, <3>3, <3>4 DEF HeardNow
  <2> QED BY <2>1, <2>2
<1> QED BY <1>1, <1>2, <1>3

(* What nothing was heard of is no error.                                  *)
LEMMA SilenceIsGood ==
  ASSUME NEW side
  PROVE  Residue(side, {})
BY DEF Residue

LEMMA JudgedFits ==
  ASSUME NEW d \in Drives, Seated(d), Caused(d), HeardNow(d), ~ d.end
  PROVE  Judged(d) \in Fit /\ ~ Judged(d).end /\ Judged(d).position = d.position
<1> DEFINE e == Judged(d)
           seen == SeenAfter(d)
           error == ErrorAfter(d)
           rose == RoseAfter(d)
           phase == Phase(d)
<1>1. e = [d EXCEPT !.crcSeen = seen, !.crcError = error, !.rose = rose, !.previousCrc = phase]
  BY JudgedIs
<1>2. seen \in 0..2 /\ error \in BOOLEAN /\ rose \in Nat /\ phase \in BOOLEAN
  <2>1. seen \in 0..2
    BY FieldsOf DEF SeenAfter
  <2>2. error \in BOOLEAN
    <3>1. d.crcError \in BOOLEAN /\ (~ Residue(Sides[d.inserted], d.crc)) \in BOOLEAN
      BY FieldsOf
    <3> QED BY <3>1, Zenon DEF ErrorAfter
  <2>3. rose \in Nat /\ phase \in BOOLEAN
    BY FieldsOf DEF RoseAfter, Phase
  <2> QED BY <2>1, <2>2, <2>3
<1>3. "start" \notin d.control => error = FALSE
  <2>1. "start" \notin d.control => ~ d.crcError /\ d.crc = {}
    BY DEF Caused
  <2> QED BY <2>1, SilenceIsGood, FieldsOf DEF ErrorAfter
<1> HIDE DEF e, seen, error, rose, phase
<1>4. e \in Drives
  BY <1>1, <1>2, SetVerdict
<1>5. Seated(e) /\ ~ e.end /\ e.position = d.position
  BY <1>1 DEF Seated, Drives
<1>6. Caused(e)
  BY <1>1, <1>3 DEF Caused, Drives
<1>7. Heard(e)
  <2>1. /\ e.position = d.position /\ e.crc = d.crc /\ e.inserted = d.inserted
        /\ e.previousCrc = phase /\ e.crcSeen = seen /\ e.crcError = error /\ e.rose = rose
    BY <1>1 DEF Drives
  <2> SUFFICES /\ phase => seen # 0
               /\ phase /\ seen = 1 => rose <= d.position /\ \A k \in d.crc : k <= rose
               /\ seen = 2 => \E p \in rose + 1..d.position : Verdict(d.inserted, d.crc, rose, error, p)
    BY <2>1 DEF Heard, HeardNow
  <2>2. CASE Rises(d)
    <3>1. seen = 1 /\ rose = d.position
      BY <2>2 DEF seen, rose, SeenAfter, RoseAfter
    <3> QED BY <3>1, FieldsOf DEF HeardNow
  <2>3. CASE ~ Rises(d) /\ Phase(d) /\ d.crcSeen = 0
    <3>1. seen = 1 /\ rose = d.rose /\ d.previousCrc
      BY <2>3 DEF seen, rose, SeenAfter, RoseAfter, Rises
    <3> QED BY <2>3, <3>1, FieldsOf DEF HeardNow
  <2>4. CASE ~ Rises(d) /\ Phase(d) /\ d.crcSeen = 1
    <3>1. seen = 2 /\ rose = d.rose /\ d.previousCrc
      BY <2>4 DEF seen, rose, SeenAfter, RoseAfter, Rises
    <3>4. error = ~ Residue(Sides[d.inserted], d.crc)
      BY <2>4, Zenon DEF error, ErrorAfter
    <3>2. {k \in d.crc : k <= d.position} = d.crc
      BY FieldsOf DEF HeardNow
    <3>3. d.position \in d.rose + 1..d.position /\ \A k \in d.crc : k <= d.rose \/ d.position <= k
      BY <2>4, <3>1, FieldsOf DEF HeardNow
    <3>5. Verdict(d.inserted, d.crc, d.rose, error, d.position)
      BY <3>2, <3>3, <3>4, Zenon DEF Verdict
    <3>6. \E p \in rose + 1..d.position : Verdict(d.inserted, d.crc, rose, error, p)
      BY <3>1, <3>3, <3>5, Zenon
    <3> QED BY <3>1, <3>6
  <2>5. CASE ~ Rises(d) /\ (Phase(d) => d.crcSeen = 2)
    <3>1. seen = d.crcSeen /\ rose = d.rose /\ error = d.crcError /\ (phase => seen = 2)
      BY <2>5 DEF seen, rose, error, phase, SeenAfter, RoseAfter, ErrorAfter
    <3> QED BY <3>1 DEF HeardNow
  <2>6. Phase(d) => d.crcSeen \in {0, 1, 2}
    BY FieldsOf
  <2> QED BY <2>2, <2>3, <2>4, <2>5, <2>6, Zenon
<1> QED BY <1>4, <1>5, <1>6, <1>7 DEF Fit, e

(* A turn of the disk: what a byte leaves behind.                          *)
Passed(d) == [Transfer([d EXCEPT !.scanning = TRUE]) EXCEPT !.countdown = Period]

LEMMA PassedFits ==
  ASSUME NEW d \in Fit, ~ d.end
  PROVE  Passed(d) \in Fit /\ Passed(d).position >= d.position
<1> DEFINE e == [d EXCEPT !.scanning = TRUE]
           moved == [e EXCEPT !.position = @ + 1]
           f == Transfer(e)
<1>1. d \in Drives /\ Seated(d) /\ Caused(d) /\ Heard(d)
  BY DEF Fit
<1>2. e \in Fit /\ ~ e.end /\ e.position = d.position
  <2>1. e \in Drives
    BY <1>1 DEF Drives
  <2>2. Seated(e) /\ Caused(e) /\ Heard(e) /\ ~ e.end /\ e.position = d.position
    BY <1>1 DEF Drives, Seated, Caused, Heard
  <2> QED BY <2>1, <2>2 DEF Fit
<1> HIDE DEF e
<1>3. e \in Drives /\ Seated(e) /\ Caused(e) /\ Heard(e)
  BY <1>2 DEF Fit
<1>4. f \in Fit /\ f.position >= e.position
  <2>1. CASE e.position >= Len(Sides[e.inserted])
    <3>1. f = PassedEnd(e)
      BY <2>1 DEF Transfer
    <3>2. e.control \ {"motor"} \in SUBSET Bits
      BY <1>3, FieldsOf
    <3> HIDE DEF f
    <3>3. f \in Drives
      BY <1>3, <3>1, <3>2 DEF PassedEnd, Drives
    <3>4. Seated(f) /\ f.position = e.position /\ Heard(f)
      BY <1>3, <3>1 DEF PassedEnd, Drives, Seated, Heard
    <3>5. Caused(f)
      BY <1>3, <3>1 DEF PassedEnd, Drives, Caused
    <3> QED BY <1>3, <3>3, <3>4, <3>5, FieldsOf DEF Fit
  <2>2. CASE ~ (e.position >= Len(Sides[e.inserted]))
    <3>1. /\ e.inserted \in 1..Len(Sides) /\ Len(Sides[e.inserted]) \in Nat /\ e.position \in Nat
          /\ e.position < Len(Sides[e.inserted])
      <4>1. e.inserted # Ejected
        BY <1>2, <1>3 DEF Seated
      <4>2. e.inserted \in 1..Len(Sides) /\ e.position \in Nat
        BY <1>3, <4>1, FieldsOf, Sized DEF Ejected
      <4>3. Len(Sides[e.inserted]) \in Nat
        BY <4>2, Sized
      <4> QED BY <2>2, <4>2, <4>3
    <3>2. /\ moved \in Drives /\ Seated(moved) /\ Caused(moved) /\ ~ moved.end /\ moved.position = e.position + 1
          /\ moved.control = e.control /\ moved.crc = e.crc /\ moved.previousCrc = e.previousCrc
          /\ moved.crcSeen = e.crcSeen /\ moved.rose = e.rose /\ moved.crcError = e.crcError
          /\ moved.inserted = e.inserted
      <4>1. moved \in Drives
        BY <1>3 DEF Drives
      <4>2. Seated(moved)
        <5>1. moved.inserted = e.inserted /\ moved.position = e.position + 1 /\ moved.countdown = e.countdown
              /\ moved.end = e.end /\ moved.control = e.control
          BY <1>3 DEF Drives
        <5>2. e.inserted # Ejected
          BY <3>1 DEF Ejected
        <5> QED BY <1>3, <3>1, <5>1, <5>2 DEF Seated
      <4>3. Caused(moved)
        BY <1>3 DEF Drives, Caused
      <4> QED BY <1>2, <1>3, <4>1, <4>2, <4>3 DEF Drives
    <3>3. f = IF "read" \notin e.control THEN moved
              ELSE Judged(Gathered(moved, Sides[e.inserted][moved.position]))
      BY <2>2 DEF Transfer
    <3> HIDE DEF moved, f
    <3>4. Heard(moved)
      <4>1. /\ e.crc \subseteq 1..e.position
            /\ e.previousCrc => e.crcSeen # 0
            /\ e.previousCrc /\ e.crcSeen = 1 =>
                 e.rose <= e.position /\ \A k \in e.crc : k <= e.rose
        BY <1>2, <1>3 DEF Heard
      <4>2. e.rose \in Nat
        BY <1>3, FieldsOf
      <4>3. e.crc \subseteq 1..e.position + 1
        BY <3>1, <4>1
      <4>4. e.crcSeen = 2 =>
              \E p \in e.rose + 1..e.position + 1 : Verdict(e.inserted, e.crc, e.rose, e.crcError, p)
        <5>1. \A p \in e.rose + 1..e.position : p \in e.rose + 1..e.position + 1
          BY <3>1, <4>2
        <5> QED BY <1>2, <1>3, <5>1, Zenon DEF Heard
      <4>5. e.previousCrc /\ e.crcSeen = 1 =>
              e.rose <= e.position + 1 /\ \A k \in e.crc : k <= e.rose
        BY <3>1, <4>1, <4>2
      <4>6. /\ moved.crc \subseteq 1..moved.position
            /\ moved.previousCrc => moved.crcSeen # 0
            /\ moved.previousCrc /\ moved.crcSeen = 1 =>
                 moved.rose <= moved.position /\ \A k \in moved.crc : k <= moved.rose
            /\ moved.crcSeen = 2 =>
                 \E p \in moved.rose + 1..moved.position :
                   Verdict(moved.inserted, moved.crc, moved.rose, moved.crcError, p)
        BY <3>2, <4>1, <4>3, <4>4, <4>5
      <4> QED BY <4>6, Zenon DEF Heard
    <3>5. CASE "read" \notin e.control
      <4>1. f = moved
        BY <3>3, <3>5
      <4> QED BY <3>1, <3>2, <3>4, <4>1 DEF Fit
    <3>6. CASE "read" \in e.control
      <4> DEFINE g == Gathered(moved, Sides[e.inserted][moved.position])
      <4>1. /\ g \in Drives /\ Seated(g) /\ Caused(g) /\ HeardNow(g) /\ ~ g.end /\ g.position = moved.position
        <5>1. e.position + 1 - 1 = e.position /\ e.rose \in Nat /\ e.position + 1 >= 1
          BY <1>3, <3>1, FieldsOf
        <5>2. /\ e.crc \subseteq 1..e.position
              /\ e.previousCrc => e.crcSeen # 0
              /\ e.previousCrc /\ e.crcSeen = 1 => e.rose <= e.position /\ \A k \in e.crc : k <= e.rose
              /\ e.crcSeen = 2 =>
                   \E p \in e.rose + 1..e.position : Verdict(e.inserted, e.crc, e.rose, e.crcError, p)
          BY <1>2, <1>3, Zenon DEF Heard
        <5>3. e.rose <= e.position => e.rose + 1 <= e.position + 1
          BY <3>1, <5>1
        <5>4. /\ moved.position >= 1 /\ moved.crc \subseteq 1..moved.position - 1
              /\ moved.previousCrc => moved.crcSeen # 0
              /\ moved.previousCrc /\ moved.crcSeen = 1 =>
                   moved.rose + 1 <= moved.position /\ \A k \in moved.crc : k <= moved.rose
              /\ moved.crcSeen = 2 =>
                   \E p \in moved.rose + 1..moved.position - 1 :
                     Verdict(moved.inserted, moved.crc, moved.rose, moved.crcError, p)
          <6>1. moved.position - 1 = e.position /\ moved.position >= 1
            BY <3>1, <3>2
          <6>2. moved.previousCrc /\ moved.crcSeen = 1 =>
                  moved.rose + 1 <= moved.position /\ \A k \in moved.crc : k <= moved.rose
            BY <3>2, <5>2, <5>3
          <6>3. moved.crcSeen = 2 =>
                  \E p \in moved.rose + 1..e.position :
                    Verdict(moved.inserted, moved.crc, moved.rose, moved.crcError, p)
            BY <3>2, <5>2
          <6>4. moved.crc \subseteq 1..e.position /\ (moved.previousCrc => moved.crcSeen # 0)
            BY <3>2, <5>2
          <6> QED BY <6>1, <6>2, <6>3, <6>4
        <5> QED BY <3>2, <5>4, GatheredFits
      <4>2. f = Judged(g)
        BY <3>3, <3>6
      <4> HIDE DEF g
      <4>3. f \in Fit /\ f.position = g.position
        BY <4>1, <4>2, JudgedFits
      <4> QED BY <3>1, <3>2, <4>1, <4>3
    <3> QED BY <3>5, <3>6
  <2> QED BY <2>1, <2>2
<1>5. Passed(d) = [f EXCEPT !.countdown = Period]
  BY DEF Passed, e
<1> HIDE DEF f
<1>6. f \in Drives /\ Seated(f) /\ Caused(f) /\ Heard(f)
  BY <1>4 DEF Fit
<1>7. Passed(d) \in Drives
  BY <1>5, <1>6, Sized DEF Drives
<1>8. Seated(Passed(d)) /\ Passed(d).position = f.position
  BY <1>5, <1>6, Sized DEF Drives, Seated
<1>9. Caused(Passed(d))
  BY <1>5, <1>6 DEF Drives, Caused
<1>10. Heard(Passed(d))
  BY <1>5, <1>6 DEF Drives, Heard
<1> QED BY <1>2, <1>4, <1>7, <1>8, <1>9, <1>10 DEF Fit

-----------------------------------------------------------------------------
(* The timer *)

Timers == [reload : Words, counter : Words, enabled : BOOLEAN, repeat : BOOLEAN, pending : BOOLEAN]
TimerStates == [timer : Timers, left : Nat]
Turn == [s \in TimerStates |-> TimerTurn(s)]

LEMMA WordsAreNumbers == \A w \in Words : w \in Nat
BY DEF Words

LEMMA WordsBelow ==
  ASSUME NEW w \in Words, NEW n \in Nat, n <= w
  PROVE  w - n \in Words
BY DEF Words

LEMMA TimerTurnTyped ==
  ASSUME NEW s \in TimerStates
  PROVE  /\ TimerTurn(s) \in TimerStates
         /\ TimerTurn(s) = s \/ TimerTurn(s).left < s.left
         /\ TimerTurn(s).left \in Nat
<1> DEFINE t == s.timer
<1>1. t \in Timers /\ s.left \in Nat
  BY DEF TimerStates
<1>2. t.counter \in Words /\ t.reload \in Words /\ t.repeat \in BOOLEAN /\ t.enabled \in BOOLEAN
  BY <1>1 DEF Timers
<1>3. t.counter \in Nat
  BY <1>2, WordsAreNumbers
<1> HIDE DEF t
<1>4. CASE ~ t.enabled \/ s.left = 0
  BY <1>4, <1>1 DEF TimerTurn, t
<1>5. CASE ~ (~ t.enabled \/ s.left = 0) /\ s.left < t.counter + 1
  <2>1. TimerTurn(s) = [timer |-> [t EXCEPT !.counter = @ - s.left], left |-> 0]
    BY <1>5 DEF TimerTurn, t
  <2>2. t.counter - s.left \in Words
    BY <1>1, <1>2, <1>3, <1>5, WordsBelow
  <2>3. [t EXCEPT !.counter = @ - s.left] \in Timers
    BY <1>1, <2>2 DEF Timers
  <2>4. 0 < s.left
    BY <1>1, <1>5
  <2> QED BY <2>1, <2>3, <2>4 DEF TimerStates
<1>6. CASE ~ (~ t.enabled \/ s.left = 0) /\ ~ (s.left < t.counter + 1)
  <2>1. TimerTurn(s) = [timer |-> [t EXCEPT !.pending = TRUE, !.counter = t.reload, !.enabled = t.repeat],
                        left |-> s.left - (t.counter + 1)]
    BY <1>6 DEF TimerTurn, t
  <2>2. [t EXCEPT !.pending = TRUE, !.counter = t.reload, !.enabled = t.repeat] \in Timers
    BY <1>1, <1>2 DEF Timers
  <2>3. s.left - (t.counter + 1) \in Nat /\ s.left - (t.counter + 1) < s.left
    BY <1>1, <1>3, <1>6
  <2> QED BY <2>1, <2>2, <2>3 DEF TimerStates
<1> QED BY <1>4, <1>5, <1>6

(* Timed is what a loop of turns leaves.                                   *)
TimerRun(f, t, c) == Laps(f, c, TimerStates, [timer |-> t, left |-> c], Turn) /\ Timed(t, c) = f[c].timer

LEMMA TimedRuns ==
  ASSUME NEW t \in Timers, NEW c \in Nat
  PROVE  \E f : TimerRun(f, t, c)
<1> DEFINE start == [timer |-> t, left |-> c]
           after[n \in 0..c] == IF n = 0 THEN [timer |-> t, left |-> c] ELSE TimerTurn(after[n - 1])
<1>1. Turn \in [TimerStates -> TimerStates]
  BY TimerTurnTyped DEF Turn
<1>2. start \in TimerStates
  BY DEF TimerStates
<1>3. PICK f : Laps(f, c, TimerStates, start, Turn)
  <2> HIDE DEF start
  <2> QED BY <1>1, <1>2, LapsExist, Zenon
<1> HIDE DEF start
<1>4. f = [n \in 0..c |-> IF n = 0 THEN start ELSE TimerTurn(f[n - 1])]
  <2>1. ASSUME NEW n \in 1..c PROVE f[n] = TimerTurn(f[n - 1])
    <3>1. n - 1 \in 0..c
      OBVIOUS
    <3>2. f[n - 1] \in TimerStates
      BY <1>3, <3>1 DEF Laps
    <3> QED BY <1>3, <3>2 DEF Laps, Turn
  <2>2. f \in [0..c -> TimerStates] /\ f[0] = start
    BY <1>3 DEF Laps
  <2>3. \A n \in 0..c : f[n] = IF n = 0 THEN start ELSE TimerTurn(f[n - 1])
    BY <2>1, <2>2
  <2> QED BY <2>2, <2>3
<1>5. after = [n \in 0..c |-> IF n = 0 THEN start ELSE TimerTurn(after[n - 1])]
  <2>1. \E g : g = [n \in 0..c |-> IF n = 0 THEN start ELSE TimerTurn(g[n - 1])]
    BY <1>4, Zenon
  <2> QED BY <2>1, Zenon DEF start
<1>6. Timed(t, c) = after[c].timer
  BY DEF Timed
<1> HIDE DEF after
<1>7. Laps(after, c, TimerStates, start, Turn)
  <2> DEFINE P == {n \in 0..c : after[n] \in TimerStates}
  <2>1. after[0] = start
    BY <1>5
  <2>2. \A n \in 1..c : after[n] = TimerTurn(after[n - 1])
    BY <1>5
  <2>3. 0 \in P
    BY <1>2, <2>1
  <2>4. ASSUME NEW n \in 1..c, n - 1 \in P PROVE n \in P
    BY <2>2, <2>4, TimerTurnTyped
  <2> HIDE DEF P
  <2>5. 0..c \subseteq P
    BY <2>3, <2>4, Induction
  <2>6. \A n \in 0..c : after[n] \in TimerStates
    BY <2>5 DEF P
  <2>7. ASSUME NEW n \in 1..c PROVE after[n] = Turn[after[n - 1]]
    <3>1. n - 1 \in 0..c
      OBVIOUS
    <3> QED BY <2>2, <2>6, <3>1 DEF Turn
  <2>8. after \in [0..c -> TimerStates]
    BY <1>5, <2>6
  <2> QED BY <2>1, <2>7, <2>8 DEF Laps
<1> QED BY <1>6, <1>7, Zenon DEF TimerRun, start

(* Timed, as the code's loop reads from its beginning.                     *)
Fired(t) == [t EXCEPT !.pending = TRUE, !.counter = t.reload, !.enabled = t.repeat]

LEMMA TimedStays ==
  ASSUME NEW t \in Timers, NEW c \in Nat, ~ t.enabled \/ c = 0
  PROVE  Timed(t, c) = t
<1> DEFINE start == [timer |-> t, left |-> c]
<1>1. start \in TimerStates /\ start.timer = t /\ start.left = c
  BY DEF TimerStates
<1>2. PICK f : TimerRun(f, t, c)
  BY TimedRuns, Zenon
<1>3. Laps(f, c, TimerStates, start, Turn) /\ Timed(t, c) = f[c].timer
  BY <1>2, Zenon DEF TimerRun
<1> HIDE DEF start
<1>4. Turn[start] = start
  BY <1>1 DEF Turn, TimerTurn
<1>5. f[c] = start
  BY <1>3, <1>4, LapsStay, Zenon
<1> QED BY <1>1, <1>3, <1>5

LEMMA TimedTurns ==
  ASSUME NEW t \in Timers, NEW c \in Nat, NEW t1 \in Timers, NEW c1 \in Nat, c1 < c,
         TimerTurn([timer |-> t, left |-> c]) = [timer |-> t1, left |-> c1]
  PROVE  Timed(t, c) = Timed(t1, c1)
<1> DEFINE start == [timer |-> t, left |-> c]
           next == [timer |-> t1, left |-> c1]
           m == [s \in TimerStates |-> s.left]
<1>1. start \in TimerStates /\ next \in TimerStates /\ next.left = c1
  BY DEF TimerStates
<1>2. Turn[start] = next
  BY <1>1 DEF Turn
<1>3. PICK f : TimerRun(f, t, c)
  BY TimedRuns, Zenon
<1>4. PICK g : TimerRun(g, t1, c1)
  BY TimedRuns, Zenon
<1>5. /\ Laps(f, c, TimerStates, start, Turn) /\ Timed(t, c) = f[c].timer
      /\ Laps(g, c1, TimerStates, next, Turn) /\ Timed(t1, c1) = g[c1].timer
  BY <1>3, <1>4, Zenon DEF TimerRun
<1>6. Turn \in [TimerStates -> TimerStates]
  BY TimerTurnTyped DEF Turn
<1>7. /\ m \in [TimerStates -> Nat] /\ m[next] <= c1
      /\ \A s \in TimerStates : Turn[s] = s \/ m[Turn[s]] < m[s]
  <2>1. m \in [TimerStates -> Nat]
    BY DEF TimerStates
  <2>2. m[next] = c1
    BY <1>1
  <2>3. \A s \in TimerStates : Turn[s] = s \/ m[Turn[s]] < m[s]
    BY TimerTurnTyped DEF Turn
  <2> QED BY <2>1, <2>2, <2>3
<1> HIDE DEF start, next, m
<1>8. Turn[g[c1]] = g[c1]
  <2>1. Falls(m, g, c1, TimerStates, next, Turn)
    BY <1>5, <1>6, <1>7 DEF Falls
  <2> QED BY <2>1, LapsStop
<1>9. c1 \in 0..c - 1
  OBVIOUS
<1>10. Laps(g, c1, TimerStates, Turn[start], Turn)
  BY <1>2, <1>5
<1>11. f[c] = g[c1]
  <2>1. Unrolls(f, c, g, c1, TimerStates, start, Turn)
    BY <1>5, <1>8, <1>9, <1>10 DEF Unrolls
  <2> QED BY <2>1, LapsUnroll
<1> QED BY <1>5, <1>11

LEMMA TimedIs ==
  ASSUME NEW t \in Timers, NEW c \in Nat, t.enabled, c # 0
  PROVE  /\ c < t.counter + 1 => Timed(t, c) = [t EXCEPT !.counter = @ - c]
         /\ c >= t.counter + 1 =>
              Timed(t, c) = Timed(Fired(t), c - (t.counter + 1)) /\ c - (t.counter + 1) \in Nat
         /\ Fired(t) \in Timers
<1> DEFINE start == [timer |-> t, left |-> c]
<1>1. start \in TimerStates /\ start.timer = t /\ start.left = c
  BY DEF TimerStates
<1>2. t.counter \in Nat /\ t.counter \in Words /\ t.reload \in Words /\ t.repeat \in BOOLEAN
  BY WordsAreNumbers DEF Timers
<1> HIDE DEF start
<1>3. ASSUME c < t.counter + 1 PROVE Timed(t, c) = [t EXCEPT !.counter = @ - c]
  <2>1. TimerTurn(start) = [timer |-> [t EXCEPT !.counter = @ - c], left |-> 0]
    BY <1>1, <1>3 DEF TimerTurn
  <2>2. t.counter - c \in Words
    BY <1>2, <1>3, WordsBelow
  <2>3. [t EXCEPT !.counter = @ - c] \in Timers
    BY <2>2 DEF Timers
  <2>4. 0 < c /\ 0 \in Nat
    OBVIOUS
  <2>5. Timed(t, c) = Timed([t EXCEPT !.counter = @ - c], 0)
    BY <2>1, <2>3, <2>4, TimedTurns DEF start
  <2> QED BY <2>3, <2>5, TimedStays
<1>4. Fired(t) \in Timers
  BY <1>2 DEF Fired, Timers
<1>5. ASSUME c >= t.counter + 1
      PROVE  Timed(t, c) = Timed(Fired(t), c - (t.counter + 1)) /\ c - (t.counter + 1) \in Nat
  <2>1. TimerTurn(start) = [timer |-> Fired(t), left |-> c - (t.counter + 1)]
    BY <1>1, <1>2, <1>5 DEF TimerTurn, Fired
  <2>2. c - (t.counter + 1) \in Nat /\ c - (t.counter + 1) < c
    BY <1>2, <1>5
  <2>3. Timed(t, c) = Timed(Fired(t), c - (t.counter + 1))
    BY <1>4, <2>1, <2>2, TimedTurns DEF start
  <2> QED BY <2>2, <2>3
<1> QED BY <1>3, <1>4, <1>5

(* A batch in two pieces, by induction over its length.                    *)
LEMMA TimedInPieces ==
  ASSUME NEW N \in Nat
  PROVE  \A t \in Timers, a \in 0..N, b \in 0..N :
           a + b <= N => Timed(Timed(t, a), b) = Timed(t, a + b)
<1> DEFINE P == {n \in 0..N : \A t \in Timers, a \in 0..N, b \in 0..N :
                    a + b <= n => Timed(Timed(t, a), b) = Timed(t, a + b)}
<1>1. ASSUME NEW n \in 0..N,
             \A t \in Timers, a \in 0..N, b \in 0..N :
               a + b < n => Timed(Timed(t, a), b) = Timed(t, a + b),
             NEW t \in Timers, NEW a \in 0..N, NEW b \in 0..N, a + b <= n
      PROVE  Timed(Timed(t, a), b) = Timed(t, a + b)
  <2>1. t.counter \in Nat /\ t.counter \in Words /\ t.enabled \in BOOLEAN /\ a + b \in Nat /\ a \in Nat /\ b \in Nat
    BY WordsAreNumbers DEF Timers
  <2>2. CASE ~ t.enabled
    <3>1. Timed(t, a) = t /\ Timed(t, b) = t /\ Timed(t, a + b) = t
      BY <2>1, <2>2, TimedStays
    <3> QED BY <3>1
  <2>3. CASE a = 0
    <3>1. Timed(t, a) = t /\ a + b = b
      BY <2>1, <2>3, TimedStays
    <3> QED BY <3>1
  <2>4. CASE t.enabled /\ a # 0 /\ a < t.counter + 1
    <3> DEFINE u == [t EXCEPT !.counter = @ - a]
    <3>1. Timed(t, a) = u
      BY <2>1, <2>4, TimedIs
    <3>2. t.counter - a \in Words
      BY <2>1, <2>4, WordsBelow
    <3>3. u \in Timers /\ u.enabled /\ u.counter = t.counter - a /\ Fired(u) = Fired(t)
      BY <2>4, <3>2 DEF Timers, Fired
    <3> HIDE DEF u
    <3>4. CASE b = 0
      <4>1. Timed(u, b) = u /\ a + b = a
        BY <2>1, <3>3, <3>4, TimedStays
      <4> QED BY <3>1, <4>1
    <3>5. CASE b # 0 /\ b < u.counter + 1
      <4>1. Timed(u, b) = [u EXCEPT !.counter = @ - b]
        BY <2>1, <3>3, <3>5, TimedIs
      <4>2. a + b < t.counter + 1 /\ a + b # 0
        BY <2>1, <2>4, <3>3, <3>5
      <4>3. Timed(t, a + b) = [t EXCEPT !.counter = @ - (a + b)]
        BY <2>1, <2>4, <4>2, TimedIs
      <4>4. t.counter - a - b = t.counter - (a + b)
        BY <2>1
      <4>5. [u EXCEPT !.counter = @ - b] = [t EXCEPT !.counter = @ - (a + b)]
        BY <4>4 DEF u, Timers
      <4> QED BY <3>1, <4>1, <4>3, <4>5
    <3>6. CASE b # 0 /\ b >= u.counter + 1
      <4>1. Timed(u, b) = Timed(Fired(u), b - (u.counter + 1))
        BY <2>1, <3>3, <3>6, TimedIs
      <4>2. a + b >= t.counter + 1 /\ a + b # 0
        BY <2>1, <2>4, <3>3, <3>6
      <4>3. Timed(t, a + b) = Timed(Fired(t), a + b - (t.counter + 1))
        BY <2>1, <2>4, <4>2, TimedIs
      <4>4. b - (u.counter + 1) = a + b - (t.counter + 1)
        BY <2>1, <3>3
      <4> QED BY <3>1, <3>3, <4>1, <4>3, <4>4
    <3>7. b = 0 \/ (b # 0 /\ b < u.counter + 1) \/ (b # 0 /\ b >= u.counter + 1)
      BY <2>1, <3>3
    <3> QED BY <3>4, <3>5, <3>6, <3>7
  <2>5. CASE t.enabled /\ a # 0 /\ a >= t.counter + 1
    <3> DEFINE k == a - (t.counter + 1)
    <3>1. Timed(t, a) = Timed(Fired(t), k) /\ k \in Nat /\ Fired(t) \in Timers
      BY <2>1, <2>5, TimedIs
    <3>2. a + b >= t.counter + 1 /\ a + b # 0
      BY <2>1, <2>5
    <3>3. Timed(t, a + b) = Timed(Fired(t), a + b - (t.counter + 1))
      BY <2>1, <2>5, <3>2, TimedIs
    <3>4. k + b = a + b - (t.counter + 1) /\ k + b < n /\ k \in 0..N
      <4>1. k + b = a + b - (t.counter + 1)
        BY <2>1
      <4>2. a + b - (t.counter + 1) < a + b /\ a + b <= n
        BY <1>1, <2>1
      <4>3. k + b < n
        BY <1>1, <2>1, <4>1, <4>2
      <4>4. k <= a
        BY <2>1
      <4>5. k \in 0..N
        BY <1>1, <2>1, <3>1, <4>4
      <4> QED BY <4>1, <4>3, <4>5
    <3> HIDE DEF k
    <3>5. Timed(Timed(Fired(t), k), b) = Timed(Fired(t), k + b)
      BY <1>1, <3>1, <3>4, Zenon
    <3> QED BY <3>1, <3>3, <3>4, <3>5
  <2>6. a < t.counter + 1 \/ a >= t.counter + 1
    BY <2>1
  <2> QED BY <2>2, <2>3, <2>4, <2>5, <2>6
<1>2. 0 \in P
  <2>1. ASSUME NEW t \in Timers, NEW a \in 0..N, NEW b \in 0..N, a + b < 0 PROVE FALSE
    BY <2>1
  <2> QED BY <1>1, <2>1
<1>3. ASSUME NEW n \in 1..N, n - 1 \in P PROVE n \in P
  <2>1. ASSUME NEW t \in Timers, NEW a \in 0..N, NEW b \in 0..N, a + b < n
        PROVE  Timed(Timed(t, a), b) = Timed(t, a + b)
    <3>1. a + b <= n - 1
      BY <2>1
    <3> QED BY <1>3, <3>1
  <2> QED BY <1>1, <2>1
<1> HIDE DEF P
<1>4. 0..N \subseteq P
  BY <1>2, <1>3, Induction
<1>5. N \in P
  BY <1>4
<1> QED BY <1>5 DEF P

-----------------------------------------------------------------------------
(* The loop of the drive *)

DriveStates == [drive : Fit, left : Nat]
DriveTurn == [s \in DriveStates |-> Turned(s)]

LEMMA FitFields ==
  ASSUME NEW d \in Fit
  PROVE  /\ d \in Drives /\ d.countdown \in Nat /\ d.position \in Nat /\ d.control \in SUBSET Bits
         /\ d.end \in BOOLEAN
         /\ ~ d.end => d.countdown >= 1 /\ d.inserted # Ejected /\ "motor" \in d.control
BY FieldsOf DEF Fit, Seated

LEMMA TurnedTyped ==
  ASSUME NEW s \in DriveStates
  PROVE  /\ Turned(s) \in DriveStates
         /\ Turned(s) = s \/ Turned(s).left < s.left
         /\ Turned(s).left \in Nat
         /\ Turned(s).drive.position >= s.drive.position
<1>1. s.drive \in Fit /\ s.left \in Nat
  BY DEF DriveStates
<1>2. s.drive.countdown \in Nat /\ s.drive.position \in Nat /\ (~ s.drive.end => s.drive.countdown >= 1)
  BY <1>1, FitFields
<1>3. CASE ~ (s.left >= s.drive.countdown /\ ~ s.drive.end)
  <2>1. Turned(s) = s
    BY <1>3 DEF Turned
  <2> QED BY <1>1, <1>2, <2>1
<1>4. CASE s.left >= s.drive.countdown /\ ~ s.drive.end
  <2>1. Turned(s) = [drive |-> Passed(s.drive), left |-> s.left - s.drive.countdown]
    BY <1>4 DEF Turned, Passed
  <2>2. Passed(s.drive) \in Fit /\ Passed(s.drive).position >= s.drive.position
    BY <1>1, <1>4, PassedFits
  <2>3. s.left - s.drive.countdown \in Nat /\ s.left - s.drive.countdown < s.left
    BY <1>1, <1>2, <1>4
  <2> QED BY <2>1, <2>2, <2>3 DEF DriveStates
<1> QED BY <1>3, <1>4

(* What is left of a batch shortens the countdown.                         *)
Waited(d, c) == [d EXCEPT !.countdown = IF @ > c THEN @ - c ELSE 0]

(* Spun is what a loop of turns leaves.                                    *)
DriveRun(f, d, c) ==
  Laps(f, c, DriveStates, [drive |-> d, left |-> c], DriveTurn) /\ Spun(d, c) = Waited(f[c].drive, f[c].left)

LEMMA SpunRuns ==
  ASSUME NEW d \in Fit, NEW c \in Nat
  PROVE  \E f : DriveRun(f, d, c)
<1> DEFINE start == [drive |-> d, left |-> c]
           after[n \in 0..c] == IF n = 0 THEN [drive |-> d, left |-> c] ELSE Turned(after[n - 1])
<1>1. DriveTurn \in [DriveStates -> DriveStates]
  BY TurnedTyped DEF DriveTurn
<1>2. start \in DriveStates
  BY DEF DriveStates
<1>3. PICK f : Laps(f, c, DriveStates, start, DriveTurn)
  <2> HIDE DEF start
  <2> QED BY <1>1, <1>2, LapsExist, Zenon
<1> HIDE DEF start
<1>4. f = [n \in 0..c |-> IF n = 0 THEN start ELSE Turned(f[n - 1])]
  <2>1. ASSUME NEW n \in 1..c PROVE f[n] = Turned(f[n - 1])
    <3>1. n - 1 \in 0..c
      OBVIOUS
    <3>2. f[n - 1] \in DriveStates
      BY <1>3, <3>1 DEF Laps
    <3> QED BY <1>3, <3>2 DEF Laps, DriveTurn
  <2>2. f \in [0..c -> DriveStates] /\ f[0] = start
    BY <1>3 DEF Laps
  <2>3. \A n \in 0..c : f[n] = IF n = 0 THEN start ELSE Turned(f[n - 1])
    BY <2>1, <2>2
  <2> QED BY <2>2, <2>3
<1>5. after = [n \in 0..c |-> IF n = 0 THEN start ELSE Turned(after[n - 1])]
  <2>1. \E g : g = [n \in 0..c |-> IF n = 0 THEN start ELSE Turned(g[n - 1])]
    BY <1>4, Zenon
  <2> QED BY <2>1, Zenon DEF start
<1>6. Spun(d, c) = Waited(after[c].drive, after[c].left)
  BY Zenon DEF Spun, Waited
<1> HIDE DEF after
<1>7. Laps(after, c, DriveStates, start, DriveTurn)
  <2> DEFINE P == {n \in 0..c : after[n] \in DriveStates}
  <2>1. after[0] = start
    BY <1>5
  <2>2. \A n \in 1..c : after[n] = Turned(after[n - 1])
    BY <1>5
  <2>3. 0 \in P
    BY <1>2, <2>1
  <2>4. ASSUME NEW n \in 1..c, n - 1 \in P PROVE n \in P
    BY <2>2, <2>4, TurnedTyped
  <2> HIDE DEF P
  <2>5. 0..c \subseteq P
    BY <2>3, <2>4, Induction
  <2>6. \A n \in 0..c : after[n] \in DriveStates
    BY <2>5 DEF P
  <2>7. ASSUME NEW n \in 1..c PROVE after[n] = DriveTurn[after[n - 1]]
    <3>1. n - 1 \in 0..c
      OBVIOUS
    <3> QED BY <2>2, <2>6, <3>1 DEF DriveTurn
  <2>8. after \in [0..c -> DriveStates]
    BY <1>5, <2>6
  <2> QED BY <2>1, <2>7, <2>8 DEF Laps
<1> QED BY <1>6, <1>7, Zenon DEF DriveRun, start

(* The loop comes to a stand within its cycles.                            *)
LEMMA SpunStands ==
  ASSUME NEW d \in Fit, NEW c \in Nat, NEW f, DriveRun(f, d, c)
  PROVE  DriveTurn[f[c]] = f[c] /\ f[c] \in DriveStates /\ f[c].drive.position >= d.position
<1> DEFINE start == [drive |-> d, left |-> c]
           m == [s \in DriveStates |-> s.left]
           Q == {s \in DriveStates : s.drive.position >= d.position}
<1>1. Laps(f, c, DriveStates, start, DriveTurn)
  BY Zenon DEF DriveRun
<1>2. start \in DriveStates /\ start.left = c /\ start.drive = d
  BY DEF DriveStates
<1> HIDE DEF start
<1>3. DriveTurn \in [DriveStates -> DriveStates]
  BY TurnedTyped DEF DriveTurn
<1>4. m \in [DriveStates -> Nat]
  BY DEF DriveStates
<1>5. m[start] <= c
  BY <1>2
<1>6. \A s \in DriveStates : DriveTurn[s] = s \/ m[DriveTurn[s]] < m[s]
  BY TurnedTyped DEF DriveTurn
<1> HIDE DEF m
<1>7. DriveTurn[f[c]] = f[c]
  <2>1. Falls(m, f, c, DriveStates, start, DriveTurn)
    BY <1>1, <1>3, <1>4, <1>5, <1>6 DEF Falls
  <2> QED BY <2>1, LapsStop
<1>8. start \in Q
  BY <1>2, FitFields
<1>9. \A s \in DriveStates : s \in Q => DriveTurn[s] \in Q
  <2> SUFFICES ASSUME NEW s \in DriveStates, s.drive.position >= d.position
               PROVE  DriveTurn[s] \in DriveStates /\ DriveTurn[s].drive.position >= d.position
    OBVIOUS
  <2>1. DriveTurn[s] = Turned(s) /\ Turned(s) \in DriveStates /\ Turned(s).drive.position >= s.drive.position
    BY TurnedTyped DEF DriveTurn
  <2>2. d.position \in Nat /\ s.drive.position \in Nat /\ Turned(s).drive.position \in Nat
    BY <2>1, FitFields DEF DriveStates
  <2> QED BY <2>1, <2>2
<1> HIDE DEF Q
<1>10. \A n \in 0..c : f[n] \in Q
  BY <1>1, <1>8, <1>9, LapsKeep, Zenon
<1>11. f[c] \in Q
  BY <1>10
<1> QED BY <1>7, <1>11 DEF Q

LEMMA WaitedFits ==
  ASSUME NEW d \in Fit, NEW c \in Nat, ~ (c >= d.countdown /\ ~ d.end)
  PROVE  /\ Waited(d, c) \in Fit /\ Waited(d, c).position = d.position /\ Waited(d, c).end = d.end
         /\ Waited(d, c).control = d.control /\ Waited(d, c).inserted = d.inserted
<1> DEFINE q == IF d.countdown > c THEN d.countdown - c ELSE 0
           e == Waited(d, c)
<1>1. d \in Drives /\ Seated(d) /\ Caused(d) /\ Heard(d) /\ d.countdown \in Nat /\ d.position \in Nat
  BY FitFields DEF Fit
<1>2. q \in Nat /\ q <= SpinUp + Period /\ (~ d.end => q >= 1)
  <2>1. d.countdown <= SpinUp + Period
    BY <1>1 DEF Seated
  <2> QED BY <1>1, <2>1, Sized
<1>3. e = [d EXCEPT !.countdown = q]
  BY DEF Waited
<1> HIDE DEF q, e
<1>4. e \in Drives
  BY <1>1, <1>2, <1>3 DEF Drives
<1>5. Seated(e)
  BY <1>1, <1>2, <1>3 DEF Drives, Seated
<1>6. Caused(e)
  BY <1>1, <1>3 DEF Drives, Caused
<1>7. Heard(e)
  BY <1>1, <1>3 DEF Drives, Heard
<1>8. e.position = d.position /\ e.end = d.end /\ e.control = d.control /\ e.inserted = d.inserted
  BY <1>1, <1>3 DEF Drives
<1> QED BY <1>4, <1>5, <1>6, <1>7, <1>8 DEF Fit, e

(* A batch leaves a drive that fits, and does not move its head back.      *)
LEMMA SpunFits ==
  ASSUME NEW d \in Fit, NEW c \in Nat
  PROVE  Spun(d, c) \in Fit /\ Spun(d, c).position >= d.position
<1>1. PICK f : DriveRun(f, d, c)
  BY SpunRuns, Zenon
<1> DEFINE s == f[c]
<1>2. DriveTurn[s] = s /\ s \in DriveStates /\ s.drive.position >= d.position
  BY <1>1, SpunStands
<1>3. Spun(d, c) = Waited(s.drive, s.left)
  BY <1>1, Zenon DEF DriveRun
<1> HIDE DEF s
<1>4. s.drive \in Fit /\ s.left \in Nat
  BY <1>2 DEF DriveStates
<1>5. ~ (s.left >= s.drive.countdown /\ ~ s.drive.end)
  <2> SUFFICES ASSUME s.left >= s.drive.countdown, ~ s.drive.end PROVE FALSE
    OBVIOUS
  <2>1. Turned(s).left = s.left - s.drive.countdown /\ s.drive.countdown >= 1 /\ s.drive.countdown \in Nat
    BY <1>4, FitFields DEF Turned
  <2>2. Turned(s) = s
    BY <1>2 DEF DriveTurn
  <2> QED BY <1>4, <2>1, <2>2
<1> QED BY <1>2, <1>3, <1>4, <1>5, WaitedFits

LEMMA SpunRests ==
  ASSUME NEW d \in Fit, NEW c \in Nat, ~ (c >= d.countdown /\ ~ d.end)
  PROVE  Spun(d, c) = Waited(d, c)
<1> DEFINE start == [drive |-> d, left |-> c]
<1>1. start \in DriveStates /\ start.drive = d /\ start.left = c
  BY DEF DriveStates
<1>2. PICK f : DriveRun(f, d, c)
  BY SpunRuns, Zenon
<1>3. Laps(f, c, DriveStates, start, DriveTurn) /\ Spun(d, c) = Waited(f[c].drive, f[c].left)
  BY <1>2, Zenon DEF DriveRun
<1> HIDE DEF start
<1>4. DriveTurn[start] = start
  BY <1>1 DEF DriveTurn, Turned
<1>5. f[c] = start
  BY <1>3, <1>4, LapsStay, Zenon
<1> QED BY <1>1, <1>3, <1>5

LEMMA SpunTurns ==
  ASSUME NEW d \in Fit, NEW c \in Nat, c >= d.countdown, ~ d.end
  PROVE  /\ Spun(d, c) = Spun(Passed(d), c - d.countdown)
         /\ c - d.countdown \in Nat /\ c - d.countdown < c /\ Passed(d) \in Fit
<1> DEFINE start == [drive |-> d, left |-> c]
           k == c - d.countdown
           next == [drive |-> Passed(d), left |-> k]
<1>1. k \in Nat /\ k \in 0..c - 1 /\ k < c
  BY FitFields
<1>2. Passed(d) \in Fit
  BY PassedFits
<1>3. start \in DriveStates /\ start.drive = d /\ start.left = c
  BY DEF DriveStates
<1>4. DriveTurn[start] = next
  BY <1>3 DEF DriveTurn, Turned, Passed
<1> HIDE DEF k
<1>5. PICK f : DriveRun(f, d, c)
  BY SpunRuns, Zenon
<1>6. PICK g : DriveRun(g, Passed(d), k)
  BY <1>1, <1>2, SpunRuns, Zenon
<1>7. DriveTurn[g[k]] = g[k]
  BY <1>1, <1>2, <1>6, SpunStands
<1>8. /\ Laps(f, c, DriveStates, start, DriveTurn) /\ Spun(d, c) = Waited(f[c].drive, f[c].left)
      /\ Laps(g, k, DriveStates, next, DriveTurn) /\ Spun(Passed(d), k) = Waited(g[k].drive, g[k].left)
  BY <1>5, <1>6, Zenon DEF DriveRun
<1> HIDE DEF start, next
<1>9. Laps(g, k, DriveStates, DriveTurn[start], DriveTurn)
  BY <1>4, <1>8
<1>10. f[c] = g[k]
  <2>1. Unrolls(f, c, g, k, DriveStates, start, DriveTurn)
    BY <1>1, <1>7, <1>8, <1>9 DEF Unrolls
  <2> QED BY <2>1, LapsUnroll
<1> QED BY <1>1, <1>2, <1>8, <1>10 DEF k

(* The bytes do not see how long they were waited for.                     *)
Late(d, x) == [d EXCEPT !.countdown = x]

LEMMA LateTyped ==
  ASSUME NEW d \in Drives, NEW x \in Nat
  PROVE  /\ Late(d, x) \in Drives /\ Late(d, x).inserted = d.inserted /\ Late(d, x).position = d.position
         /\ Late(d, x).control = d.control /\ Late(d, x).crc = d.crc /\ Late(d, x).crcSeen = d.crcSeen
         /\ Late(d, x).crcError = d.crcError /\ Late(d, x).rose = d.rose /\ Late(d, x).end = d.end
         /\ Late(d, x).previousCrc = d.previousCrc /\ Late(d, x).inBlock = d.inBlock /\ Late(d, x).irq = d.irq
         /\ \A y \in Nat : Late(Late(d, x), y) = Late(d, y)
<1>1. Late(d, x) \in Drives
  BY DEF Late, Drives
<1>2. /\ Late(d, x).inserted = d.inserted /\ Late(d, x).position = d.position
      /\ Late(d, x).control = d.control /\ Late(d, x).crc = d.crc /\ Late(d, x).crcSeen = d.crcSeen
      /\ Late(d, x).crcError = d.crcError /\ Late(d, x).rose = d.rose /\ Late(d, x).end = d.end
      /\ Late(d, x).previousCrc = d.previousCrc /\ Late(d, x).inBlock = d.inBlock /\ Late(d, x).irq = d.irq
  BY DEF Late, Drives
<1>3. \A y \in Nat : Late(Late(d, x), y) = Late(d, y)
  BY DEF Late, Drives
<1> QED BY <1>1, <1>2, <1>3

LEMMA GatheredLate ==
  ASSUME NEW d \in Drives, NEW x \in Nat, NEW cell
  PROVE  Gathered(d, cell) \in Drives /\ Gathered(Late(d, x), cell) = Late(Gathered(d, cell), x)
<1> DEFINE sync == ~ d.inBlock /\ cell # "zero"
           e == Late(d, x)
           ask == d.irq \/ (~ sync /\ "irq" \in d.control)
<1>1. e \in Drives /\ e.position = d.position /\ e.control = d.control /\ e.inBlock = d.inBlock /\ e.crc = d.crc
      /\ e.irq = d.irq
  BY LateTyped
<1>2. CASE "start" \notin d.control
  <2>1. Gathered(d, cell) = Rearmed(d) /\ Gathered(e, cell) = Rearmed(e)
    BY <1>1, <1>2 DEF Gathered
  <2>2. Rearmed(e) = Late(Rearmed(d), x)
    BY DEF Rearmed, Late, Drives
  <2> QED BY <2>1, <2>2, RearmedTyped
<1>3. CASE "start" \in d.control /\ (d.inBlock \/ sync)
  <2>1. Gathered(d, cell) = [d EXCEPT !.inBlock = TRUE, !.crc = @ \cup {d.position}, !.data = d.position,
                                      !.ready = ~ sync, !.irq = @ \/ (~ sync /\ "irq" \in d.control)]
    BY <1>3 DEF Gathered
  <2>2. Gathered(e, cell) = [e EXCEPT !.inBlock = TRUE, !.crc = @ \cup {d.position}, !.data = d.position,
                                      !.ready = ~ sync, !.irq = @ \/ (~ sync /\ "irq" \in d.control)]
    BY <1>1, <1>3 DEF Gathered
  <2>3. PICK a \in BOOLEAN, b \in BOOLEAN : a = (~ sync) /\ b = ask
    OBVIOUS
  <2>4. Gathered(d, cell) = [d EXCEPT !.inBlock = TRUE, !.crc = d.crc \cup {d.position}, !.data = d.position,
                                      !.ready = a, !.irq = b]
    BY <2>1, <2>3
  <2>5. Gathered(e, cell) = [e EXCEPT !.inBlock = TRUE, !.crc = d.crc \cup {d.position}, !.data = d.position,
                                      !.ready = a, !.irq = b]
    BY <1>1, <2>2, <2>3
  <2>6. d.position \in Nat /\ d.crc \cup {d.position} \in SUBSET Nat
    BY FieldsOf
  <2> HIDE DEF e, sync, ask
  <2>7. Gathered(d, cell) \in Drives
    <3> DEFINE cells == d.crc \cup {d.position}
    <3>1. cells \in SUBSET Nat /\ d.position \in Nat
      BY <2>6
    <3>2. Gathered(d, cell) = [d EXCEPT !.inBlock = TRUE, !.crc = cells, !.data = d.position, !.ready = a, !.irq = b]
      BY <2>4
    <3> HIDE DEF cells
    <3>3. a \in BOOLEAN /\ b \in BOOLEAN
      BY <2>3
    <3>4. [d EXCEPT !.inBlock = TRUE, !.crc = cells, !.data = d.position, !.ready = a, !.irq = b] \in Drives
      BY <3>1, <3>3, SetByte
    <3> QED BY <3>2, <3>4, Zenon
  <2>8. Gathered(e, cell) = Late(Gathered(d, cell), x)
    BY <2>4, <2>5 DEF e, Late, Drives
  <2> QED BY <2>7, <2>8 DEF e
<1>4. CASE "start" \in d.control /\ ~ (d.inBlock \/ sync)
  <2>1. Gathered(d, cell) = d /\ Gathered(e, cell) = e
    BY <1>1, <1>4 DEF Gathered
  <2> QED BY <2>1
<1> QED BY <1>2, <1>3, <1>4

LEMMA JudgedLate ==
  ASSUME NEW d \in Drives, NEW x \in Nat
  PROVE  Judged(Late(d, x)) = Late(Judged(d), x)
<1> DEFINE e == Late(d, x)
           seen == SeenAfter(d)
           error == ErrorAfter(d)
           rose == RoseAfter(d)
           phase == Phase(d)
<1>1. /\ e \in Drives /\ e.inserted = d.inserted /\ e.position = d.position /\ e.control = d.control /\ e.crc = d.crc
      /\ e.crcSeen = d.crcSeen /\ e.crcError = d.crcError /\ e.rose = d.rose /\ e.previousCrc = d.previousCrc
  BY LateTyped
<1>2. Phase(e) = phase /\ Rises(e) = Rises(d)
  BY <1>1 DEF Phase, Rises
<1>3. SeenAfter(e) = seen /\ RoseAfter(e) = rose
  BY <1>1, <1>2 DEF SeenAfter, RoseAfter
<1>4. ErrorAfter(e) = error
  BY <1>1, <1>2, Zenon DEF ErrorAfter
<1>5. Judged(d) = [d EXCEPT !.crcSeen = seen, !.crcError = error, !.rose = rose, !.previousCrc = phase]
  BY JudgedIs
<1>6. Judged(e) = [e EXCEPT !.crcSeen = SeenAfter(e), !.crcError = ErrorAfter(e), !.rose = RoseAfter(e),
                            !.previousCrc = Phase(e)]
  BY <1>1, JudgedIs
<1>7. Judged(e) = [e EXCEPT !.crcSeen = seen, !.crcError = error, !.rose = rose, !.previousCrc = phase]
  BY <1>2, <1>3, <1>4, <1>6
<1> HIDE DEF e, seen, error, rose, phase
<1>8. Judged(e) = Late(Judged(d), x)
  BY <1>5, <1>7 DEF e, Late, Drives
<1> QED BY <1>8 DEF e

LEMMA TransferLate ==
  ASSUME NEW d \in Drives, NEW x \in Nat
  PROVE  Transfer(Late(d, x)) = Late(Transfer(d), x)
<1> DEFINE e == Late(d, x)
           moved == [d EXCEPT !.position = @ + 1]
           far == [e EXCEPT !.position = @ + 1]
<1>1. e \in Drives /\ e.inserted = d.inserted /\ e.position = d.position /\ e.control = d.control
  BY LateTyped
<1>2. moved \in Drives /\ far = Late(moved, x) /\ moved.position = d.position + 1 /\ far.position = d.position + 1
  <2>1. d.position \in Nat
    BY FieldsOf
  <2>2. moved \in Drives /\ moved.position = d.position + 1
    BY <2>1 DEF Drives
  <2>3. far = Late(moved, x)
    BY DEF Late, Drives
  <2> HIDE DEF moved, far
  <2> QED BY <2>2, <2>3, LateTyped
<1>3. CASE d.position >= Len(Sides[d.inserted])
  <2>1. Transfer(d) = PassedEnd(d) /\ Transfer(e) = PassedEnd(e)
    BY <1>1, <1>3 DEF Transfer
  <2>2. PassedEnd(e) = Late(PassedEnd(d), x)
    BY DEF PassedEnd, Late, Drives
  <2> QED BY <2>1, <2>2
<1>4. CASE ~ (d.position >= Len(Sides[d.inserted])) /\ "read" \notin d.control
  <2>1. Transfer(d) = moved /\ Transfer(e) = far
    BY <1>1, <1>4 DEF Transfer
  <2> QED BY <1>2, <2>1
<1>5. CASE ~ (d.position >= Len(Sides[d.inserted])) /\ "read" \in d.control
  <2> DEFINE cell == Sides[d.inserted][moved.position]
  <2>1. Transfer(d) = Judged(Gathered(moved, cell))
    BY <1>5 DEF Transfer
  <2>2. Transfer(e) = Judged(Gathered(far, Sides[e.inserted][far.position]))
    BY <1>1, <1>5 DEF Transfer
  <2>3. Sides[e.inserted][far.position] = cell
    BY <1>1, <1>2
  <2> HIDE DEF cell, moved, far
  <2>4. Gathered(far, cell) = Late(Gathered(moved, cell), x) /\ Gathered(moved, cell) \in Drives
    BY <1>2, GatheredLate
  <2>5. Judged(Late(Gathered(moved, cell), x)) = Late(Judged(Gathered(moved, cell)), x)
    BY <2>4, JudgedLate
  <2> QED BY <2>1, <2>2, <2>3, <2>4, <2>5
<1> QED BY <1>3, <1>4, <1>5

LEMMA PassedLate ==
  ASSUME NEW d \in Fit, NEW x \in Nat, ~ d.end
  PROVE  Passed(Late(d, x)) = Passed(d)
<1> DEFINE e == [d EXCEPT !.scanning = TRUE]
           f == Transfer(e)
<1>1. d \in Drives
  BY DEF Fit
<1>2. e \in Drives /\ [Late(d, x) EXCEPT !.scanning = TRUE] = Late(e, x)
  BY <1>1 DEF Late, Drives
<1>3. Passed(Late(d, x)) = Late(Transfer(Late(e, x)), Period)
  BY <1>2 DEF Passed, Late
<1>4. Passed(d) = Late(f, Period)
  BY DEF Passed, Late
<1> HIDE DEF e
<1>5. Transfer(Late(e, x)) = Late(f, x)
  BY <1>2, TransferLate
<1>6. Late(Late(f, x), Period) = Late(f, Period)
  <2>1. Late(f, Period) \in Drives
    BY <1>4, PassedFits, FitFields
  <2> HIDE DEF f
  <2> QED BY <2>1, Sized DEF Late, Drives
<1> QED BY <1>3, <1>4, <1>5, <1>6

(* A batch in two pieces: the rest of the disk's bytes follow the first, or *)
(* the disk has come to its end.                                           *)
Pieces(d, a, b) ==
  IF Spun(d, a).end THEN Apparent(Spun(d, a)) = Apparent(Spun(d, a + b))
  ELSE Spun(Spun(d, a), b) = Spun(d, a + b)

LEMMA WaitedIsLate ==
  ASSUME NEW d \in Drives, NEW c \in Nat, c < d.countdown
  PROVE  Waited(d, c) = Late(d, d.countdown - c)
BY DEF Waited, Late, Drives

LEMMA WaitedAtEnd ==
  ASSUME NEW d \in Drives, NEW c \in Nat, NEW k \in Nat, d.end
  PROVE  Waited(d, c).end /\ Apparent(Waited(d, c)) = Apparent(Waited(d, k))
<1>1. ASSUME NEW n \in Nat PROVE Waited(d, n).end = d.end /\ Apparent(Waited(d, n)) = Late(d, 0)
  <2> DEFINE q == IF d.countdown > n THEN d.countdown - n ELSE 0
             e == Waited(d, n)
  <2>1. e = Late(d, q) /\ q \in Nat
    BY FieldsOf DEF Waited, Late
  <2> HIDE DEF e, q
  <2>2. e.end = d.end /\ e \in Drives
    BY <2>1, LateTyped
  <2>3. Apparent(e) = Late(e, 0)
    BY <2>2 DEF Apparent, Late
  <2>4. Late(e, 0) = Late(d, 0)
    BY <2>1, LateTyped
  <2> QED BY <2>2, <2>3, <2>4 DEF e
<1> QED BY <1>1

LEMMA SpunInPieces ==
  ASSUME NEW N \in Nat
  PROVE  \A d \in Fit, a \in 0..N, b \in 0..N : a + b <= N => Pieces(d, a, b)
<1> DEFINE P == {n \in 0..N : \A d \in Fit, a \in 0..N, b \in 0..N : a + b <= n => Pieces(d, a, b)}
<1>1. ASSUME NEW n \in 0..N,
             \A d \in Fit, a \in 0..N, b \in 0..N : a + b < n => Pieces(d, a, b),
             NEW d \in Fit, NEW a \in 0..N, NEW b \in 0..N, a + b <= n
      PROVE  Pieces(d, a, b)
  <2>1. /\ d \in Drives /\ d.countdown \in Nat /\ d.end \in BOOLEAN /\ (~ d.end => d.countdown >= 1)
        /\ a + b \in Nat /\ a \in Nat /\ b \in Nat
    BY FitFields
  <2>2. CASE d.end
    <3>1. Spun(d, a) = Waited(d, a) /\ Spun(d, a + b) = Waited(d, a + b)
      BY <2>1, <2>2, SpunRests
    <3> QED BY <2>1, <2>2, <3>1, WaitedAtEnd DEF Pieces
  <2>3. CASE ~ d.end /\ a < d.countdown
    <3> DEFINE x == d.countdown - a
               e == Late(d, x)
    <3>1. Spun(d, a) = Waited(d, a) /\ Waited(d, a) = e
      BY <2>1, <2>3, SpunRests, WaitedIsLate
    <3>2. x \in Nat /\ x >= 1
      BY <2>1, <2>3
    <3>3. e \in Fit
      BY <2>1, <2>3, <3>1, WaitedFits
    <3>4. ~ e.end /\ e.countdown = x
      <4>1. e.end = d.end
        BY <2>1, <3>2, LateTyped
      <4>2. e.countdown = x
        BY <2>1 DEF Late, Drives
      <4> QED BY <2>3, <4>1, <4>2
    <3> HIDE DEF x, e
    <3>5. CASE b < x
      <4>1. Spun(e, b) = Waited(e, b) /\ Waited(e, b) = Late(e, x - b)
        BY <2>1, <3>2, <3>3, <3>4, <3>5, SpunRests, WaitedIsLate, FitFields
      <4>2. a + b < d.countdown /\ d.countdown - (a + b) = x - b /\ x - b \in Nat
        BY <2>1, <3>2, <3>5 DEF x
      <4>3. Spun(d, a + b) = Waited(d, a + b) /\ Waited(d, a + b) = Late(d, x - b)
        BY <2>1, <4>2, SpunRests, WaitedIsLate
      <4>4. Late(e, x - b) = Late(d, x - b)
        BY <2>1, <3>2, <4>2, LateTyped DEF e
      <4>5. Spun(d, a) = e
        BY <3>1
      <4> QED BY <3>4, <4>1, <4>3, <4>4, <4>5 DEF Pieces
    <3>6. CASE b >= x
      <4>1. Spun(e, b) = Spun(Passed(e), b - x)
        BY <2>1, <3>3, <3>4, <3>6, SpunTurns
      <4>2. Passed(e) = Passed(d)
        BY <2>3, <3>2, PassedLate DEF e
      <4>3. a + b >= d.countdown /\ a + b - d.countdown = b - x
        BY <2>1, <3>2, <3>6 DEF x
      <4>4. Spun(d, a + b) = Spun(Passed(d), b - x)
        BY <2>1, <2>3, <4>3, SpunTurns
      <4>5. Spun(d, a) = e
        BY <3>1
      <4> QED BY <3>4, <4>1, <4>2, <4>4, <4>5 DEF Pieces
    <3> QED BY <2>1, <3>2, <3>5, <3>6
  <2>4. CASE ~ d.end /\ a >= d.countdown
    <3> DEFINE k == a - d.countdown
               e == Passed(d)
    <3>1. Spun(d, a) = Spun(e, k) /\ k \in Nat /\ k < a /\ e \in Fit
      BY <2>1, <2>4, SpunTurns
    <3>2. a + b >= d.countdown /\ a + b - d.countdown = k + b
      BY <2>1, <2>4
    <3>3. Spun(d, a + b) = Spun(e, k + b)
      BY <2>1, <2>4, <3>2, SpunTurns
    <3> HIDE DEF k, e
    <3>4. k + b < a + b /\ a + b <= n
      BY <1>1, <2>1, <3>1
    <3>5. k + b < n
      BY <2>1, <3>1, <3>4
    <3>6. k \in 0..N
      BY <2>1, <3>1
    <3>7. Pieces(e, k, b)
      BY <1>1, <3>1, <3>5, <3>6
    <3> QED BY <3>1, <3>3, <3>7 DEF Pieces
  <2> QED BY <2>1, <2>2, <2>3, <2>4
<1>2. 0 \in P
  <2>1. ASSUME NEW d \in Fit, NEW a \in 0..N, NEW b \in 0..N, a + b < 0 PROVE FALSE
    BY <2>1
  <2> QED BY <1>1, <2>1
<1>3. ASSUME NEW n \in 1..N, n - 1 \in P PROVE n \in P
  <2>1. ASSUME NEW d \in Fit, NEW a \in 0..N, NEW b \in 0..N, a + b < n PROVE Pieces(d, a, b)
    <3>1. a + b <= n - 1
      BY <2>1
    <3> QED BY <1>3, <3>1
  <2>2. n \in 0..N
    OBVIOUS
  <2>3. \A d \in Fit, a \in 0..N, b \in 0..N : a + b <= n => Pieces(d, a, b)
    BY <1>1, <2>1, <2>2, Zenon
  <2> QED BY <2>2, <2>3
<1> HIDE DEF P
<1>4. 0..N \subseteq P
  BY <1>2, <1>3, Induction
<1>5. N \in P
  BY <1>4
<1> QED BY <1>5 DEF P

(* The end of the media stops the motor.                                   *)
LEMMA PassedStops ==
  ASSUME NEW d \in Fit, ~ d.end, Passed(d).end
  PROVE  "motor" \notin Passed(d).control
<1> DEFINE e == [d EXCEPT !.scanning = TRUE]
           f == Transfer(e)
<1>1. d \in Drives /\ e \in Drives /\ ~ e.end
  BY DEF Fit, Drives
<1>2. Passed(d) = Late(f, Period)
  BY DEF Passed, Late
<1> HIDE DEF e
<1>3. CASE e.position >= Len(Sides[e.inserted])
  <2>1. f = PassedEnd(e)
    BY <1>3 DEF Transfer
  <2> HIDE DEF f
  <2>2. Passed(d).control = e.control \ {"motor"}
    BY <1>1, <1>2, <2>1 DEF PassedEnd, Late, Drives
  <2> QED BY <2>2
<1>4. CASE ~ (e.position >= Len(Sides[e.inserted]))
  <2> DEFINE moved == [e EXCEPT !.position = @ + 1]
  <2>1. moved \in Drives /\ ~ moved.end
    <3>1. e.position + 1 \in Nat
      BY <1>1, FieldsOf
    <3> QED BY <1>1, <3>1 DEF Drives
  <2>2. f = IF "read" \notin e.control THEN moved ELSE Judged(Gathered(moved, Sides[e.inserted][moved.position]))
    BY <1>4 DEF Transfer
  <2> HIDE DEF moved, f
  <2>3. ~ Gathered(moved, Sides[e.inserted][moved.position]).end
    BY <2>1 DEF Gathered, Rearmed, Drives
  <2> DEFINE g == Gathered(moved, Sides[e.inserted][moved.position])
  <2>4. g \in Drives
    BY <2>1, GatheredLate
  <2> HIDE DEF g
  <2>5. ~ f.end
    BY <2>1, <2>2, <2>3, <2>4, JudgedIs DEF g, Drives
  <2>6. Passed(d).end = f.end
    BY <1>2, FitFields, PassedFits DEF Late, Drives
  <2> QED BY <2>5, <2>6
<1> QED BY <1>3, <1>4

LEMMA SpunStops ==
  ASSUME NEW d \in Fit, NEW c \in Nat, ~ d.end, Spun(d, c).end
  PROVE  "motor" \notin Spun(d, c).control
<1> DEFINE start == [drive |-> d, left |-> c]
           Q == {s \in DriveStates : s.drive.end => "motor" \notin s.drive.control}
<1>1. PICK f : DriveRun(f, d, c)
  BY SpunRuns, Zenon
<1>2. Laps(f, c, DriveStates, start, DriveTurn) /\ Spun(d, c) = Waited(f[c].drive, f[c].left)
  BY <1>1, Zenon DEF DriveRun
<1>3. start \in Q
  BY DEF DriveStates
<1> HIDE DEF start
<1>4. \A s \in DriveStates : s \in Q => DriveTurn[s] \in Q
  <2> SUFFICES ASSUME NEW s \in DriveStates, s.drive.end => "motor" \notin s.drive.control
               PROVE  Turned(s) \in DriveStates /\ (Turned(s).drive.end => "motor" \notin Turned(s).drive.control)
    BY DEF DriveTurn
  <2>1. CASE s.left >= s.drive.countdown /\ ~ s.drive.end
    <3>1. Turned(s).drive = Passed(s.drive)
      BY <2>1 DEF Turned, Passed
    <3>2. s.drive \in Fit
      BY DEF DriveStates
    <3> QED BY <2>1, <3>1, <3>2, PassedStops, TurnedTyped
  <2>2. CASE ~ (s.left >= s.drive.countdown /\ ~ s.drive.end)
    BY <2>2 DEF Turned
  <2> QED BY <2>1, <2>2
<1> HIDE DEF Q
<1>5. \A n \in 0..c : f[n] \in Q
  <2>1. Laps(f, c, DriveStates, start, DriveTurn)
    BY <1>2
  <2> QED BY <1>3, <1>4, <2>1, LapsKeep, SMTT(30)
<1>6. f[c] \in Q
  BY <1>5
<1> DEFINE e == f[c].drive
           k == f[c].left
<1>7. e \in Drives /\ k \in Nat /\ (e.end => "motor" \notin e.control)
  BY <1>6, FitFields DEF Q, DriveStates
<1>8. Spun(d, c) = Waited(e, k)
  BY <1>2
<1> HIDE DEF e, k
<1>9. Waited(e, k).end = e.end /\ Waited(e, k).control = e.control
  BY <1>7 DEF Waited, Drives
<1> QED BY <1>7, <1>8, <1>9

-----------------------------------------------------------------------------
(* A batch *)

Halted(d) == d.inserted = Ejected \/ "motor" \notin d.control \/ (d.end /\ "reset" \in d.control)
Started(d) == IF d.end THEN Rewound(d) ELSE d

LEMMA ClockIs ==
  ASSUME NEW d \in Fit, NEW c \in Nat
  PROVE  /\ Halted(d) => Clock(d, c) = d
         /\ ~ Halted(d) => /\ Started(d) \in Fit /\ ~ Started(d).end
                           /\ Clock(d, c) = Spun(Started(d), c)
<1>1. Halted(d) => Clock(d, c) = d
  BY DEF Halted, Clock
<1>2. ASSUME ~ Halted(d)
      PROVE  Started(d) \in Fit /\ ~ Started(d).end /\ Clock(d, c) = Spun(Started(d), c)
  <2>1. d.inserted # Ejected /\ "motor" \in d.control
    BY <1>2 DEF Halted
  <2>2. Clock(d, c) = Spun(Started(d), c)
    BY <1>2, Zenon DEF Halted, Clock, Started
  <2>3. CASE d.end
    <3>1. Started(d) = Rewound(d) /\ Rewound(d) \in Fit
      BY <2>1, <2>3, RewoundFits DEF Started
    <3>2. ~ Rewound(d).end
      BY FitFields DEF Rewound, Rearmed, Drives
    <3> QED BY <2>2, <3>1, <3>2
  <2>4. CASE ~ d.end
    BY <2>2, <2>4 DEF Started
  <2> QED BY <2>3, <2>4
<1> QED BY <1>1, <1>2

LEMMA ClockFits ==
  ASSUME NEW d \in Fit, NEW c \in Nat
  PROVE  Clock(d, c) \in Fit /\ (d.end \/ Clock(d, c).position >= d.position)
<1>1. CASE Halted(d)
  BY <1>1, ClockIs, FitFields
<1>2. CASE ~ Halted(d)
  <2>1. Clock(d, c) = Spun(Started(d), c) /\ Started(d) \in Fit
    BY <1>2, ClockIs
  <2>2. Spun(Started(d), c) \in Fit /\ Spun(Started(d), c).position >= Started(d).position
    BY <2>1, SpunFits
  <2>3. ~ d.end => Started(d) = d
    BY DEF Started
  <2> QED BY <2>1, <2>2, <2>3
<1> QED BY <1>1, <1>2

LEMMA ClockInPieces ==
  ASSUME NEW d \in Fit, NEW a \in Nat, NEW b \in Nat
  PROVE  Apparent(Clock(Clock(d, a), b)) = Apparent(Clock(d, a + b))
<1>0. a + b \in Nat
  OBVIOUS
<1>1. CASE Halted(d)
  <2>1. Clock(d, a) = d /\ Clock(d, b) = d /\ Clock(d, a + b) = d
    BY <1>0, <1>1, ClockIs
  <2> QED BY <2>1
<1>2. CASE ~ Halted(d)
  <2> DEFINE e == Started(d)
             f == Spun(e, a)
  <2>1. e \in Fit /\ ~ e.end /\ Clock(d, a) = f /\ Clock(d, a + b) = Spun(e, a + b)
    BY <1>0, <1>2, ClockIs
  <2> HIDE DEF e
  <2>2. Pieces(e, a, b)
    <3>1. a \in 0..a + b /\ b \in 0..a + b /\ a + b <= a + b
      OBVIOUS
    <3> QED BY <1>0, <2>1, <3>1, SpunInPieces, Zenon
  <2>3. f \in Fit
    BY <2>1, SpunFits
  <2>4. CASE f.end
    <3>1. "motor" \notin f.control
      BY <2>1, <2>4, SpunStops
    <3>2. Clock(f, b) = f
      BY <3>1 DEF Clock
    <3>3. Apparent(f) = Apparent(Spun(e, a + b))
      BY <2>2, <2>4, Zenon DEF Pieces
    <3> HIDE DEF f
    <3> QED BY <2>1, <3>2, <3>3
  <2>5. CASE ~ f.end
    <3>1. Spun(f, b) = Spun(e, a + b)
      BY <2>2, <2>5, Zenon DEF Pieces
    <3> HIDE DEF f
    <3>2. ~ Halted(f) /\ Started(f) = f
      BY <2>3, <2>5, FitFields DEF Halted, Started
    <3>3. Clock(f, b) = Spun(f, b)
      BY <2>3, <3>2, ClockIs
    <3> QED BY <2>1, <3>1, <3>3
  <2> QED BY <2>4, <2>5
<1> QED BY <1>1, <1>2

LEMMA TimedTyped ==
  ASSUME NEW t \in Timers, NEW c \in Nat
  PROVE  Timed(t, c) \in Timers
<1>1. PICK f : TimerRun(f, t, c)
  BY TimedRuns, Zenon
<1>2. f \in [0..c -> TimerStates] /\ Timed(t, c) = f[c].timer
  BY <1>1 DEF TimerRun, Laps
<1>3. f[c] \in TimerStates
  BY <1>2
<1> QED BY <1>2, <1>3 DEF TimerStates

-----------------------------------------------------------------------------
(* The invariant *)

(* A closed gate silences both sources.                                    *)
Gated == ~ master => ~ timer.enabled /\ ~ timer.pending /\ ~ drive.irq /\ ~ drive.ready
FdsInv == drive \in Fit /\ timer \in Timers /\ master \in BOOLEAN /\ Gated

LEMMA FdsStep ==
  ASSUME FdsInv, [Next]_vars
  PROVE  FdsInv' /\ (drive'.position >= drive.position \/ drive.end \/ drive'.end)
<1>1. drive \in Fit /\ timer \in Timers /\ master \in BOOLEAN /\ Gated
  BY DEF FdsInv
<1>2. drive \in Drives /\ drive.position \in Nat
  BY <1>1, FitFields
<1>3. timer.reload \in Words /\ timer.counter \in Words /\ timer.enabled \in BOOLEAN /\ timer.repeat \in BOOLEAN
      /\ timer.pending \in BOOLEAN
  BY <1>1 DEF Timers
<1>4. CASE ReadStatus
  <2>1. drive' \in Fit /\ drive'.position = drive.position
    BY <1>1, <1>2, <1>4, QuietFits DEF ReadStatus, Quiet, Drives
  <2>2. timer' \in Timers
    BY <1>1, <1>4 DEF ReadStatus, Timers
  <2> QED BY <1>1, <1>2, <1>4, <2>1, <2>2 DEF ReadStatus, FdsInv, Gated
<1>5. CASE ReadByte
  <2>1. drive' \in Fit /\ drive'.position = drive.position
    BY <1>1, <1>2, <1>5, QuietFits DEF ReadByte, ReadData, Drives
  <2> QED BY <1>1, <1>2, <1>5, <2>1 DEF ReadByte, FdsInv, Gated
<1>6. CASE WriteReload
  <2>1. PICK value \in Reloads : timer' = [timer EXCEPT !.reload = value]
    BY <1>6 DEF WriteReload
  <2>2. value \in Words
    BY Sized
  <2>3. timer' \in Timers /\ timer'.enabled = timer.enabled /\ timer'.pending = timer.pending
    BY <1>1, <2>1, <2>2 DEF Timers
  <2> QED BY <1>1, <1>2, <1>6, <2>3 DEF WriteReload, FdsInv, Gated
<1>7. CASE WriteTimer
  <2>1. PICK on \in BOOLEAN, repeat \in BOOLEAN :
          timer' = IF on /\ master
                   THEN [timer EXCEPT !.enabled = TRUE, !.repeat = repeat, !.counter = timer.reload]
                   ELSE [timer EXCEPT !.enabled = FALSE, !.repeat = repeat, !.pending = FALSE]
    BY <1>7 DEF WriteTimer
  <2>2. timer' \in Timers
    <3>1. [timer EXCEPT !.enabled = TRUE, !.repeat = repeat, !.counter = timer.reload] \in Timers
      BY <1>1, <1>3 DEF Timers
    <3>2. [timer EXCEPT !.enabled = FALSE, !.repeat = repeat, !.pending = FALSE] \in Timers
      BY <1>1 DEF Timers
    <3> QED BY <2>1, <3>1, <3>2
  <2>3. ~ master => ~ timer'.enabled /\ ~ timer'.pending
    BY <1>1, <2>1 DEF Timers
  <2> QED BY <1>1, <1>2, <1>7, <2>2, <2>3 DEF WriteTimer, FdsInv, Gated
<1>8. CASE WriteMaster
  <2>1. CASE master'
    BY <1>1, <1>2, <1>8, <2>1 DEF WriteMaster, FdsInv, Gated
  <2>2. CASE ~ master'
    <3>1. drive' = Quiet(drive) /\ timer' = [timer EXCEPT !.enabled = FALSE, !.pending = FALSE] /\ master' \in BOOLEAN
      BY <1>8, <2>2 DEF WriteMaster
    <3>2. drive' \in Fit
      BY <1>1, <3>1, QuietFits
    <3>3. drive'.position = drive.position /\ ~ drive'.irq /\ ~ drive'.ready
      BY <1>2, <3>1 DEF Quiet, Drives
    <3>4. timer' \in Timers /\ ~ timer'.enabled /\ ~ timer'.pending
      BY <1>1, <3>1 DEF Timers
    <3> QED BY <1>2, <3>1, <3>2, <3>3, <3>4 DEF FdsInv, Gated
  <2> QED BY <2>1, <2>2
<1>9. CASE WriteByte
  <2>1. drive' \in Fit /\ drive'.position = drive.position
    BY <1>1, <1>2, <1>9, QuietFits DEF WriteByte, Quiet, Drives
  <2> QED BY <1>1, <1>2, <1>9, <2>1 DEF WriteByte, FdsInv, Gated
<1>10. CASE WriteControl
  <2>1. PICK value \in Controls : drive' = SetControl(drive, value)
    BY <1>10 DEF WriteControl
  <2>2. value \in SUBSET Bits
    BY Sized
  <2>3. drive' \in Fit
    BY <1>1, <2>1, <2>2, SetControlFits
  <2>4. drive'.position = drive.position
    BY <1>2, <2>1 DEF SetControl, Rearmed, Drives
  <2> QED BY <1>1, <1>2, <1>10, <2>3, <2>4 DEF WriteControl, FdsInv, Gated
<1>11. CASE ChangeSide
  <2>1. PICK side \in DOMAIN Sides \cup {Ejected} : drive' = Insert(drive, side)
    BY <1>11 DEF ChangeSide
  <2>2. drive' \in Fit
    BY <1>1, <2>1, InsertFits
  <2>3. drive'.end /\ ~ drive'.irq /\ ~ drive'.ready
    BY <1>2, <2>1 DEF Insert, Drives
  <2> QED BY <1>1, <1>11, <2>2, <2>3 DEF ChangeSide, FdsInv, Gated
<1>12. CASE ClockCpu
  <2>1. PICK cycles \in Batches : timer' = Timed(timer, cycles) /\ drive' = Driven(drive, cycles)
    BY <1>12 DEF ClockCpu
  <2>2. cycles \in Nat /\ master' = master
    BY <1>12, Sized DEF ClockCpu
  <2>3. timer' \in Timers
    BY <1>1, <2>1, <2>2, TimedTyped
  <2>4. CASE master
    <3>1. drive' = Clock(drive, cycles)
      BY <2>1, <2>4 DEF Driven
    <3>2. drive' \in Fit /\ (drive.end \/ drive'.position >= drive.position)
      BY <1>1, <2>2, <3>1, ClockFits
    <3> QED BY <1>1, <2>2, <2>3, <2>4, <3>2 DEF FdsInv, Gated
  <2>5. CASE ~ master
    <3>1. drive' = drive
      BY <2>1, <2>5 DEF Driven
    <3>2. timer' = timer
      BY <1>1, <2>1, <2>2, <2>5, TimedStays DEF Gated
    <3> QED BY <1>1, <1>2, <2>2, <3>1, <3>2 DEF FdsInv, Gated
  <2> QED BY <2>4, <2>5
<1>13. CASE UNCHANGED vars
  BY <1>1, <1>2, <1>13 DEF vars, FdsInv, Gated
<1> QED BY <1>4, <1>5, <1>6, <1>7, <1>8, <1>9, <1>10, <1>11, <1>12, <1>13 DEF Next

(* The drive fits its side, its requests and its verdicts, and a closed     *)
(* gate is silent.                                                         *)
THEOREM FdsInductive == Spec => []FdsInv
<1>1. Init => FdsInv
  <2> SUFFICES ASSUME Init PROVE FdsInv
    OBVIOUS
  <2>1. 0 \in Words
    BY DEF Words
  <2>2. timer \in Timers
    BY <2>1 DEF Init, Timers
  <2> QED BY <2>2, DefaultFits DEF Init, FdsInv, Gated
<1> QED BY <1>1, FdsStep, PTL DEF Spec

(* The head is on its side, counters keep their widths, and the countdown  *)
(* never passes the spin-up and a byte.                                    *)
THEOREM FdsTypes == Spec => []TypeOK
<1>1. FdsInv => TypeOK
  <2> SUFFICES ASSUME FdsInv PROVE TypeOK
    OBVIOUS
  <2>1. drive \in Drives /\ Seated(drive) /\ timer \in Timers /\ master \in BOOLEAN
    BY DEF FdsInv, Fit
  <2>2. /\ drive.inserted \in DOMAIN Sides \cup {Ejected} /\ drive.control \subseteq Bits
        /\ drive.position \in Nat /\ drive.countdown \in 0..SpinUp + Period /\ drive.crcSeen \in 0..2
    <3>1. drive.countdown \in Nat /\ drive.countdown <= SpinUp + Period
      BY <2>1, FieldsOf DEF Seated
    <3>2. drive.inserted \in DOMAIN Sides \cup {Ejected}
      BY <2>1, FieldsOf, Sized DEF Ejected
    <3> QED BY <2>1, <3>1, <3>2, FieldsOf, Sized
  <2>3. timer.counter \in Words /\ timer.reload \in Words
    BY <2>1 DEF Timers
  <2> QED BY <2>1, <2>2, <2>3 DEF TypeOK, Seated
<1> QED BY <1>1, FdsInductive, PTL

(* No register write, batch or change of side leaves a request without its *)
(* byte, or a request behind a closed gate.                                *)
THEOREM RequestsAreCaused == Spec => []RequestsHaveCause
<1>1. FdsInv => RequestsHaveCause
  BY DEF FdsInv, Fit, Caused, Gated, RequestsHaveCause
<1> QED BY <1>1, FdsInductive, PTL

(* Whatever the batches, the head goes forwards until a rewind.            *)
THEOREM HeadGoesForward == Spec => OnlyRewindsGoBack
<1>1. FdsInv /\ [Next]_vars => [drive'.position < drive.position => drive.end \/ drive'.end]_vars
  <2> SUFFICES ASSUME FdsInv, [Next]_vars, drive'.position < drive.position
               PROVE  drive.end \/ drive'.end
    OBVIOUS
  <2>1. FdsInv' /\ (drive'.position >= drive.position \/ drive.end \/ drive'.end)
    BY FdsStep
  <2>2. drive.position \in Nat /\ drive'.position \in Nat
    BY <2>1, FitFields DEF FdsInv
  <2> QED BY <2>1, <2>2
<1> QED BY <1>1, FdsInductive, PTL DEF Spec, OnlyRewindsGoBack

(* Batches of any two sizes and their sum are the same to the timer and to *)
(* the drive, in every state that a program reaches.                       *)
THEOREM BatchesStayInvisible == Spec => []BatchesAreInvisible
<1>1. FdsInv => BatchesAreInvisible
  <2> SUFFICES ASSUME FdsInv, NEW a \in Batches, NEW b \in Batches
               PROVE  /\ Timed(Timed(timer, a), b) = Timed(timer, a + b)
                      /\ Apparent(Driven(Driven(drive, a), b)) = Apparent(Driven(drive, a + b))
    BY DEF BatchesAreInvisible
  <2>1. a \in Nat /\ b \in Nat /\ a + b \in Nat /\ a \in 0..a + b /\ b \in 0..a + b /\ a + b <= a + b
    <3>1. a \in Nat /\ b \in Nat
      BY Sized
    <3> QED BY <3>1
  <2>2. drive \in Fit /\ timer \in Timers
    BY DEF FdsInv
  <2>3. Timed(Timed(timer, a), b) = Timed(timer, a + b)
    BY <2>1, <2>2, TimedInPieces
  <2>4. Apparent(Driven(Driven(drive, a), b)) = Apparent(Driven(drive, a + b))
    <3>1. CASE master
      BY <2>1, <2>2, <3>1, ClockInPieces DEF Driven
    <3>2. CASE ~ master
      BY <3>2 DEF Driven
    <3> QED BY <3>1, <3>2
  <2> QED BY <2>3, <2>4
<1> QED BY <1>1, FdsInductive, PTL

-----------------------------------------------------------------------------
(* The verdict *)

LEMMA BlockIs ==
  ASSUME NEW side, NEW n \in Nat, DOMAIN side = 1..n, NEW block \in BlocksOf(side)
  PROVE  \E i \in 1..n, j \in 1..n :
           /\ block = i..j /\ i < j /\ side[i] = "sync" /\ side[j] = "end"
           /\ \A k \in i + 1..j - 1 : side[k] # "sync" /\ side[k] # "end"
<1> DEFINE Whole(i, j) == /\ i < j /\ side[i] = "sync" /\ side[j] = "end"
                          /\ \A k \in i + 1..j - 1 : side[k] \notin {"sync", "end"}
<1>1. BlocksOf(side) = UNION {{i..j : j \in {j \in DOMAIN side : Whole(i, j)}} : i \in DOMAIN side}
  BY Zenon DEF BlocksOf
<1>2. PICK i \in DOMAIN side : block \in {i..j : j \in {j \in DOMAIN side : Whole(i, j)}}
  <2> HIDE DEF Whole
  <2> QED BY <1>1
<1>3. PICK j \in DOMAIN side : Whole(i, j) /\ block = i..j
  <2> HIDE DEF Whole
  <2> QED BY <1>2
<1> QED BY <1>3

LEMMA BlocksApart ==
  ASSUME NEW side, NEW n \in Nat, DOMAIN side = 1..n, NEW b1 \in BlocksOf(side), NEW b2 \in BlocksOf(side),
         NEW k \in b1, k \in b2
  PROVE  b1 = b2
<1>1. PICK i1 \in 1..n, j1 \in 1..n :
        /\ b1 = i1..j1 /\ i1 < j1 /\ side[i1] = "sync" /\ side[j1] = "end"
        /\ \A m \in i1 + 1..j1 - 1 : side[m] # "sync" /\ side[m] # "end"
  BY BlockIs
<1>2. PICK i2 \in 1..n, j2 \in 1..n :
        /\ b2 = i2..j2 /\ i2 < j2 /\ side[i2] = "sync" /\ side[j2] = "end"
        /\ \A m \in i2 + 1..j2 - 1 : side[m] # "sync" /\ side[m] # "end"
  BY BlockIs
<1>3. i1 <= j2 /\ i2 <= j1
  BY <1>1, <1>2
<1>4. i1 = i2
  <2>1. CASE i1 < i2
    <3>1. i2 \in i1 + 1..j1 - 1 \/ i2 = j1
      BY <1>3, <2>1
    <3> QED BY <1>1, <1>2, <3>1
  <2>2. CASE i2 < i1
    <3>1. i1 \in i2 + 1..j2 - 1 \/ i1 = j2
      BY <1>3, <2>2
    <3> QED BY <1>1, <1>2, <3>1
  <2> QED BY <2>1, <2>2
<1>5. j1 = j2
  <2>1. CASE j1 < j2
    <3>1. j1 \in i2 + 1..j2 - 1
      BY <1>1, <1>4, <2>1
    <3> QED BY <1>1, <1>2, <3>1
  <2>2. CASE j2 < j1
    <3>1. j2 \in i1 + 1..j1 - 1
      BY <1>2, <1>4, <2>2
    <3> QED BY <1>1, <1>2, <3>1
  <2> QED BY <2>1, <2>2
<1> QED BY <1>1, <1>2, <1>4, <1>5

(* The verdict comes with the second byte under the CRC bit: good for a    *)
(* block that was heard as a whole, an error when the bit rose earlier in  *)
(* the block, however registers are written between bytes.                 *)
THEOREM VerdictComesOnTime == Spec => []VerdictIsOnTime
<1>1. FdsInv => VerdictIsOnTime
  <2> SUFFICES ASSUME FdsInv, drive.crcSeen = 2, ~ drive.end, NEW block \in BlocksOf(Sides[drive.inserted])
               PROVE  LET side == Sides[drive.inserted]
                          heard == drive.crc \cap 1..drive.rose + 1
                      IN  /\ heard = block /\ drive.rose + 1 \in block => ~ drive.crcError
                          /\ /\ drive.rose \in block /\ drive.rose + 2 \in block
                             /\ \E k \in block \cap heard : side[k] # "zero"
                             => drive.crcError
    BY Zenon DEF VerdictIsOnTime
  <2> DEFINE side == Sides[drive.inserted]
             heard == drive.crc \cap 1..drive.rose + 1
  <2>1. drive \in Drives /\ Seated(drive) /\ Heard(drive)
    BY DEF FdsInv, Fit
  <2>2. drive.rose \in Nat /\ drive.position \in Nat /\ drive.crc \subseteq 1..drive.position
    BY <2>1, FieldsOf DEF Heard
  <2>3. PICK p \in drive.rose + 1..drive.position :
          Verdict(drive.inserted, drive.crc, drive.rose, drive.crcError, p)
    BY <2>1 DEF Heard
  <2> DEFINE told == {k \in drive.crc : k <= p}
  <2>4. (\A k \in drive.crc : k <= drive.rose \/ p <= k) /\ drive.crcError = ~ Residue(side, told)
    BY <2>3, Zenon DEF Verdict
  <2>5. p \in Nat /\ drive.rose + 1 <= p
    BY <2>2
  <2>6. drive.rose + 1 \in drive.crc => p = drive.rose + 1
    BY <2>2, <2>4, <2>5
  <2>7. Len(side) \in Nat /\ DOMAIN side = 1..Len(side)
    <3>1. drive.inserted \in 1..Len(Sides)
      BY <2>1, FieldsOf, Sized DEF Seated, Ejected
    <3>2. Sides \in Seq(Seq({"zero", "sync", "body", "end"}))
      BY DriveAssumption
    <3>3. side \in Seq({"zero", "sync", "body", "end"})
      BY <3>1, <3>2
    <3> HIDE DEF side
    <3> QED BY <3>3
  <2> HIDE DEF side
  <2>8. ASSUME heard = block, drive.rose + 1 \in block PROVE ~ drive.crcError
    <3>1. p = drive.rose + 1
      BY <2>6, <2>8
    <3>2. told = block
      BY <2>2, <2>8, <3>1
    <3> HIDE DEF told
    <3>3. ASSUME NEW b \in BlocksOf(side) PROVE b \subseteq block \/ \A k \in b \cap block : side[k] = "zero"
      BY <2>7, BlocksApart DEF side
    <3>4. Residue(side, block)
      BY <3>3 DEF Residue
    <3> QED BY <2>4, <3>2, <3>4
  <2>9. ASSUME drive.rose \in block, drive.rose + 2 \in block, NEW z \in block \cap heard, side[z] # "zero"
        PROVE  drive.crcError
    <3>1. drive.rose + 1 \in block
      <4>1. PICK i \in 1..Len(side), j \in 1..Len(side) : block = i..j
        BY <2>7, BlockIs DEF side
      <4> QED BY <2>2, <2>9, <4>1
    <3>2. ~ (drive.rose + 1 \in told /\ drive.rose + 2 \in told)
      BY <2>2, <2>5, <2>6
    <3>3. z \in told
      BY <2>2, <2>5
    <3> HIDE DEF told
    <3>4. ~ Residue(side, told)
      BY <2>9, <3>1, <3>2, <3>3 DEF Residue, side
    <3> QED BY <2>4, <3>4
  <2> QED BY <2>8, <2>9 DEF side
<1> QED BY <1>1, FdsInductive, PTL
=============================================================================
