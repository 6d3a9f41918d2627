------------------------------- MODULE Alarm -------------------------------
(***************************************************************************)
(* What the interrupt counter of a board promises the game that sets it:   *)
(* it rings when the time it was set to has passed and not before, however *)
(* the time is cut into pieces, and then once, for good, or period after   *)
(* period.  The game may set it anew at any time, but only time rings it.  *)
(***************************************************************************)
EXTENDS Integers

VARIABLES
  armed,      (* the alarm will ring                                      *)
  due,        (* the ticks until then                                     *)
  kind,       (* once, held (rings on until it is set anew), or repeat    *)
  period,     (* the ticks from one ring to the next                      *)
  ringing,    (* the request, until it is acknowledged                    *)
  last        (* the last step: set, answer, or pass with its ticks       *)

vars == <<armed, due, kind, period, ringing, last>>

Set == [op |-> "set", ticks |-> 0]
Answered == [op |-> "answer", ticks |-> 0]
Passed(n) == [op |-> "pass", ticks |-> n]

Init == ~ armed /\ ~ ringing /\ last = Set

Program ==
  /\ last' = Set
  /\ ringing' \in {FALSE, ringing}

Answer ==
  /\ last' = Answered
  /\ ~ ringing'
  /\ UNCHANGED <<armed, due, kind, period>>

Idle == ~ armed /\ UNCHANGED <<armed, ringing>>

Wait(n) ==
  /\ armed /\ n < due
  /\ due' = due - n
  /\ UNCHANGED <<armed, ringing>>

(* A piece that reaches past the next ring as well loses count of it.      *)
Ring(n) ==
  /\ armed /\ due <= n
  /\ ringing'
  /\ \/ kind = "once" /\ ~ armed'
     \/ kind = "held" /\ armed' /\ due' <= 0
     \/ kind = "repeat" /\ armed' /\ (n - due < period => due' = due + period - n)

Pass ==
  LET n == last'.ticks IN
    /\ n > 0
    /\ last' = Passed(n)
    /\ Idle \/ Wait(n) \/ Ring(n)
    /\ UNCHANGED <<kind, period>>

Next == Program \/ Answer \/ Pass

Spec == Init /\ [][Next]_vars
=============================================================================
