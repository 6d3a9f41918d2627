----------------------------- MODULE MCSession -----------------------------
(* Frames of six cycles, of which two interrupts use up the slack that the *)
(* real frame of 29 780 loses to eighteen.  The replays overlap, have gaps *)
(* and are out of order.                                                   *)
EXTENDS Session

Entry(frame, duration, pads, reset) == [frame |-> frame, duration |-> duration, pads |-> pads, reset |-> reset]
MCReplays ==
  {<<Entry(1, 2, 1, TRUE), Entry(1, 1, 2, FALSE)>>,
   <<Entry(2, 0, 1, FALSE), Entry(0, 2, 2, TRUE)>>}
=============================================================================
