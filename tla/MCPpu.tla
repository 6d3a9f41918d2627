-------------------------------- MODULE MCPpu -------------------------------
(***************************************************************************)
(* Instances of PpuTiming and PpuAddress for TLC.  The beam's clock and    *)
(* the address ports share no state that either property reads, so that a  *)
(* behaviour plays with one of them.                                       *)
(*                                                                         *)
(* The instructions read the status where read_mode says (absolute,        *)
(* indexed and indirect operands), or at their start (pointers,            *)
(* read-modify-write, an OAM DMA of the register page).                    *)
(***************************************************************************)
EXTENDS PpuTiming, PpuAddress

VARIABLE part

TimedReads == {<<3, 4>>, <<4, 5>>, <<5, 6>>, <<0, 5>>, <<0, 6>>, <<0, 517>>}

MCInit == Init /\ PortsInit /\ part \in {"clock", "ports"}
MCNext ==
  /\ \/ part = "clock" /\ Next /\ UNCHANGED portVars
     \/ part = "ports" /\ PortsNext /\ UNCHANGED vars
  /\ UNCHANGED part
MCSpec == MCInit /\ [][MCNext]_<<vars, portVars, part>>
=============================================================================
