---------------------------- MODULE SaveRegister ----------------------------
(***************************************************************************)
(* What the battery sidecar promises its users: the save behaves as a      *)
(* compare-and-set register.  A client replaces the value only when it is  *)
(* the value the client itself last read or wrote, and a power failure     *)
(* may only take the register back to a value the file system had settled. *)
(***************************************************************************)
CONSTANTS
  Clients,    (* the sessions and exports that share one sidecar          *)
  Values,     (* battery RAM images                                       *)
  NoFile,     (* the sidecar does not exist                               *)
  Unknown     (* the client has not looked at the sidecar since it started *)

VARIABLES
  value,      (* the sidecar                                              *)
  durable,    (* the sidecar a power failure would leave                  *)
  seen        (* seen[c]: what client c believes the sidecar holds        *)

vars == <<value, durable, seen>>

States == Values \cup {NoFile}

Init ==
  /\ value \in States
  /\ durable = value
  /\ seen = [c \in Clients |-> Unknown]

Observe(c) ==
  /\ seen' = [seen EXCEPT ![c] = value]
  /\ UNCHANGED <<value, durable>>

Forget(c) ==
  /\ seen' = [seen EXCEPT ![c] = Unknown]
  /\ UNCHANGED <<value, durable>>

Commit(c, v) ==
  /\ value = seen[c]
  /\ value' = v
  /\ seen' = [seen EXCEPT ![c] = v]
  /\ UNCHANGED durable

(* A user who edits the file by hand, outside every transaction.           *)
Edit(v) ==
  /\ value' = v
  /\ UNCHANGED <<durable, seen>>

Settle ==
  /\ durable' = value
  /\ UNCHANGED <<value, seen>>

PowerFailure ==
  /\ value' = durable
  /\ seen' = [c \in Clients |-> Unknown]
  /\ UNCHANGED durable

Next ==
  \/ \E c \in Clients : Observe(c) \/ Forget(c)
  \/ \E c \in Clients, v \in Values : Commit(c, v)
  \/ \E v \in States : Edit(v)
  \/ Settle
  \/ PowerFailure

Spec == Init /\ [][Next]_vars
=============================================================================
