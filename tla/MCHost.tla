------------------------------- MODULE MCHost -------------------------------
(***************************************************************************)
(* The host's side for TLC: the CPU with its programs, the session of an   *)
(* emulator, the music player and the rebasing of snapshots.  They share   *)
(* no state, so that a behaviour plays with one of them.                   *)
(***************************************************************************)
EXTENDS MCMachine, MCSession, MCRebase, NsfPlayer

VARIABLE part
hostVars == <<allVars, sessionVars, rebaseVars, nsfVars, part>>

Rest ==
  [machine |-> CHOOSE t \in MCTasks : t.program = 0, replay |-> CHOOSE r \in MCReplays : TRUE]
MCInit ==
  /\ part \in {"machine", "session", "rebase", "player"}
  /\ MachineInit /\ (part = "machine" \/ task = Rest.machine)
  /\ SessionInit /\ (part = "session" \/ replay = Rest.replay)
  /\ IF part = "rebase" THEN RebaseInit ELSE request = <<>> /\ outcome = [verdict |-> "pending"]
  /\ NsfInit
MCNext ==
  /\ \/ part = "machine" /\ MachineNext /\ UNCHANGED <<sessionVars, rebaseVars, nsfVars>>
     \/ part = "session" /\ SessionNext /\ UNCHANGED <<allVars, rebaseVars, nsfVars>>
     \/ part = "rebase" /\ RebaseNext /\ UNCHANGED <<allVars, sessionVars, nsfVars>>
     \/ part = "player" /\ NsfNext /\ UNCHANGED <<allVars, sessionVars, rebaseVars>>
  /\ UNCHANGED part
MCSpec == MCInit /\ [][MCNext]_hostVars
=============================================================================
