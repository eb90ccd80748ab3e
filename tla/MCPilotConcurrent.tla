-------------------------- MODULE MCPilotConcurrent --------------------------
(***************************************************************************)
(* PilotExecution with several processes at a time.  Processes, and the    *)
(* authorizations not yet minted, are interchangeable.                     *)
(***************************************************************************)
EXTENDS PilotExecution, TLC

Symmetry == Permutations(Procs) \cup Permutations(Auths \ {FirstAuth})
=============================================================================
