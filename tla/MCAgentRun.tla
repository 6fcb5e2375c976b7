----------------------------- MODULE MCAgentRun -----------------------------
(***************************************************************************)
(* AgentRun for TLC.  NO_PROGRESS_REPEAT is 3 in the code, so three steps  *)
(* are the least in which every stop reason occurs.                        *)
(***************************************************************************)
EXTENDS AgentRun

CONSTANTS run_command, write_file

MCCalls    == {run_command, write_file}
MCMutating == {run_command}
=============================================================================
