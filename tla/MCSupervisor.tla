---------------------------- MODULE MCSupervisor ----------------------------
(***************************************************************************)
(* Supervisor for TLC, used by a caller that attaches, starts and stops in *)
(* any order: two launches, so that a start can follow another one's       *)
(* server, and two strangers, one of them an inference server.             *)
(***************************************************************************)
EXTENDS Supervisor

CONSTANTS first, second, model_server, web_server

MCLaunched == {first, second}
MCForeign  == {model_server, web_server}
MCServing  == {model_server}
MCVisible  == {model_server}
=============================================================================
