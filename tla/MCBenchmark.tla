---------------------------- MODULE MCBenchmark ----------------------------
(***************************************************************************)
(* Benchmark for TLC.  The command launches at most once.  Two servers of  *)
(* this user can replace each other under an attached run; the web server  *)
(* belongs to somebody else and serves no models.                          *)
(***************************************************************************)
EXTENDS Benchmark

CONSTANTS ours, old_server, new_server, web_server

MCLaunched == {ours}
MCForeign  == {old_server, new_server, web_server}
MCServing  == {old_server, new_server}
MCVisible  == {old_server, new_server}
=============================================================================
