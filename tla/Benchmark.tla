----------------------------- MODULE Benchmark -----------------------------
(***************************************************************************)
(* One benchmark command (harness/cli_benchmark.py) from the start of the  *)
(* server to its exit status: it ensures a server, records who holds the   *)
(* port, measures, asks again who holds the port, and tears down what it   *)
(* started.  The supervisor's operations are those of module Supervisor;   *)
(* the world moves between any two steps.                                  *)
(*                                                                         *)
(* Abstracted: the suite and its statistics; a sample is only the process  *)
(* that answered it.  Ctrl-C cancels the await in progress (asyncio.run).  *)
(***************************************************************************)
EXTENDS Supervisor

VARIABLES
  attach,    \* runtime.attach
  stage,     \* where the command is
  before,    \* the runtime fingerprint: who held the port before measuring
  servedBy,  \* the processes that answered a sample
  produced,  \* runner.run has returned a record
  valid,     \* the record is not invalidated
  exit,      \* the exit status, or "none"
  cut        \* the stages in which the command was interrupted

bench == <<attach, stage, before, servedBy, produced, valid, exit, cut>>

----------------------------------------------------------------------------
\* What a fingerprint keeps of a report, and PortState.
State(r) == IF r.free THEN "free"
            ELSE IF r.serving THEN "inference_server"
            ELSE IF r.pid = None THEN "unknown" ELSE "foreign_service"

\* Defect: a holder this user cannot see is recorded as the handle.
HandleForPid(r) == [pid   |-> IF r.pid = None THEN handle ELSE r.pid,
                    state |-> State(r)]

Fingerprint(r) == [pid |-> r.pid, state |-> State(r)]

\* verify_owner as probe_identity calls it: an owned handle must hold the
\* port; an attached one is only inspected.
Verified(r) == handle # Attached => ~r.free /\ r.pid # None /\ r.pid = handle

\* Defect: only the kind of occupant is compared.
SameKind(a, b) == a.state = b.state

\* identity_changed
SameOccupant(a, b) == a = b

----------------------------------------------------------------------------
BenchInit ==
  /\ Init
  /\ attach \in BOOLEAN
  /\ stage = "begin"
  /\ before = Fingerprint(NoReport)
  /\ servedBy = {} /\ produced = FALSE /\ valid = FALSE
  /\ exit = "none" /\ cut = {}

\* ensure: attach or start.
Ensure ==
  /\ stage = "begin"
  /\ IF attach THEN Attach ELSE Start
  /\ stage' = "ensure"
  /\ UNCHANGED <<attach, before, servedBy, produced, valid, exit, cut>>

Ensured ==
  /\ stage = "ensure" /\ pc = "idle" /\ outcome = "ok"
  /\ stage' = "look"
  /\ UNCHANGED <<world, super, attach, before, servedBy, produced, valid,
                 exit, cut>>

\* build_runner raises before the try of _run_suite is entered.
EnsureFails ==
  /\ stage = "ensure" /\ pc = "idle" /\ outcome # "ok"
  /\ stage' = "done" /\ exit' = "error"
  /\ UNCHANGED <<world, super, attach, before, servedBy, produced, valid, cut>>

\* probe_identity: look at the port, before and after the samples ...
LookAtPort ==
  /\ stage \in {"look", "look_again"}
  /\ report' = Look
  /\ stage' = IF stage = "look" THEN "identify" ELSE "confirm"
  /\ UNCHANGED <<world, process, handle, pc, op, late, outcome,
                 attach, before, servedBy, produced, valid, exit, cut>>

\* ... ask its holder whether it serves models, and judge what was found.
Probed == [report EXCEPT !.serving = ~report.free /\ Answers]

Identify ==
  /\ stage = "identify"
  /\ report' = Probed
  /\ IF Verified(Probed)
       THEN before' = Fingerprint(Probed) /\ stage' = "measure"
       ELSE stage' = "cleanup" /\ UNCHANGED before
  /\ UNCHANGED <<world, process, handle, pc, op, late, outcome,
                 attach, servedBy, produced, valid, exit, cut>>

\* One sample.  One that nobody answers is recorded as failed.
Measure ==
  /\ stage = "measure"
  /\ servedBy' = IF Healthy THEN servedBy \union {port} ELSE servedBy
  /\ UNCHANGED <<world, super, attach, stage, before, produced, valid, exit,
                 cut>>

LastSample ==
  /\ stage = "measure"
  /\ stage' = "look_again"
  /\ UNCHANGED <<world, super, attach, before, servedBy, produced, valid,
                 exit, cut>>

\* _confirm_identity: invalidate the run rather than raise.
Confirm ==
  /\ stage = "confirm"
  /\ report' = Probed
  /\ produced' = TRUE
  /\ valid' = (Verified(Probed) /\ SameOccupant(before, Fingerprint(Probed)))
  /\ stage' = "cleanup"
  /\ UNCHANGED <<world, process, handle, pc, op, late, outcome,
                 attach, before, servedBy, exit, cut>>

\* The finally of _run_suite.
Cleanup ==
  /\ stage = "cleanup"
  /\ Stop
  /\ stage' = "stopping"
  /\ UNCHANGED <<attach, before, servedBy, produced, valid, exit, cut>>

\* _run_command: an exception, of the run or of the cleanup, is an error; only
\* a record that came back through both is written and reported.
Conclude ==
  /\ stage = "stopping" /\ pc = "idle" /\ outcome # "none"
  /\ exit' = IF outcome # "ok" \/ ~produced THEN "error"
             ELSE IF valid THEN "ok" ELSE "invalid"
  /\ stage' = "done"
  /\ UNCHANGED <<world, super, attach, before, servedBy, produced, valid, cut>>

\* Ctrl-C.
InterruptSupervisor ==
  /\ stage \in {"ensure", "stopping"}
  /\ Interrupt
  /\ cut' = cut \union {stage}
  /\ UNCHANGED <<attach, stage, before, servedBy, produced, valid, exit>>

InterruptRun ==
  /\ stage \in {"identify", "measure", "confirm"}
  /\ cut' = cut \union {stage}
  /\ stage' = "cleanup"
  /\ UNCHANGED <<world, super, attach, before, servedBy, produced, valid,
                 exit>>

Progress ==
  \/ Ensure \/ Ensured \/ EnsureFails
  \/ LookAtPort \/ Identify \/ LastSample \/ Confirm
  \/ Cleanup \/ Conclude
  \/ Operation /\ UNCHANGED bench

BenchNext ==
  \/ Progress \/ Measure \/ InterruptSupervisor \/ InterruptRun
  \/ World /\ UNCHANGED bench

benchVars == <<vars, bench>>

\* The command runs while it can, a suite is finite, and time passes.
BenchSpec ==
  /\ BenchInit /\ [][BenchNext]_benchVars
  /\ WF_benchVars(Progress)
  /\ WF_benchVars(DeadlinePasses /\ UNCHANGED bench)

----------------------------------------------------------------------------
\* Properties.

BenchTypeOK ==
  /\ SupervisorTypeOK
  /\ attach \in BOOLEAN /\ produced \in BOOLEAN /\ valid \in BOOLEAN
  /\ stage \in {"begin", "ensure", "look", "identify", "measure",
                "look_again", "confirm", "cleanup", "stopping", "done"}
  /\ before.pid \in Processes \union {None}
  /\ servedBy \subseteq Processes
  /\ exit \in {"none", "ok", "invalid", "error"}
  /\ cut \subseteq {"ensure", "identify", "measure", "confirm", "stopping"}

\* A record that is not invalidated is a measurement of one server: whenever
\* the port's holder could be named, nobody else answered a sample
\* (identity.py, identity_changed).
ValidMeansOneServer ==
  produced /\ valid /\ before.pid # None => servedBy \subseteq {before.pid}

\* The command tears down what it started (build_runner): unless Ctrl-C hit
\* the start or the teardown, no server it launched outlives it.
CommandCleansUp ==
  stage = "done" /\ cut \intersect {"ensure", "stopping"} = {} =>
    \A p \in Launched : ~ Alive(p)

\* A runtime failure means "no run was produced" (comment on
\* _RUNTIME_FAILURES): the command does not exit as failed with a record.
ErrorMeansNoRun ==
  stage = "done" /\ exit = "error" /\ cut = {} => ~produced

\* The command ends, whatever servers do (_wait_for_health, stop).
CommandEnds == <>(stage = "done")
=============================================================================
