----------------------------- MODULE Supervisor -----------------------------
(***************************************************************************)
(* The server supervisor (harness/runtime/supervisor.py) and the port      *)
(* inspection it relies on (harness/runtime/port.py), among the processes  *)
(* of one machine that compete for one port.                               *)
(*                                                                         *)
(* The caller awaits one operation at a time.  Between any two steps of an *)
(* operation the world moves: servers bind the port, finish loading, exit. *)
(*                                                                         *)
(* Abstracted: the log reader, the command line, what a health reply says  *)
(* beyond 200, 503 or neither, descendants of a launched process           *)
(* (`_is_child_of'), and sockets in TIME_WAIT.                             *)
(*                                                                         *)
(* A definition whose comment begins with "Defect:" is the next one with a *)
(* plausible mistake in it; nothing uses it (see AgentRun).                *)
(***************************************************************************)
CONSTANTS
  None,          \* Python's None
  Attached,      \* the handle of a server that attach found
  Launched,      \* processes the harness may start
  Foreign,       \* processes it does not start
  Serving,       \* those of Foreign that are inference servers
  Visible        \* those of Foreign whose /proc entries this user can read

Processes == Launched \union Foreign

ASSUME ProcessesAssumption ==
  /\ Launched \intersect Foreign = {}
  /\ Serving \subseteq Foreign /\ Visible \subseteq Foreign
  /\ None \notin Processes /\ Attached \notin Processes \union {None}

VARIABLES
  \* the world
  life,      \* life[p]: absent, up (not bound yet), loading, ready, dead
  port,      \* the process that listens on the port, or None
  held,      \* the processes that have ever listened on it
  \* LlamaServerSupervisor
  process,   \* _process: the launch it holds a Popen object of, or None
  handle,    \* _handle: None, Attached, or the owned process
  pc,        \* where the operation in progress is; "idle" between two
  op,        \* start, attach or stop
  late,      \* the deadline of _wait_for_health has passed
  report,    \* PortReport
  outcome    \* how the last operation ended

world == <<life, port, held>>
super == <<process, handle, pc, op, late, report, outcome>>

Alive(p) == life[p] \in {"up", "loading", "ready"}

----------------------------------------------------------------------------
\* What the harness can observe.

\* inspect_port: is there a listener, and which process is it, as far as
\* /proc tells this user.
Look == [free    |-> port = None,
         pid     |-> IF port \in Launched \union Visible THEN port ELSE None,
         serving |-> FALSE]

\* GET /health answered with 200 or 503.
Answers == port \in Launched \union Serving

\* GET /health answered with 200.
Healthy == Answers /\ life[port] = "ready"

\* poll() on the Popen object: the process has exited.
Exited == process # None /\ life[process] = "dead"

----------------------------------------------------------------------------
NoReport == [free |-> TRUE, pid |-> None, serving |-> FALSE]

Init ==
  /\ \E holder \in Foreign \union {None} :
       /\ port = holder
       /\ held = {holder} \ {None}
       /\ life = [p \in Processes |-> IF p = holder THEN "ready"
                                                    ELSE "absent"]
  /\ process = None /\ handle = None /\ pc = "idle" /\ op = "stop"
  /\ late = FALSE /\ report = NoReport /\ outcome = "none"

\* The operation returns or raises.
Finish(how) == pc' = "idle" /\ outcome' = how

Begin(operation, where) ==
  /\ pc = "idle"
  /\ op' = operation /\ pc' = where /\ late' = FALSE
  /\ outcome' = "none"
  /\ UNCHANGED <<world, process, handle, report>>

Start  == Begin("start", "inspect")
Attach == Begin("attach", "inspect")
Stop   == Begin("stop", "stop")

\* inspect_port on behalf of _require_free_port and of attach.
Inspect ==
  /\ pc = "inspect"
  /\ report' = Look
  /\ pc' = IF ~ report'.free THEN "probe"
           ELSE IF op = "start" THEN "launch" ELSE "wait"
  /\ UNCHANGED <<world, process, handle, op, late, outcome>>

\* inspect_port_async asks the holder whether it serves models; start wants
\* nobody there, attach wants an inference server.
ProbeHolder ==
  /\ pc = "probe"
  /\ report' = [report EXCEPT !.serving = Answers]
  /\ IF op = "attach" /\ report'.serving
       THEN pc' = "wait" /\ UNCHANGED outcome
       ELSE Finish("conflict")
  /\ UNCHANGED <<world, process, handle, op, late>>

\* Popen.
Launch ==
  /\ pc = "launch"
  /\ \E p \in Launched :
       /\ life[p] = "absent"
       /\ process' = p
       /\ life' = [life EXCEPT ![p] = "up"]
  /\ pc' = "wait"
  /\ UNCHANGED <<port, held, handle, op, late, report, outcome>>

\* build_argv or Popen raises.
LaunchFails ==
  /\ pc = "launch"
  /\ Finish("failed")
  /\ UNCHANGED <<world, process, handle, op, late, report>>

\* Defect: an exception in start is just raised.
FailUncleaned == Finish("failed")

\* An exception in the body of start calls stop and is raised again; one in
\* attach is just raised.
Fail == IF op = "start" THEN pc' = "stop" /\ UNCHANGED outcome
                        ELSE Finish("failed")

\* _wait_for_health: the loop head.
WaitEnds ==
  /\ pc = "wait" /\ (late \/ Exited)
  /\ Fail
  /\ UNCHANGED <<world, process, handle, op, late, report>>

WaitGoesOn ==
  /\ pc = "wait" /\ ~late /\ ~Exited
  /\ pc' = "get"
  /\ UNCHANGED <<world, process, handle, op, late, report, outcome>>

\* Defect: every probe renews the deadline.
HealthRenewsDeadline ==
  /\ pc = "get" /\ (Exited \/ ~Healthy)
  /\ pc' = "wait" /\ late' = FALSE
  /\ UNCHANGED <<world, process, handle, op, report, outcome>>

\* health: one request, unless our process has exited meanwhile.
HealthPoor ==
  /\ pc = "get" /\ (Exited \/ ~Healthy)
  /\ pc' = "wait"
  /\ UNCHANGED <<world, process, handle, op, late, report, outcome>>

\* Defect: attach claims the process it found on the port.
AttachClaims ==
  /\ pc = "get" /\ ~Exited /\ Healthy
  /\ IF op = "start" THEN pc' = "verify" /\ UNCHANGED <<handle, outcome>>
                     ELSE handle' = port /\ Finish("ok")
  /\ UNCHANGED <<world, process, op, late, report>>

HealthGood ==
  /\ pc = "get" /\ ~Exited /\ Healthy
  /\ IF op = "start" THEN pc' = "verify" /\ UNCHANGED <<handle, outcome>>
                     ELSE handle' = Attached /\ Finish("ok")
  /\ UNCHANGED <<world, process, op, late, report>>

\* verify_owner: what holds the port ...
VerifyLook ==
  /\ pc = "verify"
  /\ report' = Look
  /\ pc' = "compare"
  /\ UNCHANGED <<world, process, handle, op, late, outcome>>

\* Defect: something healthy answered, so it is what was launched.
TrustHealth ==
  /\ pc = "compare"
  /\ handle' = process /\ Finish("ok")
  /\ UNCHANGED <<world, process, op, late, report>>

\* ... must be the process that was launched.
VerifyOwner ==
  /\ pc = "compare"
  /\ IF ~ report.free /\ report.pid # None /\ report.pid = process
       THEN handle' = process /\ Finish("ok")
       ELSE Fail /\ UNCHANGED handle
  /\ UNCHANGED <<world, process, op, late, report>>

\* stop, called or as clean-up of a failed start.
Stopped == Finish(IF op = "start" THEN "failed" ELSE "ok")

StopRefused ==
  /\ pc = "stop" /\ handle = Attached
  /\ Finish(IF op = "start" THEN "failed" ELSE "not_owned")
  /\ UNCHANGED <<world, process, handle, op, late, report>>

\* Nothing to signal: no process, or it has exited.
StopNothing ==
  /\ pc = "stop" /\ handle # Attached /\ (process = None \/ Exited)
  /\ process' = None /\ handle' = None /\ Stopped
  /\ UNCHANGED <<world, op, late, report>>

\* SIGTERM to the process group.
Terminate ==
  /\ pc = "stop" /\ handle # Attached /\ process # None /\ ~Exited
  /\ pc' = "grace"
  /\ UNCHANGED <<world, process, handle, op, late, report, outcome>>

Reaped ==
  /\ pc = "grace" /\ Exited
  /\ process' = None /\ handle' = None /\ Stopped
  /\ UNCHANGED <<world, op, late, report>>

Gone(p) == /\ life' = [life EXCEPT ![p] = "dead"]
           /\ port' = IF port = p THEN None ELSE port
           /\ UNCHANGED held

\* SIGKILL once the grace period is up.
Kill ==
  /\ pc = "grace" /\ ~Exited
  /\ Gone(process)
  /\ UNCHANGED super

\* An await is cancelled: CancelledError is no Exception, so no clean-up runs.
Interrupt ==
  /\ pc \in {"probe", "wait", "get", "compare", "grace"}
  /\ Finish("interrupted")
  /\ UNCHANGED <<world, process, handle, op, late, report>>

Operation ==
  \/ Inspect \/ ProbeHolder \/ Launch \/ LaunchFails
  \/ WaitEnds \/ WaitGoesOn \/ HealthPoor \/ HealthGood
  \/ VerifyLook \/ VerifyOwner
  \/ StopRefused \/ StopNothing \/ Terminate \/ Reaped \/ Kill

----------------------------------------------------------------------------
\* The world.

\* A launched server binds the port, or finds it taken and exits.
Bind(p) ==
  /\ life[p] = "up"
  /\ IF port = None THEN /\ port' = p /\ held' = held \union {p}
                         /\ life' = [life EXCEPT ![p] = "loading"]
                    ELSE Gone(p)
  /\ UNCHANGED super

Loaded(p) ==
  /\ life[p] = "loading"
  /\ life' = [life EXCEPT ![p] = "ready"]
  /\ UNCHANGED <<port, held, super>>

Dies(p) == Alive(p) /\ Gone(p) /\ UNCHANGED super

Arrives(p) ==
  /\ life[p] = "absent" /\ port = None
  /\ port' = p /\ held' = held \union {p}
  /\ life' = [life EXCEPT ![p] = "loading"]
  /\ UNCHANGED super

DeadlinePasses ==
  /\ pc \in {"wait", "get"} /\ ~late
  /\ late' = TRUE
  /\ UNCHANGED <<world, process, handle, pc, op, report, outcome>>

World ==
  \/ \E p \in Launched : Bind(p)
  \/ \E p \in Processes : Loaded(p) \/ Dies(p)
  \/ \E p \in Foreign : Arrives(p)
  \/ DeadlinePasses

\* A caller that uses the operations in any order.
Next == Start \/ Attach \/ Stop \/ Operation \/ Interrupt \/ World

vars == <<life, port, held, process, handle, pc, op, late, report, outcome>>

Spec == Init /\ [][Next]_vars

----------------------------------------------------------------------------
\* Properties.

Report == [free : BOOLEAN, pid : Processes \union {None}, serving : BOOLEAN]

SupervisorTypeOK ==
  /\ life \in [Processes -> {"absent", "up", "loading", "ready", "dead"}]
  /\ port \in Processes \union {None}
  /\ held \subseteq Processes
  /\ process \in Launched \union {None}
  /\ handle \in Launched \union {None, Attached}
  /\ pc \in {"idle", "inspect", "probe", "launch", "wait", "get", "verify",
             "compare", "stop", "grace"}
  /\ op \in {"start", "attach", "stop"}
  /\ late \in BOOLEAN
  /\ report \in Report
  /\ outcome \in {"none", "ok", "conflict", "failed", "not_owned",
                  "interrupted"}

\* "Something answering and our process serving are two facts" (start): an
\* owned handle names a process this harness launched and that has really
\* listened on the port, whatever answered the health probe.
OwnedHasServed == handle \in Launched => handle \in held

\* start "cleans up after itself on every failure path" (its docstring): when
\* it has failed or was cancelled, no server it launched is left running.
StartCleansUp ==
  pc = "idle" /\ op = "start" /\ outcome \in {"failed", "interrupted"} =>
    \A p \in Launched : ~ Alive(p)
=============================================================================
