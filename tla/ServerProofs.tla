---------------------------- MODULE ServerProofs ----------------------------
(***************************************************************************)
(* Proofs about the server's supervisor and the benchmark command above    *)
(* it.                                                                     *)
(*                                                                         *)
(* Supervisor: any number of launches and of strangers on the machine, and *)
(* a caller that uses the operations in any order.  Benchmark: any number  *)
(* of servers that come and go under one command, and Ctrl-C wherever it   *)
(* can be pressed.                                                         *)
(***************************************************************************)
EXTENDS Benchmark, TLAPS

----------------------------------------------------------------------------
\* What a look at the port sees of it is a report, and names its holder.
LEMMA LookType ==
  ASSUME port \in Processes \union {None}
  PROVE  /\ Look \in Report
         /\ Look.pid # None => Look.pid = port
  BY DEF Look, Report

\* Before the first start every variable is typed.
LEMMA InitTypeOK == Init => SupervisorTypeOK
<1> SUFFICES ASSUME Init PROVE SupervisorTypeOK
  OBVIOUS
<1>1. PICK holder \in Foreign \union {None} :
        /\ port = holder /\ held = {holder} \ {None}
        /\ life = [p \in Processes |-> IF p = holder THEN "ready"
                                                     ELSE "absent"]
  BY DEF Init
<1>2. life \in [Processes -> {"absent", "up", "loading", "ready", "dead"}]
  BY <1>1
<1>3. NoReport \in Report
  BY DEF NoReport, Report
<1>4. QED  BY <1>1, <1>2, <1>3 DEF Init, SupervisorTypeOK, Processes

\* Every step of an operation keeps the types.
LEMMA OperationTypeOK ==
  ASSUME SupervisorTypeOK,
         Start \/ Attach \/ Stop \/ Operation \/ Interrupt
  PROVE  SupervisorTypeOK'
<1> USE DEF SupervisorTypeOK, world
<1>1. CASE Start \/ Attach \/ Stop
  BY <1>1 DEF Start, Attach, Stop, Begin
<1>2. CASE Inspect
  BY <1>2, LookType DEF Inspect
<1>3. CASE ProbeHolder
  <2>1. report' \in Report
    <3>1. Answers \in BOOLEAN
      BY DEF Answers
    <3>2. QED  BY <1>3, <3>1 DEF ProbeHolder, Report
  <2>2. QED  BY <1>3, <2>1 DEF ProbeHolder, Finish
<1>4. CASE Launch
  BY <1>4 DEF Launch
<1>5. CASE LaunchFails
  BY <1>5 DEF LaunchFails, Finish
<1>6. CASE WaitEnds \/ WaitGoesOn \/ HealthPoor
  BY <1>6 DEF WaitEnds, WaitGoesOn, HealthPoor, Fail, Finish
<1>7. CASE HealthGood
  BY <1>7 DEF HealthGood, Finish
<1>8. CASE VerifyLook
  BY <1>8, LookType DEF VerifyLook
<1>9. CASE VerifyOwner
  BY <1>9 DEF VerifyOwner, Fail, Finish
<1>10. CASE StopRefused \/ StopNothing \/ Terminate \/ Reaped
  BY <1>10 DEF StopRefused, StopNothing, Terminate, Reaped, Stopped, Finish
<1>11. CASE Kill
  BY <1>11 DEF Kill, Gone, super
<1>12. CASE Interrupt
  BY <1>12 DEF Interrupt, Finish
<1>13. QED
  BY <1>1, <1>2, <1>3, <1>4, <1>5, <1>6, <1>7, <1>8, <1>9, <1>10, <1>11,
     <1>12 DEF Operation

\* So does every step of the world.
LEMMA WorldTypeOK ==
  ASSUME SupervisorTypeOK, World
  PROVE  SupervisorTypeOK'
<1> USE DEF SupervisorTypeOK, super, Processes
<1>1. ASSUME NEW p \in Launched, Bind(p) PROVE SupervisorTypeOK'
  BY <1>1 DEF Bind, Gone
<1>2. ASSUME NEW p \in Processes, Loaded(p) PROVE SupervisorTypeOK'
  BY <1>2 DEF Loaded
<1>3. ASSUME NEW p \in Processes, Dies(p) PROVE SupervisorTypeOK'
  BY <1>3 DEF Dies, Gone
<1>4. ASSUME NEW p \in Foreign, Arrives(p) PROVE SupervisorTypeOK'
  BY <1>4 DEF Arrives
<1>5. CASE DeadlinePasses
  BY <1>5 DEF DeadlinePasses, world
<1>6. QED  BY <1>1, <1>2, <1>3, <1>4, <1>5 DEF World

\* The variables of the world and of the supervisor have their types in every
\* reachable state, whatever the caller does (supervisor.py, port.py).
THEOREM SupervisorTypeCorrect == Spec => []SupervisorTypeOK
<1>1. SupervisorTypeOK /\ [Next]_vars => SupervisorTypeOK'
  <2> SUFFICES ASSUME SupervisorTypeOK, [Next]_vars PROVE SupervisorTypeOK'
    OBVIOUS
  <2>1. CASE Start \/ Attach \/ Stop \/ Operation \/ Interrupt
    BY <2>1, OperationTypeOK
  <2>2. CASE World
    BY <2>2, WorldTypeOK
  <2>3. CASE UNCHANGED vars
    BY <2>3 DEF vars, SupervisorTypeOK
  <2>4. QED  BY <2>1, <2>2, <2>3 DEF Next
<1>2. QED  BY <1>1, InitTypeOK, PTL DEF Spec

----------------------------------------------------------------------------
\* An owned handle is granted on the evidence of a report.  The report may be
\* stale, its holder dead and replaced; but whoever a report names has held
\* the port, as has the one that holds it now.
Evidence ==
  /\ port # None => port \in held
  /\ report.pid # None => report.pid \in held

OwnInv == SupervisorTypeOK /\ Evidence /\ OwnedHasServed

\* Before the first start the supervisor owns nothing.
LEMMA InitOwn == Init => Evidence /\ OwnedHasServed
<1> SUFFICES ASSUME Init PROVE Evidence /\ OwnedHasServed
  OBVIOUS
<1>1. port # None => port \in held
  BY DEF Init
<1>2. report.pid = None
  BY DEF Init, NoReport
<1>3. handle \notin Launched
  BY ProcessesAssumption DEF Init, Processes
<1>4. QED  BY <1>1, <1>2, <1>3 DEF Evidence, OwnedHasServed

\* Only VerifyOwner grants an owned handle, and it grants the pid reported.
LEMMA OperationOwn ==
  ASSUME OwnInv, Start \/ Attach \/ Stop \/ Operation \/ Interrupt
  PROVE  (Evidence /\ OwnedHasServed)'
<1> USE DEF OwnInv, Evidence, OwnedHasServed, world
<1>1. CASE Start \/ Attach \/ Stop
  BY <1>1 DEF Start, Attach, Stop, Begin
<1>2. CASE Inspect
  BY <1>2, LookType DEF Inspect, SupervisorTypeOK
<1>3. CASE ProbeHolder
  <2>1. report'.pid = report.pid
    BY <1>3 DEF ProbeHolder, SupervisorTypeOK, Report
  <2>2. QED  BY <1>3, <2>1 DEF ProbeHolder
<1>4. CASE Launch
  BY <1>4 DEF Launch
<1>5. CASE LaunchFails \/ WaitEnds \/ WaitGoesOn \/ HealthPoor
  BY <1>5 DEF LaunchFails, WaitEnds, WaitGoesOn, HealthPoor
<1>6. CASE HealthGood
  BY <1>6, ProcessesAssumption DEF HealthGood, Processes
<1>7. CASE VerifyLook
  BY <1>7, LookType DEF VerifyLook, SupervisorTypeOK
<1>8. CASE VerifyOwner
  <2>1. CASE ~ report.free /\ report.pid # None /\ report.pid = process
    BY <1>8, <2>1 DEF VerifyOwner
  <2>2. CASE ~ (~ report.free /\ report.pid # None /\ report.pid = process)
    BY <1>8, <2>2 DEF VerifyOwner
  <2>3. QED  BY <2>1, <2>2
<1>9. CASE StopRefused \/ StopNothing \/ Terminate \/ Reaped
  BY <1>9, ProcessesAssumption
     DEF StopRefused, StopNothing, Terminate, Reaped, Processes
<1>10. CASE Kill
  BY <1>10 DEF Kill, Gone, super
<1>11. CASE Interrupt
  BY <1>11 DEF Interrupt
<1>12. QED
  BY <1>1, <1>2, <1>3, <1>4, <1>5, <1>6, <1>7, <1>8, <1>9, <1>10, <1>11
     DEF Operation

\* The world only ever adds to the processes that have held the port.
LEMMA WorldOwn ==
  ASSUME OwnInv, World
  PROVE  (Evidence /\ OwnedHasServed)'
<1> USE DEF OwnInv, Evidence, OwnedHasServed, super
<1>1. ASSUME NEW p \in Launched, Bind(p) PROVE (Evidence /\ OwnedHasServed)'
  BY <1>1 DEF Bind, Gone
<1>2. ASSUME NEW p \in Processes, Loaded(p)
      PROVE  (Evidence /\ OwnedHasServed)'
  BY <1>2 DEF Loaded
<1>3. ASSUME NEW p \in Processes, Dies(p)
      PROVE  (Evidence /\ OwnedHasServed)'
  BY <1>3 DEF Dies, Gone
<1>4. ASSUME NEW p \in Foreign, Arrives(p)
      PROVE  (Evidence /\ OwnedHasServed)'
  BY <1>4 DEF Arrives
<1>5. CASE DeadlinePasses
  BY <1>5 DEF DeadlinePasses, world
<1>6. QED  BY <1>1, <1>2, <1>3, <1>4, <1>5 DEF World

\* Something answering the health probe and our process serving are two facts:
\* an owned handle names a process that was launched here and has listened on
\* the port, for any strangers that compete for it (supervisor.start,
\* port.verify_owner).
THEOREM OwnedServerServed == Spec => []OwnedHasServed
<1>1. Init => OwnInv
  BY InitTypeOK, InitOwn DEF OwnInv
<1>2. OwnInv /\ [Next]_vars => OwnInv'
  <2> SUFFICES ASSUME OwnInv, [Next]_vars PROVE OwnInv'
    OBVIOUS
  <2> USE DEF OwnInv
  <2>1. CASE Start \/ Attach \/ Stop \/ Operation \/ Interrupt
    BY <2>1, OperationTypeOK, OperationOwn
  <2>2. CASE World
    BY <2>2, WorldTypeOK, WorldOwn
  <2>3. CASE UNCHANGED vars
    BY <2>3 DEF vars, SupervisorTypeOK, Evidence, OwnedHasServed
  <2>4. QED  BY <2>1, <2>2, <2>3 DEF Next
<1>3. OwnInv => OwnedHasServed
  BY DEF OwnInv
<1>4. QED  BY <1>1, <1>2, <1>3, PTL DEF Spec

----------------------------------------------------------------------------
\* The inductive invariants.

\* A process that has held the port and does not any more is dead, and stays
\* so: a process identifier names one holder for good.
PortInv ==
  /\ port # None => port \in held /\ life[port] \in {"loading", "ready"}
  /\ \A p \in held : p # port => life[p] = "dead"

\* Either the process that was recorded answered every sample so far, or it
\* has died and cannot be found at the port again.
SampleInv ==
  /\ before.pid # None =>
       /\ before.pid \in held
       /\ servedBy \subseteq {before.pid} \/ life[before.pid] = "dead"
  /\ stage \in {"begin", "ensure", "look", "identify"} => servedBy = {}
  /\ stage \in {"identify", "confirm"} /\ report.pid # None
       => report.pid \in held
  /\ stage = "confirm" /\ report.pid # None /\ report.pid = before.pid
       => servedBy \subseteq {before.pid}
  /\ produced => stage \in {"cleanup", "stopping", "done"}
  /\ ValidMeansOneServer

\* Which operation is in progress in which stage, and whose process it is
\* about: the supervisor holds the only server it launched until that is gone.
StageInv ==
  /\ pc # "idle" => stage \in {"ensure", "stopping"}
  /\ stage = "ensure" => op = IF attach THEN "attach" ELSE "start"
  /\ stage = "stopping" => op = "stop" /\ pc \in {"idle", "stop", "grace"}
  /\ pc = "launch" => op = "start"
  /\ stage = "begin" => process = None /\ handle = None
  /\ pc \in {"inspect", "probe", "launch"} => process = None
  /\ attach => process = None
  /\ ~attach => handle # Attached

\* What ends without Ctrl-C leaves nothing behind.
CleanInv ==
  /\ \A p \in Launched : Alive(p) => p = process
  /\ stage = "ensure" /\ pc = "idle" /\ outcome # "ok"
       => process = None \/ "ensure" \in cut
  /\ stage = "stopping" /\ pc = "idle" => process = None \/ "stopping" \in cut
  /\ stage = "done" => \/ process = None
                       \/ cut \intersect {"ensure", "stopping"} # {}

BenchInv == /\ BenchTypeOK /\ PortInv /\ SampleInv /\ StageInv /\ CleanInv

----------------------------------------------------------------------------
\* Types.

\* What the identity probe makes of a report is a report about the same
\* holder, and its fingerprint names that holder.
LEMMA ProbedType ==
  ASSUME SupervisorTypeOK
  PROVE  /\ Probed \in Report /\ Probed.pid = report.pid
         /\ Fingerprint(Probed).pid = report.pid
         /\ report.pid \in Processes \union {None}
<1>1. report \in Report
  BY DEF SupervisorTypeOK
<1>2. (~report.free /\ Answers) \in BOOLEAN
  BY <1>1 DEF Answers, Report
<1>3. Probed \in Report /\ Probed.pid = report.pid
  BY <1>1, <1>2 DEF Probed, Report
<1>4. Fingerprint(Probed).pid = report.pid
  BY <1>3 DEF Fingerprint
<1>5. QED  BY <1>1, <1>3, <1>4 DEF Report

\* Before the command runs every variable is typed.
LEMMA BenchTypeInit == BenchInit => BenchTypeOK
<1> SUFFICES ASSUME BenchInit PROVE BenchTypeOK
  OBVIOUS
<1>1. SupervisorTypeOK
  BY InitTypeOK DEF BenchInit
<1>2. before.pid = None
  BY DEF BenchInit, Fingerprint, NoReport
<1>3. QED  BY <1>1, <1>2 DEF BenchInit, BenchTypeOK

\* Every action of the command, of the supervisor and of the world around
\* them keeps the types.
LEMMA BenchTypeStep ==
  ASSUME BenchTypeOK, [BenchNext]_benchVars
  PROVE  BenchTypeOK'
<1>0. SupervisorTypeOK
  BY DEF BenchTypeOK
<1>1. CASE Ensure \/ Cleanup \/ InterruptSupervisor
  <2>1. SupervisorTypeOK'
    BY <1>0, <1>1, OperationTypeOK DEF Ensure, Cleanup, InterruptSupervisor
  <2>2. QED
    BY <1>1, <2>1 DEF Ensure, Cleanup, InterruptSupervisor, BenchTypeOK
<1>2. CASE Operation /\ UNCHANGED bench
  BY <1>0, <1>2, OperationTypeOK DEF BenchTypeOK, bench
<1>3. CASE World /\ UNCHANGED bench
  BY <1>0, <1>3, WorldTypeOK DEF BenchTypeOK, bench
<1>4. CASE Ensured \/ EnsureFails \/ LastSample \/ Conclude \/ InterruptRun
  <2>1. UNCHANGED <<world, super>>
    BY <1>4 DEF Ensured, EnsureFails, LastSample, Conclude, InterruptRun
  <2>2. SupervisorTypeOK'
    BY <1>0, <2>1 DEF world, super, SupervisorTypeOK
  <2>3. QED
    BY <1>4, <2>2
    DEF Ensured, EnsureFails, LastSample, Conclude, InterruptRun, BenchTypeOK
<1>5. CASE LookAtPort
  <2>1. report' \in Report
    BY <1>0, <1>5, LookType DEF LookAtPort, SupervisorTypeOK
  <2>2. SupervisorTypeOK'
    BY <1>0, <1>5, <2>1 DEF LookAtPort, SupervisorTypeOK, world
  <2>3. QED  BY <1>5, <2>2 DEF LookAtPort, BenchTypeOK
<1>6. CASE Identify \/ Confirm
  <2>1. report' = Probed /\ UNCHANGED <<world, process, handle, pc, op, late,
                                       outcome>>
    BY <1>6 DEF Identify, Confirm
  <2>2. SupervisorTypeOK'
    BY <1>0, <2>1, ProbedType DEF SupervisorTypeOK, world
  <2>3. before'.pid \in Processes \union {None}
    BY <1>0, <1>6, ProbedType DEF Identify, Confirm, BenchTypeOK
  <2>4. valid' \in BOOLEAN
    BY <1>6 DEF Identify, Confirm, BenchTypeOK, Verified, SameOccupant
  <2>5. QED
    BY <1>6, <2>2, <2>3, <2>4 DEF Identify, Confirm, BenchTypeOK
<1>7. CASE Measure
  <2>1. UNCHANGED <<world, super>>
    BY <1>7 DEF Measure
  <2>2. SupervisorTypeOK'
    BY <1>0, <2>1 DEF world, super, SupervisorTypeOK
  <2>3. servedBy' \subseteq Processes
    <3>1. Healthy => port \in Processes
      BY ProcessesAssumption DEF Healthy, Answers, Processes
    <3>2. QED  BY <1>7, <3>1 DEF Measure, BenchTypeOK
  <2>4. QED  BY <1>7, <2>2, <2>3 DEF Measure, BenchTypeOK
<1>8. CASE UNCHANGED benchVars
  BY <1>0, <1>8 DEF benchVars, vars, bench, BenchTypeOK, SupervisorTypeOK
<1>9. QED
  BY <1>1, <1>2, <1>3, <1>4, <1>5, <1>6, <1>7, <1>8
  DEF BenchNext, Progress

----------------------------------------------------------------------------
\* The port.

\* A process that dies leaves the port for good.
LEMMA GoneKeepsPort ==
  ASSUME SupervisorTypeOK, PortInv, NEW p \in Processes, Gone(p)
  PROVE  /\ PortInv' /\ held' = held
         /\ \A q \in Processes : life[q] = "dead" => life'[q] = "dead"
  BY DEF SupervisorTypeOK, PortInv, Gone

\* Whatever happens, the invariant of the port holds, who has held it is not
\* forgotten, and the dead stay dead.
LEMMA PortStep ==
  ASSUME SupervisorTypeOK, PortInv,
         \/ Start \/ Attach \/ Stop \/ Operation \/ Interrupt \/ World
         \/ UNCHANGED world
  PROVE  /\ PortInv' /\ held \subseteq held'
         /\ \A q \in Processes : life[q] = "dead" => life'[q] = "dead"
<1>1. CASE UNCHANGED world
  BY <1>1 DEF world, PortInv
<1>2. CASE Launch
  BY <1>2 DEF Launch, PortInv, SupervisorTypeOK, Processes
<1>3. CASE Kill
  <2>1. CASE process = None
    <3>1. life' = life /\ port' = port /\ held' = held
      BY <1>3, <2>1, ProcessesAssumption DEF Kill, Gone, SupervisorTypeOK
    <3>2. QED  BY <3>1 DEF PortInv
  <2>2. CASE process # None
    <3>1. process \in Processes
      BY <2>2 DEF SupervisorTypeOK, Processes
    <3>2. QED  BY <1>3, <3>1, GoneKeepsPort DEF Kill
  <2>3. QED  BY <2>1, <2>2
<1>4. CASE World
  <2>1. ASSUME NEW p \in Launched, Bind(p)
        PROVE  /\ PortInv' /\ held \subseteq held'
               /\ \A q \in Processes : life[q] = "dead" => life'[q] = "dead"
    <3>1. CASE port = None
      BY <2>1, <3>1, ProcessesAssumption
      DEF Bind, PortInv, SupervisorTypeOK, Processes
    <3>2. CASE port # None
      BY <2>1, <3>2, GoneKeepsPort DEF Bind, Processes
    <3>3. QED  BY <3>1, <3>2
  <2>2. ASSUME NEW p \in Processes, Loaded(p)
        PROVE  /\ PortInv' /\ held \subseteq held'
               /\ \A q \in Processes : life[q] = "dead" => life'[q] = "dead"
    BY <2>2 DEF Loaded, PortInv, SupervisorTypeOK
  <2>3. ASSUME NEW p \in Processes, Dies(p)
        PROVE  /\ PortInv' /\ held \subseteq held'
               /\ \A q \in Processes : life[q] = "dead" => life'[q] = "dead"
    BY <2>3, GoneKeepsPort DEF Dies
  <2>4. ASSUME NEW p \in Foreign, Arrives(p)
        PROVE  /\ PortInv' /\ held \subseteq held'
               /\ \A q \in Processes : life[q] = "dead" => life'[q] = "dead"
    BY <2>4, ProcessesAssumption
    DEF Arrives, PortInv, SupervisorTypeOK, Processes
  <2>5. CASE DeadlinePasses
    BY <1>1, <2>5 DEF DeadlinePasses
  <2>6. QED  BY <1>4, <2>1, <2>2, <2>3, <2>4, <2>5 DEF World
<1>5. QED
  BY <1>1, <1>2, <1>3, <1>4
  DEF Start, Attach, Stop, Begin, Interrupt, Operation, Inspect, ProbeHolder,
      LaunchFails, WaitEnds, WaitGoesOn, HealthPoor, HealthGood, VerifyLook,
      VerifyOwner, StopRefused, StopNothing, Terminate, Reaped

----------------------------------------------------------------------------
\* The operations a command uses.

\* A step of an operation leaves the command where it is; only a launch makes
\* the supervisor hold a process, and only what a process has left lets it go.
LEMMA OperationStage ==
  ASSUME BenchTypeOK, StageInv, CleanInv, Operation, UNCHANGED bench
  PROVE  StageInv' /\ CleanInv'
<1> USE DEF bench, world
<1>0. /\ pc # "idle" => stage \in {"ensure", "stopping"}
      /\ op \in {"start", "attach", "stop"} /\ attach \in BOOLEAN
      /\ None # Attached /\ Attached \notin Launched /\ None \notin Launched
  BY ProcessesAssumption
  DEF StageInv, BenchTypeOK, SupervisorTypeOK, Processes
<1>1. CASE UNCHANGED <<life, process, handle>>
  <2>1. CASE Inspect
    BY <1>0, <1>1, <2>1 DEF Inspect, StageInv, CleanInv, Alive
  <2>2. CASE ProbeHolder
    BY <1>0, <1>1, <2>2 DEF ProbeHolder, Finish, StageInv, CleanInv, Alive
  <2>3. CASE LaunchFails
    BY <1>0, <1>1, <2>3 DEF LaunchFails, Finish, StageInv, CleanInv, Alive
  <2>4. CASE WaitEnds
    BY <1>0, <1>1, <2>4 DEF WaitEnds, Fail, Finish, StageInv, CleanInv, Alive
  <2>5. CASE WaitGoesOn \/ HealthPoor \/ VerifyLook
    BY <1>0, <1>1, <2>5
    DEF WaitGoesOn, HealthPoor, VerifyLook, StageInv, CleanInv, Alive
  <2>6. CASE StopRefused
    BY <1>0, <1>1, <2>6 DEF StopRefused, Finish, StageInv, CleanInv, Alive
  <2>7. CASE Terminate
    BY <1>0, <1>1, <2>7 DEF Terminate, StageInv, CleanInv, Alive
  <2>8. CASE ~(Inspect \/ ProbeHolder \/ LaunchFails \/ WaitEnds \/ WaitGoesOn
               \/ HealthPoor \/ VerifyLook \/ StopRefused \/ Terminate)
    <3>1. CASE HealthGood
      BY <1>0, <1>1, <3>1 DEF HealthGood, Finish, StageInv, CleanInv, Alive
    <3>2. CASE VerifyOwner
      BY <1>0, <1>1, <3>2
      DEF VerifyOwner, Fail, Finish, StageInv, CleanInv, Alive
    <3>3. CASE StopNothing \/ Reaped
      BY <1>0, <1>1, <3>3
      DEF StopNothing, Reaped, Stopped, Finish, StageInv, CleanInv, Alive
    <3>4. CASE Kill
      BY <1>0, <1>1, <3>4 DEF Kill, Gone, super, StageInv, CleanInv, Alive
    <3>5. CASE Launch
      BY <1>0, <1>1, <3>5 DEF Launch, StageInv, CleanInv, Alive
    <3>6. QED
      BY <2>8, <3>1, <3>2, <3>3, <3>4, <3>5 DEF Operation
  <2>9. QED
    BY <2>1, <2>2, <2>3, <2>4, <2>5, <2>6, <2>7, <2>8
<1>2. CASE Launch
  <2>1. PICK p \in Launched : /\ life[p] = "absent" /\ process' = p
                              /\ life' = [life EXCEPT ![p] = "up"]
    BY <1>2 DEF Launch
  <2>2. stage = "ensure" /\ ~attach /\ process = None
    BY <1>0, <1>2 DEF Launch, StageInv
  <2>3. StageInv'
    BY <1>2, <2>1, <2>2 DEF Launch, StageInv
  <2>4. \A q \in Launched : Alive(q)' => q = p
    BY <2>1, <2>2, ProcessesAssumption
    DEF CleanInv, Alive, BenchTypeOK, SupervisorTypeOK, Processes
  <2>5. QED
    BY <1>2, <2>1, <2>2, <2>3, <2>4 DEF Launch, CleanInv
<1>3. CASE HealthGood
  BY <1>0, <1>3 DEF HealthGood, Finish, StageInv, CleanInv, Alive
<1>4. CASE VerifyOwner
  <2>1. attach => process = None
    BY DEF StageInv
  <2>2. process # Attached
    BY <1>0 DEF BenchTypeOK, SupervisorTypeOK
  <2>3. QED
    BY <1>0, <1>4, <2>1, <2>2
    DEF VerifyOwner, Fail, Finish, StageInv, CleanInv, Alive
<1>5. CASE StopNothing \/ Reaped
  <2>1. \A p \in Launched : ~Alive(p)
    BY <1>0, <1>5 DEF StopNothing, Reaped, Exited, CleanInv, Alive
  <2>2. /\ process' = None /\ handle' = None /\ pc' = "idle" /\ life' = life
        /\ op' = op
    BY <1>5 DEF StopNothing, Reaped, Stopped, Finish
  <2>3. QED
    BY <1>0, <2>1, <2>2 DEF StageInv, CleanInv, Alive
<1>6. CASE Kill
  <2>1. \A p \in Launched : Alive(p)' => Alive(p)
    BY <1>6 DEF Kill, Gone, Alive, BenchTypeOK, SupervisorTypeOK, Processes
  <2>2. UNCHANGED super
    BY <1>6 DEF Kill
  <2>3. QED
    BY <1>0, <1>6, <2>1, <2>2 DEF super, StageInv, CleanInv
<1>7. QED
  BY <1>1, <1>2, <1>3, <1>4, <1>5, <1>6
  DEF Operation, Inspect, ProbeHolder, LaunchFails, WaitEnds, WaitGoesOn,
      HealthPoor, VerifyLook, StopRefused, Terminate

\* Neither do the processes of the machine: one of ours that is alive was
\* launched here.
LEMMA WorldStage ==
  ASSUME BenchTypeOK, StageInv, CleanInv, World, UNCHANGED bench
  PROVE  StageInv' /\ CleanInv'
<1>1. /\ UNCHANGED <<process, handle, pc, op, outcome>>
  BY DEF World, Bind, Loaded, Dies, Arrives, DeadlinePasses, super
<1>2. \A p \in Launched : Alive(p)' => Alive(p)
  <2> USE DEF Alive, Gone, BenchTypeOK, SupervisorTypeOK, Processes
  <2>1. ASSUME NEW q \in Launched, Bind(q)
        PROVE  \A p \in Launched : Alive(p)' => Alive(p)
    BY <2>1 DEF Bind
  <2>2. ASSUME NEW q \in Processes, Loaded(q)
        PROVE  \A p \in Launched : Alive(p)' => Alive(p)
    BY <2>2 DEF Loaded
  <2>3. ASSUME NEW q \in Processes, Dies(q)
        PROVE  \A p \in Launched : Alive(p)' => Alive(p)
    BY <2>3 DEF Dies
  <2>4. ASSUME NEW q \in Foreign, Arrives(q)
        PROVE  \A p \in Launched : Alive(p)' => Alive(p)
    BY <2>4, ProcessesAssumption DEF Arrives
  <2>5. CASE DeadlinePasses
    BY <2>5 DEF DeadlinePasses, world
  <2>6. QED  BY <2>1, <2>2, <2>3, <2>4, <2>5 DEF World
<1>3. QED  BY <1>1, <1>2 DEF bench, StageInv, CleanInv

\* The command's own steps: an operation is begun only where no other is in
\* progress, and a stage is left when its operation has ended.
LEMMA CommandStage ==
  ASSUME BenchTypeOK, StageInv, CleanInv,
         \/ Ensure \/ Ensured \/ EnsureFails \/ LookAtPort \/ Identify
         \/ Measure \/ LastSample \/ Confirm \/ Cleanup \/ Conclude
         \/ InterruptSupervisor \/ InterruptRun
  PROVE  StageInv' /\ CleanInv'
<1> USE DEF StageInv, CleanInv, Alive, world, super
<1>1. CASE Ensure
  BY <1>1 DEF Ensure, Attach, Start, Begin
<1>2. CASE Ensured \/ EnsureFails
  BY <1>2 DEF Ensured, EnsureFails
<1>3. CASE LookAtPort \/ Identify \/ Measure \/ LastSample \/ Confirm
  BY <1>3 DEF LookAtPort, Identify, Measure, LastSample, Confirm
<1>4. CASE Cleanup
  BY <1>4 DEF Cleanup, Stop, Begin
<1>5. CASE Conclude
  BY <1>5 DEF Conclude
<1>6. CASE InterruptSupervisor
  BY <1>6 DEF InterruptSupervisor, Interrupt, Finish
<1>7. CASE InterruptRun
  BY <1>7 DEF InterruptRun
<1>8. QED  BY <1>1, <1>2, <1>3, <1>4, <1>5, <1>6, <1>7

----------------------------------------------------------------------------
\* The samples.

\* While a command looks at the port and measures, the supervisor is idle, so
\* the report in hand is the one it looked at.
LEMMA SampleStep ==
  ASSUME BenchTypeOK, PortInv, SampleInv, StageInv, [BenchNext]_benchVars
  PROVE  SampleInv'
<1>0. /\ SupervisorTypeOK /\ held \subseteq Processes
      /\ before.pid \in Processes \union {None} /\ None \notin Processes
  BY ProcessesAssumption DEF BenchTypeOK, SupervisorTypeOK
<1>1. /\ held \subseteq held'
      /\ \A q \in Processes : life[q] = "dead" => life'[q] = "dead"
  BY <1>0, PortStep
  DEF BenchNext, Progress, Ensure, Ensured, EnsureFails, LookAtPort, Identify,
      LastSample, Confirm, Cleanup, Conclude, Measure, InterruptSupervisor,
      InterruptRun, benchVars, vars, world
<1>2. ASSUME UNCHANGED <<before, servedBy>>
      PROVE  (before.pid # None =>
                /\ before.pid \in held
                /\ servedBy \subseteq {before.pid}
                     \/ life[before.pid] = "dead")'
  BY <1>0, <1>1, <1>2 DEF SampleInv
<1>3. CASE (Operation \/ World) /\ UNCHANGED bench
  <2>1. stage \in {"identify", "confirm"} => report' = report
    <3>1. CASE World
      BY <3>1
      DEF World, Bind, Loaded, Dies, Arrives, DeadlinePasses, super
    <3>2. CASE Operation
      <4>1. pc # "idle"
        BY <3>2
        DEF Operation, Inspect, ProbeHolder, Launch, LaunchFails, WaitEnds,
            WaitGoesOn, HealthPoor, HealthGood, VerifyLook, VerifyOwner,
            StopRefused, StopNothing, Terminate, Reaped, Kill
      <4>2. QED  BY <4>1 DEF StageInv
    <3>3. QED  BY <1>3, <3>1, <3>2
  <2>2. QED
    BY <1>1, <1>2, <1>3, <2>1 DEF bench, SampleInv, ValidMeansOneServer
<1>4. CASE \/ Ensure \/ Ensured \/ EnsureFails
           \/ LastSample \/ Cleanup \/ Conclude
           \/ InterruptSupervisor \/ InterruptRun
  BY <1>1, <1>2, <1>4
  DEF Ensure, Ensured, EnsureFails, LastSample, Cleanup, Conclude,
      InterruptSupervisor, InterruptRun, SampleInv, ValidMeansOneServer
<1>5. CASE LookAtPort
  <2>1. UNCHANGED <<life, port, held, before, servedBy, produced, valid>>
        /\ report' = Look
    BY <1>5 DEF LookAtPort, world
  <2>2. Look.pid # None => /\ Look.pid = port /\ port \in held
                           /\ life[port] # "dead"
    BY <1>0, LookType DEF SupervisorTypeOK, PortInv
  <2>3. QED
    BY <1>2, <1>5, <2>1, <2>2
    DEF LookAtPort, SampleInv, ValidMeansOneServer
<1>6. CASE Identify
  <2>1. /\ stage = "identify" /\ servedBy = {} /\ ~produced
        /\ UNCHANGED <<life, port, held, servedBy, produced, valid>>
        /\ stage' \in {"measure", "cleanup"}
    BY <1>6 DEF Identify, SampleInv, world
  <2>2. before' = before \/ before' = Fingerprint(Probed)
    BY <1>6 DEF Identify
  <2>3. Fingerprint(Probed).pid = report.pid
        /\ (report.pid # None => report.pid \in held)
    BY <1>0, <2>1, ProbedType DEF SampleInv
  <2>4. before'.pid # None => before'.pid \in held
    BY <2>2, <2>3 DEF SampleInv
  <2>5. QED
    BY <2>1, <2>4 DEF SampleInv, ValidMeansOneServer
<1>7. CASE Measure
  <2>1. /\ stage = "measure" /\ ~produced
        /\ UNCHANGED <<life, port, held, before, produced, valid, stage>>
        /\ \/ servedBy' = servedBy
           \/ Healthy /\ servedBy' = servedBy \union {port}
    BY <1>7 DEF Measure, SampleInv, world
  <2>2. ASSUME before.pid # None
        PROVE  /\ before.pid \in held
               /\ servedBy' \subseteq {before.pid} \/ life[before.pid] = "dead"
    <3>1. before.pid \in held
          /\ (servedBy \subseteq {before.pid} \/ life[before.pid] = "dead")
          /\ (port # before.pid => life[before.pid] = "dead")
      BY <2>2 DEF SampleInv, PortInv
    <3>2. QED  BY <2>1, <3>1
  <2>3. QED  BY <2>1, <2>2 DEF SampleInv, ValidMeansOneServer
<1>8. CASE Confirm
  <2>1. /\ stage = "confirm" /\ stage' = "cleanup"
        /\ UNCHANGED <<before, servedBy>>
        /\ valid' => Fingerprint(Probed) = before
    BY <1>8 DEF Confirm, SameOccupant
  <2>2. valid' => report.pid = before.pid
    BY <1>0, <2>1, ProbedType
  <2>3. QED
    BY <1>2, <2>1, <2>2 DEF SampleInv, ValidMeansOneServer
<1>9. CASE UNCHANGED benchVars
  BY <1>9 DEF benchVars, vars, bench, SampleInv, ValidMeansOneServer
<1>10. QED
  BY <1>3, <1>4, <1>5, <1>6, <1>7, <1>8, <1>9 DEF BenchNext, Progress

----------------------------------------------------------------------------
\* The invariant and what follows from it.

\* Before the command runs it has started nothing it would have to stop.
LEMMA BenchInvInit == BenchInit => BenchInv
<1> SUFFICES ASSUME BenchInit PROVE BenchInv
  OBVIOUS
<1>1. /\ Init /\ BenchTypeOK /\ None # Attached /\ None \notin Processes
      /\ Launched \intersect Foreign = {} /\ Launched \subseteq Processes
  BY BenchTypeInit, ProcessesAssumption DEF BenchInit, Processes
<1>2. PortInv /\ \A p \in Launched : ~Alive(p)
  <2>1. PICK holder \in Foreign \union {None} :
          /\ port = holder /\ held = {holder} \ {None}
          /\ life = [p \in Processes |-> IF p = holder THEN "ready"
                                                       ELSE "absent"]
    BY <1>1 DEF Init
  <2>2. QED  BY <1>1, <2>1 DEF PortInv, Alive, Processes
<1>3. SampleInv
  BY DEF BenchInit, SampleInv, Fingerprint, NoReport, ValidMeansOneServer
<1>4. StageInv /\ CleanInv
  BY <1>1, <1>2 DEF BenchInit, Init, StageInv, CleanInv
<1>5. QED  BY <1>1, <1>2, <1>3, <1>4 DEF BenchInv

\* Every action keeps the invariant.
LEMMA BenchInvStep == BenchInv /\ [BenchNext]_benchVars => BenchInv'
<1> SUFFICES ASSUME BenchInv, [BenchNext]_benchVars PROVE BenchInv'
  OBVIOUS
<1> USE DEF BenchInv
<1>1. BenchTypeOK' /\ SampleInv'
  BY BenchTypeStep, SampleStep
<1>2. PortInv'
  <2>1. SupervisorTypeOK
    BY DEF BenchTypeOK
  <2>2. QED
    BY <2>1, PortStep
    DEF BenchNext, Progress, Ensure, Ensured, EnsureFails, LookAtPort,
        Identify, LastSample, Confirm, Cleanup, Conclude, Measure,
        InterruptSupervisor, InterruptRun, benchVars, vars, world
<1>3. StageInv' /\ CleanInv'
  <2>1. CASE UNCHANGED benchVars
    BY <2>1 DEF benchVars, vars, bench, StageInv, CleanInv, Alive
  <2>2. QED
    BY <2>1, OperationStage, WorldStage, CommandStage DEF BenchNext, Progress
<1>4. QED  BY <1>1, <1>2, <1>3

\* Types of the command and of the supervisor it drives, with any number of
\* processes on the machine.
THEOREM BenchTypeCorrect == BenchSpec => []BenchTypeOK
<1>1. BenchInv => BenchTypeOK
  BY DEF BenchInv
<1>2. QED  BY <1>1, BenchInvInit, BenchInvStep, PTL DEF BenchSpec

\* The same named holder before and after is the same process throughout:
\* processes do not come back, so two looks at the port speak for every sample
\* between them (identity.py, identity_changed).
THEOREM ValidIsOneServer == BenchSpec => []ValidMeansOneServer
<1>1. BenchInv => ValidMeansOneServer
  BY DEF BenchInv, SampleInv
<1>2. QED  BY <1>1, BenchInvInit, BenchInvStep, PTL DEF BenchSpec

\* Unless Ctrl-C hit the start or the teardown, the command leaves no server
\* behind that it started (build_runner, the finally of _run_suite).
THEOREM CommandIsClean == BenchSpec => []CommandCleansUp
<1>1. BenchInv => CommandCleansUp
  <2> SUFFICES ASSUME BenchInv, stage = "done",
                      cut \intersect {"ensure", "stopping"} = {},
                      NEW p \in Launched
               PROVE  ~Alive(p)
    BY DEF CommandCleansUp
  <2>1. process = None /\ (Alive(p) => p = process)
    BY DEF BenchInv, CleanInv
  <2>2. QED  BY <2>1, ProcessesAssumption DEF Processes
<1>2. QED  BY <1>1, BenchInvInit, BenchInvStep, PTL DEF BenchSpec
=============================================================================
