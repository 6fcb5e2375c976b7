------------------------------ MODULE ToolCall ------------------------------
(***************************************************************************)
(* Tool calls: the registry (harness/tools/registry.py), the tools it      *)
(* dispatches (builtin.py, shell.py, filesystem.py, git.py,                *)
(* retrieval_tool.py, _security.py) and the threads they run in.           *)
(*                                                                         *)
(* A synchronous tool runs in a worker thread; the event loop waits for it *)
(* with the tool's timeout.  Neither that timeout nor a cancelled turn     *)
(* stops the thread: `result' is what the loop was given, `pc' where the   *)
(* thread (and the command it started) is, and the two part company.       *)
(*                                                                         *)
(* Abstracted: one command line for all the commands of a session, paths   *)
(* and their containment (a refused path is a `denied' outcome), the texts *)
(* of results, durations (commands are `long' when the timeout they ask    *)
(* for lets them outlast the registry's), the sandbox's argument vector    *)
(* but for the network namespace.                                          *)
(*                                                                         *)
(* A definition whose comment begins with "Defect:" is the next one with a *)
(* plausible mistake in it.  Nothing uses it; TLC checks that the property *)
(* it is paired with notices the mistake.                                  *)
(***************************************************************************)
EXTENDS Classifier, FiniteSets

CONSTANTS
  Keys,      \* call keys: a tool name with its arguments
  ToolOf,    \* the tool of a key
  WritesTo,  \* the workspace path a key's call changes, or None
  Paths,     \* workspace paths
  OwnPaths,  \* those of them the harness writes: its database and journal
  None,      \* Python's None
  Setups     \* the ways a session may be set up

FileTools == {"read_file", "list_files", "search_files", "write_file"}
GitTools  == {"git_status", "git_diff", "git_log"}
Tools     == FileTools \union GitTools \union {"retrieve_facts", "run_command"}

\* What build_registry is given, whether bubblewrap is installed, and of the
\* commands used the line and whether their timeout argument is long.
\* A person confirms in `chat'; `run' has a standing approver or nobody.
Setup == [command   : {"chat", "run"},
          confirm   : {"none", "person", "standing"},
          network   : {"isolated", "allowed"},
          sandbox   : BOOLEAN,
          read_only : BOOLEAN,
          line      : Line,
          long      : BOOLEAN]

ASSUME KeysAssumption == /\ ToolOf \in [Keys -> Tools]
                         /\ WritesTo \in [Keys -> Paths \union {None}]
                         /\ \A k \in Keys : ToolOf[k] = "write_file"
                                               => WritesTo[k] # None
                         /\ None \notin Paths /\ None \notin Keys
                         /\ OwnPaths \subseteq Paths
                         /\ Setups \subseteq Setup

VARIABLES
  setup,   \* how this process was set up
  calls,   \* the calls dispatched so far, in order
  files    \* files[p]: who last wrote p, None for as found

toolVars == <<setup, calls, files>>

----------------------------------------------------------------------------
\* Data.

\* Success, a command's non-zero exit, or ToolResult.error_kind: what the
\* loop does not tell apart (not found, permission, arguments, any exception)
\* is "failed".
Kinds == {"ok", "exit", "denied", "timeout", "failed", "cancelled"}

\* How a command runs: NetworkMode, or without a sandbox.
Modes == {"isolated", "allowed", "unsandboxed"}

\* The outcome of a call and who reports it: the tool, the registry's
\* timeout, or nobody because the turn was cancelled.
Result == [by : {"tool", "registry", "cancel"}, kind : Kinds]

Call == [key     : Keys,
         pc      : {"gate", "ask", "network", "ask_network", "launch",
                    "running", "term", "work", "gone", "stray"},
         asked   : BOOLEAN,              \* a person was asked
         granted : SUBSET {"command", "network"},
         mode    : Modes \union {None},  \* None until launched
         landed  : BOOLEAN,              \* its effect is in the workspace
         result  : Result \union {None}]

ASSUME AbsenceAssumption == None \notin Modes /\ None \notin Result

\* Who may have written a file: a call, the harness itself, or a person.
Writers == Keys \union {"harness", "person"}

By(who, kind) == [by |-> who, kind |-> kind]

ToolInit == setup \in Setups /\ calls = <<>> /\ files = [p \in Paths |-> None]

\* build_registry; the retriever is always wired in.
Registered == IF setup.read_only THEN Tools \ {"write_file", "run_command"}
                                 ELSE Tools

\* ToolSpec.side_effect: repeating a read or writing the same file is safe; a
\* tool this process did not register counts as mutating.
Repeatable(k) == ToolOf[k] \in Registered \ {"run_command"}

\* What the file tools may answer by themselves: paths outside the workspace
\* are denied.
FileOutcomes == {"ok", "denied", "failed"}

\* The git tools: git itself has 10 s.
GitOutcomes == {"ok", "timeout", "failed"}

\* A tool's answers but for run_command's, which has steps of its own.
Outcomes(tool) == CASE tool \in FileTools      -> FileOutcomes
                    [] tool \in GitTools       -> GitOutcomes
                    [] tool = "retrieve_facts" -> {"ok", "failed"}

\* The thread has something left to do; a stray process outlives it.
ThreadAlive(c) == calls[c].pc \notin {"gone", "stray"}

\* A command that asked for more time than the registry gives.
Long(c) == setup.long /\ ToolOf[calls[c].key] = "run_command"

\* Defect: the clock stands still while a person is asked.
SlowUnlessAsked(c) == Long(c) \/ ToolOf[calls[c].key] \in FileTools

\* The call can outlast the registry's timeout: a command that asked for
\* more than its 180 s, one that waits for a person, a file tool that blocks.
\* A git tool stops after its own 10 s.
Slow(c) == \/ Long(c) \/ calls[c].asked
           \/ ToolOf[calls[c].key] \in FileTools

----------------------------------------------------------------------------
\* ToolRegistry.invoke.

\* Refused before dispatch, answered inline (retrieve_facts is a coroutine)
\* or handed to a thread.
Entered(k) ==
  LET tool == ToolOf[k] IN
  IF tool \notin Registered THEN {<<"gone", By("tool", "failed")>>}
  ELSE {<<"gone", By("tool", "failed")>>}
       \union IF tool = "retrieve_facts"
              THEN {<<"gone", By("tool", o)>> : o \in Outcomes(tool)}
              ELSE {<<IF tool = "run_command" THEN "gate" ELSE "work", None>>}

Invoke(k) ==
  /\ \E e \in Entered(k) :
       calls' = Append(calls, [key |-> k, pc |-> e[1], asked |-> FALSE,
                               granted |-> {}, mode |-> None,
                               landed |-> FALSE, result |-> e[2]])
  /\ UNCHANGED <<setup, files>>

\* wait_for gives up; the thread goes on.
RegistryTimeout(c) ==
  /\ calls[c].result = None /\ ThreadAlive(c) /\ Slow(c)
  /\ calls' = [calls EXCEPT ![c].result = By("registry", "timeout")]
  /\ UNCHANGED <<setup, files>>

\* The call's record when its tool returns: nobody listens any more if the
\* registry gave up or the turn was cancelled.  What it was decided on is
\* forgotten.
Returned(c, kind) ==
  [calls[c] EXCEPT !.pc = "gone",
                   !.asked = FALSE, !.granted = {},
                   !.result = IF @ = None THEN By("tool", kind) ELSE @]

Return(c, kind) == calls' = [calls EXCEPT ![c] = Returned(c, kind)]

----------------------------------------------------------------------------
\* run_command, in its thread.

MoveTo(c, pc) == calls' = [calls EXCEPT ![c].pc = pc]

\* default_classifier, on the line as the model wrote it.
Risk == Classify(setup.line)

\* The risk class: DENY, CONFIRM without a callback, CONFIRM with one, ALLOW.
Gate(c) ==
  /\ calls[c].pc = "gate"
  /\ \/ /\ Risk = "deny" \/ (Risk = "confirm" /\ setup.confirm = "none")
        /\ Return(c, "denied")
     \/ /\ Risk = "confirm" /\ setup.confirm = "person"
        /\ calls' = [calls EXCEPT ![c].pc = "ask", ![c].asked = TRUE]
     \/ /\ Risk = "confirm" /\ setup.confirm = "standing"
        /\ calls' = [calls EXCEPT ![c].pc = "network",
                                  ![c].granted = {"command"}]
     \/ /\ Risk = "allow" /\ MoveTo(c, "network")
  /\ UNCHANGED <<setup, files>>

\* Network access is a privilege of its own; without an approver the command
\* runs isolated.
Network(c) ==
  /\ calls[c].pc = "network"
  /\ \/ /\ setup.network = "isolated" \/ setup.confirm = "none"
        /\ calls' = [calls EXCEPT ![c].pc = "launch", ![c].mode = "isolated"]
     \/ /\ setup.network = "allowed" /\ setup.confirm = "standing"
        /\ calls' = [calls EXCEPT ![c].pc = "launch", ![c].mode = "allowed",
                                  ![c].granted = @ \union {"network"}]
     \/ /\ setup.network = "allowed" /\ setup.confirm = "person"
        /\ calls' = [calls EXCEPT ![c].pc = "ask_network", ![c].asked = TRUE]
  /\ UNCHANGED <<setup, files>>

\* The person answers some prompt that is waiting, of the current call or of
\* one given up on; end of input there is an exception in the tool.
Answer(c) ==
  /\ \/ /\ calls[c].pc = "ask"
        /\ \/ calls' = [calls EXCEPT ![c].pc = "network",
                                     ![c].granted = {"command"}]
           \/ Return(c, "denied")
     \/ /\ calls[c].pc = "ask_network"
        /\ \/ calls' = [calls EXCEPT ![c].pc = "launch", ![c].mode = "allowed",
                                     ![c].granted = @ \union {"network"}]
           \/ calls' = [calls EXCEPT ![c].pc = "launch",
                                     ![c].mode = "isolated"]
     \/ /\ calls[c].pc \in {"ask", "ask_network"}
        /\ Return(c, "failed")
  /\ UNCHANGED <<setup, files>>

\* Defect: without bubblewrap every command falls back to a plain shell.
LaunchAnyway(c) ==
  /\ calls[c].pc = "launch"
  /\ calls' = [calls EXCEPT ![c].pc = "running",
                            ![c].mode = IF setup.sandbox THEN @
                                                         ELSE "unsandboxed"]
  /\ UNCHANGED <<setup, files>>

\* Without bubblewrap an approved command is refused, a trusted one runs
\* unsandboxed; starting it may fail.
Launch(c) ==
  /\ calls[c].pc = "launch"
  /\ \/ /\ ~setup.sandbox /\ Risk = "confirm"
        /\ Return(c, "denied")
     \/ /\ setup.sandbox \/ Risk = "allow"
        /\ Return(c, "failed")
     \/ /\ setup.sandbox \/ Risk = "allow"
        /\ calls' = [calls EXCEPT ![c].pc = "running",
                                  ![c].mode = IF setup.sandbox
                                              THEN @ ELSE "unsandboxed"]
  /\ UNCHANGED <<setup, files>>

\* The command changes the workspace, at any time while one of its processes
\* lives.
Land(c) ==
  /\ calls[c].pc \in {"running", "term", "stray"} /\ ~calls[c].landed
  /\ WritesTo[calls[c].key] # None
  /\ calls' = [calls EXCEPT ![c].landed = TRUE]
  /\ files' = [files EXCEPT ![WritesTo[calls[c].key]] = calls[c].key]
  /\ UNCHANGED setup

\* The command exits by itself, or exceeds its own timeout and its process
\* group is sent SIGTERM.
CommandEnds(c) ==
  /\ calls[c].pc = "running"
  /\ Return(c, "ok") \/ Return(c, "exit") \/ MoveTo(c, "term")
  /\ UNCHANGED <<setup, files>>

\* Defect: a command that ignores SIGTERM is not killed.
TerminateOnly(c) ==
  /\ calls[c].pc = "term"
  /\ \/ Return(c, "timeout")
     \/ calls' = [calls EXCEPT ![c] = [Returned(c, "timeout")
                                         EXCEPT !.pc = "stray"]]
  /\ UNCHANGED <<setup, files>>

\* The leader exits within 2 s or is killed; in the sandbox everything it
\* started dies with it, outside a child that ignores SIGTERM lives on.
Terminate(c) ==
  /\ calls[c].pc = "term"
  /\ \/ Return(c, "timeout")
     \/ /\ calls[c].mode = "unsandboxed"
        /\ calls' = [calls EXCEPT ![c] = [Returned(c, "timeout")
                                            EXCEPT !.pc = "stray"]]
  /\ UNCHANGED <<setup, files>>

\* Nobody waits for such a child.
StrayEnds(c) == /\ calls[c].pc = "stray" /\ MoveTo(c, "gone")
                /\ UNCHANGED <<setup, files>>

----------------------------------------------------------------------------
\* The file and git tools, in their threads.

\* write_text is not atomic: a failed write may have changed the file.
Work(c) ==
  /\ calls[c].pc = "work"
  /\ LET k == calls[c].key IN
     \E o \in Outcomes(ToolOf[k]) :
     \E l \in IF ToolOf[k] # "write_file" \/ o = "denied" THEN {FALSE}
              ELSE IF o = "ok" THEN {TRUE} ELSE BOOLEAN :
       /\ calls' = [calls EXCEPT ![c] = [Returned(c, o) EXCEPT !.landed = l]]
       /\ files' = IF l THEN [files EXCEPT ![WritesTo[k]] = k] ELSE files
  /\ UNCHANGED setup

\* What goes on in threads and processes, whoever waits for it; the person's
\* answers are apart, since nobody can be relied on to give them.
ThreadStep(c) == \/ Gate(c) \/ Network(c) \/ Launch(c) \/ CommandEnds(c)
                 \/ Terminate(c)
                 \/ ToolOf[calls[c].key] \in GitTools /\ Work(c)

\* May never happen: the effect, the end of a file tool that blocks (a pipe
\* in the workspace), the end of a stray process.
ThreadMay(c) == Answer(c) \/ Land(c) \/ Work(c) \/ StrayEnds(c)

\* A file is changed by the harness only if it is one of its own, and by a
\* call only if the call writes to it and its effect is in the workspace.
ChangedBy(path, who) ==
  \/ who = "person"
  \/ who = "harness" /\ path \in OwnPaths
  \/ \E c \in DOMAIN calls : /\ calls[c].landed /\ calls[c].key = who
                              /\ WritesTo[who] = path

----------------------------------------------------------------------------
ToolTypeOK == /\ setup \in Setups
              /\ calls \in Seq(Call)
              /\ files \in [Paths -> Writers \union {None}]

(***************************************************************************)
(* No command runs that is denied; none that needs confirmation without    *)
(* an approval of its own and a sandbox; none with network access without  *)
(* a separate approval of that.  shell.py: the sandbox is fail-closed, and *)
(* network access is never granted without an approval.                    *)
(***************************************************************************)
Gated ==
  \A c \in DOMAIN calls :
    calls[c].pc \in {"running", "term"} =>
      /\ Risk # "deny"
      /\ Risk = "confirm" => /\ "command" \in calls[c].granted
                              /\ calls[c].mode # "unsandboxed"
      /\ calls[c].mode = "allowed" => "network" \in calls[c].granted

(***************************************************************************)
(* A command that nobody approved consists of commands the tables list as  *)
(* read-only and nothing else, down to the last substitution nested in it  *)
(* and whatever stands before them (classifier.py:128 takes the worst      *)
(* verdict of all parts, shell.py:69 asks nobody on ALLOW).  Not that it   *)
(* only reads: a program is known by the last part of its path, and a      *)
(* redirection only where it begins a word, so that "echo hi>main.py" is   *)
(* run unasked.                                                            *)
(***************************************************************************)
UnaskedIsListed ==
  \A c \in DOMAIN calls :
    calls[c].pc \in {"running", "term"} /\ "command" \notin calls[c].granted =>
      \A i \in DOMAIN setup.line.parts : OnlyListed(setup.line.parts[i])

(***************************************************************************)
(* When a tool itself has answered - success, failure or its own timeout - *)
(* its effect is over: what it changes later would be unknown to the step  *)
(* history.  Left out are a command without a sandbox, of which SIGTERM    *)
(* may leave a child, and calls that were given up on, whose threads go on *)
(* (registry.py: wait_for around to_thread).                               *)
(***************************************************************************)
AnsweredMeansOver ==
  [][\A c \in DOMAIN calls :
       /\ calls[c].result # None /\ calls[c].result.by = "tool"
       /\ calls[c].mode # "unsandboxed"
       => calls'[c].landed = calls[c].landed]_toolVars
=============================================================================
