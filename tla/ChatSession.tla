---------------------------- MODULE ChatSession ----------------------------
(***************************************************************************)
(* A session at the command line: `harness chat' (harness/cli_chat.py) and *)
(* `harness run' (harness/cli_run.py), wired by harness/session.py, around *)
(* the agent loop as a person sees it.  The person types messages, answers *)
(* prompts, presses Ctrl-C and leaves; tool calls run in threads           *)
(* (ToolCall) that outlive the turn that made them; answers are judged by  *)
(* the verifier (Evidence) and what the model writes is decoded first      *)
(* (Protocol).                                                             *)
(*                                                                         *)
(* One turn is one AgentLoop.run() on the rows of one run.  AgentRun has   *)
(* the loop's transactions one by one, provider errors and compression;    *)
(* here a turn is the steps between two points where the person, another   *)
(* thread or a cancellation can come in.                                   *)
(*                                                                         *)
(* Abstracted: roles, tokens and time, the order of the append history (it *)
(* is the set of what was appended), rendering and slash commands, two     *)
(* processes on one run, compression (the history is within budget), a     *)
(* session continued by a new process (the next turn of this one, without  *)
(* threads left over).                                                     *)
(***************************************************************************)
EXTENDS ToolCall

CONSTANTS
  Kind,          \* the verifier's class of a run_command key, or None
  Replies,       \* texts the model may write, as sequences of pieces
  MaxSteps, MaxToolCalls, MaxRetries,   \* core.Budget
  Repeats,       \* NO_PROGRESS_REPEAT
  MaxMessages,   \* bound of the model: messages the person types
  MaxCalls,      \* bound of the model: calls dispatched
  EditsAt        \* bound of the model: where the process is when files are
                 \* edited by hand

ASSUME SessionBounds ==
  {MaxSteps, MaxToolCalls, MaxRetries, Repeats, MaxMessages, MaxCalls}
    \subseteq Nat
ASSUME KindAssumption ==
  /\ Kind \in [Keys -> {"test", "lint", "typecheck", "build", None}]
  /\ \A k \in Keys : Kind[k] # None => ToolOf[k] = "run_command"

INSTANCE Evidence WITH EvKeys <- Keys, EvPaths <- Paths, KindOf <- Kind,
                       EvNone <- None
INSTANCE Protocol WITH ToolNames <- {ToolOf[k] : k \in Keys} \intersect
                                    Registered,
                       Absent <- None

VARIABLES
  pc,        \* where the process is
  goal,      \* the goal of the session, the message it came from
  store,     \* the run's rows, None while there are none
  mem,       \* the loop's copy of them during a turn
  typed,     \* messages the person has typed
  lost,      \* those _queue_message had nowhere to put
  reply,     \* what the model wrote last in this step
  action,    \* what it was decoded to
  outcome,   \* RunResult of the turn, None if it was cancelled
  code       \* exit code of the process

sessionVars == <<pc, goal, store, mem, typed, lost, reply, action, outcome,
                 code>>
vars == <<setup, calls, files, pc, goal, store, mem, typed, lost, reply,
          action, outcome, code>>

----------------------------------------------------------------------------
\* Data.

\* What the append history holds: messages of the person, results of steps,
\* retry feedback, notices of interrupted calls.
Entry == [kind : {"message", "result", "resume"}, of : Nat]
         \union {[kind |-> "retry", of |-> 0]}

Said(n)    == [kind |-> "message", of |-> n]
Told(row)  == [kind |-> "result", of |-> row]
Warned(row) == [kind |-> "resume", of |-> row]
Retry      == [kind |-> "retry", of |-> 0]

\* The rows of the run.  rows: its tool steps, each with the call it made
\* (0 for one that was refused) and whether it is still at RUNNING.
Rows == [goal       : Nat,
         baseline   : [Paths -> Writers \union {None}],
         history    : SUBSET Entry,
         rows       : Seq([call : Nat, key : Keys, open : BOOLEAN]),
         executed   : Seq(Executed),
         recent     : Seq(Keys),
         blocked    : SUBSET Keys,
         tool_calls : Nat,
         retries    : Nat,
         steps      : Nat]

StopReasons == {"answered", "budget_exhausted", "no_progress",
                "unrecoverable_error"}

\* RunResult, with the files the answer cited as the verifier found them.
Outcome == [stop : StopReasons, verified : BOOLEAN,
            claims : SUBSET Claims,
            cited : SUBSET [path : Paths, by : Writers \union {None}]]

Stopped(why) == [stop |-> why, verified |-> FALSE, claims |-> {},
                 cited |-> {}]

\* None is told apart from all that may stand in its place.
ASSUME NoneAssumption ==
  /\ None \notin Nat /\ None \notin Rows /\ None \notin Outcome
  /\ None \notin Replies /\ None \notin {"answer", "tool"} \union CommandKinds

\* What is decoded of a reply has the fields of a ToolAction or of an
\* AnswerAction, whatever else is wrong with it.
ASSUME RepliesAssumption ==
  \A r \in Replies : LET o == Extracted(Stripped(r)) IN
    o # None =>
      /\ o.action = "tool" /\ o.tool \in Tools /\ o.arguments # "malformed"
           => o.arguments \in Keys
      /\ o.action = "answer" /\ o.content # None
           => o.content \in [claims : SUBSET Claims,
                              evidence : Seq(Evidence)]

\* A reply is made of pieces: a closing tag is that of its kind, an opening
\* one has a kind.
ASSUME PiecesAssumption ==
  \A r \in Replies :
    /\ r \in Seq({r[i] : i \in DOMAIN r})
    /\ \A i \in DOMAIN r : /\ r[i].piece = "close" => r[i] = Close(r[i].tag)
                           /\ r[i].piece = "open" => r[i].tag # None

InTurn == {"start", "step", "model", "act", "tool", "final"}

Init == /\ ToolInit
        /\ pc = "input" /\ goal = None /\ store = None /\ mem = None
        /\ typed = 0 /\ lost = {} /\ reply = None /\ action = None
        /\ outcome = None /\ code = None

----------------------------------------------------------------------------
\* The person.

\* Defect: the message is appended to the loop's own history, which the next
\* turn overwrites with the stored one.
QueuedInMemory(n) == store

\* _queue_message: appended to the stored history, or dropped while there is
\* none.  The first message of all is the goal.
Queued(n) == [store EXCEPT !.history = @ \union {Said(n)}]

\* `harness run' is given its only one on the command line.
Type ==
  /\ pc = "input" /\ typed < MaxMessages
  /\ typed' = typed + 1 /\ pc' = "start"
  /\ IF goal = None THEN goal' = typed + 1 /\ UNCHANGED <<store, lost>>
     ELSE IF store = None
          THEN lost' = lost \union {typed + 1} /\ UNCHANGED <<goal, store>>
     ELSE store' = Queued(typed + 1) /\ UNCHANGED <<goal, lost>>
  /\ UNCHANGED <<toolVars, mem, reply, action, outcome, code>>

\* /exit, end of input or Ctrl-C at the prompt.
Leave ==
  /\ pc = "input" /\ setup.command = "chat"
  /\ pc' = "left" /\ code' = 0
  /\ UNCHANGED <<toolVars, goal, store, mem, typed, lost, reply, action,
                 outcome>>

\* A person edits a file of the workspace while the session goes on.  What was
\* edited before the run began is as found, and the harness's own files change
\* all the time.
Edit ==
  /\ store # None /\ pc \in EditsAt
  /\ \E p \in Paths \ OwnPaths : files' = [files EXCEPT ![p] = "person"]
  /\ UNCHANGED <<setup, calls, sessionVars>>

----------------------------------------------------------------------------
\* The beginning of a turn.

\* capture_workspace_baseline: the fingerprints of the workspace as it is, the
\* harness's own files included (only .git is left out).
Baseline == files

\* The first turn records what the later ones compare with; then the rows are
\* written, and the journal's first line.
Begin ==
  /\ pc = "start" /\ store = None
  /\ store' = [goal |-> goal, baseline |-> Baseline, history |-> {},
               rows |-> <<>>, executed |-> <<>>, recent |-> <<>>,
               blocked |-> {}, tool_calls |-> 0, retries |-> 0, steps |-> 0]
  /\ files' = [p \in Paths |-> IF p \in OwnPaths THEN "harness" ELSE files[p]]
  /\ mem' = store' /\ pc' = "step"
  /\ UNCHANGED <<setup, calls, goal, typed, lost, reply, action, outcome, code>>

OpenRows == {r \in DOMAIN store.rows : store.rows[r].open}

\* Defect: a turn that finds an open step takes it for a failed one.
NothingUncertain == {}

\* Interrupted calls whose effect nobody can tell.
UncertainRows == {r \in OpenRows : ~Repeatable(store.rows[r].key)}

\* _restore_run_state and _recover_orphaned_steps, in one transaction.
Resume ==
  /\ pc = "start" /\ store # None
  /\ store' = [store EXCEPT
       !.rows = [r \in DOMAIN @ |-> [@[r] EXCEPT !.open = FALSE]],
       !.blocked = @ \union {store.rows[r].key : r \in UncertainRows},
       !.history = @ \union {Warned(r) : r \in UncertainRows}]
  /\ mem' = store' /\ pc' = "step"
  /\ UNCHANGED <<toolVars, goal, typed, lost, reply, action, outcome, code>>

----------------------------------------------------------------------------
\* One step of the loop.

Exhausted == \/ mem.steps >= MaxSteps \/ mem.tool_calls >= MaxToolCalls
             \/ mem.retries >= MaxRetries

\* _finalize, in which everything counted so far is saved.
Finish(result, runtime) ==
  /\ pc' = "final" /\ outcome' = result
  /\ mem' = runtime /\ store' = runtime

\* The budget is checked before every model call; the wall clock may be the
\* bound at any of them.
Step ==
  /\ pc = "step"
  /\ \/ /\ ~Exhausted /\ pc' = "model"
        /\ UNCHANGED <<mem, store, outcome>>
     \/ Finish(Stopped("budget_exhausted"), mem)
  /\ UNCHANGED <<toolVars, goal, typed, lost, reply, action, code>>

\* Defect: the window of recent calls never forgets.
WindowGrows(k) == Append(mem.recent, k)

\* _is_no_progress: the newest calls, the one asked for included.
Window(k) == LET longer == Append(mem.recent, k) IN
             IF Len(longer) <= Repeats THEN longer ELSE Tail(longer)

Stuck(window) == Len(window) = Repeats
                 /\ \A i \in DOMAIN window : window[i] = window[1]

Key == action.arguments

\* Bound of the model: after MaxCalls calls the model asks for no other.
Dispatches(a) == /\ a.action = "tool" /\ a.arguments \notin mem.blocked
                 /\ ~Stuck(Window(a.arguments))

\* The model answers, and the tokens used are saved.
Respond ==
  /\ pc = "model"
  /\ pc' = "act" /\ reply' \in Replies /\ action' = Parse(reply')
  /\ Len(calls) = MaxCalls => ~Dispatches(action')
  /\ UNCHANGED <<toolVars, goal, store, mem, typed, lost, outcome,
                 code>>

\* The server does not answer, and no retry is due.
Fail ==
  /\ pc = "model"
  /\ Finish(Stopped("unrecoverable_error"), mem)
  /\ UNCHANGED <<toolVars, goal, typed, lost, reply, action, code>>

\* Feedback for a reply that did not parse, unless the retries are used up.
Correct ==
  /\ pc = "act" /\ action.action = "error"
  /\ IF mem.retries < MaxRetries
     THEN /\ mem' = [mem EXCEPT !.retries = @ + 1,
                                !.history = @ \union {Retry}]
          /\ store' = mem' /\ pc' = "step" /\ UNCHANGED outcome
     ELSE Finish(Stopped("budget_exhausted"), mem)
  /\ reply' = None /\ action' = None
  /\ UNCHANGED <<toolVars, goal, typed, lost, code>>

\* The answer is verified against what this run has recorded.
Conclude ==
  /\ pc = "act" /\ action.action = "answer"
  /\ LET answer == action.content IN
       Finish([stop |-> "answered", claims |-> answer.claims,
               verified |-> Verified(answer, mem.executed, files,
                                     mem.baseline),
               cited |-> Cited(answer.evidence, files)],
              [mem EXCEPT !.steps = @ + 1])
  /\ reply' = None /\ action' = None
  /\ UNCHANGED <<toolVars, goal, typed, lost, code>>

Row(call, k, open) == [call |-> call, key |-> k, open |-> open]

\* A call that repeats an interrupted one is refused once.
Refuse ==
  /\ pc = "act" /\ action.action = "tool" /\ Key \in mem.blocked
  /\ LET row == Len(mem.rows) + 1 IN
       mem' = [mem EXCEPT
         !.rows = Append(@, Row(0, Key, FALSE)),
         !.executed = Append(@, [id |-> row, key |-> Key, ok |-> FALSE]),
         !.history = @ \union {Told(row)},
         !.blocked = @ \ {Key}, !.steps = @ + 1]
  /\ store' = mem' /\ pc' = "step" /\ reply' = None /\ action' = None
  /\ UNCHANGED <<toolVars, goal, typed, lost, outcome, code>>

GiveUp ==
  /\ pc = "act" /\ action.action = "tool" /\ Key \notin mem.blocked
  /\ Stuck(Window(Key))
  /\ Finish(Stopped("no_progress"), [mem EXCEPT !.recent = Window(Key)])
  /\ reply' = None /\ action' = None
  /\ UNCHANGED <<toolVars, goal, typed, lost, code>>

\* The step's row is written, then the call is dispatched.
Act ==
  /\ pc = "act" /\ action.action = "tool" /\ Key \notin mem.blocked
  /\ ~Stuck(Window(Key))
  /\ Invoke(Key)
  /\ mem' = [mem EXCEPT !.rows = Append(@, Row(Len(calls) + 1, Key, TRUE)),
                        !.recent = Window(Key)]
  /\ store' = [store EXCEPT !.rows = mem'.rows]
  /\ pc' = "tool" /\ reply' = None /\ action' = None
  /\ UNCHANGED <<goal, typed, lost, outcome, code>>

\* save_tool_checkpoint: the result, the counters and the row together.
Checkpoint ==
  /\ pc = "tool" /\ calls[Len(calls)].result # None
  /\ LET row == Len(mem.rows)
         step == [id |-> row, key |-> mem.rows[row].key,
                  ok |-> calls[Len(calls)].result.kind = "ok"]
     IN mem' = [mem EXCEPT
          !.rows[row].open = FALSE, !.executed = Append(@, step),
          !.history = @ \union {Told(row)},
          !.tool_calls = @ + 1, !.steps = @ + 1]
  /\ store' = mem' /\ pc' = "step"
  /\ UNCHANGED <<toolVars, goal, typed, lost, reply, action, outcome, code>>

----------------------------------------------------------------------------
\* The end of a turn.

\* Ctrl-C: the first is delivered at the next await - the model call, the tool
\* call, the end of the task - a second one anywhere.  What was not saved is
\* lost; a tool's thread is not.
Cancel ==
  /\ pc \in InTurn
  /\ calls' = [c \in DOMAIN calls |->
                 IF calls[c].result = None
                 THEN [calls[c] EXCEPT !.result = By("cancel", "cancelled")]
                 ELSE calls[c]]
  /\ pc' = "closing" /\ outcome' = None
  /\ mem' = None /\ reply' = None /\ action' = None
  /\ UNCHANGED <<setup, files, goal, store, typed, lost, code>>

\* The coroutine returns its result.
Finished ==
  /\ pc = "final"
  /\ pc' = "closing" /\ mem' = None
  /\ UNCHANGED <<toolVars, goal, store, typed, lost, reply, action, outcome,
                 code>>

\* exit_code_for; a cancelled run exits with 6.
ExitCode ==
  CASE outcome = None -> 6
    [] outcome # None /\ outcome.stop = "answered" ->
         IF outcome.verified THEN 0 ELSE 3
    [] outcome # None /\ outcome.stop = "budget_exhausted" -> 4
    [] outcome # None /\ outcome.stop = "no_progress" -> 5
    [] outcome # None /\ outcome.stop = "unrecoverable_error" -> 1

AllJoined == \A c \in DOMAIN calls : ~ThreadAlive(c)

\* asyncio.run joins the worker threads, for at most 300 s (only a slow call
\* lasts as long).
EndTurn ==
  /\ pc = "closing"
  /\ AllJoined \/ \E c \in DOMAIN calls : ThreadAlive(c) /\ Slow(c)
  /\ IF setup.command = "chat"
     THEN pc' = "input" /\ UNCHANGED code
     ELSE pc' = "left" /\ code' = ExitCode
  /\ outcome' = None
  /\ UNCHANGED <<toolVars, goal, store, mem, typed, lost, reply, action>>

\* The interpreter joins the threads again, with no limit.
Exit ==
  /\ pc = "left" /\ AllJoined /\ pc' = "exited"
  /\ UNCHANGED <<toolVars, goal, store, mem, typed, lost, reply, action,
                 outcome, code>>

\* Ctrl-C while they are joined: nobody sees the result of the turn.
Hurry ==
  /\ pc = "closing"
  /\ IF setup.command = "chat" THEN pc' = "input" /\ UNCHANGED code
                               ELSE pc' = "left" /\ code' = 6
  /\ outcome' = None
  /\ UNCHANGED <<toolVars, goal, store, mem, typed, lost, reply, action>>

----------------------------------------------------------------------------
Person == Type \/ Leave \/ Cancel \/ Hurry \/ Edit

Turn == \/ Begin \/ Resume \/ Step \/ Fail \/ Respond \/ Correct
        \/ Conclude \/ Refuse \/ GiveUp \/ Act \/ Checkpoint \/ Finished
        \/ EndTurn \/ Exit

Thread(c) == /\ ThreadStep(c) \/ ThreadMay(c) \/ RegistryTimeout(c)
             /\ UNCHANGED sessionVars

Next == Person \/ Turn \/ \E c \in DOMAIN calls : Thread(c)

Spec == Init /\ [][Next]_vars

\* The program and its commands go on; a file tool may block for ever, and
\* nobody has to type, answer a prompt or press a key.
Fairness ==
  /\ WF_vars(Turn)
  /\ \A c \in 1..MaxCalls :
       /\ WF_vars(c \in DOMAIN calls /\ ThreadStep(c) /\ UNCHANGED sessionVars)
       /\ WF_vars(c \in DOMAIN calls /\ RegistryTimeout(c)
                                     /\ UNCHANGED sessionVars)

FairSpec == Spec /\ Fairness

----------------------------------------------------------------------------
SessionTypeOK ==
  /\ ToolTypeOK
  /\ pc \in InTurn \union {"input", "closing", "left", "exited"}
  /\ goal \in Nat \union {None} /\ store \in Rows \union {None}
  /\ mem \in Rows \union {None}
  /\ store # None => Len(store.recent) <= Repeats
  /\ typed \in 0..MaxMessages /\ lost \subseteq 1..typed
  /\ reply \in Replies \union {None}
  /\ outcome \in Outcome \union {None} /\ code \in 0..6 \union {None}

(***************************************************************************)
(* Whatever was typed is in what the model is sent: it is the goal or in   *)
(* the history, unless it was typed while the run had no rows (a first     *)
(* turn interrupted before it wrote any), which cli_chat.py:306 drops.     *)
(* Across cancelled turns and failed ones.                                 *)
(***************************************************************************)
MessagesKept ==
  pc = "model" /\ setup.command = "chat" =>
    \A n \in 1..typed : n = goal \/ Said(n) \in mem.history \/ n \in lost

(***************************************************************************)
(* Of every command this run began the model is told something before it   *)
(* is asked again: its result, its refusal, or that it was interrupted.    *)
(* A turn is cancelled between a step's row and its checkpoint             *)
(* (loop.py:297-338), and the result its thread delivers later is lost.    *)
(***************************************************************************)
NothingUntold ==
  pc = "model" =>
    \A r \in DOMAIN mem.rows :
      ToolOf[mem.rows[r].key] = "run_command" =>
        Told(r) \in mem.history \/ Warned(r) \in mem.history

(***************************************************************************)
(* A verified claim is about something that happened: a claim about tests  *)
(* (a build, lint, types) means a command of that kind ran and exited 0,   *)
(* one about files that a cited file was changed after the run began, by a *)
(* call whose effect is there, by a person, or because it is one of the    *)
(* harness's own (its database lies in the workspace, and verifier.py:271  *)
(* leaves out .git only).  Not that the run did it, nor that nothing has   *)
(* changed since.                                                          *)
(***************************************************************************)
VerifiedWasDone ==
  outcome # None /\ outcome.verified =>
    \A claim \in outcome.claims :
      IF claim \in FileKinds
      THEN \E file \in outcome.cited : ChangedBy(file.path, file.by)
      ELSE \E c \in DOMAIN calls :
             /\ Kind[calls[c].key] = claim /\ calls[c].mode # None
             /\ calls[c].result = By("tool", "ok")

\* Reading the text from left to right, a tag opens reasoning where none is
\* open and the closing tag of the same kind ends it.
Outside(text) ==
  LET within[i \in 0..Len(text)] ==
        IF i = 0 THEN None
        ELSE IF within[i - 1] = None
             THEN IF text[i].piece = "open" THEN text[i].tag ELSE None
        ELSE IF text[i] = Close(within[i - 1]) THEN None ELSE within[i - 1]
      plain[i \in 0..Len(text)] ==
        IF i = 0 THEN <<>>
        ELSE IF within[i - 1] = None /\ within[i] = None
             THEN Append(plain[i - 1], text[i]) ELSE plain[i - 1]
  IN plain[Len(text)]

(***************************************************************************)
(* Nothing the model wrote while it was reasoning is acted on or shown,    *)
(* whichever codec decodes it: what strip_reasoning_markup leaves is what  *)
(* a reader of the text finds outside of reasoning.                        *)
(***************************************************************************)
ReasoningNotActed ==
  reply # None =>
    /\ Stripped(reply) = Outside(reply)
    /\ action.action # "error" =>
         \E i \in DOMAIN Outside(reply) : Payload(Outside(reply)[i]) = action
    /\ ParseNative(reply, <<>>).action = "answer" => Outside(reply) # <<>>

(***************************************************************************)
(* A turn ends, and the session listens again, though the person answers   *)
(* no prompt and a file tool blocks for ever: the registry's timeout and   *)
(* the bounded join see to it (registry.py:109, asyncio.run).              *)
(***************************************************************************)
TurnEnds == pc \in InTurn \union {"closing"} ~> pc \in {"input", "left"}
=============================================================================
