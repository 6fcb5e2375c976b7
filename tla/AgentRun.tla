------------------------------ MODULE AgentRun ------------------------------
(***************************************************************************)
(* One run of the agent loop (harness/agent/loop.py) over its SQLite       *)
(* working memory (harness/memory/store.py), with process death between    *)
(* any two transactions and resume by a new process.                       *)
(*                                                                         *)
(* Disk: one row of `runs', `task_state' and `runtime_state', and the      *)
(* `steps' table (row id = position).  Process memory: the fields of       *)
(* AgentLoop, kept as one record `mem' of the shape of RunRuntimeState,    *)
(* which is what `_persist_runtime_state' writes.  Every action contains   *)
(* at most one transaction; what only touches memory is folded into the    *)
(* action of the next transaction, since a crash in between loses it       *)
(* either way.                                                             *)
(*                                                                         *)
(* Abstracted: token counts, elapsed time (the wall-clock bound may be hit *)
(* at any check), texts of messages (kind and what it is about are kept),  *)
(* open_problems and timestamps (nothing reads them back).                 *)
(*                                                                         *)
(* A definition whose comment begins with "Defect:" is the next one with a *)
(* plausible mistake in it.  Nothing uses it; TLC checks that the property *)
(* it is paired with notices the mistake.                                  *)
(***************************************************************************)
EXTENDS Naturals, Sequences, FiniteSets

CONSTANTS
  Calls,         \* call keys: a tool name with its arguments
  Mutating,      \* those of a MUTATING or unregistered tool
  None,          \* Python's None / an absent row
  MaxSteps, MaxToolCalls, MaxRetries,        \* core.Budget
  KeepRecent, MinSpan,                       \* SummarizeOldConversation
  MaxStarts      \* bound of the model: processes that work on this run

ASSUME CallsAssumption == Mutating \subseteq Calls /\ None \notin Calls
ASSUME BoundsAssumption ==
  /\ MaxSteps \in Nat /\ MaxToolCalls \in Nat /\ MaxRetries \in Nat
  /\ KeepRecent \in Nat /\ MaxStarts \in Nat
  /\ MinSpan \in Nat \ {0, 1}  \* 4 in the code: one message is no old span

VARIABLES
  \* on disk
  run,        \* runs.stop_reason: None while NULL or no row
  task,       \* task_state.step_index, None when there is no row
  runtime,    \* runtime_state, None when there is no row
  steps,      \* the steps table
  \* in the process
  pc,         \* where the process is; "off" when there is none
  idx,        \* TaskState.step_index
  mem,        \* the other fields of AgentLoop
  cur,        \* row id of the step being performed
  reply,      \* what the model answered, or how it failed
  call,       \* the tool call in hand
  compressed, \* overflow_compressed of _run_step
  cancelled,  \* AgentLoop._cancelled
  stop,       \* the stop reason _finalize is recording
  \* the world
  starts,     \* processes started so far
  landed,     \* landed[c]: effects of c not yet reported by a durable
              \* result or refusal
  sent        \* the append zone of the last prompt sent for this step

disk  == <<run, task, runtime, steps>>
local == <<idx, mem, cur, reply, call, compressed, stop>>
world == <<starts, landed, sent>>
vars  == <<run, task, runtime, steps, pc, idx, mem, cur, reply, call,
           compressed, cancelled, stop, starts, landed, sent>>

----------------------------------------------------------------------------
\* Data.

Statuses == {"running", "done", "failed", "skipped", "uncertain"}

Failures == {"parse_failure", "unrecoverable_parse", "timeout",
             "unavailable", "context_overflow", "unknown"}
Replies  == {"tool", "answer", "parse_failure", "unrecoverable_parse"}

StopReasons == {"answered", "budget_exhausted", "no_progress",
                "unrecoverable_error", "cancelled"}

\* A row of the steps table; call = None for a model call.
Step == [index : Nat, call : Calls \union {None}, status : Statuses]

\* A message of the append zone: its kind, and the step, row or count it is
\* about.  A "short" message is a tool result a compression rung rewrote.
Message == [kind : {"role", "result", "short", "retry", "resume",
                    "summary"},
            of   : Nat]

Msg(kind, n) == [kind |-> kind, of |-> n]

\* RunRuntimeState.  executed and uncertain name steps by row id.
Runtime == [executed   : Seq(Nat),
            recent     : Seq(Calls),
            uncertain  : SUBSET Nat,
            blocked    : SUBSET Calls,
            append     : Seq(Message),
            active     : Nat \union {None},
            tool_calls : Nat,
            retries    : Nat]

\* None is no number, no record and no reason to stop.
ASSUME NoneAssumption ==
  /\ None \notin Nat /\ None \notin Runtime
  /\ None \notin StopReasons \union {"max_steps", "wall_clock_s",
                                     "max_tool_calls", "max_retries"}

Blank == [executed |-> <<>>, recent |-> <<>>, uncertain |-> {},
          blocked |-> {}, append |-> <<>>, active |-> None,
          tool_calls |-> 0, retries |-> 0]

Row(i, c) == [index |-> i, call |-> c, status |-> "running"]

\* complete_step and the UPDATE of save_tool_checkpoint.
Complete(id, status) == [steps EXCEPT ![id].status = status]

\* unfinished_steps: rows whose finished_at is NULL.
Orphans == {id \in DOMAIN steps : steps[id].status = "running"}

\* Defect: an interrupted call is presumed safe to repeat.
OrphansTrusted == {}

UnsafeOrphans == {id \in Orphans : steps[id].call \in Mutating}

----------------------------------------------------------------------------
\* Compression of the append zone, as far as the loop can tell: which
\* messages are left.  A rung shortens some of the tool results before the
\* newest one (which of them depends on tool names and sizes), or collapses
\* all but the newest KeepRecent messages.

Results(a) == {k \in DOMAIN a : a[k].kind \in {"result", "short"}}

Stale(a) == {k \in Results(a) : \E j \in Results(a) : j > k}

Shorten(a, K) == [k \in DOMAIN a |-> IF k \in K THEN Msg("short", a[k].of)
                                                ELSE a[k]]

Shortened(a) == {Shorten(a, K) : K \in SUBSET Stale(a)} \ {a}

Span(a) == Len(a) - KeepRecent

Collapsed(a) ==
  IF Len(a) < KeepRecent + MinSpan THEN {}
  ELSE {<<Msg("summary", Span(a))>> \o SubSeq(a, Span(a) + 1, Len(a))}

\* One gated rung applied; escalate stops at the first that pays.
Rewrites(a) == Shortened(a) \union Collapsed(a)

\* recover_overflow applies rungs until the prompt fits.
OverflowRewrites(a) ==
  Rewrites(a) \union UNION {Rewrites(b) : b \in Rewrites(a)}

\* escalate with trigger "append_budget": at most one gated rung, none if the
\* zone is within its budget or no rung pays.  (What RetrieveAgain appends is
\* part of the result message it follows.)
BudgetRewrites(a) == {a} \union Rewrites(a)

----------------------------------------------------------------------------
\* Defect: each bound may be exceeded by one.
ExhaustedOffByOne(late) ==
  IF idx > MaxSteps THEN "max_steps"
  ELSE IF late THEN "wall_clock_s"
  ELSE IF mem.tool_calls > MaxToolCalls THEN "max_tool_calls"
  ELSE IF mem.retries > MaxRetries THEN "max_retries"
  ELSE None

\* Budget.exhausted: the first bound hit, or None.  The wall clock is the
\* caller's parameter.
Exhausted(late) ==
  IF idx >= MaxSteps THEN "max_steps"
  ELSE IF late THEN "wall_clock_s"
  ELSE IF mem.tool_calls >= MaxToolCalls THEN "max_tool_calls"
  ELSE IF mem.retries >= MaxRetries THEN "max_retries"
  ELSE None

\* RetryPolicy: retry, or the stop reason.
RetryStop(failure) ==
  IF failure \in {"unrecoverable_parse", "unavailable", "context_overflow"}
    THEN "unrecoverable_error"
  ELSE IF mem.retries >= MaxRetries THEN "budget_exhausted"
  ELSE IF failure = "unknown" THEN "unrecoverable_error"
  ELSE None

\* deque(maxlen=NO_PROGRESS_REPEAT).append
NoProgressRepeat == 3

Pushed(q, c) == Append(IF Len(q) < NoProgressRepeat THEN q ELSE Tail(q), c)

Stuck(q) == /\ Len(q) = NoProgressRepeat
            /\ \A i \in DOMAIN q : q[i] = q[1]

----------------------------------------------------------------------------
Init ==
  /\ run = None /\ task = None /\ runtime = None /\ steps = <<>>
  /\ pc = "off" /\ idx = 0 /\ mem = Blank /\ cur = 0 /\ reply = "answer"
  /\ call = None /\ compressed = FALSE /\ cancelled = FALSE /\ stop = None
  /\ starts = 0 /\ landed = [c \in Calls |-> 0] /\ sent = <<>>

\* The process goes away and its memory with it.
Forget ==
  /\ pc' = "off" /\ idx' = 0 /\ mem' = Blank /\ cur' = 0 /\ reply' = "answer"
  /\ call' = None /\ compressed' = FALSE /\ cancelled' = FALSE
  /\ stop' = None /\ sent' = <<>>

\* Defect: every process starts the run from scratch.
StartOver ==
  /\ pc = "off" /\ starts < MaxStarts
  /\ starts' = starts + 1
  /\ pc' = "start_run"
  /\ UNCHANGED <<disk, local, cancelled, landed, sent>>

\* _load_or_start_state on a run without task state: a fresh start.
StartFresh ==
  /\ pc = "off" /\ starts < MaxStarts /\ task = None
  /\ starts' = starts + 1
  /\ pc' = "start_run"
  /\ UNCHANGED <<disk, local, cancelled, landed, sent>>

\* start_run: insert or reuse the runs row; its stop reason stays.
StartRun ==
  /\ pc = "start_run"
  /\ pc' = "save_first_task"
  /\ UNCHANGED <<disk, local, cancelled, world>>

SaveFirstTask ==
  /\ pc = "save_first_task"
  /\ task' = idx
  /\ pc' = "save_first_runtime"
  /\ UNCHANGED <<run, runtime, steps, local, cancelled, world>>

SaveFirstRuntime ==
  /\ pc = "save_first_runtime"
  /\ runtime' = mem
  /\ pc' = "top"
  /\ UNCHANGED <<run, task, steps, local, cancelled, world>>

\* Defect: the repetition detector does not survive a resume.
ResumeForgetsRecent ==
  /\ pc = "off" /\ starts < MaxStarts /\ task # None /\ runtime # None
  /\ starts' = starts + 1
  /\ idx' = task
  /\ mem' = [runtime EXCEPT !.recent = <<>>]
  /\ pc' = "recover"
  /\ UNCHANGED <<disk, cur, reply, call, compressed, stop, cancelled,
                 landed, sent>>

\* Defect: a missing runtime_state row is not noticed.
ResumeUnchecked ==
  /\ pc = "off" /\ starts < MaxStarts /\ task # None
  /\ starts' = starts + 1
  /\ idx' = task
  /\ mem' = runtime
  /\ pc' = "recover"
  /\ UNCHANGED <<disk, cur, reply, call, compressed, stop, cancelled,
                 landed, sent>>

\* The same on a run with task state and runtime state: a resume.
StartResume ==
  /\ pc = "off" /\ starts < MaxStarts /\ task # None /\ runtime # None
  /\ starts' = starts + 1
  /\ idx' = task
  /\ mem' = runtime
  /\ pc' = "recover"
  /\ UNCHANGED <<disk, cur, reply, call, compressed, stop, cancelled,
                 landed, sent>>

\* _restore_run_state raises StoreError when runtime_state has no row.
StartRefused ==
  /\ pc = "off" /\ starts < MaxStarts /\ task # None /\ runtime = None
  /\ starts' = starts + 1
  /\ UNCHANGED <<disk, pc, local, cancelled, landed, sent>>

\* Defect: the verdicts are committed, the guards only with the next write.
RecoverInTwoWrites ==
  /\ pc = "recover"
  /\ steps' = [id \in DOMAIN steps |->
                 IF id \notin Orphans THEN steps[id]
                 ELSE [steps[id] EXCEPT !.status =
                         IF id \in UnsafeOrphans THEN "uncertain"
                                                 ELSE "failed"]]
  /\ mem' = [mem EXCEPT
               !.uncertain = @ \union UnsafeOrphans,
               !.blocked   = @ \union {steps[id].call : id \in UnsafeOrphans},
               !.append    = IF UnsafeOrphans = {} THEN @
                             ELSE Append(@, Msg("resume", starts))]
  /\ pc' = "top"
  /\ UNCHANGED <<run, task, runtime, idx, cur, reply, call, compressed, stop,
                 cancelled, world>>

\* _recover_orphaned_steps: classify every orphan and commit the verdicts
\* with the guards in one transaction; nothing is written without orphans.
Recover ==
  /\ pc = "recover"
  /\ steps' = [id \in DOMAIN steps |->
                 IF id \notin Orphans THEN steps[id]
                 ELSE [steps[id] EXCEPT !.status =
                         IF id \in UnsafeOrphans THEN "uncertain"
                                                 ELSE "failed"]]
  /\ mem' = [mem EXCEPT
               !.uncertain = @ \union UnsafeOrphans,
               !.blocked   = @ \union {steps[id].call : id \in UnsafeOrphans},
               !.append    = IF UnsafeOrphans = {} THEN @
                             ELSE Append(@, Msg("resume", starts))]
  /\ IF Orphans = {} THEN UNCHANGED <<task, runtime>>
                     ELSE task' = idx /\ runtime' = mem'
  /\ pc' = "top"
  /\ UNCHANGED <<run, idx, cur, reply, call, compressed, stop, cancelled,
                 world>>

----------------------------------------------------------------------------
\* _finalize, entered from several places: three transactions.

ToFinalize(reason) == stop' = reason /\ pc' = "save_task"

SaveTask ==
  /\ pc = "save_task"
  /\ task' = idx
  /\ pc' = "save_runtime"
  /\ UNCHANGED <<run, runtime, steps, local, cancelled, world>>

SaveRuntime ==
  /\ pc = "save_runtime"
  /\ runtime' = mem
  /\ pc' = "finish_run"
  /\ UNCHANGED <<run, task, steps, local, cancelled, world>>

\* finish_run records the stop reason; run() returns.
FinishRun ==
  /\ pc = "finish_run"
  /\ run' = stop
  /\ Forget
  /\ UNCHANGED <<task, runtime, steps, starts, landed>>

----------------------------------------------------------------------------
\* The loop.

\* A cancellation is honoured at the top of the next step.
HonourCancel ==
  /\ pc = "top" /\ cancelled
  /\ ToFinalize("cancelled")
  /\ UNCHANGED <<disk, idx, mem, cur, reply, call, compressed, cancelled,
                 world>>

\* Defect: a step that already has its directive gets another.
EnterStepAgain ==
  /\ pc = "top" /\ ~cancelled
  /\ mem' = [mem EXCEPT !.append = Append(@, Msg("role", idx)),
                        !.active = idx]
  /\ compressed' = FALSE
  /\ pc' = "ask"
  /\ UNCHANGED <<disk, idx, cur, reply, call, stop, cancelled, world>>

\* The head of _run_step: the role directive is appended unless this step
\* already has it.
EnterStep ==
  /\ pc = "top" /\ ~cancelled
  /\ mem' = IF mem.active = idx THEN mem
            ELSE [mem EXCEPT !.append = Append(@, Msg("role", idx)),
                             !.active = idx]
  /\ compressed' = FALSE
  /\ pc' = "ask"
  /\ UNCHANGED <<disk, idx, cur, reply, call, stop, cancelled, world>>

StopOnBudget ==
  /\ pc = "ask"
  /\ \E late \in BOOLEAN : Exhausted(late) # None
  /\ ToFinalize("budget_exhausted")
  /\ UNCHANGED <<disk, idx, mem, cur, reply, call, compressed, cancelled,
                 world>>

\* build() raises PrefixViolation.
StopOnPrefix ==
  /\ pc = "ask" /\ Exhausted(FALSE) = None
  /\ ToFinalize("unrecoverable_error")
  /\ UNCHANGED <<disk, idx, mem, cur, reply, call, compressed, cancelled,
                 world>>

\* The model call is recorded, then sent.
AskModel ==
  /\ pc = "ask" /\ Exhausted(FALSE) = None
  /\ steps' = Append(steps, Row(idx, None))
  /\ cur' = Len(steps) + 1
  /\ sent' = mem.append
  /\ pc' = "model"
  /\ UNCHANGED <<run, task, runtime, idx, mem, reply, call, compressed, stop,
                 cancelled, starts, landed>>

\* generate() raises a ProviderError: the step is closed as failed.
ProviderFails(failure) ==
  /\ pc = "model"
  /\ steps' = Complete(cur, "failed")
  /\ reply' = failure
  /\ pc' = "retry"
  /\ UNCHANGED <<run, task, runtime, idx, mem, cur, call, compressed, stop,
                 cancelled, world>>

\* generate() returns: _accumulate_usage persists, then the reply is parsed.
ModelReplies(kind, c) ==
  /\ pc = "model"
  /\ runtime' = mem
  /\ reply' = kind
  /\ call' = c
  /\ pc' = "parsed"
  /\ UNCHANGED <<run, task, steps, idx, mem, cur, compressed, stop,
                 cancelled, world>>

\* The model step is closed, one way or the other.
CloseModelStep ==
  /\ pc = "parsed"
  /\ \/ /\ reply \in Failures
        /\ steps' = Complete(cur, "failed")
        /\ pc' = "retry"
     \/ /\ reply \notin Failures
        /\ steps' = Complete(cur, "done")
        /\ pc' = "act"
  /\ UNCHANGED <<run, task, runtime, local, cancelled, world>>

\* Defect: compression is repeated until the prompt fits.
RecoverUntilFit ==
  /\ pc = "retry" /\ reply = "context_overflow" /\ ~compressed
  /\ compressed' = TRUE
  /\ \E a \in OverflowRewrites(mem.append) :
       mem' = [mem EXCEPT !.append = a]
  /\ pc' = "ask"
  /\ runtime' = mem'
  /\ UNCHANGED <<run, task, steps, idx, cur, reply, call, stop, cancelled,
                 world>>

\* The first context overflow of a step: recover_overflow, which persists.
RecoverOverflow ==
  /\ pc = "retry" /\ reply = "context_overflow" /\ ~compressed
  /\ compressed' = TRUE
  /\ \/ /\ \E a \in OverflowRewrites(mem.append) :
             mem' = [mem EXCEPT !.append = a]
        /\ pc' = "ask"
        /\ UNCHANGED stop
     \/ /\ \E a \in {mem.append} \union OverflowRewrites(mem.append) :
             mem' = [mem EXCEPT !.append = a]
        /\ ToFinalize("unrecoverable_error")
  /\ runtime' = mem'
  /\ UNCHANGED <<run, task, steps, idx, cur, reply, call, cancelled, world>>

\* No retry: the policy's stop reason ends the run.
GiveUp ==
  /\ pc = "retry" /\ (reply = "context_overflow" => compressed)
  /\ RetryStop(reply) # None
  /\ ToFinalize(RetryStop(reply))
  /\ UNCHANGED <<disk, idx, mem, cur, reply, call, compressed, cancelled,
                 world>>

\* Defect: the retry is charged and the prompt sent again as it was.
RetryUnchanged ==
  /\ pc = "retry" /\ reply # "context_overflow"
  /\ RetryStop(reply) = None
  /\ mem' = [mem EXCEPT !.retries = @ + 1]
  /\ runtime' = mem'
  /\ pc' = "ask"
  /\ UNCHANGED <<run, task, steps, idx, cur, reply, call, compressed, stop,
                 cancelled, world>>

\* _apply_retry_feedback: the retry is charged and the prompt changed.
RetryWithFeedback ==
  /\ pc = "retry" /\ reply # "context_overflow"
  /\ RetryStop(reply) = None
  /\ mem' = [mem EXCEPT !.retries = @ + 1,
                        !.append  = Append(@, Msg("retry", mem.retries + 1))]
  /\ runtime' = mem'
  /\ pc' = "ask"
  /\ UNCHANGED <<run, task, steps, idx, cur, reply, call, compressed, stop,
                 cancelled, world>>

----------------------------------------------------------------------------
\* Acting on a valid reply.

\* _answer: the answer is a completed step.
Answer ==
  /\ pc = "act" /\ reply = "answer"
  /\ idx' = idx + 1
  /\ ToFinalize("answered")
  /\ UNCHANGED <<disk, mem, cur, reply, call, compressed, cancelled, world>>

\* run(): a blocked call is never counted as repetition.
StopOnNoProgress ==
  /\ pc = "act" /\ reply = "tool"
  /\ call \notin mem.blocked /\ Stuck(Pushed(mem.recent, call))
  /\ mem' = [mem EXCEPT !.recent = Pushed(@, call)]
  /\ ToFinalize("no_progress")
  /\ UNCHANGED <<disk, idx, cur, reply, call, compressed, cancelled, world>>

\* The head of _execute_tool: the call is recorded before it executes.
BeginTool ==
  /\ pc = "act" /\ reply = "tool"
  /\ call \in mem.blocked \/ ~ Stuck(Pushed(mem.recent, call))
  /\ mem' = IF call \in mem.blocked THEN mem
            ELSE [mem EXCEPT !.recent = Pushed(@, call)]
  /\ steps' = Append(steps, Row(idx, call))
  /\ cur' = Len(steps) + 1
  /\ pc' = "tool"
  /\ UNCHANGED <<run, task, runtime, idx, reply, call, compressed, stop,
                 cancelled, world>>

\* Defect: the guard is not asked.
InvokeAnyway ==
  /\ pc = "tool"
  /\ landed' = [landed EXCEPT ![call] = @ + 1]
  /\ pc' = "ran"
  /\ UNCHANGED <<disk, local, cancelled, starts, sent>>

\* tools.invoke on a call that is not guarded: its effect happens.
InvokeTool ==
  /\ pc = "tool" /\ call \notin mem.blocked
  /\ landed' = [landed EXCEPT ![call] = @ + 1]
  /\ pc' = "ran"
  /\ UNCHANGED <<disk, local, cancelled, starts, sent>>

\* The tail of _execute_tool: bookkeeping, compression, and the transaction
\* of save_tool_checkpoint, after memory m and with the status of the step.
Checkpoint(m, status) ==
  /\ \E a \in BudgetRewrites(Append(m.append, Msg("result", cur))) :
       mem' = [m EXCEPT !.executed = Append(@, cur),
                        !.append   = a,
                        !.active   = None]
  /\ idx' = idx + 1
  /\ steps' = Complete(cur, status)
  /\ task' = idx'
  /\ runtime' = mem'
  /\ landed' = [landed EXCEPT ![call] = 0]
  /\ pc' = "top"
  /\ cur' = 0 /\ call' = None /\ reply' = "answer" /\ compressed' = FALSE
  /\ sent' = <<>>
  /\ UNCHANGED <<run, stop, cancelled, starts>>

RecordTool ==
  /\ pc = "ran"
  /\ \E status \in {"done", "failed"} :
       Checkpoint([mem EXCEPT !.tool_calls = @ + 1], status)

\* Defect: a refusal is charged like an execution.
RefuseAtACharge ==
  /\ pc = "tool" /\ call \in mem.blocked
  /\ Checkpoint([mem EXCEPT
                   !.tool_calls = @ + 1,
                   !.blocked   = @ \ {call},
                   !.uncertain = {id \in @ : steps[id].call # call}],
                "skipped")

\* _invoke_or_refuse on a guarded call: not executed, not charged; the guard
\* and every uncertain entry for the call are cleared.
RefuseTool ==
  /\ pc = "tool" /\ call \in mem.blocked
  /\ Checkpoint([mem EXCEPT
                   !.blocked   = @ \ {call},
                   !.uncertain = {id \in @ : steps[id].call # call}],
                "skipped")

----------------------------------------------------------------------------
\* The environment: the process is killed, or asked to stop.

Crash ==
  /\ pc # "off"
  /\ Forget
  /\ UNCHANGED <<disk, starts, landed>>

\* cancel() sets a flag that is read at the top of a step only, so it is set
\* there.
Cancel ==
  /\ pc = "top" /\ ~cancelled
  /\ cancelled' = TRUE
  /\ UNCHANGED <<disk, pc, local, world>>

Reply ==
  \/ \E failure \in Failures \ Replies : ProviderFails(failure)
  \/ \E kind \in Replies \ {"tool"} : ModelReplies(kind, None)
  \/ \E c \in Calls : ModelReplies("tool", c)

Loop ==
  \/ StartRun \/ SaveFirstTask \/ SaveFirstRuntime \/ Recover
  \/ HonourCancel \/ EnterStep \/ StopOnBudget \/ StopOnPrefix \/ AskModel
  \/ Reply \/ CloseModelStep
  \/ RecoverOverflow \/ GiveUp \/ RetryWithFeedback
  \/ Answer \/ StopOnNoProgress \/ BeginTool \/ InvokeTool \/ RecordTool
  \/ RefuseTool
  \/ SaveTask \/ SaveRuntime \/ FinishRun

Start == StartFresh \/ StartResume \/ StartRefused

Next == Loop \/ Start \/ Crash \/ Cancel

Spec == Init /\ [][Next]_vars

\* A running process keeps running: one thread, a provider with a request
\* timeout, tools with a timeout each.  Nobody has to start, kill or cancel.
FairSpec == Spec /\ WF_vars(Loop)

----------------------------------------------------------------------------
\* Properties.

PCs == {"off", "start_run", "save_first_task", "save_first_runtime",
        "recover", "top", "ask", "model", "parsed", "retry", "act", "tool",
        "ran", "save_task", "save_runtime", "finish_run"}

\* Every variable holds what the code's annotations say, on disk, in the
\* process and in the world.
TypeOK ==
  /\ run \in StopReasons \union {None}
  /\ task \in Nat \union {None}
  /\ runtime \in Runtime \union {None}
  /\ steps \in Seq(Step)
  /\ pc \in PCs
  /\ idx \in Nat
  /\ mem \in Runtime
  /\ cur \in Nat
  /\ reply \in Failures \union Replies
  /\ call \in Calls \union {None}
  /\ compressed \in BOOLEAN
  /\ cancelled \in BOOLEAN
  /\ stop \in StopReasons \union {None}
  /\ starts \in Nat
  /\ landed \in [Calls -> Nat]
  /\ sent \in Seq(Message)

GuardedOnDisk == IF runtime = None THEN {} ELSE runtime.blocked

\* Resume never silently re-applies an effect (loop.py _invoke_or_refuse):
\* an effect that may be applied twice is never applied while an earlier
\* application has been reported neither by a result nor by a refusal.
AtMostOnceUnreported == \A c \in Mutating : landed[c] <= 1

\* The database never looks recovered while the protection is gone (loop.py
\* _recover_orphaned_steps): each step marked uncertain is still listed and
\* its call guarded and, unless compression summarised it away, warned about,
\* or else a later request for the same call was refused.
RepeatGuarded ==
  \A id \in DOMAIN steps : steps[id].status = "uncertain" =>
    \/ /\ runtime # None
       /\ id \in runtime.uncertain /\ steps[id].call \in runtime.blocked
       /\ \E k \in DOMAIN runtime.append :
            runtime.append[k].kind \in {"resume", "summary"}
    \/ \E later \in DOMAIN steps :
         later > id /\ steps[later] = [steps[id] EXCEPT
                                         !.status = "skipped",
                                         !.index  = steps[later].index]

\* The run's history on disk and its steps table tell one story: executed
\* steps are closed tool steps in order, one per step index and below the
\* resume point; every tool step recorded done or skipped is among them; and
\* the tool calls charged are those not refused (save_tool_checkpoint).
LedgerAgrees ==
  runtime # None =>
    LET done == runtime.executed
        ids  == {done[k] : k \in DOMAIN done}
    IN  /\ \A k \in DOMAIN done :
             /\ done[k] \in DOMAIN steps
             /\ steps[done[k]].call # None
             /\ steps[done[k]].status \in {"done", "failed", "skipped"}
             /\ steps[done[k]].index < task
             /\ k > 1 => /\ done[k - 1] < done[k]
                         /\ steps[done[k - 1]].index < steps[done[k]].index
        /\ \A id \in DOMAIN steps :
             steps[id].call # None /\ steps[id].status \in {"done", "skipped"}
               => id \in ids
        /\ runtime.tool_calls =
             Cardinality({id \in ids : steps[id].status # "skipped"})

\* A step is told its role exactly once, however often it is retried,
\* interrupted or resumed (_run_step, active_step_index): in memory and in
\* what a resume would restore, the active step's directive is in the append
\* zone unless a summary replaced it, and no step has two.
RoleDirectiveOnce ==
  \A m \in {mem} \union ({runtime} \ {None}) :
    LET at(i) == {k \in DOMAIN m.append : m.append[k] = Msg("role", i)}
    IN  /\ \A i \in 0..MaxSteps : Cardinality(at(i)) <= 1
        /\ m.active # None =>
             \/ at(m.active) # {}
             \/ \E k \in DOMAIN m.append : m.append[k].kind = "summary"

\* The k-th step of history done executed its call: it was not refused.
Executes(s, done, k) == k \in DOMAIN done /\ s[done[k]].status # "skipped"

\* Its j-th and k-th steps did, and none between them.
InARow(s, done, j, k) ==
  /\ j < k /\ Executes(s, done, j) /\ Executes(s, done, k)
  /\ \A l \in (j + 1)..(k - 1) : ~ Executes(s, done, l)

\* A stuck run stops before the third identical call in a row executes, also
\* when the calls are spread over several processes (NO_PROGRESS_REPEAT).
NoThirdRepeat ==
  runtime # None =>
    LET done == runtime.executed
    IN  \A i, j, k \in DOMAIN done :
          InARow(steps, done, i, j) /\ InARow(steps, done, j, k) =>
            ~ /\ steps[done[i]].call = steps[done[j]].call
              /\ steps[done[j]].call = steps[done[k]].call

\* Hard bounds on a run (core.Budget): what is charged never exceeds a bound,
\* and what is executed exceeds what is charged by at most one call for each
\* process that died.
BudgetsHold ==
  /\ idx <= MaxSteps /\ mem.tool_calls <= MaxToolCalls
  /\ mem.retries <= MaxRetries
  /\ LET executed == {id \in DOMAIN steps : /\ steps[id].call # None
                                            /\ steps[id].status # "skipped"}
         charged  == IF runtime = None THEN 0 ELSE runtime.tool_calls
     IN  Cardinality(executed) <= charged + starts

\* A retry that cannot change the input is refused (retry.py): within a step
\* a process never sends the model the prompt it has just sent.
RetryChangesPrompt == [][pc = "ask" /\ pc' = "model" => mem.append # sent]_vars

IsPrefixOf(p, q) == Len(p) <= Len(q) /\ SubSeq(q, 1, Len(p)) = p

\* Committed progress is never lost (ARCHITECTURE.md, Agent loop): through
\* crashes and resumes the resume point never moves back, recorded results
\* are never dropped, and a closed step is never reopened or reclassified.
ProgressKept ==
  [][/\ task # None => task' # None /\ task' >= task
     /\ runtime # None => /\ runtime' # None
                          /\ IsPrefixOf(runtime.executed, runtime'.executed)
     /\ \A id \in DOMAIN steps : steps[id].status # "running" =>
                                   steps'[id] = steps[id]]_vars

\* Every process ends by itself: budgets, the retry pool and one overflow
\* recovery per step leave no way to go on forever.
Returns == pc # "off" ~> pc = "off"

\* A run that is listed as resumable can be resumed (store.py
\* resumable_runs): whenever no process works on it, both states are there.
ResumableCanResume ==
  pc = "off" /\ task # None /\ run = None => runtime # None

\* The retry the policy has just granted is sent to the model: a step is not
\* stopped by the very retry bound its feedback was charged against.
GrantedRetryIsSent ==
  [][pc = "ask" /\ pc' = "save_task" /\ stop' = "budget_exhausted" =>
       ~ (/\ Exhausted(FALSE) = "max_retries"
          /\ mem.append[Len(mem.append)] = Msg("retry", mem.retries))]_vars

----------------------------------------------------------------------------
\* The loop implements the promise about side effects.

OwedOnDisk(c) ==
  \/ c \in GuardedOnDisk
  \/ \E id \in Orphans : steps[id].call = c

GuardPhase ==
  [c \in Mutating |->
     IF pc = "tool" /\ call = c /\ c \notin mem.blocked THEN "begun"
     ELSE IF pc = "ran" /\ call = c THEN "ran"
     ELSE IF OwedOnDisk(c) THEN "owed"
     ELSE "free"]

Guard == INSTANCE EffectGuard
           WITH phase  <- GuardPhase,
                landed <- [m \in Mutating |-> landed[m]]

\* Every step of the loop, of a crash and of a resume is a step of the
\* side-effect promise or leaves it alone.
ImplementsGuard == Guard!Spec
=============================================================================
