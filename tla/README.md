# Verification of the harness

TLA+ specifications of the harness in `src/src/harness/`, the TLC
configurations that check them on small instances, and TLAPS proofs of the
results that matter most for every instance.

- `AgentRun`, with its abstract specification `EffectGuard`: one run of the
  agent loop over its SQLite working memory, with process death between any two
  transactions and resume by a new process.
- `Supervisor` and, built on it, `Benchmark`: the process that serves the
  model, the port it competes for, and a benchmark command from start to exit
  status.
- `MemoryFile`: several processes that open and use one memory database, of
  any age and from different builds of SQLite.
- `ChatSession`, with `ToolCall`, `Classifier`, `Evidence` and `Protocol`: a
  session at the command line, its turns, its person, and the tool calls whose
  threads outlive the turns.
- `Prompt`, with `Settings`, `Provider`, `Assembler`, `Ladder` and
  `ToolOutput`: the configuration, the prompt that grows under it, how its
  requests fail, and how it is compressed.

Line numbers below and in `PROJECT.json` refer to files under
`src/src/harness/` unless a longer path is given. `PROJECT.json` maps each
definition to the lines it models.

## 1. Inventory

### The agent loop and its memory

| component | state it keeps | operations |
|---|---|---|
| agent loop (`agent/loop.py`) | the fields of `AgentLoop` (history, repetition window, uncertain steps, blocked repeats, role marker, counters), the cancel flag | `run`, `_run_step`, `_execute_tool`, `_invoke_or_refuse`, `_recover_orphaned_steps`, `_restore_run_state`, `_finalize`, `cancel` |
| retry policy (`agent/retry.py`) | none; it judges a failure and the counters | `decide` |
| overflow recovery (`agent/overflow.py`) and compression ladder (`context/compressor.py`) | none of their own; they rewrite the prompt's append zone | `recover_overflow`, `escalate` and five rungs |
| prompt assembler (`context/assembler.py`) | stable prefix, append zone, digests of the last prompt | `append_*`, `invalidate`, `build` |
| roles, verifier (`agent/roles.py`, `agent/verifier.py`) | none | role of a step, evidence for an answer |
| working memory (`memory/store.py`, `memory/schema.sql`) | tables `runs`, `task_state`, `runtime_state`, `steps` | one transaction per operation |
| schema migrations (`memory/migrations.py`) | `schema_version` | numbered steps, each its own transaction |
| facts (`memory/facts.py`), retrieval | table `facts`, FTS index and its triggers | remember, forget, search, rebuild |
| chat session (`cli_chat.py`) and run command (`cli_run.py`, `session.py`) | goal, totals, one run continued over turns | a turn, queue a message, ask for approval, interrupt, leave |
| tool registry (`tools/registry.py`) | registered tools, worker threads | `invoke` with validation and timeout |
| tools (`tools/*.py`) | none; they change the workspace | gate, sandbox, run and kill a command; file and git access; compress an output |
| command classifier (`security/classifier.py`, `shellsplit.py`) | none | verdict on a command line |
| verifier (`agent/verifier.py`) | none | capture a baseline, judge an answer |
| configuration (`config/*.py`) | none | merge five layers, validate, attribute |
| action protocol (`protocol/*.py`), providers (`models/*.py`) | none | parse a reply; one HTTP request |

The loop is one thread that awaits one thing at a time. Its components are
called, not messaged; what they share is the loop's memory and the database.
The exceptions are the tools: each runs in a worker thread that neither a
timeout nor Ctrl-C stops, and a command is a process besides.
What makes it hard is that the process may die between any two transactions,
after a tool has had its effect and before anybody knows, and that a second
process goes on from what is on disk. The classifications of a step after a
crash, the protection against repeating an interrupted call, the role
directive, the counters and the repetition window all live on both sides of
that line.

What makes these components correct:

- loop and memory together: an effect is not silently applied twice; committed
  progress is not lost; history, steps table and counters agree; the bounds of
  a run hold over all of its processes; every process ends.
- retry and overflow: a retry is a different request; recovery stops.
- assembler: a changed prefix is noticed unless declared; a step reads its role
  once.
- budget and ladder: the budget is that of the server; recovery from an
  overflow shrinks the prompt and says truly whether it succeeded; the newest
  result survives; an elision tells how much is missing.
- tools: what runs was allowed or approved, each privilege by itself; when a
  tool has answered, its effect is over.
- verifier and protocol: a verified claim is about something that happened;
  what the model wrote while reasoning is not acted on.
- migrations: the steps reached are those of the version number, whoever else
  opens the file.
- facts: the index agrees with the table under every build of SQLite, and a
  search gives the answers of a scan.
- chat: a typed message reaches the model; an interrupted command is reported
  to it; a turn ends, whoever does not answer.
- configuration: an effective value is what the layer it is attributed to says.

### The server

| component | state it keeps | operations |
|---|---|---|
| supervisor (`runtime/supervisor.py`, `handle.py`) | the child process, the handle (owned or attached) | `start`, `attach`, `ensure`, `stop`, `health` |
| port inspection (`runtime/port.py`) | none; it reads `/proc` and asks `/health` | `inspect_port`, `inspect_port_async`, `verify_owner` |
| benchmark command (`cli_benchmark.py`, `benchmark/runner.py`, `identity.py`) | the fingerprint, the samples, the invalidations, the exit status | ensure, identify, measure, confirm, clean up |
| suites, statistics, reports (`benchmark/*.py`) | none | load, summarise, compare |

Here the concurrency is with the rest of the machine: the port is the only
name a server has, and it changes hands while the harness looks away.
`start` looks at the port, launches, asks whether something healthy answers and
then who it is; each of these is a look at a world that has moved since the
previous one. Correctness is about attribution (the numbers are those of the
server one thinks) and about ownership (what was started is stopped, what was
not is left alone).

### The rest

Discovery (`discovery/`), diagnostics, telemetry, the command lines (`cli.py`,
`cli_inspect.py`), `runtime/argv.py`, memory inspection and the coverage script
are sequential I/O, parsing or wiring; `PROJECT.json` lists each of them with
the reason.

## 2. What models what

### `AgentRun`

| in the model | in the code |
|---|---|
| `run`, `task`, `runtime`, `steps` | rows of `runs`, `task_state`, `runtime_state`, and the `steps` table (row id = position) |
| `mem` | the fields of `AgentLoop` that `_persist_runtime_state` writes (`RunRuntimeState`) |
| `idx`, `cur`, `reply`, `call`, `compressed`, `cancelled`, `stop` | `TaskState.step_index`, the row of the step at hand, what the model answered, the tool call, `overflow_compressed`, `_cancelled`, the reason `_finalize` records |
| `pc` | which transaction or call comes next |
| `starts`, `landed`, `sent` | the world: processes started, effects of each call nobody has reported, the last prompt sent for this step |

Each action holds at most one transaction. What only touches memory is folded
into the action of the next transaction: a crash between the two loses it
either way. `InvokeTool` is an action of its own, because the effect of a tool
lands before its result is recorded; `Crash` is enabled at every `pc`.

| actions | code |
|---|---|
| `StartFresh`, `StartRun`, `SaveFirstTask`, `SaveFirstRuntime` | `_load_or_start_state`, a new run: three transactions |
| `StartResume`, `StartRefused`, `Recover` | `_restore_run_state`, `_recover_orphaned_steps`: verdicts and guards in one transaction |
| `HonourCancel`, `EnterStep`, `StopOnBudget`, `StopOnPrefix`, `AskModel` | head of `run` and of `_run_step` |
| `ProviderFails`, `ModelReplies`, `CloseModelStep` | the outcomes of `generate` and of `parse` |
| `RecoverOverflow`, `RetryWithFeedback`, `GiveUp` | the three ways out of a failed attempt |
| `Answer`, `StopOnNoProgress`, `BeginTool`, `InvokeTool`, `RecordTool`, `RefuseTool` | what follows a parsed reply |
| `SaveTask`, `SaveRuntime`, `FinishRun` | `_finalize`: three transactions |
| `Crash`, `Cancel` | death of the process; `cancel()` |

Abstracted: token counts and elapsed time (the wall-clock bound may be hit at
any check), message texts (their kind and what they are about remain), which
role a step gets, the evidence check of an answer, `open_problems` and
timestamps. A compression rung is what it leaves of the append zone: any
subset of the stale tool results shortened, or all but the newest messages
summarised. Where the code chooses by sizes, the model chooses freely, so it
has every behaviour of the code and some more. Outside the model: two live
processes on one run, and the late effect of a tool whose timeout has expired.

### `EffectGuard`

The promise of crash recovery by itself, in four phases per call: free, begun,
ran, owed. An owed call is refused once, durably, before it may run again.
`AgentRun` defines the refinement mapping (`GuardPhase`): a call is owed while
its guard is on disk or while a step of it is open and nobody is performing it.

### `Supervisor`

| in the model | in the code |
|---|---|
| `process`, `handle` | `_process` (a launch, dead or alive), `_handle` (none, attached, owned with a pid) |
| `pc`, `op`, `late`, `report`, `outcome` | the operation in progress, its deadline, the last `PortReport`, how it ended |
| `life`, `port`, `held` | the world: each process's life, the listener, and everyone who has ever listened |

Every step that awaits, or that reads the world, is an action; between two of
them processes bind, finish loading, die, or take the port. `Inspect` and
`ProbeHolder` are the two halves of `inspect_port_async`, `VerifyLook` and
`VerifyOwner` those of `verify_owner`, `WaitEnds`, `WaitGoesOn`, `HealthPoor`
and `HealthGood` the loop of `_wait_for_health`. `Fail` is the `except
Exception` around it. `Interrupt` is cancellation, which only an `await` can
receive. A launched server that finds the port taken exits (`Bind`).

Abstracted: one look at the port is one moment (`_is_free` and `_holder` are
consecutive and synchronous; a holder that leaves in between is reported as
unknown where the model says free, and both end in a refusal or in a
fingerprint that names nobody); pids are not reused; descendants of a launched
process are the process; SIGKILL works; the grace period may be any length.

### `Benchmark`

The command around it: `Ensure`, `Ensured`, `EnsureFails` (`build_runner`,
before the `try`), `LookAtPort` and `Identify` (`probe_identity`), `Measure`
and `LastSample`, again `LookAtPort` and then `Confirm` (`_confirm_identity`),
`Cleanup` (the `finally`), `Conclude` (the exit status). The supervisor's
operations are those of `Supervisor`, conjoined with an unchanged command.
Ctrl-C may cancel any await, also a second time during the clean-up.

### `MemoryFile`

| in the model | in the code |
|---|---|
| `version`, `tables`, `fts`, `triggers` | `PRAGMA user_version` and what `sqlite_master` lists |
| `facts`, `index` | table `facts`, and what `facts_fts` would find for each key |
| `pc`, `seen`, `stale`, `at`, `uses`, `refusal` | where each process is in `MemoryStore.__init__`: the version it read, the flag of `_ensure_fts`, the statement of the script, `FactStore.fts5`, the error raised |
| `opens`, `mishaps` | history: opens so far, and what has befallen the index: a death in the script, a death before the filling, a trigger dropped behind the back of a script |

`ReadVersion` and `LookForTables` are the two reads of `ensure_schema` and
`check_schema`; `CreateSchema` and `Migrate` its transactions; `ReaderLooks`,
`WriterLooks` and `WriterWithoutFts` the three kinds of `FactStore`;
`RunScript` one statement of `FTS_SQL`, `Rebuild` the statement after it,
`DropTrigger` one turn of the loop that drops. Statements outside an explicit
transaction commit one by one (Python's driver opens transactions by itself
only for inserts, updates and deletes), so other processes may come between
any two of them, and a process may die there.

Builds with and without FTS5 use the file side by side. SQLite compiles a
statement's triggers along with it, so a build without FTS5 fails to write
while a trigger is there that it would fire (`Compiles`).

Abstracted: a fact is one term; ranking and categories; waiting for SQLite's
lock; the tables apart from `runs` (version 1) and `runtime_state` (version 2).

### `ChatSession` and what it is built from

| in the model | in the code |
|---|---|
| `setup` | the options of `chat` or `run`, what `build_registry` is given, whether bubblewrap is installed, and the command line that the session's commands share |
| `calls`, `files` | dispatched calls with where their thread is and what the loop was given; the workspace, by who last wrote each path: a call, a person or the harness |
| `pc`, `goal`, `store`, `mem`, `typed`, `lost` | `_session` and `AgentLoop.run`; the rows of the run and the loop's copy of them; messages typed, and dropped |
| `reply`, `action`, `outcome`, `code` | text of the model, what it was decoded to, `RunResult`, exit code |

`ToolCall` is the registry and its tools. `Invoke` dispatches,
`RegistryTimeout` is `wait_for` giving up, and between `Gate` and `Terminate`
lie the steps of `run_command` in its thread: class of risk, approval
(`Answer`), network, sandbox (`Launch`), own timeout, kill. A command changes
the workspace (`Land`) at any moment while one of its processes lives.
`Classifier` gives `Gate` its verdict from the parts of the line, whose words
are what the classifier takes them for: `namesake` is a program named by a path
that ends like a read-only command, `glued` a word with a redirection within
it, and neither is seen through. `Protocol` decodes what the model wrote,
`Evidence` judges answers. The workspace holds files of the harness's own
(`OwnPaths`: the database and the journal), which change after the baseline
was taken, as `Begin` says; a person may change the others at any time
(`Edit`). Actions of
`ChatSession`: `Type`, `Leave`, `Cancel` and `Hurry` (Ctrl-C in a turn and
after it) are the person's; `Begin` and `Resume` start a turn; `Step`,
`Respond`, `Fail`, `Correct`, `Conclude`, `Refuse`, `GiveUp`, `Act`,
`Checkpoint` are the loop's between two points where something can come in;
`EndTurn` and `Exit` are the two joins of the worker threads, by `asyncio.run`
and by the interpreter.

`AgentRun` has the transactions of the loop one by one and crashes between
them; `ChatSession` has turns, threads and interruptions and takes a step's
writes together. Abstracted: roles, tokens, time, rendering; the append
history is the set of what was appended; a JSON value that can be repaired is
one that parses; the tables of command names are classes of words.

### `Prompt` and what it is built from

| in the model | in the code |
|---|---|
| `layers`, `settings` | what `load_config` reads; the `ResolvedConfig`, with the ratio of the generation reserve |
| `prefix`, `pending`, `last`, `append`, `report` | `PromptAssembler` and the prefix benchmark's report |
| `pc`, `step`, `retries`, `climbed` | the loop: steps done, retries used, `overflow_compressed` |
| `directive`, `turns` | whether the step has its role directive, and whether the store has it (`_active_step_index`); turns after the first |
| `before`, `entry`, `since` | what `recover_overflow` compares with; the tokens when it began, and the messages appended after the newest result (both history) |

`Configure` is `resolve_config` (`Settings`), `BuildLoop` the `TokenBudget` made
of its numbers, which may refuse them. `BeginStep`, `Call` (`Answer`, `EndRun`,
`Retry`, `ToolReturns`, `Overflow`) and `Climb` are what appends to the prompt,
builds it, sends it and shrinks it (`_run_step`, `_answer`, `_finalize`,
`_execute_tool`, `_maybe_compress`, `recover_overflow`). `Interrupt` is Ctrl-C
or the end of the process, which loses a directive that was not saved, and may
cut off a call that writes. `NextTurn` goes on from the stored append zone:
after the person's next message in a chat, or without one in a resumed run,
with a note of the call that was cut off. All this is over `Provider` (how a request ends,
and which error that is), `Ladder` (rungs, budget, what a rewrite must save)
and `ToolOutput` (the view of a command's output, as lines with a class and a
size). `Probe` is the prefix benchmark, which drives an assembler of its own.
The server may report an overflow at any call: the harness only estimates what
the server counts. Sizes are bytes, tokens are estimated from them as
`estimate_tokens` does, in whole numbers.

Abstracted: segments of the prefix (it is one value), wording of summaries,
who wrote a message, the rate of prompt processing (it divides both sides of
the comparison), patterns that give a line its class. The bounds on a run's
time and tool calls end it as `EndRun` does; a run is resumed under its own
configuration; the product of ceiling and ratio is rounded down as a fraction,
not as the float that stands for it.

## 3. Runs

| run | instance | states | what it shows |
|---|---|---|---|
| `agent_crash` | 2 steps, 2 tool calls, 2 retries, 3 processes, one call that may apply twice and one that may not | 798,079 | no silent repeat; guards survive every crash; one role directive; bounds; retries differ; progress kept; refinement of `EffectGuard` |
| `agent_history` | 3 steps, 3 tool calls, 1 retry, 2 processes | 454,354 | the ledger agrees, no third identical call, every process ends |
| `agent_start` | 2 processes | violation | a run that is resumable and cannot be resumed |
| `agent_retry` | 1 retry | violation | a granted retry that is not sent |
| `supervisor_any` | 2 launches, a stranger that serves models, one that does not and cannot be seen; any order of operations | 86,124 | an owned handle names a process that has held the port |
| `supervisor_cancel` | the same | violation | a cancelled start leaves its server |
| `benchmark_command` | 1 launch, two visible servers and an invisible stranger, attached or not | 28,821 | a valid record is of one server, nothing outlives the command, the command ends |
| `benchmark_attach` | the same | violation | an attached run is discarded by its own clean-up |
| `memory_shared` | two writers and a reader with FTS5, a writer without, side by side, one fact of two values, 4 opens | 4,000,350 | the schema is always one version's, an open store has the current one, a complete index is a true one but for the two ways of losing it |
| `memory_reader` | the same | violation | a reader that searches a stale index |
| `session_turns` | 8 setups, a test command, an edit and a retrieval, 11 replies, 2 messages, 2 calls, 2 steps, 1 retry, a file that is edited by hand and one of the harness's own | 549,746 | nothing runs unallowed or unapproved; what runs unasked is listed; messages and interruptions reach the model; a verified claim is of something that happened; reasoning is not acted on; an answered call is over; turns end |
| `prompt_growth` | 100 configurations, two outputs of a test run and one of git, 3 steps, 2 retries, a further turn; a benchmark script of 4 steps | 465,790 | settings explained and consistent; views tell all; the newest result stays while fewer than `KeepMessages` others follow it; every overflow is recognised; recovery shrinks and is truthful; silent changes of the prefix are caught |

### Why the bounds are enough

Three processes are the fewest in which a call is interrupted, its refusal is
interrupted too, and the call is then repeated; they also let a recovery be
interrupted and redone. Two calls, one guarded and one not, are enough because
the loop treats calls of one class alike, and interactions between calls go
through the window and the guards that two of them exercise.
`NO_PROGRESS_REPEAT` is 3, so `agent_history` has three steps. `KeepRecent` and
`MinSpan` are smaller than in the code (they are parameters of
`SummarizeOldConversation`) so that a summary happens within the few messages
of a short run.

For the server, two launches let a start follow the remains of another one.
Two visible servers let one replace the other under an attached run; the
third stranger cannot be identified and does not serve models.

For the memory file, four opens let two writers open at once after a build
without FTS5 has used the file, and a reader come last; the initial files have
every version from none to a newer one, with an index and without. Facts are
indexed one by one, so one fact is enough; it is absent or has one of two
values, so that an update can be told from an insert. Writers with FTS5 are
alike and so are the values (`MCSymmetry`; the run has no liveness).

For a session, two messages are a first turn and one that resumes it, and two
calls are one that is left running by a timeout or Ctrl-C and one made
meanwhile. `Repeats` is 2 where the code has 3 (the window is `AgentRun`'s
subject). The setups have every way of approval and every verdict of the
classifier, with and without sandbox, network, read-only tools and commands
that outlast the registry; their lines are the ones on which its rules meet
(wrapped and nested, with a namesake and a redirection glued into a word,
nested beyond what is read with `MaxDepth` 1 for 8, redirected, privileged,
outside the workspace, not tokenised). What the
classifier says of one part is compared with a reference for all parts of up to
four words (`PartRiskReference`, which TLC evaluates at the start). Files are
edited by hand while the model is asked (`EditsAt`): that is after the baseline
and before the verdict, and the theorems allow it anywhere.

For the prompt, windows of a few hundred tokens fill within three steps.
`KeepMessages` 4, `KeepResults` 1, `MinSpan` 2 and a margin of 50% stand for 6,
3, 4 and 1.5: all rungs are reached, each is refused at times as not paying.
Directives, two retries, a message and a note of an interrupted call make more
than `KeepMessages` after a result, so that the run also has the overflow that
collapses it. Each layer sets fields that the others set, the ratio of the
reserve among them, and each kind of refusal occurs, that of a reserve of
nothing included. The two prefixes are alike (`MCSymmetry`; no liveness here
either).

`MaxMessages`, `MaxCalls`, `MaxProbes`, `MaxTurns`, `MaxStarts`, `MaxOpens` and
`EditsAt` bound the models, not the code; the theorems hold for any value. Deadlock is checked in
`supervisor_any`. The other runs end: a process that has exited, a run of the
loop that used its processes stops, so does a command that has exited, and a
file that nobody opens any more stays as it is.

### Liveness and fairness

`Returns` (every process of the loop ends) assumes `WF_vars(Loop)`: the loop is
one thread, the provider has a request timeout and every tool has a timeout, so
a running process takes its next step. Starting, killing and cancelling are
not assumed. It does not hold by the bounds of the model: retries and overflow
recoveries go round within a step, and it is the retry pool and the one
recovery per step that end them.

`CommandEnds` assumes weak fairness of the command's own steps and of
`DeadlinePasses`. Nothing is assumed of the servers: they may load for ever,
ignore SIGTERM, or never bind. That a suite is finite is the fairness of
`LastSample`, one of the command's steps.

`TurnEnds` (a turn ends and the session listens again) assumes weak fairness of
the turn's own steps, of the steps of commands and git tools (git has a timeout
of 10 s, a command one of its own), and of the registry's timeout. Nothing is
assumed of the person, who need not answer a prompt, nor of a file tool, which
may block on a pipe for ever.

## 4. Proofs

`AgentRunProofs`, for any calls, bounds and number of processes:

- `TypeCorrect`: `Spec => []TypeOK`. The invariant is `TypeInv`, which adds
  that there is a call in hand wherever the loop uses one.
- `NoSilentRepeat`: `Spec => []AtMostOnceUnreported`. The property says nothing
  about the disk and is not inductive. `GuardInv` adds why it holds:
  `MemoryAgrees` (the guards a working process enforces are those on disk),
  `OneRunning` (a working process has no row open but the one at hand),
  `LandedCovered` (an unreported effect is that of a guarded call, or of a row
  still open that did execute), and `StartInv` (the rows of a run appear in
  order, and before the first save there is nothing to protect).
- `Refinement`: `Spec => ImplementsGuard`. Initial states map to initial
  states; every action is `Begin`, `Land`, `Record`, `Interrupt` or `Refuse` of
  one call, or leaves phases and effects alone (`GuardStepRefined`). It stands
  on the same invariant.

`ServerProofs`, for any sets of processes and any caller:

- `SupervisorTypeCorrect`: `Spec => []SupervisorTypeOK`.
- `OwnedServerServed`: `Spec => []OwnedHasServed`. The strengthening,
  `Evidence`, says that whoever a report names, however stale the report, has
  listened on the port. Without it the step that grants the handle could not
  be justified, since the port may have changed hands after the look.

And, on top of it, about the command for any samples and interruptions:

- `BenchTypeCorrect`: `BenchSpec => []BenchTypeOK`.
- `ValidIsOneServer`: `BenchSpec => []ValidMeansOneServer`. Two looks at the
  port say nothing of the samples between them unless a process that has lost
  the port cannot come back to it (`PortInv`); with that, either the process
  recorded answered every sample, or it is dead (`SampleInv`).
- `CommandIsClean`: `BenchSpec => []CommandCleansUp`, from what each stage of
  the command holds a handle to (`StageInv`, `CleanInv`).

`MemoryFileProofs`, for any processes, facts and number of opens:

- `FileTypeCorrect`: `Spec => []FileTypeOK`. The invariant adds `Migrating`: a
  process that migrates has read version 1, the only one that is older.
- `SchemaKept` and `StoreIsCurrent`: `Spec => []SchemaAtVersion` and
  `Spec => []OpenedIsCurrent`. `ReadingsHold` says how stale a reading of the
  version can be: what was read is what the file still has, or another process
  has brought it to the current version. Both writers of the schema are right
  in either case.
- `IndexKept`: `Spec => []IndexSound`. `IndexInv`: with all triggers in place
  the index agrees with the facts, or was lost (`Lost`: a death before the
  filling, a trigger dropped behind the back of a script), or a process is to
  fill it (`Filled`). A script may complete the triggers at any of its
  statements; that the one who does so either fills the index or has been
  undone is `LooksHold`: whoever found nothing to repair still has all the
  triggers before it, unless one was dropped meanwhile.

`AgentRunHistoryProofs`, about what a run records, on top of the invariants
above. The database and the process hold the same kind of record, so one
predicate, `Good(s, m, t)`, says what is true of a record `m` with resume point
`t` over a steps table `s`: its history is the steps table's (`Ledger`), each
uncertain step is guarded and announced until a refusal (`Remembered`), each
step is told its role once (`Told`), no three calls in a row are alike
(`NoTriple`), bounds hold (`Within`). `HistoryInv` says it of what a resume
would restore (`DiskGood`) and of what a process works on (`ProcessGood`). What
ties them together is `Synced` (which parts of the two agree), `WindowGood`
(the window holds the last calls executed, without the one in hand), `StepInv`
(a step is performed within the budget, and its row is the newest), `SentInv`
(how the append zone relates to what was last sent) and `CountInv` (calls
executed, charged, and processes started). Two groups of
lemmas carry the steps: what every compression of the append zone keeps
(`Keeps`), and what a history that grows by one call keeps. The results:

- `GuardsOutlive`: `Spec => []RepeatGuarded`.
- `LedgerCorrect`: `Spec => []LedgerAgrees`.
- `RepetitionStops`: `Spec => []NoThirdRepeat`.
- `DirectivesOnce`: `Spec => []RoleDirectiveOnce`.
- `BudgetsCorrect`: `Spec => []BudgetsHold`.
- `RetriesDiffer`: `Spec => RetryChangesPrompt`.
- `ProgressIsKept`: `Spec => ProgressKept`, action by action.

`ToolCallProofs` holds the lemmas about the classifier and the registry, for
every command line; `ChatSessionProofs` proves the properties of a session, for
any number of turns and threads. `ToolInv` says of each dispatched call where
it may be with what it was granted (`SafeCall`), and that evidence and files
agree (`EffectsShown`): each action of the registry touches one call, so an
invariant of single calls is kept one call at a time. `SessionInv` adds where
the loop is and what it has in hand (`TurnInv`), that verdicts rest on rows
that stay (`Sound`), that the model was told of each closed row (`ToldOf`), and
that goal, stored messages and those in memory are what was typed (`Kept`).

- `SessionTypeCorrect`: `Spec => []SessionTypeOK`.
- `CommandsGated` and `UnaskedAreListed`: `Spec => []Gated` and
  `Spec => []UnaskedIsListed`; the second needs that a part of a line whose
  verdict is "allow" is one the tables list (`AllowedPartListed`), and that
  all parts were read (`AllowedLineListed`).
- `MessagesAreKept` and `NothingIsUntold`: `Spec => []MessagesKept` and
  `Spec => []NothingUntold`.
- `VerifiedDone`: `Spec => []VerifiedWasDone`. A file differs from its baseline
  only by somebody who wrote it later, and `EffectsShown` says of each writer
  what there is to show for it.
- `AnsweredOver`: `Spec => AnsweredMeansOver`.
- `ReasoningIsNotActed`: `Spec => []ReasoningNotActed`. The code looks ahead
  for the end of each block and then cuts at an opening tag that is left; a
  reader goes from left to right. After every piece the two agree (`Agree`):
  outside of reasoning, what is kept of the text is what was read and then what
  is kept of the rest; inside, it is what was read and then what is kept from
  the tag that opened the block, which nothing has closed yet. At the end that
  leaves the text as it was read, or a first opening tag right after it, where
  the code cuts. That the action in hand is what this reply was decoded to
  (`Decoded`) needs that the tools registered do not change (`SetupStays`).

`PromptProofs`, for any layers, outputs, limits and prefixes:

- `OverflowIsRecognised`: `Spec => OverflowRecognised`, and `RecoveryCorrect`:
  `Spec => RecoveryShrinks`.
- `SilenceIsCaught`: `Spec => SilentChangeCaught`. It is no fact of one step:
  a declaration that outlived the step it was made for would cover a later
  silent change, so it needs that none does (`Undeclared`).
- `BudgetCorrect`: `Spec => []BudgetFitsServer`. A configuration that is accepted
  has been fitted (`BudgetInv`), and a proper share of the ceiling, rounded
  down, is less than the ceiling (`ReserveFits`); so the only way for
  `TokenBudget` to refuse is a reserve of nothing (`BuildFits`).
- `ConfigurationExplained`: `Spec => SettingsExplained`.
- `NewestResultStays`: `Spec => []NewestResultKept`. `KeptInv` says where the
  newest result is: exactly `since` messages from the end of the append zone,
  as long as that is within what a collapse keeps. Every rung leaves the
  messages after it in their places (`MessagesAfter`), and a directive that an
  interruption loses was the last of them.
- `PromptTypeCorrect`: `Spec => []PromptTypeOK`, `ViewsTellAll`:
  `Spec => []ViewTellsAll`, and `RecoveryFits`: `Spec => ResolvedMeansFits`.
  These compute with texts. `PromptInv` says of each message (`Good`) that it
  has some text, as many bytes as that, and, if it is a view that was
  compressed once and not cut, lines and markers that add up to the lines of
  the output. Bytes, tokens and lines told of are sums over sequences, so a
  view's sum is that of its parts; the markers' sum is that of the gaps between
  lines kept, and a gap counts the positions from the last line kept on, so
  that laying the lines out one after the other leaves none uncounted. For a
  recovery, `MeasureInv` says that what it compares with is never more than
  what it began with: the tokens that were refused.

`Recursion` has what the last theorems of `PromptProofs` and
`ChatSessionProofs` rest on. Texts, sums, `FlattenSeq`, `Unclosed` and
`Outside` are recursive functions; each is a `CHOOSE` of a function that
satisfies its equation, of which nothing is known before such a function is
shown to exist. `RecursionTheorem` shows it for every recursion on the size of
the argument. The library's induction theorems take operators, which the
provers cannot instantiate; here a predicate is a set of numbers and a
recursion a function (`LeastNumber`, `Numbers`, `UpTo`), and what is used of
the library is that `<` is well-founded on the natural numbers.

The assumptions are those in the modules; TLC evaluates them in every run.
Sets of calls, keys and processes are related as their names say
(`CallsAssumption`, `KeysAssumption`, `KindAssumption`, `ProcessesAssumption`,
`ProcsAssumption`), bounds are natural numbers (`BoundsAssumption`,
`OpensAssumption`, `DepthAssumption`, `SessionBounds`, `LadderLimits`,
`ViewLimits`, `PromptLimits`), and the model values that
stand for Python's `None` and for a prefix or a tool not there yet are unlike
the rest (`NoneAssumption`, `AbsenceAssumption`, `FactsAssumption`,
`PrefixAssumption`, `NullAssumption`). `LadderLimits` and `ViewLimits` ask of
some limits that they are not 0: the bytes of a summary (800 in the code), of a
view, of its stderr part and of what stdout is left (8000, 2000 and 256).
`LimitsAssumption` asks it of the least window and the least ceiling (512 and
256). Four say something of the code:

- `MinSpan` is more than 1 (`BoundsAssumption`): a single old message is no
  span worth a summary. It is 4 in the code.
- `RepliesAssumption`: a decoded reply has the fields of the action it names.
  It is what the Pydantic models check; it says nothing of which tool, call or
  claim that is.
- `PiecesAssumption`: a reply is a sequence of pieces, in which a closing tag
  differs from others of its kind in nothing, and an opening tag has a kind.
- `OutputsAssumption`: what a command prints is text with no markers in it. A
  line that looks like one counts as what it is, a line.

Checked only by TLC, because out of the provers' reach: `Returns`,
`CommandEnds` and `TurnEnds`, which are liveness under fairness. Every other
property of a run that passes is a theorem.

## 5. Disagreements with the documentation

- `agent_start`. The first `task_state` and the first `runtime_state` are two
  transactions (`agent/loop.py:505-506`); a run killed between them is listed
  as resumable and every resume raises.
- `agent_retry`. The policy compares retries with the bound before the charge,
  the loop after it: the last retry granted is never sent.
- `supervisor_cancel`. `start` cleans up on `Exception`; cancellation is none.
  The server has a session of its own, so Ctrl-C does not reach it either.
- `benchmark_attach`. The clean-up of an attached benchmark raises
  `RuntimeNotOwned`, which replaces the finished run.
- `memory_reader`. A read-only store searches the index if its table exists;
  whether the triggers do, which a writer asks, it does not. After a build
  without FTS5 has written facts, the answers are not those of the scan.

Seen while modelling and not stated as properties. Memory and server: two
processes that open a new file at once, of which one reads no version and then
the other's tables, and asks for the database to be "removed by hand"
(`memory/migrations.py:140-147`); two servers of another user
that replace each other under an attached run give equal fingerprints (the
code marks such a run as not verified); a supervisor that attaches first and
fails to start later cannot clean up (nothing in the repository does both with
one supervisor); two processes that migrate at once, of which the second fails
with a `MigrationError` about a database that is in order; a process that dies
between the triggers and the rebuild leaves an index that looks complete and
is never filled (`IndexSound` and `AnswersAgree` except it, by `mishaps`); a
build without FTS5 that opens the file between the look of one with it and its
script, drops the triggers and writes a fact, after which the script makes the
triggers again and nothing rebuilds the index, although a comment says that
"the index is rebuilt on the next open that does have FTS5"
(`memory/facts.py:169-170`; excepted by `mishaps` too).

Tools and session:

- When the registry gives up on a call, its result no longer has the network
  policy that `run_command` would have recorded (`tools/registry.py:112-119`),
  and the step is recorded as failed though its effect may land later.
- A person who answers a prompt after the registry gave up answers the old
  call, also if a new prompt is waiting (`cli_chat.py:84`).
- A message typed while the run has no rows is dropped (`cli_chat.py:306`);
  `MessagesKept` excepts it by `lost`. The counts of a `RunResult` are those of
  the whole run, and the totals of a chat add them up turn by turn
  (`cli_chat.py:291`).
- Without a sandbox, a child that ignores SIGTERM outlives a command whose
  leader obeyed it (`tools/shell.py:163`); a file tool that blocks keeps the
  process from exiting.
- The verifier takes a test step from before the last edit
  (`agent/verifier.py:324`). For a file it takes any change since the baseline,
  whoever made it. The baseline leaves out `.git` only
  (`agent/verifier.py:271`), so the harness's own database
  (`config/schema.py:160`) and journal (`session.py:146`) always count as
  changed, and a claim about files that cites them is verified.
- A redirection that does not begin a word is not found: `echo hi>main.py` is
  allowed and writes, although "redirects write files, so they lift a read-only
  command to CONFIRM" (`security/classifier.py:35`, `321`; the test at
  `tests/test_security_classifier.py:262` has a space). A command is looked up
  by the last part of its path (`security/classifier.py:259`, `284`), so a
  program of the workspace, `./cat`, passes for the system's.
  `UnaskedIsListed` claims what is listed, not that it only reads.
- A `</think>` without its opening tag, and what follows the first closing tag
  of two nested ones of a kind, count as content (`protocol/codec.py:24`).
- A line with a part that was not read is to be confirmed, even if a part that
  was read is denied (`security/classifier.py:132-135`, where the module says
  that the most severe verdict wins). `security/rules.py` has tables the
  classifier does not use.
- `search_files` reports an error of ripgrep as a success
  (`tools/filesystem.py:263`).

Configuration and prompt:

- A `base_url` set to what happens to be the default is replaced by host and
  port all the same (`config/schema.py:75-77`); a window taken from `n_ctx`
  keeps the origin it had, with a warning. `require_sandbox` is never read. A
  reserve ratio may be accepted that the token budget then refuses
  (`context/budget.py:161-162`), with a `ValueError` that neither `run`
  (`cli_run.py:180-192`) nor `chat` handles as a bad configuration.
  `extra_flags` come last on the server's command line
  (`runtime/argv.py:51`) and may give it another `--ctx-size` than the budget
  was made for.
- Under the byte limit `compress_output` drops the newest lines of the tail
  before the older ones (`tools/compression.py:204`); compressing a view again
  counts its marker as one line, so `ViewTellsAll` is stated of views
  compressed once. No tool sets `full_output_ref`.
- What a summary keeps are the last six messages, whatever they are
  (`context/compressor.py:311-320`). A person's messages (`cli_chat.py:307`),
  role directives (`agent/loop.py:222`), feedback and resume notes
  (`agent/loop.py:571`) count: after six of them without a tool call an
  overflow may collapse the newest result. `NewestResultKept` ends there.
- A step that means to declare a change and has no reason is recorded as a
  violation and leaves the change in place
  (`benchmark/prefix_invariant.py:158-165`).

## 6. Mistakes in the code the properties would notice

A definition whose comment begins with "Defect:" repeats the next one with a
plausible mistake: a guard dropped, a transaction split, a deadline renewed.
Nothing uses these definitions; put in place of the correct one, each makes TLC
report the property `PROJECT.json` pairs it with.

## 7. Plan

Everything planned is modelled, and every safety and action property that the
provers can reach is proved, in the order of the table.

| module | models | composes | proved in |
|---|---|---|---|
| `AgentRun` | loop, memory, recovery | `EffectGuard` | `AgentRunProofs`, `AgentRunHistoryProofs` |
| `Supervisor`, `Benchmark` | server and command | `Benchmark` on `Supervisor` | `ServerProofs` |
| `MemoryFile` | opening, migrating and indexing one file by several processes | | `MemoryFileProofs` |
| `ChatSession`, `ToolCall`, `Classifier`, `Evidence`, `Protocol` | a session: turns, person, tools in threads, decoding, verdicts | the first on all others | `ToolCallProofs`, `ChatSessionProofs`, `Recursion` |
| `Prompt`, `Settings`, `Provider`, `Assembler`, `Ladder`, `ToolOutput` | configuration, failed requests, growth and compression of the prompt | the first on all others | `PromptProofs`, `Recursion` |

What is left: liveness, which stays with TLC, and the two hazards that no
property covers, which wait for the code to promise something of them.

## 8. Not modelled

Formatting and parsing of text (wire formats, GGUF files, the characters of
JSON and of shell words), the tables of command names behind the classifier,
statistics over floats, hardware probing, telemetry (nothing reads it back),
diagnostics and read-only reports: they keep no state that interacts with
anything above, or their substance is data that a small model would not
preserve. Two live processes on one run (`agent/loop.py:481`): the harness has
no lock for it and promises nothing about it.
