------------------------------- MODULE Prompt -------------------------------
(***************************************************************************)
(* How the prompt grows and is kept within the window: the configuration   *)
(* the budget is built from (harness/session.py), the steps of the loop    *)
(* that append to it (harness/agent/loop.py, roles.py), the compression    *)
(* after a tool's result and the recovery from an overflow the server      *)
(* reports (harness/agent/overflow.py), the turns of a chat                *)
(* (harness/cli_chat.py) and the runs resumed after an interruption, which *)
(* continue the append zone the store kept.  Settings, Provider,           *)
(* Assembler, Ladder and ToolOutput are the parts; AgentRun has the loop   *)
(* itself and what it writes to the store.                                 *)
(*                                                                         *)
(* Either the loop or the prefix benchmark drives an assembler.            *)
(*                                                                         *)
(* Abstracted: what the server counts (it may report an overflow at any    *)
(* call: the harness estimates), the journal, of the store all but the     *)
(* append zone, the bounds on the time and the tool calls of a run (one    *)
(* that is reached ends it as EndRun does), a resume under another         *)
(* configuration, the rounding of the reserve's product to a float.        *)
(*                                                                         *)
(* A definition whose comment begins with "Defect:" is the next one with a *)
(* plausible mistake in it.  Nothing uses it; TLC checks that the property *)
(* it is paired with notices the mistake.                                  *)
(***************************************************************************)
EXTENDS Assembler, Settings, Provider

CONSTANTS
  Layers,        \* the layers a configuration may be resolved from
  NoLayers,      \* they have been read
  Outputs,       \* what a command may print, by the tool that prints it
  Retrieved,     \* bytes that retrieval may find for the goal
  PrefixTokens,  \* of the loop's prefix
  MaxSteps, MaxRetries,  \* a run's, over all its turns
  MaxTurns       \* bound on the turns after the first

ASSUME PromptLimits == /\ MaxSteps \in Nat /\ MaxRetries \in Nat \ {0}
                       /\ MaxTurns \in Nat
                       /\ PrefixTokens \in Nat /\ Retrieved \subseteq Nat

\* What a command prints has no markers in it yet.
Printed(text) == \A i \in DOMAIN text : text[i].hides = 0

ASSUME OutputsAssumption ==
  /\ NoTool \notin DOMAIN Outputs
  /\ DOMAIN Outputs \union {"probe"} \subseteq STRING
  /\ \A tool \in DOMAIN Outputs : \A output \in Outputs[tool] :
       output \in Output /\ Printed(output.stdout) /\ Printed(output.stderr)

\* Null stands for no configuration, and for a field left unset.
ASSUME NullAssumption == \A l \in Layers : ~Refused(l) => Resolved(l) # Null

VARIABLES
  pc,         \* where the run is
  layers,     \* what the configuration is resolved from
  settings,   \* the effective configuration, or Null
  retrieved,  \* bytes retrieval finds for this goal
  step,       \* completed steps
  retries,    \* retries used
  directive,  \* the step's role directive: due, unsaved or saved
  turns,      \* turns after the first
  climbed,    \* this step's overflow has been recovered from once
  before,     \* recover_overflow: the tokens it compares with
  entry,      \* history: the tokens when the recovery began
  since       \* history: messages appended after the newest result, at
              \* most KeepMessages; as many when there is no result

configVars == <<layers, settings, retrieved>>

vars == <<assemblerVars, configVars, pc, step, retries, directive, turns,
          climbed, before, entry, since>>

\* A run starts with its configuration; the benchmark has one of its own.
Init == /\ AssemblerInit
        /\ \/ /\ pc = "configure"
              /\ layers \in Layers /\ retrieved \in Retrieved
           \/ pc = "probe" /\ layers = NoLayers /\ retrieved = 0
        /\ settings = Null
        /\ step = 0 /\ retries = 0 /\ directive = "due" /\ turns = 0
        /\ climbed = FALSE /\ before = 0 /\ entry = 0
        /\ since = KeepMessages

Window  == settings.config.context_window
Ceiling == settings.config.soft_ceiling
Reserve == GenerationReserve(Ceiling,
                             settings.config.generation_reserve_ratio)

\* So many messages, none of them a result, come after the newest result.
Later(n) == IF since + n < KeepMessages THEN since + n ELSE KeepMessages

\* resolve_config: one configuration, or an error that names the layer.
Configure ==
  /\ pc = "configure"
  /\ layers' = NoLayers
  /\ IF Refused(layers)
     THEN pc' = "refused" /\ UNCHANGED settings
     ELSE pc' = "build" /\ settings' = Resolved(layers)
  /\ UNCHANGED <<assemblerVars, retrieved, step, retries, directive, turns,
                 climbed, before, entry, since>>

\* build_loop: TokenBudget refuses numbers that make no budget, with an error
\* that nobody handles.
BuildLoop ==
  /\ pc = "build"
  /\ pc' = IF Ceiling \in 1..Window /\ Reserve \in 1..(Ceiling - 1)
           THEN "start" ELSE "failed"
  /\ UNCHANGED <<assemblerVars, configVars, step, retries, directive, turns,
                 climbed, before, entry, since>>

\* A step begins with its role directive, unless it has one already; then the
\* budget is looked at and the prompt built.  The loop never changes the
\* prefix.  (_run_step)
BeginStep ==
  /\ pc = "start"
  /\ climbed' = FALSE
  /\ IF directive = "due"
     THEN AppendMessage(Plain(120)) /\ since' = Later(1)
     ELSE UNCHANGED <<append, since>>
  /\ IF step < MaxSteps /\ retries < MaxRetries
     THEN /\ pc' = "call" /\ Built(prefix, pending)
          /\ directive' = IF directive = "due" THEN "unsaved" ELSE directive
     ELSE /\ pc' = "ended" /\ directive' = "saved"
          /\ UNCHANGED <<last, pending>>
  /\ UNCHANGED <<prefix, report, configVars, step, retries, turns, before,
                 entry>>

\* The model answers: the step is complete, and the run until there is
\* another turn.  (_answer)
Answer ==
  /\ pc = "call"
  /\ pc' = "ended"
  /\ step' = step + 1 /\ directive' = "due"
  /\ UNCHANGED <<assemblerVars, configVars, retries, turns, climbed, before,
                 entry, since>>

\* No progress, or the server fails in a way that no retry mends: the step
\* stays open, with its directive.  (_finalize)
EndRun ==
  /\ pc = "call"
  /\ pc' = "ended"
  /\ directive' = "saved"
  /\ UNCHANGED <<assemblerVars, configVars, step, retries, turns, climbed,
                 before, entry, since>>

\* Ctrl-C or the end of the process, during the request, when a directive may
\* not have been saved, or after it, perhaps during a tool call that writes.
\* (Inside recover_overflow, which saves at its end, it leaves the same.)
Interrupt ==
  /\ pc = "call"
  /\ \/ /\ directive = "unsaved"
        /\ append' = Front(append) /\ directive' = "due"
        /\ since' = IF since = KeepMessages THEN since ELSE since - 1
        /\ pc' = "ended"
     \/ /\ directive' = "saved"
        /\ pc' \in {"ended", "cut"}
        /\ UNCHANGED <<append, since>>
  /\ UNCHANGED <<prefix, pending, last, report, configVars, step, retries,
                 turns, climbed, before, entry>>

\* The run goes on from the store, with a new assembler: in a chat after the
\* person's next message, or resumed.  A call that was cut off and may have
\* taken effect is told of.  (_queue_message, _restore_run_state,
\* _recover_orphaned_steps)
NextTurn(message) ==
  LET note == IF pc = "cut" THEN <<Plain(200)>> ELSE <<>>
  IN /\ pc \in {"ended", "cut"}
     /\ turns < MaxTurns /\ turns' = turns + 1
     /\ append' = append \o message \o note
     /\ since' = Later(Len(message) + Len(note))
     /\ last' = Unbuilt /\ pending' = FALSE
     /\ pc' = "start"
     /\ UNCHANGED <<prefix, report, configVars, step, retries, directive,
                    climbed, before, entry>>

\* Defect: the retry after the last one is asked for, too.
RetryPastBudget ==
  /\ pc = "call"
  /\ AppendMessage(Plain(80)) /\ since' = Later(1)
  /\ retries' = retries + 1 /\ directive' = "saved"
  /\ pc' = IF retries' <= MaxRetries THEN "call" ELSE "ended"
  /\ UNCHANGED <<prefix, pending, last, report, configVars, step, turns,
                 climbed, before, entry>>

\* A message that is no action, or a provider error worth another attempt:
\* its feedback makes the next request a different one.
Retry ==
  /\ pc = "call"
  /\ AppendMessage(Plain(80)) /\ since' = Later(1)
  /\ retries' = retries + 1 /\ directive' = "saved"
  /\ pc' = IF retries' < MaxRetries THEN "call" ELSE "ended"
  /\ UNCHANGED <<prefix, pending, last, report, configVars, step, turns,
                 climbed, before, entry>>

\* append_tool_result: the view of the output, under the tool's name.
Result(tool, output) ==
  Message(tool, CompressCommandOutput[output], 1,
          3 + (IF output.stderr = <<>> THEN 0 ELSE 1 + Len(output.stderr))
            + (IF output.stdout = <<>> THEN 1 ELSE Len(output.stdout)))

Results == [tool \in DOMAIN Outputs |-> {Result(tool, output) :
                                          output \in Outputs[tool]}]

Fits(msgs) == /\ WithinBudget(Ceiling, Reserve, PrefixTokens, msgs)
              /\ ~OverHardCeiling(Window, Reserve, PrefixTokens, msgs)

\* A result over the advisory limit, or the hard one, climbs the ladder once.
MaybeCompress(msgs, remaining) ==
  IF Fits(msgs) THEN msgs ELSE Escalate(msgs, FALSE, retrieved, remaining)

\* _execute_tool: the result is appended, the step counted, and the append
\* zone compressed when it has outgrown its limit.
ToolReturns(result) ==
  /\ pc = "call"
  /\ step' = step + 1 /\ directive' = "due"
  /\ append' = MaybeCompress(Append(append, result),
                             MaxSteps - step')
  /\ since' = IF Fits(Append(append, result)) \/ retrieved = 0 THEN 0 ELSE 1
  /\ pc' = "start"
  /\ UNCHANGED <<prefix, pending, last, report, configVars, retries, turns,
                 climbed, before, entry>>

\* The server reports an overflow.  The second one of a step is final.  What
\* follows, the recovery or the end, saves the append zone.
Overflow ==
  /\ pc = "call"
  /\ climbed' = TRUE /\ directive' = "saved"
  /\ IF climbed
     THEN pc' = "ended" /\ UNCHANGED <<before, entry>>
     ELSE /\ pc' = "recovering"
          /\ before' = PrefixTokens + CountMessages[append]
          /\ entry' = before'
  /\ UNCHANGED <<assemblerVars, configVars, step, retries, turns, since>>

\* Defect: an applied rung counts as a resolved overflow.
ClimbOnce ==
  LET climb == Escalate(append, TRUE, retrieved, MaxSteps - step)
  IN /\ pc = "recovering"
     /\ append' = climb
     /\ pc' = IF climb = append THEN "ended" ELSE "call"
     /\ before' = PrefixTokens + CountMessages[climb]
     /\ UNCHANGED <<prefix, pending, last, report, configVars, step, retries,
                    directive, turns, climbed, entry, since>>

\* recover_overflow, one turn of its loop: it ends without success when no
\* rung was applied or the prompt did not shrink, and with success when it
\* fits the window again.
Climb ==
  LET climb == Escalate(append, TRUE, retrieved, MaxSteps - step)
      after == PrefixTokens + CountMessages[climb]
  IN /\ pc = "recovering"
     /\ append' = climb
     /\ IF climb = append \/ after >= before
        THEN pc' = "ended" /\ UNCHANGED before
        ELSE /\ pc' = IF OverHardCeiling(Window, Reserve, PrefixTokens, climb)
                      THEN "recovering" ELSE "call"
             /\ before' = after
     /\ UNCHANGED <<prefix, pending, last, report, configVars, step, retries,
                    directive, turns, climbed, entry, since>>

\* The prefix benchmark has an assembler of its own and never compresses.
Probe ==
  /\ pc = "probe"
  /\ \/ ProbeCold
     \/ \E kind \in StepKinds, p \in PrefixTexts, hit \in BOOLEAN :
          ProbeStep(kind, p, hit)
  /\ UNCHANGED <<configVars, pc, step, retries, directive, turns, climbed,
                 before, entry, since>>

\* The action in the model's message: an answer, a call that has been made
\* too often, or a tool call.
Responds == \/ Answer \/ EndRun
            \/ \E tool \in DOMAIN Outputs : \E result \in Results[tool] :
                 ToolReturns(result)

\* _run_step, on the way the request ended.
Call(answer) ==
  LET error == ErrorOf(answer) IN
  \/ error = "none" /\ Retry
  \/ error = "none" /\ answer.says = "message" /\ Responds
  \/ error = "overflow" /\ Overflow
  \/ error \notin {"none", "overflow"}
     /\ IF WorthRetrying(error) THEN Retry ELSE EndRun

Next == \/ Configure \/ BuildLoop \/ BeginStep \/ Climb \/ Probe \/ Interrupt
        \/ \E message \in {<<>>, <<Plain(60)>>} : NextTurn(message)
        \/ \E answer \in Answers : Call(answer)

Spec == Init /\ [][Next]_vars

-----------------------------------------------------------------------------
PromptTypeOK ==
  /\ pc \in {"configure", "refused", "build", "failed", "start", "call",
             "recovering", "ended", "cut", "probe"}
  /\ prefix \in PrefixTexts /\ last \in PrefixTexts \union {Unbuilt}
  /\ pending \in BOOLEAN /\ climbed \in BOOLEAN
  /\ pc \in {"build", "start", "call", "recovering"}
       => settings # Null /\ layers = NoLayers
  /\ step \in 0..MaxSteps /\ retries \in 0..MaxRetries
  /\ turns \in 0..MaxTurns /\ since \in 0..KeepMessages
  /\ directive \in {"due", "unsaved", "saved"}
  /\ \A i \in DOMAIN append :
       /\ append[i].tool \in DOMAIN Outputs \union {NoTool, "probe"}
       /\ append[i].passes \in 0..2
       /\ append[i].bytes > 0

\* The window the budget fills is the one the server is configured with, and
\* the advisory ceiling is inside it with its reserve, whatever layers the
\* numbers came from: a configuration that is accepted makes a budget, and
\* the one way it does not is a reserve that rounds down to nothing.
\* (ContextConfig._ceiling_fits_the_window, HarnessConfig
\* ._server_window_and_budget_window_agree, TokenBudget.__init__; extra_flags
\* may still give the server another --ctx-size on its command line)
BudgetFitsServer ==
  settings # Null =>
    /\ Ceiling <= Window
    /\ settings.config.n_ctx \in {Null, Window}
    /\ Reserve < Ceiling
    /\ pc = "failed" => Reserve = 0
    /\ pc \notin {"build", "failed"} => Reserve > 0

Uncut(text) == \A k \in DOMAIN text : text[k].class # "cut"

\* A view tells of every line of the output: it shows it, or a marker counts
\* it.  (compress_output; a view that had to be cut inside a line does not,
\* nor does one that an old result was compressed to a second time)
ViewTellsAll ==
  \A i \in DOMAIN append :
    append[i].passes = 1 /\ Uncut(append[i].text)
      => AccountedFor[append[i].text] = append[i].of

\* The newest result the model asked for stays in its place as the tool gave
\* it, through every compression, interruption and turn, until KeepMessages
\* others have been appended.  (OLD_TOOL_OUTPUT_KEEP_RECENT,
\* OLD_CONVERSATION_KEEP_RECENT_MESSAGES.  After that many directives,
\* retries, notes and messages of the person an overflow collapses it.)
NewestResultKept ==
  since < KeepMessages =>
    LET i == Len(append) - since
    IN /\ i \in ResultsOf(append)
       /\ \A j \in ResultsOf(append) : j <= i
       /\ append[i].passes = 1

\* What a layer says of a field.
Given(l, origin) ==
  CASE origin = "cli"  -> l.cli
    [] origin = "env"  -> l.env
    [] origin = "file" -> Content(l.file)
    [] origin = "profile" -> FromProfile(l.profile)
    [] OTHER -> Defaults

Above(origin) == CASE origin = "cli"  -> {}
                   [] origin = "env"  -> {"cli"}
                   [] origin = "file" -> {"cli", "env"}
                   [] origin = "profile" -> {"cli", "env", "file"}
                   [] OTHER -> Origins \ {"default"}

\* Every effective value is what the layer it is attributed to says, and no
\* layer above that one says anything else; or a warning tells that it was
\* adjusted.  A URL may also be the host's and the port's.
\* (ResolvedConfig.origin_of, "remember which one won")
SettingsExplained ==
  [][\A f \in Fields :
       pc = "configure" /\ pc' = "build" =>
         LET from == IF f \in DOMAIN settings'.origins
                     THEN settings'.origins[f] ELSE "default"
         IN \/ f \in settings'.warned
            \/ f = "base_url" /\ settings'.config.base_url
                 = <<settings'.config.host, settings'.config.port>>
            \/ /\ f \in DOMAIN Given(layers, from)
               /\ settings'.config[f] = Given(layers, from)[f]
               /\ \A higher \in Above(from) :
                    f \notin DOMAIN Given(layers, higher)]_vars

\* Each turn of the recovery shrinks the prompt or ends the recovery: it
\* never grows, and the ladder is not climbed for ever.
\* (escalate: "a pure append adds tokens, so it cannot relieve an overflow";
\* recover_overflow: "every applied rung strictly shrinks the prompt")
RecoveryShrinks ==
  [][pc = "recovering"
       => \/ CountMessages[append'] < CountMessages[append]
          \/ append' = append /\ pc' = "ended"]_vars

\* A request that was too long is answered by compressing the prompt, the
\* first time in a step, whichever status the build of the server chose for
\* it; no other failure is.
\* (wire.py: "builds differ between 400, 500 and 413 for the same condition")
OverflowRecognised ==
  [][\A answer \in Answers :
       pc = "call" /\ ~climbed /\ Call(answer) =>
         (pc' = "recovering"
            <=> answer.says = "overflow" \/ answer.status = 413)]_vars

\* A recovery that reports success has left a prompt that is smaller than the
\* one the server refused and fits the window with its reserve.
\* (recover_overflow: "only when the overflow is genuinely resolved")
ResolvedMeansFits ==
  [][pc = "recovering" /\ pc' = "call"
       => /\ PrefixTokens + CountMessages[append'] < entry
          /\ ~OverHardCeiling(Window, Reserve, PrefixTokens, append')]_vars
=============================================================================
