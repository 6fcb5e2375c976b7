----------------------------- MODULE Assembler -----------------------------
(***************************************************************************)
(* The prefix contract of the prompt assembler                             *)
(* (harness/context/assembler.py) and the benchmark that probes it         *)
(* (harness/benchmark/prefix_invariant.py).                                *)
(*                                                                         *)
(* The prefix (system prompt, tools, repository map, task) may change      *)
(* between two prompts only if the change was declared.  Everything else   *)
(* goes to the append zone.                                                *)
(*                                                                         *)
(* Abstracted: the segments and their rendering (a prefix is one of        *)
(* PrefixTexts, its hash the prefix itself), the reasons of a declaration  *)
(* and the records kept of it, the numbers of the report.                  *)
(***************************************************************************)
EXTENDS Ladder

CONSTANTS
  PrefixTexts,   \* the texts the prefix may have
  Unbuilt,    \* no prompt has been built
  MaxProbes   \* bound on the steps of a benchmark script

ASSUME PrefixAssumption == Unbuilt \notin PrefixTexts /\ MaxProbes \in Nat

VARIABLES
  prefix,     \* the segments, as they are set
  pending,    \* a change has been declared and not yet built
  last,       \* the prefix of the last prompt built
  append,     \* the append zone
  report      \* of the benchmark: probes, violations and anomalies so far

assemblerVars == <<prefix, pending, last, append, report>>

\* What a benchmark step does before its model call: append a role directive,
\* a tool result or retrieved text, declare a change with or without the
\* reason it needs, or change the task without a declaration.
StepKinds == {"role", "tool_result", "retrieval", "declared", "unreasoned",
              "undeclared"}

AssemblerInit == /\ prefix \in PrefixTexts
                 /\ pending = FALSE
                 /\ last = Unbuilt
                 /\ append = <<>>
                 /\ report = [probes |-> 0, violations |-> {},
                              anomalies |-> {}]

\* build refuses a changed prefix that was not declared.
Accepted(p, declared) == last \in {Unbuilt, p} \/ declared

\* Defect: a declaration that no change followed stays in force.
BuiltCarryingOver(p, declared) ==
  /\ Accepted(p, declared)
  /\ last' = p
  /\ pending' = (declared /\ last = p)

\* A prompt is built; every declaration made before it is used up.
Built(p, declared) ==
  /\ Accepted(p, declared)
  /\ last' = p
  /\ pending' = FALSE

AppendMessage(m) == append' = Append(append, m)

\* What a step appends.
Appended(kind) ==
  CASE kind = "role"        -> <<Plain(120)>>
    [] kind = "tool_result" -> <<Message("probe", <<Line(2, "plain")>>, 0, 1)>>
    [] kind = "retrieval"   -> <<Plain(40)>>
    [] OTHER                -> <<>>

\* The cold call, which is supposed to miss the cache.
ProbeCold ==
  /\ last = Unbuilt
  /\ Built(prefix, pending)
  /\ UNCHANGED <<prefix, append, report>>

\* A step of the script.  A violation is recorded and reverted: the task of
\* an undeclared change, the message of an append; a change that was meant
\* to be declared and had no reason stays.
ProbeStep(kind, p, hit) ==
  /\ last # Unbuilt
  /\ report.probes < MaxProbes
  /\ LET changing == kind \in {"declared", "unreasoned", "undeclared"}
         now      == IF changing THEN p ELSE prefix
         declared == pending \/ kind = "declared"
         index    == report.probes + 1
         counted  == [report EXCEPT !.probes = index]
     IN \/ /\ Built(now, declared)
           /\ prefix' = now
           /\ append' = append \o Appended(kind)
           /\ report' =
                CASE kind \in {"declared", "unreasoned"} -> counted
                  [] ~(kind \in {"declared", "unreasoned"}) /\ now # last ->
                       [counted EXCEPT !.violations = @ \union {index}]
                  [] ~changing /\ now = last /\ ~hit ->
                       [counted EXCEPT !.anomalies = @ \union {index}]
                  [] OTHER -> counted
        \/ /\ ~Accepted(now, declared)
           /\ prefix' = IF kind = "undeclared" THEN prefix ELSE now
           /\ report' = [counted EXCEPT !.violations = @ \union {index}]
           /\ pending' = declared
           /\ UNCHANGED <<last, append>>

-----------------------------------------------------------------------------
\* A step that changes the prefix without a declaration of its own leaves a
\* violation in the report, which invalidates the run that measured it; an
\* earlier declaration that was already used does not cover it.
\* (run_prefix_invariant: "Even one invalidates the run")
SilentChangeCaught ==
  [][report'.probes # report.probes =>
       \A kind \in {"unreasoned", "undeclared"} :
       \A p \in PrefixTexts, hit \in BOOLEAN :
         ProbeStep(kind, p, hit) /\ p # last
           => report'.probes \in report'.violations]_assemblerVars
=============================================================================
