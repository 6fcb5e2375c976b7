---------------------------- MODULE PromptProofs ----------------------------
(***************************************************************************)
(* Theorems about Prompt, for any layers, outputs, limits and prefixes     *)
(* within the assumptions of the modules.                                  *)
(*                                                                         *)
(* The last part computes with sizes: bytes, tokens and the lines a text   *)
(* accounts for are sums over sequences (module Recursion).                *)
(***************************************************************************)
EXTENDS Prompt, FiniteSetTheorems, Recursion, TLAPS

\* What the body says and the status decide alike, for every answer a server
\* may give.
LEMMA Recognised ==
  ASSUME pc = "call", ~climbed, NEW answer \in Answers, Call(answer)
  PROVE  pc' = "recovering" <=> answer.says = "overflow" \/ answer.status = 413
<1> USE DEF Call, ErrorOf, Retry, Answer, EndRun, Overflow, Responds,
            ToolReturns, WorthRetrying
<1>1. CASE answer.status = 0
  BY <1>1 DEF Answers, NoAnswer, Unanswered
<1>2. CASE answer.status = 200
  BY <1>2 DEF Answers, NoAnswer
<1>3. CASE answer.status \in {400, 413, 500, 503}
  BY <1>3 DEF Answers, NoAnswer, ClassifyError
<1>4. QED  BY <1>1, <1>2, <1>3 DEF Answers

\* A prompt that was too long is compressed the first time, whichever status
\* the server chose, and after no other failure (classify_error, _run_step).
THEOREM OverflowIsRecognised == Spec => OverflowRecognised
<1> DEFINE A == \A answer \in Answers :
                  pc = "call" /\ ~climbed /\ Call(answer) =>
                    (pc' = "recovering"
                       <=> answer.says = "overflow" \/ answer.status = 413)
<1>1. [Next]_vars => [A]_vars
  BY Recognised
<1>2. QED  BY <1>1, PTL DEF Spec, OverflowRecognised

\* The first of three rungs that pay is one of them.
LEMMA LeastIsThere ==
  ASSUME NEW S \in SUBSET (1..3), S # {}
  PROVE  Min(S) \in S
<1>1. \E x \in S : \A y \in S : x =< y
  <2>1. CASE 1 \in S  BY <2>1
  <2>2. CASE 1 \notin S /\ 2 \in S  BY <2>2
  <2>3. CASE 1 \notin S /\ 2 \notin S
    <3>1. 3 \in S
      <4>1. PICK x \in S : x \in 1..3  OBVIOUS
      <4>2. x = 3  BY <4>1, <2>3
      <4>3. QED  BY <4>2
    <3>2. \A y \in S : 3 =< y
      BY <2>3
    <3>3. QED  BY <3>1, <3>2
  <2>4. QED  BY <2>1, <2>2, <2>3
<1>2. QED  BY <1>1 DEF Min

\* A walk that changes anything applies a rung that pays.
LEMMA OneRung ==
  ASSUME NEW msgs, NEW rungs, DOMAIN rungs = 1..3, NEW remaining,
         FirstPaying(msgs, rungs, remaining) # msgs
  PROVE  \E i \in 1..3 : /\ FirstPaying(msgs, rungs, remaining) = rungs[i]
                         /\ Pays(msgs, rungs[i], remaining)
<1> DEFINE paying == {i \in DOMAIN rungs : Pays(msgs, rungs[i], remaining)}
<1>1. paying # {}
  BY DEF FirstPaying
<1>2. Min(paying) \in paying
  <2>1. paying \in SUBSET (1..3)
    OBVIOUS
  <2> HIDE DEF paying
  <2>2. QED  BY <1>1, <2>1, LeastIsThere
<1>3. FirstPaying(msgs, rungs, remaining) = rungs[Min(paying)]
  BY <1>1 DEF FirstPaying
<1>4. QED  BY <1>2, <1>3

\* A rewrite that pays frees tokens.
LEMMA PaysShrinks ==
  ASSUME NEW old, NEW new, NEW remaining, Pays(old, new, remaining)
  PROVE  CountMessages[new] < CountMessages[old]
BY DEF Pays, FreedTokens

\* The rungs by name.
LEMMA Rungs ==
  ASSUME NEW s, NEW remaining, Walk(s, remaining) # s
  PROVE  /\ Walk(s, remaining) \in {DropSuperseded(s), SummarizeOldResults(s),
                                    SummarizeOldConversation(s)}
         /\ Pays(s, Walk(s, remaining), remaining)
<1>1. DOMAIN Ladder(s) = 1..3
  BY DEF Ladder
<1>2. PICK i \in 1..3 : /\ Walk(s, remaining) = Ladder(s)[i]
                        /\ Pays(s, Ladder(s)[i], remaining)
  BY <1>1, OneRung DEF Walk
<1>3. QED  BY <1>2 DEF Ladder

\* Only recover_overflow acts while it is at work, and what it applies pays.
LEMMA ClimbShrinks ==
  ASSUME pc = "recovering", [Next]_vars, vars' # vars
  PROVE  \/ CountMessages[append'] < CountMessages[append]
         \/ append' = append /\ pc' = "ended"
<1>1. Climb
  BY DEF Next, Configure, BuildLoop, BeginStep, Probe, Call, Retry, Answer,
         EndRun, Responds, ToolReturns, Overflow, Interrupt, NextTurn
<1>2. append' = Walk(append, MaxSteps - step)
  BY <1>1 DEF Climb, Escalate
<1>3. CASE append' = append
  BY <1>1, <1>3 DEF Climb
<1>4. CASE append' # append
  <2>1. Pays(append, append', MaxSteps - step)
    BY <1>2, <1>4, Rungs
  <2>2. QED  BY <2>1, PaysShrinks
<1>5. QED  BY <1>3, <1>4

\* No turn of the recovery lets the prompt grow, and one that cannot shrink it
\* is the last (recover_overflow, escalate).
THEOREM RecoveryCorrect == Spec => RecoveryShrinks
<1> DEFINE A == pc = "recovering"
                  => \/ CountMessages[append'] < CountMessages[append]
                     \/ append' = append /\ pc' = "ended"
<1>1. [Next]_vars => [A]_vars
  BY ClimbShrinks
<1>2. QED  BY <1>1, PTL DEF Spec, RecoveryShrinks

\* A declaration never outlives the step that made it; the report is typed.
Undeclared == /\ pending = FALSE
              /\ report \in [probes : Nat, violations : SUBSET Nat,
                             anomalies : SUBSET Nat]

\* Nothing is declared at first.
LEMMA UndeclaredInit == Init => Undeclared
BY DEF Init, AssemblerInit, Undeclared

\* A build uses a declaration up, and a refused build had none.
LEMMA UndeclaredStep == Undeclared /\ [Next]_vars => Undeclared'
<1> SUFFICES ASSUME Undeclared, [Next]_vars PROVE Undeclared'
  OBVIOUS
<1> USE DEF Undeclared
<1>1. CASE \E kind \in StepKinds, p \in PrefixTexts, hit \in BOOLEAN :
             ProbeStep(kind, p, hit)
  <2> PICK kind \in StepKinds, p \in PrefixTexts, hit \in BOOLEAN :
             ProbeStep(kind, p, hit)
    BY <1>1
  <2>1. pending' = FALSE
    BY DEF ProbeStep, Built, Accepted
  <2>2. PICK i \in Nat : i = report.probes + 1
    OBVIOUS
  <2> DEFINE counted == [report EXCEPT !.probes = i]
  <2>3. \/ report' = counted
        \/ report' = [counted EXCEPT !.violations = @ \union {i}]
        \/ report' = [counted EXCEPT !.anomalies = @ \union {i}]
    BY <2>2 DEF ProbeStep
  <2>4. /\ counted \in [probes : Nat, violations : SUBSET Nat,
                        anomalies : SUBSET Nat]
        /\ {i} \in SUBSET Nat
    BY <2>2
  <2> HIDE DEF counted
  <2>5. report' \in [probes : Nat, violations : SUBSET Nat,
                     anomalies : SUBSET Nat]
    BY <2>3, <2>4
  <2>6. QED  BY <2>1, <2>5
<1>2. CASE pc # "probe" \/ ProbeCold
  BY <1>2 DEF Next, Configure, BuildLoop, BeginStep, Climb, Probe, Call,
     Retry, Answer, EndRun, Responds, ToolReturns, Overflow, Interrupt,
     NextTurn, AppendMessage, ProbeCold, Built, assemblerVars, vars
<1>3. CASE UNCHANGED vars
  BY <1>3 DEF vars, assemblerVars
<1>4. QED
  BY <1>1, <1>2, <1>3 DEF Next, Configure, BuildLoop, BeginStep, Climb, Probe,
     Call, Retry, Answer, EndRun, Responds, ToolReturns, Overflow, Interrupt,
     NextTurn

\* With no declaration left over, a change of the prefix is refused and told.
LEMMA SilentChange ==
  ASSUME Undeclared, NEW kind \in {"unreasoned", "undeclared"},
         NEW p \in PrefixTexts, NEW hit \in BOOLEAN,
         ProbeStep(kind, p, hit), p # last
  PROVE  report'.probes \in report'.violations
<1>1. ~Accepted(p, pending \/ kind = "declared")
  BY DEF Undeclared, ProbeStep, Accepted
<1> DEFINE counted == [report EXCEPT !.probes = report.probes + 1]
<1>2. report' = [counted EXCEPT
                   !.violations = counted.violations \union
                                    {report.probes + 1}]
  BY <1>1, Zenon DEF ProbeStep, Built
<1>3. QED  BY <1>2 DEF Undeclared

\* No change of the prefix that was not declared in its own step escapes the
\* report (build, run_prefix_invariant).
THEOREM SilenceIsCaught == Spec => SilentChangeCaught
<1> DEFINE A == report'.probes # report.probes =>
                  \A kind \in {"unreasoned", "undeclared"} :
                  \A p \in PrefixTexts, hit \in BOOLEAN :
                    ProbeStep(kind, p, hit) /\ p # last
                      => report'.probes \in report'.violations
<1>1. Undeclared /\ [Next]_vars => [A]_assemblerVars
  BY SilentChange
<1>2. QED  BY <1>1, UndeclaredInit, UndeclaredStep, PTL
              DEF Spec, SilentChangeCaught
-----------------------------------------------------------------------------

\* What Over yields, field by field.
LEMMA OverIs ==
  ASSUME NEW upper, NEW lower
  PROVE  /\ DOMAIN Over(upper, lower) = DOMAIN upper \union DOMAIN lower
         /\ \A f \in DOMAIN upper : Over(upper, lower)[f] = upper[f]
         /\ \A f \in DOMAIN lower \ DOMAIN upper :
              Over(upper, lower)[f] = lower[f]
         /\ Over(upper, lower) = [f \in DOMAIN upper \union DOMAIN lower |->
                                    Over(upper, lower)[f]]
BY DEF Over

\* A quotient, rounded down, times its divisor is no more than the dividend.
LEMMA QuotientIs ==
  ASSUME NEW a \in Nat, NEW d \in Nat, d > 0
  PROVE  a \div d \in Nat /\ d * (a \div d) <= a
<1>1. a \div d \in Int
  OBVIOUS
<1>2. d * (a \div d) <= a
  OBVIOUS
<1>3. a \div d >= 0
  OBVIOUS
<1>4. QED  BY <1>1, <1>2, <1>3

\* A factor can be left out on both sides.
LEMMA FactorOut ==
  ASSUME NEW q \in Int, NEW d \in Nat, NEW c \in Nat, d > 0, d * q < d * c
  PROVE  q < c
OBVIOUS

\* A share of the ceiling, rounded down, is less than the ceiling.
LEMMA ReserveFits ==
  ASSUME NEW c \in Nat, c > 0, NEW ratio, IsShare(ratio)
  PROVE  GenerationReserve(c, ratio) \in 0..(c - 1)
<1>1. PICK num \in Nat, den \in Nat :
             num = ratio[1] /\ den = ratio[2] /\ num < den
  BY DEF IsShare
<1>2. den > 0
  BY <1>1
<1>3. c * num < den * c
  BY <1>1
<1>4. PICK a \in Nat : a = c * num
  OBVIOUS
<1>5. PICK q \in Nat : q = a \div den /\ den * q <= a
  BY <1>2, QuotientIs
<1>6. den * q < den * c
  BY <1>3, <1>4, <1>5
<1>7. q < c
  BY <1>2, <1>6, FactorOut
<1>8. QED  BY <1>1, <1>4, <1>5, <1>7 DEF GenerationReserve

\* The budget of a configuration is within its window, which is the server's.
Fitted(c) == /\ c.context_window \in Nat /\ c.context_window > 0
             /\ c.soft_ceiling \in Nat /\ c.soft_ceiling > 0
             /\ c.soft_ceiling <= c.context_window
             /\ c.n_ctx \in {Null, c.context_window}
             /\ IsShare(c.generation_reserve_ratio)

\* The validators, in the order they run, leave a fitted configuration.
LEMMA ResolvedFits ==
  ASSUME NEW l, ~Refused(l)
  PROVE  Fitted(Resolved(l).config)
<1> DEFINE c0 == Over(Merged(l), Defaults)
           c1 == UrlFollows(c0)
           c2 == CeilingFits(c1)
           c3 == WindowsAgree(c2)
<1>1. /\ DOMAIN c0 = Fields
      /\ c0 = [f \in Fields |-> c0[f]]
      /\ c0.n_ctx # Null => c0.n_ctx \in Nat /\ c0.n_ctx > 0
      /\ c0.context_window \in Nat /\ c0.context_window > 0
      /\ c0.soft_ceiling \in Nat /\ c0.soft_ceiling > 0
      /\ IsShare(c0.generation_reserve_ratio)
  <2>0. Acceptable(Merged(l))
    BY DEF Refused
  <2>1. DOMAIN Merged(l) \union DOMAIN Defaults = Fields
    <3>1. DOMAIN Merged(l) \subseteq Fields
      BY <2>0 DEF Acceptable
    <3>2. DOMAIN Defaults = Fields
      BY DEF Defaults, Fields
    <3>3. QED  BY <3>1, <3>2
  <2>2. DOMAIN c0 = Fields /\ c0 = [f \in Fields |-> c0[f]]
    BY <2>1, OverIs
  <2>3. /\ c0.n_ctx \in {Null} \union AtLeast(LeastWindow)
        /\ c0.context_window \in AtLeast(LeastWindow)
        /\ c0.soft_ceiling \in AtLeast(LeastCeiling)
        /\ IsShare(c0.generation_reserve_ratio)
    BY <2>0 DEF Acceptable
  <2> HIDE DEF c0
  <2>4. QED  BY <2>2, <2>3, LimitsAssumption DEF AtLeast
<1> HIDE DEF c0
<1>2. /\ c1 = [f \in Fields |-> c1[f]]
      /\ \A f \in Fields \ {"base_url"} : c1[f] = c0[f]
  BY <1>1 DEF UrlFollows, Fields
<1> HIDE DEF c1
<1>3. /\ c2 = [f \in Fields |-> c2[f]]
      /\ c2.n_ctx = c0.n_ctx /\ c2.context_window = c0.context_window
      /\ c2.soft_ceiling \in {c0.soft_ceiling, c0.context_window}
      /\ c2.soft_ceiling <= c2.context_window
      /\ c2.generation_reserve_ratio = c0.generation_reserve_ratio
  BY <1>1, <1>2 DEF CeilingFits, Fields
<1> HIDE DEF c2
<1>4. Fitted(c3)
  BY <1>1, <1>3 DEF WindowsAgree, CeilingFits, Fitted, Fields
<1>5. QED  BY <1>4 DEF Resolved, c0, c1, c2

\* What BudgetFitsServer says, and the types it needs.
BudgetInv == settings # Null =>
               /\ Fitted(settings.config)
               /\ pc = "failed" => Reserve = 0
               /\ pc \notin {"build", "failed"} => Reserve > 0

\* TokenBudget accepts what is left of a fitted configuration unless its
\* reserve is nothing.
LEMMA BuildFits ==
  ASSUME BudgetInv, settings # Null, BuildLoop
  PROVE  BudgetInv'
<1>1. /\ Fitted(settings.config) /\ UNCHANGED settings
      /\ pc' = IF Ceiling \in 1..Window /\ Reserve \in 1..(Ceiling - 1)
               THEN "start" ELSE "failed"
  BY DEF BudgetInv, BuildLoop, configVars
<1>2. PICK c, w, g : c = Ceiling /\ w = Window /\ g = Reserve
  OBVIOUS
<1>3. c \in Nat /\ c > 0 /\ w \in Nat /\ c <= w
  BY <1>1, <1>2 DEF Fitted, Ceiling, Window
<1>4. g \in 0..(c - 1)
  BY <1>1, <1>2, <1>3, ReserveFits DEF Fitted, Ceiling, Reserve
<1>5. Reserve' = g
  BY <1>1, <1>2 DEF Reserve, Ceiling
<1>6. /\ pc' = "failed" => g = 0
      /\ pc' # "failed" => g > 0
  BY <1>1, <1>2, <1>3, <1>4
<1>7. QED  BY <1>1, <1>5, <1>6 DEF BudgetInv

\* Whatever layers the numbers came from, the budget is inside the window the
\* server is configured with, its reserve is less than the ceiling, and a run
\* that was built has a reserve (_ceiling_fits_the_window,
\* _server_window_and_budget_window_agree, TokenBudget.__init__).
THEOREM BudgetCorrect == Spec => []BudgetFitsServer
<1>1. Init => BudgetInv
  BY DEF Init, BudgetInv
<1>2. BudgetInv /\ [Next]_vars => BudgetInv'
  <2> SUFFICES ASSUME BudgetInv, [Next]_vars PROVE BudgetInv'
    OBVIOUS
  <2>1. CASE Configure
    <3>1. CASE Refused(layers)
      BY <2>1, <3>1 DEF Configure, BudgetInv, Reserve, Ceiling
    <3>2. CASE ~Refused(layers)
      <4>1. pc' = "build" /\ settings' = Resolved(layers)
        BY <2>1, <3>2 DEF Configure
      <4>2. Fitted(settings'.config)
        BY <3>2, <4>1, ResolvedFits
      <4>3. QED  BY <4>1, <4>2 DEF BudgetInv
    <3>3. QED  BY <3>1, <3>2
  <2>2. CASE BuildLoop
    <3>1. CASE settings = Null
      BY <2>2, <3>1 DEF BuildLoop, configVars, BudgetInv
    <3>2. CASE settings # Null
      BY <2>2, <3>2, BuildFits
    <3>3. QED  BY <3>1, <3>2
  <2>3. CASE /\ UNCHANGED settings
             /\ pc' = pc \/ {pc, pc'} \intersect {"build", "failed"} = {}
    <3>1. UNCHANGED Reserve
      BY <2>3 DEF Reserve, Ceiling
    <3>2. /\ pc' = "failed" => pc = "failed"
          /\ pc' \notin {"build", "failed"} => pc \notin {"build", "failed"}
      BY <2>3
    <3>3. QED  BY <2>3, <3>1, <3>2 DEF BudgetInv
  <2>4. QED
    <3>1. CASE Next
      <4>1. Configure \/ BuildLoop
              \/ /\ UNCHANGED settings
                 /\ pc' = pc \/ {pc, pc'} \intersect {"build", "failed"} = {}
        BY <3>1 DEF Next, BeginStep, Climb, Probe, Call, Retry, Answer,
           EndRun, Responds, ToolReturns, Overflow, Interrupt, NextTurn,
           configVars
      <4>2. QED  BY <2>1, <2>2, <2>3, <4>1
    <3>2. CASE UNCHANGED vars
      BY <2>3, <3>2 DEF vars, configVars
    <3>3. QED  BY <3>1, <3>2
<1>3. BudgetInv => BudgetFitsServer
  <2> SUFFICES ASSUME BudgetInv, settings # Null PROVE BudgetFitsServer
    BY DEF BudgetFitsServer
  <2>1. Fitted(settings.config)
    BY DEF BudgetInv
  <2>2. Reserve \in 0..(Ceiling - 1) /\ Ceiling \in Nat
    BY <2>1, ReserveFits DEF Fitted, Ceiling, Reserve
  <2>3. Reserve < Ceiling
    BY <2>2
  <2>4. QED
    BY <2>1, <2>3 DEF Fitted, BudgetInv, BudgetFitsServer, Ceiling, Window
<1>4. QED  BY <1>1, <1>2, <1>3, PTL DEF Spec

\* Field by field, through the merge and the three validators.
LEMMA Explained ==
  ASSUME NEW l, ~Refused(l), NEW f \in Fields,
         NEW s, s = Resolved(l),
         NEW from, from = IF f \in DOMAIN s.origins THEN s.origins[f]
                                                   ELSE "default"
  PROVE  \/ f \in s.warned
         \/ f = "base_url" /\ s.config.base_url
                                = <<s.config.host, s.config.port>>
         \/ /\ f \in DOMAIN Given(l, from)
            /\ s.config[f] = Given(l, from)[f]
            /\ \A higher \in Above(from) : f \notin DOMAIN Given(l, higher)
<1> DEFINE c0 == Over(Merged(l), Defaults)
           c1 == UrlFollows(c0)
           c2 == CeilingFits(c1)
           c3 == WindowsAgree(c2)
<1>1. /\ DOMAIN Merged(l) \subseteq Fields /\ DOMAIN Defaults = Fields
      /\ c0 = [x \in Fields |-> c0[x]]
  <2>1. DOMAIN Merged(l) \subseteq Fields
    BY DEF Refused, Acceptable
  <2>2. DOMAIN Defaults = Fields
    BY DEF Defaults, Fields
  <2>3. DOMAIN Merged(l) \union DOMAIN Defaults = Fields
    BY <2>1, <2>2
  <2>4. QED  BY <2>1, <2>2, <2>3, OverIs
<1>2. /\ s.config = c3 /\ s.origins = DerivedOrigins(l)
      /\ s.warned = {x \in {"context_window", "soft_ceiling"} :
                       c1[x] # c2[x] \/ c2[x] # c3[x]}
  BY DEF Resolved
<1>3. /\ DOMAIN Merged(l) = DOMAIN l.cli \union DOMAIN l.env
             \union DOMAIN Content(l.file) \union DOMAIN FromProfile(l.profile)
      /\ \A x \in DOMAIN Merged(l) :
           Merged(l)[x] = IF x \in DOMAIN l.cli THEN l.cli[x]
                          ELSE IF x \in DOMAIN l.env THEN l.env[x]
                          ELSE IF x \in DOMAIN Content(l.file)
                               THEN Content(l.file)[x]
                          ELSE FromProfile(l.profile)[x]
  BY DEF Merged, Over
<1>4. \A x \in Fields : c0[x] = IF x \in DOMAIN Merged(l) THEN Merged(l)[x]
                                ELSE Defaults[x]
  <2>1. Fields = DOMAIN Merged(l) \union DOMAIN Defaults
    BY <1>1
  <2>2. QED  BY <2>1 DEF Over
<1> HIDE DEF c0
<1>5. /\ c1 = [x \in Fields |-> c1[x]]
      /\ \A x \in Fields \ {"base_url"} : c1[x] = c0[x]
      /\ c1["base_url"] = IF c0["base_url"] = <<LocalHost, LocalPort>>
                          THEN <<c0["host"], c0["port"]>> ELSE c0["base_url"]
  BY <1>1 DEF UrlFollows, Fields, Defaults
<1> HIDE DEF c1
<1>6. /\ c2 = [x \in Fields |-> c2[x]]
      /\ \A x \in Fields \ {"soft_ceiling"} : c2[x] = c1[x]
  BY <1>5 DEF CeilingFits, Fields
<1> HIDE DEF c2
<1>7. \A x \in Fields \ {"context_window", "soft_ceiling"} : c3[x] = c2[x]
  BY <1>6 DEF WindowsAgree, CeilingFits, Fields
<1> HIDE DEF c3
<1>8. CASE f \in {"context_window", "soft_ceiling"} /\ c3[f] # c0[f]
  <2>1. c1[f] = c0[f]  BY <1>5, <1>8 DEF Fields
  <2>2. QED  BY <1>2, <1>8, <2>1
<1>9. CASE f = "base_url" /\ c0["base_url"] = <<LocalHost, LocalPort>>
  BY <1>2, <1>5, <1>6, <1>7, <1>9 DEF Fields
<1>10. ASSUME c3[f] = c0[f],
              f = "base_url" => c0["base_url"] # <<LocalHost, LocalPort>>
       PROVE  /\ f \in DOMAIN Given(l, from)
              /\ s.config[f] = Given(l, from)[f]
              /\ \A higher \in Above(from) :
                   f \notin DOMAIN Given(l, higher)
  <2>1. from = IF f \in DOMAIN Merged(l) THEN OriginsOf(l)[f] ELSE "default"
    <3>1. DOMAIN OriginsOf(l) = DOMAIN Merged(l)
      BY DEF OriginsOf
    <3>2. f = "base_url" => f \in DOMAIN Merged(l)
      BY <1>4, <1>10 DEF Defaults, Fields
    <3>3. QED
      BY <1>2, <3>1, <3>2 DEF DerivedOrigins, Over
  <2>2. CASE f \in DOMAIN l.cli
    BY <1>2, <1>3, <1>4, <1>10, <2>1, <2>2 DEF OriginsOf, Given, Above
  <2>3. CASE f \notin DOMAIN l.cli /\ f \in DOMAIN l.env
    BY <1>2, <1>3, <1>4, <1>10, <2>1, <2>3 DEF OriginsOf, Given, Above
  <2>4. CASE /\ f \notin DOMAIN l.cli \union DOMAIN l.env
             /\ f \in DOMAIN Content(l.file)
    BY <1>2, <1>3, <1>4, <1>10, <2>1, <2>4 DEF OriginsOf, Given, Above
  <2>5. CASE /\ f \notin DOMAIN l.cli \union DOMAIN l.env
                                    \union DOMAIN Content(l.file)
             /\ f \in DOMAIN FromProfile(l.profile)
    BY <1>2, <1>3, <1>4, <1>10, <2>1, <2>5 DEF OriginsOf, Given, Above
  <2>6. CASE f \notin DOMAIN Merged(l)
    BY <1>1, <1>2, <1>3, <1>4, <1>10, <2>1, <2>6 DEF Given, Above, Origins
  <2>7. QED  BY <1>3, <2>2, <2>3, <2>4, <2>5, <2>6
<1>11. QED
  <2>1. f \notin {"context_window", "soft_ceiling", "base_url"}
          => c3[f] = c0[f]
    BY <1>5, <1>6, <1>7 DEF Fields
  <2>2. f = "base_url" /\ c0["base_url"] # <<LocalHost, LocalPort>>
          => c3[f] = c0[f]
    BY <1>5, <1>6, <1>7 DEF Fields
  <2>3. QED  BY <1>8, <1>9, <1>10, <2>1, <2>2

\* Every effective value is that of the layer it is attributed to, or a
\* warning says it was adjusted (_flatten, _inherit_derived_origins).
THEOREM ConfigurationExplained == Spec => SettingsExplained
<1> DEFINE A == \A f \in Fields :
       pc = "configure" /\ pc' = "build" =>
         LET from == IF f \in DOMAIN settings'.origins
                     THEN settings'.origins[f] ELSE "default"
         IN \/ f \in settings'.warned
            \/ f = "base_url" /\ settings'.config.base_url
                 = <<settings'.config.host, settings'.config.port>>
            \/ /\ f \in DOMAIN Given(layers, from)
               /\ settings'.config[f] = Given(layers, from)[f]
               /\ \A higher \in Above(from) :
                    f \notin DOMAIN Given(layers, higher)
<1>1. [Next]_vars => [A]_vars
  <2> SUFFICES ASSUME Next, pc = "configure", pc' = "build",
                      NEW f \in Fields
               PROVE  A!(f)
    OBVIOUS
  <2>1. ~Refused(layers) /\ settings' = Resolved(layers)
    BY DEF Next, Configure, BuildLoop, BeginStep, Climb, Probe, Call, Retry,
       Answer, EndRun, Responds, ToolReturns, Overflow, Interrupt, NextTurn
  <2>2. QED  BY <2>1, Explained
<1>2. QED  BY <1>1, PTL DEF Spec, SettingsExplained
-----------------------------------------------------------------------------

\* A sequence, of whatever.
IsList(s) == \E S : s \in Seq(S)

\* The newest result in s is as its tool gave it; n messages follow it.
Fresh(s, n) ==
  \E i \in DOMAIN s : /\ s[i].tool # NoTool /\ s[i].passes = 1
                      /\ \A j \in DOMAIN s : j > i => s[j].tool = NoTool
                      /\ Len(s) = i + n

\* r is a list in which the newest result of s is as far from the end.
Keeps(s, r, keep) ==
  IsList(r) /\ \A n \in Nat : n < keep /\ Fresh(s, n) => Fresh(r, n)

\* A message that is no result moves the newest one by a place.
LEMMA PlainAfter ==
  ASSUME NEW S, NEW s \in Seq(S), NEW b
  PROVE  /\ IsList(Append(s, Plain(b)))
         /\ \A n \in Nat : Fresh(s, n) => Fresh(Append(s, Plain(b)), n + 1)
<1> DEFINE r == Append(s, Plain(b))
<1>1. r \in Seq(S \union {Plain(b)})
  OBVIOUS
<1>2. Plain(b).tool = NoTool
  BY DEF Plain, Message
<1>3. /\ Len(r) = Len(s) + 1 /\ r[Len(s) + 1] = Plain(b)
      /\ \A k \in 1..Len(s) : r[k] = s[k]
      /\ DOMAIN s = 1..Len(s) /\ DOMAIN r = 1..(Len(s) + 1)
  OBVIOUS
<1> HIDE DEF r
<1>4. ASSUME NEW n \in Nat, Fresh(s, n)
      PROVE  Fresh(r, n + 1)
  <2>1. PICK i \in 1..Len(s) :
               /\ s[i].tool # NoTool /\ s[i].passes = 1
               /\ \A j \in DOMAIN s : j > i => s[j].tool = NoTool
               /\ Len(s) = i + n
    BY <1>3, <1>4 DEF Fresh
  <2>2. \A j \in DOMAIN r : j > i => r[j].tool = NoTool
    BY <1>2, <1>3, <2>1
  <2>3. i \in DOMAIN r /\ r[i] = s[i] /\ Len(r) = i + (n + 1)
    BY <1>3, <2>1
  <2>4. QED  BY <2>1, <2>2, <2>3 DEF Fresh
<1>5. IsList(r)
  BY <1>1 DEF IsList, r
<1>6. QED  BY <1>4, <1>5 DEF r

\* A result just appended is the newest.
LEMMA ResultAfter ==
  ASSUME NEW S, NEW s \in Seq(S), NEW m, m.tool # NoTool, m.passes = 1
  PROVE  IsList(Append(s, m)) /\ Fresh(Append(s, m), 0)
<1> DEFINE r == Append(s, m)
<1>1. r \in Seq(S \union {m})
  OBVIOUS
<1>2. Len(r) = Len(s) + 1 /\ r[Len(s) + 1] = m /\ DOMAIN r = 1..(Len(s) + 1)
  OBVIOUS
<1> HIDE DEF r
<1>3. Fresh(r, 0)
  BY <1>2 DEF Fresh
<1>4. QED  BY <1>1, <1>3 DEF IsList, r

\* A rewrite in place that spares the newest result keeps it.
LEMMA RewriteKeeps ==
  ASSUME NEW S, NEW s \in Seq(S),
         NEW r, r = [k \in DOMAIN s |-> r[k]],
         \A k \in DOMAIN s : r[k].tool = s[k].tool,
         \A k \in DOMAIN s :
            (\A j \in DOMAIN s : j > k => s[j].tool = NoTool) => r[k] = s[k]
  PROVE  IsList(r) /\ \A n \in Nat : Fresh(s, n) => Fresh(r, n)
<1>1. r \in Seq({r[k] : k \in DOMAIN s}) /\ Len(r) = Len(s)
  OBVIOUS
<1>2. ASSUME NEW n \in Nat, Fresh(s, n) PROVE Fresh(r, n)
  BY <1>1, <1>2 DEF Fresh
<1>3. QED  BY <1>1, <1>2 DEF IsList

\* The newest result is superseded by none.
LEMMA DropKeeps ==
  ASSUME NEW S, NEW s \in Seq(S)
  PROVE  /\ IsList(DropSuperseded(s))
         /\ \A n \in Nat : Fresh(s, n) => Fresh(DropSuperseded(s), n)
<1> DEFINE r == DropSuperseded(s)
<1>1. r = [k \in DOMAIN s |-> r[k]]
  BY DEF DropSuperseded
<1>2. \A k \in DOMAIN s : r[k].tool = s[k].tool
  BY DEF DropSuperseded, Rewritten, Message
<1>3. ASSUME NEW k \in DOMAIN s,
             \A j \in DOMAIN s : j > k => s[j].tool = NoTool
      PROVE  r[k] = s[k]
  BY <1>3 DEF DropSuperseded
<1> HIDE DEF r
<1>4. IsList(r) /\ \A n \in Nat : Fresh(s, n) => Fresh(r, n)
  BY <1>1, <1>2, <1>3, RewriteKeeps
<1>5. QED  BY <1>4 DEF r

\* The newest result has no newer ones, and KeepResults is one at least.
LEMMA SummaryKeeps ==
  ASSUME NEW S, NEW s \in Seq(S)
  PROVE  /\ IsList(SummarizeOldResults(s))
         /\ \A n \in Nat : Fresh(s, n) => Fresh(SummarizeOldResults(s), n)
<1> DEFINE r == SummarizeOldResults(s)
<1>1. r = [k \in DOMAIN s |-> r[k]]
  BY DEF SummarizeOldResults
<1>2. \A k \in DOMAIN s : r[k].tool = s[k].tool
  BY DEF SummarizeOldResults, Recompressed, Rewritten, Message
<1>3. ASSUME NEW k \in DOMAIN s,
             \A j \in DOMAIN s : j > k => s[j].tool = NoTool
      PROVE  r[k] = s[k]
  <2> DEFINE newer == {j \in ResultsOf(s) : j > k}
  <2>1. newer = {}
    BY <1>3 DEF ResultsOf
  <2>2. Cardinality(newer) = 0
    <3> HIDE DEF newer
    <3>1. QED  BY <2>1, FS_EmptySet, Zenon
  <2>3. ~(Cardinality(newer) >= KeepResults)
    <3> HIDE DEF newer
    <3>1. QED  BY <2>2, LadderLimits
  <2>4. QED  BY <2>3 DEF SummarizeOldResults
<1> HIDE DEF r
<1>4. IsList(r) /\ \A n \in Nat : Fresh(s, n) => Fresh(r, n)
  BY <1>1, <1>2, <1>3, RewriteKeeps
<1>5. QED  BY <1>4 DEF r

\* A summary in front of the last messages keeps a result among these.
LEMMA TailKeeps ==
  ASSUME NEW S, NEW s \in Seq(S), NEW cut \in Nat, NEW keep \in Nat,
         cut + keep = Len(s), NEW p, p.tool = NoTool,
         NEW r, r = <<p>> \o SubSeq(s, cut + 1, Len(s))
  PROVE  Keeps(s, r, keep)
<1> DEFINE tail == SubSeq(s, cut + 1, Len(s))
<1>0. r = <<p>> \o tail
  OBVIOUS
<1>5. PICK size \in Nat : size = cut + keep
  OBVIOUS
<1>6. Len(s) = size /\ DOMAIN s = 1..size
  BY <1>5
<1>1. /\ tail \in Seq(S) /\ Len(tail) = keep
      /\ \A k \in 1..keep : tail[k] = s[cut + k]
  OBVIOUS
<1> HIDE DEF tail
<1>2. /\ r \in Seq(S \union {p}) /\ Len(r) = keep + 1 /\ r[1] = p
      /\ \A k \in 1..keep : r[k + 1] = tail[k]
      /\ DOMAIN r = 1..(keep + 1)
  BY <1>0, <1>1
<1>3. ASSUME NEW n \in Nat, n < keep, Fresh(s, n)
      PROVE  Fresh(r, n)
  <2>1. PICK i \in 1..Len(s) :
               /\ s[i].tool # NoTool /\ s[i].passes = 1
               /\ \A j \in DOMAIN s : j > i => s[j].tool = NoTool
               /\ Len(s) = i + n
    <3>1. PICK i \in DOMAIN s :
               /\ s[i].tool # NoTool /\ s[i].passes = 1
               /\ \A j \in DOMAIN s : j > i => s[j].tool = NoTool
               /\ Len(s) = i + n
      BY <1>3, Zenon DEF Fresh
    <3>2. DOMAIN s = 1..Len(s)
      OBVIOUS
    <3>3. QED  BY <3>1, <3>2, Zenon
  <2>2. PICK k \in 1..keep : k = i - cut
    <3>1. i \in 1..size /\ size = i + n
      BY <1>6, <2>1
    <3>3. i - cut \in 1..keep
      BY <1>3, <1>5, <3>1
    <3>4. QED  BY <3>3
  <2>3. r[k + 1] = s[i] /\ k + 1 \in DOMAIN r /\ Len(r) = (k + 1) + n
    <3>1. i \in 1..size /\ size = i + n /\ cut + k = i
      BY <1>6, <2>1, <2>2
    <3>2. k + 1 \in 1..(keep + 1) /\ keep + 1 = (k + 1) + n
      BY <1>3, <1>5, <3>1
    <3>3. r[k + 1] = tail[k] /\ tail[k] = s[cut + k]
      BY <1>1, <1>2
    <3>4. QED  BY <1>2, <3>1, <3>2, <3>3
  <2>4. ASSUME NEW j \in DOMAIN r, j > k + 1
        PROVE  r[j].tool = NoTool
    <3>1. PICK h \in 1..keep : h = j - 1
      BY <1>2, <2>2, <2>4
    <3>2. cut + h \in DOMAIN s
      <4>1. cut + h \in 1..size
        BY <1>5
      <4>2. QED  BY <1>6, <4>1
    <3>3. cut + h > i
      BY <2>2, <2>4, <3>1, <1>2
    <3>4. r[j] = s[cut + h]
      <4>1. j = h + 1
        BY <1>2, <3>1
      <4>2. QED  BY <1>1, <1>2, <4>1
    <3>5. QED  BY <2>1, <3>2, <3>3, <3>4
  <2>5. QED  BY <2>1, <2>3, <2>4 DEF Fresh
<1>4. QED  BY <1>2, <1>3 DEF IsList, Keeps

\* A collapse keeps the newest result as long as it is among KeepMessages.
LEMMA ConversationKeeps ==
  ASSUME NEW S, NEW s \in Seq(S)
  PROVE  /\ IsList(SummarizeOldConversation(s))
         /\ \A n \in Nat : n < KeepMessages /\ Fresh(s, n)
              => Fresh(SummarizeOldConversation(s), n)
<1>1. CASE Len(s) < KeepMessages + MinSpan
  BY <1>1 DEF SummarizeOldConversation, IsList
<1>2. CASE ~(Len(s) < KeepMessages + MinSpan)
  <2>1. KeepMessages \in Nat /\ MinSpan \in Nat
    BY LadderLimits
  <2>2. PICK cut \in Nat : cut = Len(s) - KeepMessages
    BY <1>2, <2>1
  <2>3. cut + KeepMessages = Len(s)
    BY <2>1, <2>2
  <2>4. PICK p : p = Plain(90 + Extract(s[1]) + Extract(s[cut]))
    OBVIOUS
  <2>5. p.tool = NoTool
    BY <2>4 DEF Plain, Message
  <2>6. PICK r : r = <<p>> \o SubSeq(s, cut + 1, Len(s))
    OBVIOUS
  <2>7. /\ s \in Seq(S) /\ cut \in Nat /\ KeepMessages \in Nat
        /\ cut + KeepMessages = Len(s) /\ p.tool = NoTool
        /\ r = <<p>> \o SubSeq(s, cut + 1, Len(s))
    BY <2>1, <2>3, <2>5, <2>6
  <2>8. Keeps(s, r, KeepMessages)
    BY <2>7, TailKeeps
  <2>9. SummarizeOldConversation(s) = r
    BY <1>2, <2>2, <2>4, <2>6, Zenon DEF SummarizeOldConversation
  <2>10. QED  BY <2>8, <2>9 DEF Keeps
<1>3. QED  BY <1>1, <1>2

\* So does the ladder as a whole.
LEMMA WalkKeeps ==
  ASSUME NEW S, NEW s \in Seq(S), NEW remaining
  PROVE  /\ IsList(Walk(s, remaining))
         /\ \A n \in Nat : n < KeepMessages /\ Fresh(s, n)
              => Fresh(Walk(s, remaining), n)
<1>1. CASE Walk(s, remaining) = s
  BY <1>1 DEF IsList
<1>2. CASE Walk(s, remaining) # s
  BY <1>2, Rungs, DropKeeps, SummaryKeeps, ConversationKeeps
<1>3. QED  BY <1>1, <1>2

\* What a turn begins with moves the newest result by as many places.
LEMMA MessagesAfter ==
  ASSUME NEW s, IsList(s), NEW b, NEW m, m \in {<<>>, <<Plain(b)>>}
  PROVE  /\ IsList(s \o m) /\ Len(m) \in {0, 1}
         /\ \A n \in Nat : Fresh(s, n) => Fresh(s \o m, n + Len(m))
<1> PICK S : s \in Seq(S)
  BY DEF IsList
<1>1. CASE m = <<>>
  <2>1. s \o m = s /\ Len(m) = 0
    BY <1>1
  <2>2. \A n \in Nat : n + Len(m) = n
    BY <2>1
  <2>3. QED  BY <2>1, <2>2
<1>2. CASE m = <<Plain(b)>>
  <2>1. s \o m = Append(s, Plain(b)) /\ Len(m) = 1
    BY <1>2
  <2>2. QED  BY <2>1, PlainAfter
<1>3. QED  BY <1>1, <1>2

\* Without its last message, which is no result, a list has the newest one a
\* place nearer to its end.
LEMMA FrontKeeps ==
  ASSUME NEW S, NEW s \in Seq(S), s # <<>>
  PROVE  /\ IsList(Front(s))
         /\ \A n \in Nat : Fresh(s, n + 1) => Fresh(Front(s), n)
<1> DEFINE r == Front(s)
<1>1. PICK m \in Nat : m + 1 = Len(s)
  OBVIOUS
<1>2. /\ r \in Seq(S) /\ Len(r) = m
      /\ \A k \in 1..m : r[k] = s[k]
      /\ DOMAIN s = 1..(m + 1) /\ DOMAIN r = 1..m
  <2>1. r = SubSeq(s, 1, m)
    BY <1>1 DEF Front
  <2> HIDE DEF r
  <2>2. QED  BY <1>1, <2>1
<1> HIDE DEF r
<1>3. ASSUME NEW n \in Nat, Fresh(s, n + 1)
      PROVE  Fresh(r, n)
  <2>1. PICK i \in 1..Len(s) :
               /\ s[i].tool # NoTool /\ s[i].passes = 1
               /\ \A j \in DOMAIN s : j > i => s[j].tool = NoTool
               /\ Len(s) = i + (n + 1)
    BY <1>2, <1>3 DEF Fresh
  <2>2. i \in DOMAIN r /\ r[i] = s[i] /\ Len(r) = i + n
    BY <1>1, <1>2, <2>1
  <2>3. \A j \in DOMAIN r : j > i => r[j].tool = NoTool
    BY <1>1, <1>2, <2>1
  <2>4. QED  BY <2>1, <2>2, <2>3 DEF Fresh
<1>4. QED  BY <1>2, <1>3 DEF IsList, r

\* The inductive invariant: as long as fewer than KeepMessages messages follow
\* it, the newest result is where the count says; a directive that is not
\* saved is one of them.
KeptInv ==
  /\ IsList(append)
  /\ since \in 0..KeepMessages
  /\ directive = "unsaved" => pc = "call" /\ since > 0 /\ append # <<>>
  /\ pc = "probe" => since = KeepMessages
  /\ since < KeepMessages => Fresh(append, since)

\* There is no result at first.
LEMMA KeptInit == Init => KeptInv
<1> SUFFICES ASSUME Init PROVE KeptInv
  OBVIOUS
<1>1. append \in Seq({}) /\ since = KeepMessages /\ directive = "due"
  BY DEF Init, AssemblerInit
<1>2. QED  BY <1>1, LadderLimits DEF KeptInv, IsList

\* Messages that are no results, counted as long as it matters.
LEMMA LaterKeeps ==
  ASSUME KeptInv, NEW k \in Nat, since' = Later(k), IsList(append'),
         \A n \in Nat : Fresh(append, n) => Fresh(append', n + k)
  PROVE  /\ IsList(append') /\ since' \in 0..KeepMessages
         /\ k > 0 => since' > 0
         /\ since' < KeepMessages => Fresh(append', since')
<1>1. KeepMessages \in Nat \ {0} /\ since \in Nat /\ since <= KeepMessages
  BY LadderLimits DEF KeptInv
<1>2. since' < KeepMessages => since' = since + k /\ since < KeepMessages
  BY <1>1 DEF Later
<1>3. since' \in 0..KeepMessages /\ (k > 0 => since' > 0)
  BY <1>1 DEF Later
<1>4. QED  BY <1>1, <1>2, <1>3 DEF KeptInv

\* What appends nothing and counts nothing leaves the invariant.
LEMMA SameKeeps ==
  ASSUME KeptInv, UNCHANGED <<append, since>>,
         \/ directive' \in {"due", "saved"} /\ pc' # "probe"
         \/ UNCHANGED <<directive, pc>>
  PROVE  KeptInv'
<1>1. /\ directive' = "unsaved" => directive = "unsaved" /\ pc' = pc
      /\ pc' = "probe" => pc' = pc
  OBVIOUS
<1>2. /\ IsList(append') <=> IsList(append)
      /\ Fresh(append', since') <=> Fresh(append, since)
  OBVIOUS
<1>3. QED  BY <1>1, <1>2 DEF KeptInv

\* The benchmark counts no messages.
LEMMA ProbeKeeps == KeptInv /\ Probe => KeptInv'
<1> SUFFICES ASSUME KeptInv, Probe PROVE KeptInv'
  OBVIOUS
<1>1. PICK S : append \in Seq(S)
  BY DEF KeptInv, IsList
<1>2. ASSUME NEW kind \in StepKinds, NEW p \in PrefixTexts,
             NEW hit \in BOOLEAN, ProbeStep(kind, p, hit)
      PROVE  IsList(append')
  <2>1. CASE append' = append
    BY <1>1, <2>1 DEF IsList
  <2>2. CASE append' = append \o Appended(kind)
    <3>1. PICK m : Appended(kind) = <<m>> \/ Appended(kind) = <<>>
      BY DEF Appended
    <3>2. append' = append \o <<m>> \/ append' = append \o <<>>
      BY <2>2, <3>1
    <3>3. append \o <<m>> \in Seq(S \union {m}) /\ append \o <<>> \in Seq(S)
      BY <1>1
    <3>4. QED  BY <3>2, <3>3 DEF IsList
  <2>3. QED  BY <1>2, <2>1, <2>2 DEF ProbeStep
<1>3. IsList(append')
  BY <1>2 DEF Probe, ProbeCold, KeptInv
<1>4. /\ directive # "unsaved" /\ UNCHANGED <<since, directive, pc>>
      /\ since = KeepMessages
  BY DEF Probe, KeptInv
<1>5. since' \in 0..KeepMessages /\ ~(since' < KeepMessages)
  BY <1>4, LadderLimits
<1>6. QED  BY <1>3, <1>4, <1>5 DEF KeptInv

\* The directive of a step.
LEMMA BeginKeeps == KeptInv /\ BeginStep => KeptInv'
<1> SUFFICES ASSUME KeptInv, BeginStep PROVE KeptInv'
  OBVIOUS
<1>1. PICK S : append \in Seq(S)
  BY DEF KeptInv, IsList
<1>2. CASE directive = "due"
  <2>1. append' = Append(append, Plain(120)) /\ since' = Later(1)
    BY <1>2 DEF BeginStep, AppendMessage
  <2>2. /\ IsList(append')
        /\ \A n \in Nat : Fresh(append, n) => Fresh(append', n + 1)
    BY <1>1, <2>1, PlainAfter
  <2>3. append' # <<>>
    BY <1>1, <2>1
  <2>4. pc' # "probe" /\ (directive' = "unsaved" => pc' = "call")
    BY <1>2 DEF BeginStep
  <2>5. QED  BY <2>1, <2>2, <2>3, <2>4, LaterKeeps DEF KeptInv
<1>3. CASE directive # "due"
  <2>1. directive # "unsaved"
    BY DEF KeptInv, BeginStep
  <2>2. QED
    BY <1>3, <2>1 DEF BeginStep, KeptInv, IsList
<1>4. QED  BY <1>2, <1>3

\* The feedback of a retry.
LEMMA RetryKeeps == KeptInv /\ Retry => KeptInv'
<1> SUFFICES ASSUME KeptInv, Retry PROVE KeptInv'
  OBVIOUS
<1>1. PICK S : append \in Seq(S)
  BY DEF KeptInv, IsList
<1>2. /\ append' = Append(append, Plain(80)) /\ since' = Later(1)
      /\ directive' = "saved" /\ pc' # "probe"
  BY DEF Retry, AppendMessage
<1>3. /\ IsList(append')
      /\ \A n \in Nat : Fresh(append, n) => Fresh(append', n + 1)
  BY <1>1, <1>2, PlainAfter
<1>4. QED  BY <1>2, <1>3, LaterKeeps DEF KeptInv

\* The directive that an interruption loses.
LEMMA InterruptKeeps == KeptInv /\ Interrupt => KeptInv'
<1> SUFFICES ASSUME KeptInv, Interrupt PROVE KeptInv'
  OBVIOUS
<1>1. PICK S : append \in Seq(S)
  BY DEF KeptInv, IsList
<1>0. pc' # "probe"
  BY DEF Interrupt
<1>2. CASE directive' = "saved" /\ UNCHANGED <<append, since>>
  BY <1>0, <1>2, SameKeeps
<1>3. CASE /\ directive = "unsaved" /\ directive' = "due"
           /\ append' = Front(append)
           /\ since' = IF since = KeepMessages THEN since ELSE since - 1
  <2>1. append # <<>> /\ since > 0 /\ since \in 0..KeepMessages
    BY <1>3 DEF KeptInv
  <2>2. /\ IsList(append')
        /\ \A n \in Nat : Fresh(append, n + 1) => Fresh(append', n)
    BY <1>1, <1>3, <2>1, FrontKeeps
  <2>3. KeepMessages \in Nat
    BY LadderLimits
  <2>4. since' \in 0..KeepMessages
    BY <1>3, <2>1, <2>3
  <2>5. ASSUME since' < KeepMessages PROVE Fresh(append', since')
    <3>1. since < KeepMessages /\ since' \in Nat /\ since = since' + 1
      BY <1>3, <2>1, <2>3, <2>5
    <3>2. Fresh(append, since' + 1)
      BY <3>1 DEF KeptInv
    <3>3. QED  BY <2>2, <3>1, <3>2
  <2>6. QED  BY <1>0, <1>3, <2>2, <2>4, <2>5 DEF KeptInv
<1>4. QED  BY <1>2, <1>3 DEF Interrupt

\* The message and the note a turn begins with.
LEMMA TurnKeeps ==
  ASSUME KeptInv, NEW message \in {<<>>, <<Plain(60)>>}, NextTurn(message)
  PROVE  KeptInv'
<1>1. PICK note : /\ note \in {<<>>, <<Plain(200)>>}
                  /\ append' = (append \o message) \o note
                  /\ since' = Later(Len(message) + Len(note))
  BY DEF NextTurn
<1>2. PICK s : s = append \o message
  OBVIOUS
<1>3. /\ IsList(s) /\ Len(message) \in {0, 1}
      /\ \A n \in Nat : Fresh(append, n) => Fresh(s, n + Len(message))
  BY <1>2, MessagesAfter DEF KeptInv
<1>4. /\ IsList(append') /\ Len(note) \in {0, 1}
      /\ \A n \in Nat : Fresh(s, n) => Fresh(append', n + Len(note))
  BY <1>1, <1>2, <1>3, MessagesAfter
<1>5. PICK k \in Nat : k = Len(message) + Len(note)
  BY <1>3, <1>4
<1>6. ASSUME NEW n \in Nat, Fresh(append, n) PROVE Fresh(append', n + k)
  <2>1. Fresh(s, n + Len(message)) /\ n + Len(message) \in Nat
    BY <1>3, <1>6
  <2>2. Fresh(append', (n + Len(message)) + Len(note))
    BY <1>4, <2>1
  <2>3. (n + Len(message)) + Len(note) = n + k
    BY <1>3, <1>4, <1>5
  <2>4. QED  BY <2>2, <2>3
<1>7. /\ since' \in 0..KeepMessages
      /\ since' < KeepMessages => Fresh(append', since')
  BY <1>1, <1>4, <1>5, <1>6, LaterKeeps
<1>8. directive' # "unsaved" /\ pc' = "start"
  BY DEF NextTurn, KeptInv
<1>9. QED  BY <1>4, <1>7, <1>8 DEF KeptInv

\* A new result, then retrieved text or a rung of the ladder.
LEMMA ToolKeeps ==
  ASSUME NEW tool \in DOMAIN Outputs, NEW result \in Results[tool],
         KeptInv, ToolReturns(result)
  PROVE  KeptInv'
<1>1. PICK S : append \in Seq(S)
  BY DEF KeptInv, IsList
<1>2. /\ directive' = "due" /\ pc' = "start"
      /\ append' = MaybeCompress(Append(append, result), MaxSteps - step')
      /\ since' = IF Fits(Append(append, result)) \/ retrieved = 0
                  THEN 0 ELSE 1
  BY DEF ToolReturns
<1>3. result.tool # NoTool /\ result.passes = 1
  <2>1. PICK output \in Outputs[tool] : result = Result(tool, output)
    BY DEF Results
  <2>2. tool # NoTool
    BY OutputsAssumption
  <2>3. Result(tool, output).tool = tool /\ Result(tool, output).passes = 1
    <3>1. PICK text, of : Result(tool, output) = Message(tool, text, 1, of)
      BY Zenon DEF Result
    <3>2. QED  BY <3>1 DEF Message
  <2>4. QED  BY <2>1, <2>2, <2>3
<1>4. PICK s : s = Append(append, result) /\ IsList(s) /\ Fresh(s, 0)
  BY <1>1, <1>3, ResultAfter
<1> PICK T : s \in Seq(T)
  BY <1>4 DEF IsList
<1>5. PICK t : t = RetrieveAgain(s, retrieved)
  OBVIOUS
<1>6. IsList(t) /\ Fresh(t, IF retrieved = 0 THEN 0 ELSE 1)
  <2>1. CASE retrieved = 0
    BY <1>4, <1>5, <2>1 DEF RetrieveAgain
  <2>2. CASE retrieved # 0
    <3>1. t = Append(s, Plain(retrieved + 20))
      BY <1>5, <2>2 DEF RetrieveAgain
    <3>2. IsList(t) /\ Fresh(t, 0 + 1)
      BY <1>4, <3>1, PlainAfter
    <3>3. 0 + 1 = 1
      OBVIOUS
    <3>4. QED  BY <2>2, <3>2, <3>3
  <2>3. QED  BY <2>1, <2>2
<1> PICK U : t \in Seq(U)
  BY <1>6 DEF IsList
<1>7. CASE Fits(s)
  <2>1. append' = s /\ since' = 0
    BY <1>2, <1>4, <1>7 DEF MaybeCompress
  <2>2. since' \in 0..KeepMessages
    BY <2>1, LadderLimits
  <2>3. QED  BY <1>2, <1>4, <2>1, <2>2 DEF KeptInv
<1>8. CASE ~Fits(s)
  <2>1. append' = Walk(t, MaxSteps - step')
    BY <1>2, <1>4, <1>5, <1>8 DEF MaybeCompress, Escalate
  <2>2. since' = IF retrieved = 0 THEN 0 ELSE 1
    BY <1>2, <1>4, <1>8
  <2>3. since' \in Nat /\ since' <= 1 /\ Fresh(t, since')
    BY <1>6, <2>2
  <2>4. IsList(append') /\ (since' < KeepMessages => Fresh(append', since'))
    BY <2>1, <2>3, WalkKeeps
  <2>5. since' \in 0..KeepMessages
    BY <2>3, LadderLimits
  <2>6. QED  BY <1>2, <2>4, <2>5 DEF KeptInv
<1>9. QED  BY <1>7, <1>8

\* The recovery from an overflow.
LEMMA ClimbKeeps == KeptInv /\ Climb => KeptInv'
<1> SUFFICES ASSUME KeptInv, Climb PROVE KeptInv'
  OBVIOUS
<1>1. PICK S : append \in Seq(S)
  BY DEF KeptInv, IsList
<1>2. /\ append' = Walk(append, MaxSteps - step)
      /\ UNCHANGED <<since, directive>> /\ pc' # "probe"
  BY DEF Climb, Escalate
<1>3. since \in Nat /\ directive # "unsaved"
  BY LadderLimits DEF KeptInv, Climb
<1>4. IsList(append') /\ (since < KeepMessages => Fresh(append', since))
  BY <1>1, <1>2, <1>3, WalkKeeps DEF KeptInv
<1>5. QED  BY <1>2, <1>3, <1>4 DEF KeptInv

\* No step loses the newest result.
LEMMA KeptStep == KeptInv /\ [Next]_vars => KeptInv'
<1> SUFFICES ASSUME KeptInv, [Next]_vars PROVE KeptInv'
  OBVIOUS
<1>1. CASE Configure \/ BuildLoop \/ Answer \/ EndRun \/ Overflow
  <2>1. directive' # "unsaved" /\ pc' # "probe" /\ UNCHANGED <<append, since>>
    BY <1>1 DEF Configure, BuildLoop, Answer, EndRun, Overflow,
       assemblerVars, KeptInv
  <2>2. QED  BY <2>1 DEF KeptInv, IsList
<1>2. CASE UNCHANGED vars
  BY <1>2, SameKeeps DEF vars, assemblerVars
<1>3. CASE Retry \/ BeginStep \/ Climb \/ Probe \/ Interrupt
  BY <1>3, RetryKeeps, BeginKeeps, ClimbKeeps, ProbeKeeps, InterruptKeeps
<1>4. CASE \E message \in {<<>>, <<Plain(60)>>} : NextTurn(message)
  BY <1>4, TurnKeeps
<1>5. CASE \E tool \in DOMAIN Outputs : \E result \in Results[tool] :
             ToolReturns(result)
  BY <1>5, ToolKeeps
<1>6. QED
  BY <1>1, <1>2, <1>3, <1>4, <1>5 DEF Next, Call, Responds

\* The newest result stays in its place as its tool gave it, whatever was
\* retrieved, retried, compressed, interrupted or said since, until
\* KeepMessages others were appended (SummarizeOldToolOutputs,
\* SummarizeOldConversation, DropSupersededToolOutputs).
THEOREM NewestResultStays == Spec => []NewestResultKept
<1>1. KeptInv => NewestResultKept
  <2> SUFFICES ASSUME KeptInv, since < KeepMessages PROVE NewestResultKept
    BY DEF NewestResultKept
  <2>1. PICK S : append \in Seq(S)
    BY DEF KeptInv, IsList
  <2>2. PICK i \in DOMAIN append :
              /\ append[i].tool # NoTool /\ append[i].passes = 1
              /\ \A j \in DOMAIN append : j > i => append[j].tool = NoTool
              /\ Len(append) = i + since
    BY DEF KeptInv, Fresh
  <2>3. i = Len(append) - since
    BY <2>1, <2>2, LadderLimits DEF KeptInv
  <2>4. i \in ResultsOf(append)
    BY <2>2 DEF ResultsOf
  <2>5. \A j \in ResultsOf(append) : j <= i
    BY <2>1, <2>2 DEF ResultsOf
  <2>6. QED  BY <2>2, <2>3, <2>4, <2>5 DEF NewestResultKept
<1>2. QED  BY <1>1, KeptInit, KeptStep, PTL DEF Spec
----------------------------------------------------------------------------
\* Sequences laid end to end.

\* f has the concatenations of the beginnings of ss.
Laid(f, ss, X) ==
  /\ f \in [1..Len(ss) -> Seq(X)]
  /\ f[1] = ss[1]
  /\ \A i \in 1..Len(ss) : i # Len(ss) => f[i + 1] = f[i] \o ss[i + 1]

\* The beginnings of ss can be laid out one after the other.
LEMMA LaidExists ==
  ASSUME NEW X, NEW ss \in Seq(Seq(X)), ss # <<>>
  PROVE  \E f : f = [i \in 1..Len(ss) |->
                       IF i = 1 THEN ss[i] ELSE f[i - 1] \o ss[i]]
<1> DEFINE S == 1..Len(ss)
           V == Seq(X)
           size == [i \in S |-> i]
           F == [i \in S |-> [g \in [S -> V] |->
                   IF i = 1 THEN ss[i] ELSE g[i - 1] \o ss[i]]]
<1>1. /\ Len(ss) \in Nat \ {0} /\ \A i \in S : i \in Nat /\ ss[i] \in V
      /\ \A i \in S : i # 1 => i - 1 \in S /\ i - 1 < i
  BY EmptySeq, LenProperties, ElementOfSeq
<1>2. V # {} /\ size \in [S -> Nat]
  <2>1. <<>> \in V
    OBVIOUS
  <2>2. QED  BY <1>1, <2>1
<1>3. F \in [S -> [[S -> V] -> V]]
  <2>1. \A i \in S, g \in [S -> V] :
          (IF i = 1 THEN ss[i] ELSE g[i - 1] \o ss[i]) \in V
    <3> SUFFICES ASSUME NEW i \in S, NEW g \in [S -> V]
                 PROVE  (IF i = 1 THEN ss[i] ELSE g[i - 1] \o ss[i]) \in V
      OBVIOUS
    <3>1. ss[i] \in V /\ (i # 1 => g[i - 1] \in V)
      BY <1>1
    <3>2. i # 1 => g[i - 1] \o ss[i] \in V
      BY <3>1, ConcatProperties
    <3>3. QED  BY <3>1, <3>2
  <2> HIDE DEF S, V
  <2>2. QED  BY <2>1, Zenon
<1>4. ASSUME NEW i \in S, NEW g \in [S -> V], NEW h \in [S -> V],
             \A j \in S : size[j] < size[i] => g[j] = h[j]
      PROVE  F[i][g] = F[i][h]
  <2>1. i # 1 => g[i - 1] = h[i - 1]
    BY <1>1, <1>4
  <2>2. QED  BY <2>1
<1>5. Recursive(F, S, V, size)
  <2> HIDE DEF F, S, V, size
  <2>1. QED  BY <1>2, <1>3, <1>4 DEF Recursive
<1>6. PICK f \in [S -> V] : \A i \in S : f[i] = F[i][f]
  <2> HIDE DEF F, S, V, size
  <2>1. QED  BY <1>5, RecursionTheorem
<1>7. f = [i \in S |-> IF i = 1 THEN ss[i] ELSE f[i - 1] \o ss[i]]
  BY <1>6
<1>8. QED  BY <1>7

\* FlattenSeq is the last of them.
LEMMA FlattenIsLaid ==
  ASSUME NEW X, NEW ss \in Seq(Seq(X)), ss # <<>>
  PROVE  \E f : Laid(f, ss, X) /\ FlattenSeq(ss) = f[Len(ss)]
<1> DEFINE is(f) == f = [i \in 1..Len(ss) |->
                          IF i = 1 THEN ss[i] ELSE f[i - 1] \o ss[i]]
           flatten == CHOOSE f : is(f)
<1>1. Len(ss) \in Nat \ {0} /\ \A i \in 1..Len(ss) : ss[i] \in Seq(X)
  BY EmptySeq, LenProperties, ElementOfSeq
<1>2. is(flatten)
  <2>1. \E f : is(f)
    BY LaidExists
  <2> HIDE DEF is
  <2>2. QED  BY <2>1
<1>3. FlattenSeq(ss) = flatten[Len(ss)]
  BY <1>1 DEF FlattenSeq
<1>4. PICK f : f = flatten
  OBVIOUS
<1> HIDE DEF flatten
<1>5. /\ is(f)
      /\ \A i \in 1..Len(ss) :
           f[i] = IF i = 1 THEN ss[i] ELSE f[i - 1] \o ss[i]
  BY <1>2, <1>4
<1> DEFINE T == {n \in Nat : n + 1 \in 1..Len(ss) => f[n + 1] \in Seq(X)}
<1>6. 0 \in T
  BY <1>1, <1>5
<1>7. ASSUME NEW n \in T PROVE n + 1 \in T
  <2> SUFFICES ASSUME n + 1 + 1 \in 1..Len(ss)
               PROVE  f[n + 1 + 1] \in Seq(X)
    OBVIOUS
  <2>1. PICK i \in 1..Len(ss) : i = n + 1 + 1
    OBVIOUS
  <2>2. i # 1 /\ i - 1 = n + 1 /\ n + 1 \in 1..Len(ss)
    BY <1>1, <2>1
  <2>3. f[i - 1] \in Seq(X)
    BY <2>2
  <2>4. f[i] = f[i - 1] \o ss[i]
    BY <1>5, <2>2
  <2>5. QED  BY <1>1, <2>1, <2>3, <2>4, ConcatProperties
<1> HIDE DEF T
<1>8. T = Nat
  BY <1>6, <1>7, Numbers DEF T
<1>9. \A i \in 1..Len(ss) : f[i] \in Seq(X)
  <2>1. \A i \in 1..Len(ss) : i - 1 \in Nat /\ i - 1 + 1 = i
    BY <1>1
  <2>2. QED  BY <1>8, <2>1 DEF T
<1>10. f \in [1..Len(ss) -> Seq(X)]
  <2>1. f = [i \in 1..Len(ss) |-> f[i]]
    BY <1>5, Zenon
  <2>2. QED  BY <1>9, <2>1, Zenon
<1>11. ASSUME NEW i \in 1..Len(ss), i # Len(ss)
       PROVE  f[i + 1] = f[i] \o ss[i + 1]
  <2>1. PICK k \in 1..Len(ss) : k = i + 1
    BY <1>1, <1>11
  <2>2. k # 1 /\ k - 1 = i
    BY <2>1
  <2>3. f[k] = f[k - 1] \o ss[k]
    BY <1>5, <2>2
  <2>4. QED  BY <2>1, <2>2, <2>3
<1>12. f[1] = ss[1]
  BY <1>1, <1>5
<1>13. Laid(f, ss, X)
  BY <1>10, <1>11, <1>12 DEF Laid
<1>14. QED  BY <1>3, <1>4, <1>13

----------------------------------------------------------------------------
\* Sizes: a text is a sequence of lines.

Lines == [size : Nat, class : Classes, hides : Nat]

\* What a line adds to the sums of a text.
Bytes == [line \in Lines |-> line.size + 1]
Worth == [line \in Lines |-> IF line.hides = 0 THEN 1 ELSE line.hides]

\* The type of a text, by the name of its lines.
LEMMA TextsAre == Texts = Seq(Lines)
BY DEF Texts, Lines

\* TextBytes adds up what the lines add to the size.
LEMMA BytesAreSummed == IsSum(TextBytes, Bytes, Lines)
<1>1. Bytes \in [Lines -> Nat]
  BY DEF Bytes, Lines
<1>2. PICK f : IsSum(f, Bytes, Lines)
  BY <1>1, SumExists
<1>3. ASSUME NEW s \in Texts, s # <<>>, NEW n
      PROVE  Head(s).size + 1 + n = Bytes[Head(s)] + n
  <2>1. Head(s) \in Lines
    BY <1>3, HeadTail, TextsAre
  <2>2. QED  BY <2>1 DEF Bytes
<1>4. f = [text \in Texts |-> IF text = <<>> THEN 0
                              ELSE Head(text).size + 1 + f[Tail(text)]]
  BY <1>2, <1>3, TextsAre DEF IsSum
<1>5. TextBytes = [text \in Texts |->
                     IF text = <<>> THEN 0
                     ELSE Head(text).size + 1 + TextBytes[Tail(text)]]
  BY <1>4 DEF TextBytes
<1>6. TextBytes = [text \in Seq(Lines) |->
                     IF text = <<>> THEN 0
                     ELSE Bytes[Head(text)] + TextBytes[Tail(text)]]
  BY <1>3, <1>5, TextsAre
<1>7. QED  BY <1>1, <1>6, SumIs

\* AccountedFor adds up the lines each line stands for.
LEMMA WorthIsSummed == IsSum(AccountedFor, Worth, Lines)
<1>1. Worth \in [Lines -> Nat]
  BY DEF Worth, Lines
<1>2. PICK f : IsSum(f, Worth, Lines)
  BY <1>1, SumExists
<1>3. ASSUME NEW s \in Texts, s # <<>>, NEW n
      PROVE  (IF Head(s).hides = 0 THEN 1 ELSE Head(s).hides) + n
               = Worth[Head(s)] + n
  <2>1. Head(s) \in Lines
    BY <1>3, HeadTail, TextsAre
  <2>2. QED  BY <2>1 DEF Worth
<1>4. f = [text \in Texts |->
             IF text = <<>> THEN 0
             ELSE (IF Head(text).hides = 0 THEN 1 ELSE Head(text).hides)
                    + f[Tail(text)]]
  BY <1>2, <1>3, TextsAre DEF IsSum
<1>5. AccountedFor =
        [text \in Texts |->
           IF text = <<>> THEN 0
           ELSE (IF Head(text).hides = 0 THEN 1 ELSE Head(text).hides)
                  + AccountedFor[Tail(text)]]
  BY <1>4 DEF AccountedFor
<1>6. AccountedFor = [text \in Seq(Lines) |->
                        IF text = <<>> THEN 0
                        ELSE Worth[Head(text)] + AccountedFor[Tail(text)]]
  BY <1>3, <1>5, TextsAre
<1>7. QED  BY <1>1, <1>6, SumIs

Tokens == [m \in Messages |-> CountMessage(m)]

\* CountMessages adds up the estimates of the messages.
LEMMA TokensAreSummed == IsSum(CountMessages, Tokens, Messages)
<1>1. Tokens \in [Messages -> Nat]
  BY DEF Tokens, Messages, CountMessage, EstimateTokens
<1>2. PICK f : IsSum(f, Tokens, Messages)
  BY <1>1, SumExists
<1>3. ASSUME NEW s \in Seq(Messages), s # <<>>, NEW n
      PROVE  CountMessage(Head(s)) + n = Tokens[Head(s)] + n
  <2>1. Head(s) \in Messages
    BY <1>3, HeadTail
  <2>2. QED  BY <2>1 DEF Tokens
<1>4. f = [msgs \in Seq(Messages) |->
             IF msgs = <<>> THEN 0
             ELSE CountMessage(Head(msgs)) + f[Tail(msgs)]]
  BY <1>2, <1>3 DEF IsSum
<1>5. CountMessages =
        [msgs \in Seq(Messages) |->
           IF msgs = <<>> THEN 0
           ELSE CountMessage(Head(msgs)) + CountMessages[Tail(msgs)]]
  BY <1>4 DEF CountMessages
<1>6. CountMessages =
        [msgs \in Seq(Messages) |->
           IF msgs = <<>> THEN 0
           ELSE Tokens[Head(msgs)] + CountMessages[Tail(msgs)]]
  BY <1>3, <1>5
<1>7. QED  BY <1>1, <1>6, SumIs

\* The gap that ends at i is empty at a line kept, and one line longer at the
\* next line left out.
LEMMA GapGrows ==
  ASSUME NEW kept, NEW i \in Nat
  PROVE  /\ Gap(kept, i) \in 0..i
         /\ i = 0 \/ i \in kept => Gap(kept, i) = 0
         /\ i + 1 \notin kept => Gap(kept, i + 1) = Gap(kept, i) + 1
<1> DEFINE G(n) == {j \in 1..n : (j..n) \intersect kept = {}}
<1>1. \A n \in Nat : IsFiniteSet(G(n)) /\ Cardinality(G(n)) \in 0..n
  <2> SUFFICES ASSUME NEW n \in Nat
               PROVE  IsFiniteSet(G(n)) /\ Cardinality(G(n)) \in 0..n
    OBVIOUS
  <2>1. IsFiniteSet(1..n) /\ Cardinality(1..n) = n
    BY FS_Interval
  <2>2. G(n) \subseteq 1..n
    OBVIOUS
  <2> HIDE DEF G
  <2>3. IsFiniteSet(G(n)) /\ Cardinality(G(n)) <= n
    BY <2>1, <2>2, FS_Subset
  <2>4. Cardinality(G(n)) \in Nat
    BY <2>3, FS_CardinalityType
  <2>5. QED  BY <2>3, <2>4
<1>2. i = 0 \/ i \in kept => G(i) = {}
  OBVIOUS
<1>3. i + 1 \notin kept => G(i + 1) = G(i) \union {i + 1}
  <2> SUFFICES ASSUME i + 1 \notin kept
               PROVE  G(i + 1) = G(i) \union {i + 1}
    OBVIOUS
  <2>1. ((i + 1)..(i + 1)) \intersect kept = {}
    OBVIOUS
  <2>2. \A j \in 1..i : (j..(i + 1)) \intersect kept = (j..i) \intersect kept
    OBVIOUS
  <2>3. 1..(i + 1) = (1..i) \union {i + 1}
    OBVIOUS
  <2>4. QED  BY <2>1, <2>2, <2>3
<1>4. i + 1 \notin G(i)
  OBVIOUS
<1>5. /\ Gap(kept, i) = Cardinality(G(i))
      /\ Gap(kept, i + 1) = Cardinality(G(i + 1))
  BY DEF Gap
<1> HIDE DEF G
<1>6. i + 1 \notin kept
        => Cardinality(G(i + 1)) = Cardinality(G(i)) + 1
  BY <1>1, <1>3, <1>4, FS_AddElement
<1>7. QED  BY <1>1, <1>2, <1>5, <1>6, FS_EmptySet

\* A line that is clipped is a line, and stands for as many.
LEMMA ClippedIs ==
  ASSUME NEW line \in Lines
  PROVE  Clipped(line) \in Lines /\ Clipped(line).hides = line.hides
<1>1. LineBytes + 20 \in Nat
  BY ViewLimits
<1>2. QED  BY <1>1 DEF Clipped, Lines

\* The elements one and two of a sum.
LEMMA Worths ==
  /\ \A line \in Lines : line.hides = 0 => Worth[line] = 1
  /\ \A n \in Nat : /\ Elision(n) \in Lines
                    /\ n > 0 => Worth[Elision(n)] = n
<1>1. \A n \in Nat : Elision(n) \in Lines /\ Elision(n).hides = n
  BY DEF Elision, Lines, Classes
<1>2. QED  BY <1>1 DEF Worth

\* What takes the place of line i.
Piece(text, kept, i) ==
  CASE i \in kept -> <<Clipped(text[i])>>
    [] i \notin kept /\ (i + 1 \in kept \/ i = Len(text))
         -> <<Elision(Gap(kept, i))>>
    [] OTHER -> <<>>

Shown(text, kept, i) == i \in kept \/ i + 1 \in kept \/ i = Len(text)

\* A piece is a line or nothing; a line kept tells of itself, a marker of
\* the gap before it.
LEMMA PieceIs ==
  ASSUME NEW text \in Texts, NEW kept, NEW i \in 1..Len(text)
  PROVE  /\ Piece(text, kept, i) \in Seq(Lines)
         /\ Shown(text, kept, i) => Len(Piece(text, kept, i)) = 1
         /\ Printed(text) =>
              AccountedFor[Piece(text, kept, i)] =
                IF i \in kept THEN 1
                ELSE IF Shown(text, kept, i) THEN Gap(kept, i) ELSE 0
<1>1. i \in Nat \ {0} /\ i \in DOMAIN text /\ text[i] \in Lines
  BY TextsAre, LenProperties, ElementOfSeq
<1>2. \A x \in Lines : /\ <<x>> \in Seq(Lines) /\ Len(<<x>>) = 1
                       /\ AccountedFor[<<x>>] = Worth[x]
  <2> SUFFICES ASSUME NEW x \in Lines
               PROVE  /\ <<x>> \in Seq(Lines) /\ Len(<<x>>) = 1
                      /\ AccountedFor[<<x>>] = Worth[x]
    OBVIOUS
  <2>1. AccountedFor[<<x>>] = Worth[x]
    BY SumOfOne, WorthIsSummed
  <2>2. QED  BY <2>1
<1>3. CASE i \in kept
  <2>1. Piece(text, kept, i) = <<Clipped(text[i])>>
    BY <1>3 DEF Piece
  <2>2. /\ Clipped(text[i]) \in Lines
        /\ Printed(text) => Worth[Clipped(text[i])] = 1
    BY <1>1, ClippedIs, Worths DEF Printed
  <2>3. QED  BY <1>2, <1>3, <2>1, <2>2
<1>4. CASE i \notin kept /\ Shown(text, kept, i)
  <2>1. Piece(text, kept, i) = <<Elision(Gap(kept, i))>>
    BY <1>4 DEF Piece, Shown
  <2>2. Gap(kept, i) \in Nat \ {0}
    <3>1. PICK j \in Nat : i = j + 1
      <4>1. i - 1 \in Nat /\ i = i - 1 + 1
        BY <1>1
      <4>2. QED  BY <4>1
    <3>2. Gap(kept, j) \in 0..j /\ Gap(kept, i) = Gap(kept, j) + 1
      BY <1>4, <3>1, GapGrows
    <3>3. QED  BY <3>2
  <2>3. QED  BY <1>2, <1>4, <2>1, <2>2, Worths
<1>5. CASE ~Shown(text, kept, i)
  <2>1. Piece(text, kept, i) = <<>> /\ i \notin kept
    BY <1>5 DEF Piece, Shown
  <2>2. AccountedFor[<<>>] = 0
    BY <1>1, SumOfOne, WorthIsSummed
  <2>3. <<>> \in Seq(Lines)
    OBVIOUS
  <2>4. QED  BY <1>5, <2>1, <2>2, <2>3
<1>6. QED  BY <1>3, <1>4, <1>5

\* A rendered text has every line of the text, shown or counted in a marker.
LEMMA RenderedTells ==
  ASSUME NEW text \in Texts, text # <<>>, NEW kept
  PROVE  /\ Rendered(text, kept) \in Texts /\ Rendered(text, kept) # <<>>
         /\ Printed(text) => AccountedFor[Rendered(text, kept)] = Len(text)
<1> DEFINE ss == [i \in DOMAIN text |-> Piece(text, kept, i)]
           shown(i) == Shown(text, kept, i)
<1>1. PICK n \in Nat \ {0} : n = Len(text) /\ DOMAIN text = 1..n
  BY TextsAre, EmptySeq, LenProperties
<1>2. Rendered(text, kept) = FlattenSeq(ss)
  BY DEF Rendered, Piece
<1>3. ss \in [1..n -> Seq(Lines)]
  BY <1>1, PieceIs
<1>4. ss \in Seq(Seq(Lines)) /\ Len(ss) = n /\ ss # <<>>
  <2> HIDE DEF ss
  <2>1. ss \in Seq(Seq(Lines)) /\ Len(ss) = n
    BY <1>3, SequenceOf
  <2>2. QED  BY <2>1, EmptySeq
<1>5. \A i \in 1..n :
        /\ ss[i] \in Seq(Lines)
        /\ shown(i) => Len(ss[i]) = 1
        /\ Printed(text) =>
             AccountedFor[ss[i]] = IF i \in kept THEN 1
                                   ELSE IF shown(i) THEN Gap(kept, i) ELSE 0
  BY <1>1, PieceIs
<1> HIDE DEF ss
<1>6. PICK f : Laid(f, ss, Lines) /\ Rendered(text, kept) = f[n]
  BY <1>2, <1>4, FlattenIsLaid
<1>7. /\ \A i \in 1..n : f[i] \in Seq(Lines)
      /\ f[1] = ss[1]
      /\ \A i \in 1..n : i # n => f[i + 1] = f[i] \o ss[i + 1]
  BY <1>4, <1>6 DEF Laid
<1>8. n \in 1..n /\ 1 \in 1..n /\ shown(n)
  BY <1>1 DEF Shown
<1>9. f[n] # <<>>
  <2>1. Len(ss[n]) = 1
    BY <1>5, <1>8
  <2>2. CASE n = 1
    BY <1>7, <2>1, <2>2, <1>5, <1>8, EmptySeq
  <2>3. CASE n # 1
    <3>1. PICK i \in Nat \ {0} : n = i + 1 /\ i \in 1..n /\ i # n
      <4>1. n - 1 \in Nat \ {0} /\ n - 1 # n /\ n = n - 1 + 1 /\ n - 1 \in 1..n
        BY <2>3
      <4>2. QED  BY <4>1
    <3>2. f[n] = f[i] \o ss[n] /\ f[i] \in Seq(Lines) /\ ss[n] \in Seq(Lines)
      <4>1. f[i + 1] = f[i] \o ss[i + 1]
        BY <1>7, <3>1
      <4>2. QED  BY <1>5, <1>7, <1>8, <3>1, <4>1
    <3>3. Len(f[n]) = Len(f[i]) + 1 /\ Len(f[i]) \in Nat
      <4>1. Len(f[i] \o ss[n]) = Len(f[i]) + Len(ss[n])
        BY <3>2, ConcatProperties
      <4>2. QED  BY <2>1, <3>2, <4>1, LenProperties
    <3>4. f[n] \in Seq(Lines)
      BY <1>7, <1>8
    <3>5. QED  BY <3>3, <3>4, EmptySeq
  <2>4. QED  BY <2>2, <2>3
<1>10. ASSUME Printed(text) PROVE AccountedFor[f[n]] = n
  <2> DEFINE told(i) == IF shown(i) THEN i ELSE i - Gap(kept, i)
             T == {i \in 1..n : AccountedFor[f[i]] = told(i)}
  <2>1. 1 \in T
    <3>1. /\ Gap(kept, 0) = 0
          /\ 1 \notin kept => Gap(kept, 1) = 1
      <4>1. /\ Gap(kept, 0) = 0
            /\ 0 + 1 \notin kept => Gap(kept, 0 + 1) = Gap(kept, 0) + 1
        BY GapGrows
      <4>2. QED  BY <4>1
    <3> HIDE DEF shown
    <3>2. AccountedFor[f[1]] =
            IF 1 \in kept THEN 1 ELSE IF shown(1) THEN Gap(kept, 1) ELSE 0
      BY <1>5, <1>7, <1>8, <1>10
    <3>3. 1 \in kept => shown(1)
      BY DEF shown, Shown
    <3>4. AccountedFor[f[1]] = told(1)
      BY <3>1, <3>2, <3>3
    <3>5. QED  BY <1>8, <3>4
  <2>2. ASSUME NEW k \in Nat \ {0}, k \in T, k + 1 <= n PROVE k + 1 \in T
    <3>1. k \in 1..n /\ k + 1 \in 1..n /\ k # n
      BY <2>2
    <3>2. AccountedFor[f[k]] = told(k)
      BY <2>2
    <3>3. AccountedFor[f[k + 1]] = AccountedFor[f[k]] + AccountedFor[ss[k + 1]]
      <4>1. f[k] \in Seq(Lines) /\ ss[k + 1] \in Seq(Lines)
        BY <1>5, <1>7, <3>1
      <4>2. f[k + 1] = f[k] \o ss[k + 1]
        BY <1>7, <3>1
      <4>3. QED  BY <4>1, <4>2, SumOfConcat, WorthIsSummed
    <3>4. /\ Gap(kept, k) \in 0..k /\ (k \in kept => Gap(kept, k) = 0)
          /\ k + 1 \notin kept => Gap(kept, k + 1) = Gap(kept, k) + 1
      BY GapGrows
    <3>5. AccountedFor[ss[k + 1]] =
            IF k + 1 \in kept THEN 1
            ELSE IF shown(k + 1) THEN Gap(kept, k + 1) ELSE 0
      BY <1>5, <1>10, <3>1
    <3>6. /\ shown(k) <=> k \in kept \/ k + 1 \in kept
          /\ k + 1 \in kept => shown(k + 1)
      BY <1>1, <3>1 DEF Shown
    <3> HIDE DEF shown, T
    <3>7. CASE k + 1 \in kept
      <4>1. told(k) = k /\ told(k + 1) = k + 1
        BY <3>6, <3>7
      <4>2. QED  BY <3>1, <3>2, <3>3, <3>5, <3>7, <4>1 DEF T
    <3>8. CASE k + 1 \notin kept
      <4>1. told(k) = k - Gap(kept, k)
        BY <3>4, <3>6, <3>8
      <4>2. AccountedFor[f[k + 1]] = told(k + 1)
        BY <3>2, <3>3, <3>4, <3>5, <3>8, <4>1
      <4>3. QED  BY <3>1, <4>2 DEF T
    <3>9. QED  BY <3>7, <3>8
  <2> HIDE DEF T
  <2>3. n \in T
    BY <1>8, <2>1, <2>2, UpTo
  <2>4. QED  BY <1>8, <2>3 DEF T
<1>11. QED  BY <1>1, <1>6, <1>7, <1>8, <1>9, <1>10, TextsAre
Kinds == {"generic", "pytest", "diff", "grep"}

\* The empty text has no bytes and no lines.
LEMMA Nothing ==
  <<>> \in Texts /\ AccountedFor[<<>>] = 0 /\ TextBytes[<<>>] = 0
<1>1. <<>> \in Seq(Lines)
  OBVIOUS
<1>2. PICK x \in Lines : TRUE
  BY Worths
<1>3. AccountedFor[<<>>] = 0
  BY <1>2, SumOfOne, WorthIsSummed
<1>4. TextBytes[<<>>] = 0
  BY <1>2, SumOfOne, BytesAreSummed
<1>5. QED  BY <1>1, <1>3, <1>4, TextsAre

\* What a view must be: something is shown of what there was, and a view that
\* was not cut tells of every line that was printed.
Tells(view, text) ==
  /\ view \in Texts
  /\ text # <<>> => view # <<>>
  /\ Printed(text) /\ Uncut(view) => AccountedFor[view] = Len(text)

\* What was printed and is shown whole tells of all its lines.
LEMMA PrintedTells ==
  ASSUME NEW text \in Texts
  PROVE  Tells(text, text)
<1>1. ASSUME Printed(text) PROVE AccountedFor[text] = Len(text)
  <2> DEFINE Y == {line \in Lines : line.hides = 0}
  <2>1. text \in [1..Len(text) -> Y] /\ Len(text) \in Nat
    BY <1>1, TextsAre, LenProperties DEF Printed
  <2>2. text \in Seq(Y)
    <3> HIDE DEF Y
    <3>1. QED  BY <2>1, SequenceOf
  <2>3. Y \in SUBSET Lines /\ \A line \in Y : Worth[line] = 1
    BY Worths
  <2> HIDE DEF Y
  <2>4. QED  BY <2>2, <2>3, SumOfOnes, WorthIsSummed
<1>2. QED  BY <1>1 DEF Tells

\* A text is returned as it is, or marked as cut.
LEMMA CutIs ==
  ASSUME NEW text \in Texts, text # <<>>, NEW bytes \in Nat \ {0}
  PROVE  \/ Cut(text, bytes) = text
         \/ /\ Cut(text, bytes) \in Texts /\ Cut(text, bytes) # <<>>
            /\ ~Uncut(Cut(text, bytes))
<1> DEFINE line == Line(bytes - 1, "cut")
<1>1. line \in Lines /\ line.class = "cut"
  BY DEF Line, Lines, Classes
<1> HIDE DEF line
<1>2. <<line>> \in Texts /\ <<line>> # <<>> /\ ~Uncut(<<line>>)
  <2>1. <<line>> \in Seq(Lines) /\ DOMAIN <<line>> = {1} /\ <<line>>[1] = line
    BY <1>1
  <2>2. QED  BY <1>1, <2>1, TextsAre DEF Uncut
<1>3. Cut(text, bytes) \in {text, <<line>>}
  BY DEF Cut, line
<1>4. QED  BY <1>2, <1>3

\* Whatever the limits, compress_output shows something and hides nothing.
LEMMA CompressedTells ==
  ASSUME NEW text \in Texts, NEW lines \in Nat, NEW bytes \in Nat \ {0},
         NEW kind \in Kinds
  PROVE  Tells(Compressed(text, lines, bytes, kind), text)
<1> DEFINE r == [text |-> text, lines |-> lines, bytes |-> bytes,
                 kind |-> kind]
           order == Selected(text, lines, kind)
           whole == Len(text) <= lines /\ TextBytes[text] <= bytes
<1>1. Compressed(text, lines, bytes, kind)
        = IF whole THEN text ELSE Best(text, order, bytes)
  <2>1. r \in Request
    BY DEF Request, Kinds
  <2>2. QED  BY <2>1 DEF Compressed, CompressOutput
<1>2. text = <<>> => whole
  BY Nothing
<1> HIDE DEF whole, order
<1>3. CASE whole
  BY <1>1, <1>3, PrintedTells
<1>4. CASE ~whole
  <2>1. PICK kept : Best(text, order, bytes) = Cut(Rendered(text, kept), bytes)
    BY DEF Best, View
  <2>2. PICK view : view = Rendered(text, kept)
    OBVIOUS
  <2>3. /\ view \in Texts /\ view # <<>>
        /\ Printed(text) => AccountedFor[view] = Len(text)
    BY <1>2, <1>4, <2>2, RenderedTells
  <2>4. \/ Cut(view, bytes) = view
        \/ /\ Cut(view, bytes) \in Texts /\ Cut(view, bytes) # <<>>
           /\ ~Uncut(Cut(view, bytes))
    BY <2>3, CutIs
  <2>5. Compressed(text, lines, bytes, kind) = Cut(view, bytes)
    BY <1>1, <1>4, <2>1, <2>2
  <2>6. QED  BY <2>3, <2>4, <2>5 DEF Tells
<1>5. QED  BY <1>3, <1>4

\* A heading is a text of one line.
LEMMA LineIs ==
  ASSUME NEW bytes \in Nat
  PROVE  /\ <<Line(bytes, "plain")>> \in Texts
         /\ <<Line(bytes, "plain")>> # <<>>
         /\ AccountedFor[<<Line(bytes, "plain")>>] = 1
<1>1. Line(bytes, "plain") \in Lines /\ Line(bytes, "plain").hides = 0
  BY DEF Line, Lines, Classes
<1>2. AccountedFor[<<Line(bytes, "plain")>>] = Worth[Line(bytes, "plain")]
  BY <1>1, SumOfOne, WorthIsSummed
<1>3. QED  BY <1>1, <1>2, TextsAre, Worths

\* Two texts one after the other tell of the lines of both.
LEMMA Beside ==
  ASSUME NEW s \in Texts, NEW t \in Texts
  PROVE  /\ s \o t \in Texts
         /\ s # <<>> \/ t # <<>> => s \o t # <<>>
         /\ AccountedFor[s \o t] = AccountedFor[s] + AccountedFor[t]
         /\ AccountedFor[s] \in Nat
         /\ Uncut(s \o t) => Uncut(s) /\ Uncut(t)
<1>1. /\ s \in Seq(Lines) /\ t \in Seq(Lines)
      /\ Len(s) \in Nat /\ DOMAIN s = 1..Len(s)
      /\ Len(t) \in Nat /\ DOMAIN t = 1..Len(t)
  BY TextsAre, LenProperties
<1>2. /\ s \o t \in Seq(Lines)
      /\ AccountedFor[s \o t] = AccountedFor[s] + AccountedFor[t]
  BY <1>1, SumOfConcat, WorthIsSummed
<1>3. /\ Len(s \o t) = Len(s) + Len(t)
      /\ \A i \in 1..(Len(s) + Len(t)) :
           (s \o t)[i] = IF i <= Len(s) THEN s[i] ELSE t[i - Len(s)]
  BY <1>1, ConcatProperties
<1>4. s # <<>> \/ t # <<>> => s \o t # <<>>
  BY <1>1, ConcatEqualIffEmpty
<1>5. DOMAIN (s \o t) = 1..(Len(s) + Len(t))
  BY <1>2, <1>3, LenProperties
<1>6. ASSUME Uncut(s \o t) PROVE Uncut(s)
  <2> SUFFICES ASSUME NEW k \in 1..Len(s) PROVE s[k].class # "cut"
    BY <1>1 DEF Uncut
  <2>1. k \in 1..(Len(s) + Len(t)) /\ k <= Len(s)
    BY <1>1
  <2>2. (s \o t)[k] = s[k]
    BY <1>3, <2>1
  <2>3. QED  BY <1>5, <1>6, <2>1, <2>2 DEF Uncut
<1>7. ASSUME Uncut(s \o t) PROVE Uncut(t)
  <2> SUFFICES ASSUME NEW k \in 1..Len(t) PROVE t[k].class # "cut"
    BY <1>1 DEF Uncut
  <2>1. PICK i \in 1..(Len(s) + Len(t)) : i = Len(s) + k
    BY <1>1
  <2>2. ~(i <= Len(s)) /\ i - Len(s) = k
    BY <1>1, <2>1
  <2>3. (s \o t)[i] = t[k]
    BY <1>3, <2>2
  <2>4. QED  BY <1>5, <1>7, <2>3 DEF Uncut
<1>8. AccountedFor[s] \in Nat
  BY <1>1, WorthIsSummed DEF IsSum
<1>9. QED  BY <1>2, <1>4, <1>6, <1>7, <1>8, TextsAre
\* Lines of a view when nothing is left out: its headings, what was printed.
LinesOf(output) ==
  3 + (IF output.stderr = <<>> THEN 0 ELSE 1 + Len(output.stderr))
    + (IF output.stdout = <<>> THEN 1 ELSE Len(output.stdout))

\* A view tells of what is above stdout, of its heading and of stdout.
LEMMA StdoutTells ==
  ASSUME NEW above \in Texts, NEW output \in Output, Printed(output.stdout)
  PROVE  /\ WithStdout(above, output) \in Texts
         /\ WithStdout(above, output) # <<>>
         /\ Uncut(WithStdout(above, output)) =>
              /\ Uncut(above)
              /\ AccountedFor[WithStdout(above, output)]
                   = AccountedFor[above] + 1
                       + (IF output.stdout = <<>> THEN 1
                          ELSE Len(output.stdout))
<1> DEFINE heading == <<Line(14, "plain")>>
           left == Remaining(TextBytes[above])
           shown == IF output.stdout = <<>> THEN <<Line(7, "plain")>>
                    ELSE Compressed(output.stdout, MaxLines, left, output.kind)
           n == IF output.stdout = <<>> THEN 1 ELSE Len(output.stdout)
<1>1. /\ output.stdout \in Texts /\ output.kind \in Kinds
      /\ Len(output.stdout) \in Nat
  <2>1. output.stdout \in Texts /\ output.kind \in Kinds
    BY DEF Output, Kinds
  <2>2. QED  BY <2>1, TextsAre, LenProperties
<1>2. left \in Nat \ {0} /\ MaxLines \in Nat
  <2>1. TextBytes[above] \in Nat
    BY BytesAreSummed, TextsAre DEF IsSum
  <2>2. QED  BY <2>1, ViewLimits DEF Remaining
<1> HIDE DEF left
<1>3. /\ heading \in Texts /\ heading # <<>> /\ AccountedFor[heading] = 1
  BY LineIs
<1>4. /\ shown \in Texts /\ n \in Nat
      /\ Uncut(shown) => AccountedFor[shown] = n
  <2>1. CASE output.stdout = <<>>
    BY <2>1, LineIs
  <2>2. CASE output.stdout # <<>>
    <3>1. Tells(shown, output.stdout)
      BY <1>1, <1>2, <2>2, CompressedTells
    <3>2. QED  BY <1>1, <2>2, <3>1 DEF Tells
  <2>3. QED  BY <2>1, <2>2
<1>5. WithStdout(above, output) = (above \o heading) \o shown
  BY DEF WithStdout, left
<1> HIDE DEF heading, shown, n
<1>6. PICK top : top = above \o heading
  OBVIOUS
<1>7. /\ top \in Texts /\ top # <<>>
      /\ AccountedFor[top] = AccountedFor[above] + 1
      /\ AccountedFor[above] \in Nat
      /\ Uncut(top) => Uncut(above)
  BY <1>3, <1>6, Beside
<1>8. /\ top \o shown \in Texts /\ top \o shown # <<>>
      /\ AccountedFor[top \o shown] = AccountedFor[top] + AccountedFor[shown]
      /\ Uncut(top \o shown) => Uncut(top) /\ Uncut(shown)
  BY <1>4, <1>7, Beside
<1>9. Uncut(top \o shown) =>
        AccountedFor[top \o shown] = AccountedFor[above] + 1 + n
  BY <1>4, <1>7, <1>8
<1>10. QED  BY <1>5, <1>6, <1>7, <1>8, <1>9 DEF n

\* The view of a command, under its two headings, tells of both streams.
LEMMA CommandTells ==
  ASSUME NEW output \in Output, Printed(output.stdout),
         Printed(output.stderr)
  PROVE  /\ CompressCommandOutput[output] \in Texts
         /\ CompressCommandOutput[output] # <<>>
         /\ Uncut(CompressCommandOutput[output]) =>
              AccountedFor[CompressCommandOutput[output]] = LinesOf(output)
<1> DEFINE one == <<Line(output.command + 2, "plain")>>
           two == <<Line(12, "plain")>>
           three == <<Line(14, "plain")>>
           part == Compressed(output.stderr, StderrLines, StderrBytes,
                              output.kind)
           errors == IF output.stderr = <<>> THEN <<>> ELSE three \o part
           n == IF output.stderr = <<>> THEN 0 ELSE 1 + Len(output.stderr)
           heads == <<Line(output.command + 2, "plain"), Line(12, "plain")>>
<1>1. /\ output.stderr \in Texts /\ output.kind \in Kinds
      /\ output.command + 2 \in Nat
      /\ Len(output.stderr) \in Nat /\ Len(output.stdout) \in Nat
  <2>1. /\ output.stderr \in Texts /\ output.stdout \in Texts
        /\ output.kind \in Kinds /\ output.command \in Nat
    BY DEF Output, Kinds
  <2>2. QED  BY <2>1, TextsAre, LenProperties
<1>2. /\ one \in Texts /\ one # <<>> /\ AccountedFor[one] = 1
      /\ two \in Texts /\ two # <<>> /\ AccountedFor[two] = 1
      /\ three \in Texts /\ three # <<>> /\ AccountedFor[three] = 1
  BY <1>1, LineIs
<1>3. heads = one \o two
  OBVIOUS
<1>4. CompressCommandOutput[output] = WithStdout(heads \o errors, output)
  BY DEF CompressCommandOutput
<1>5. /\ errors \in Texts /\ n \in Nat
      /\ Uncut(errors) => AccountedFor[errors] = n
  <2>1. CASE output.stderr = <<>>
    BY <2>1, Nothing
  <2>2. CASE output.stderr # <<>>
    <3>1. StderrLines \in Nat /\ StderrBytes \in Nat \ {0}
      BY ViewLimits
    <3>2. Tells(part, output.stderr)
      BY <1>1, <3>1, CompressedTells
    <3> HIDE DEF three, part
    <3>3. /\ part \in Texts
          /\ Uncut(part) => AccountedFor[part] = Len(output.stderr)
      BY <3>2 DEF Tells
    <3>4. /\ three \o part \in Texts
          /\ AccountedFor[three \o part] = 1 + AccountedFor[part]
          /\ Uncut(three \o part) => Uncut(part)
      BY <1>2, <3>3, Beside
    <3>5. QED  BY <1>1, <2>2, <3>3, <3>4
  <2>3. QED  BY <2>1, <2>2
<1> HIDE DEF one, two, heads, errors, n
<1>6. heads \in Texts /\ AccountedFor[heads] = 2
  BY <1>2, <1>3, Beside
<1>7. PICK above : above = heads \o errors
  OBVIOUS
<1>8. /\ above \in Texts
      /\ Uncut(above) => Uncut(errors)
      /\ AccountedFor[above] = 2 + AccountedFor[errors]
  BY <1>5, <1>6, <1>7, Beside
<1>9. Uncut(above) => AccountedFor[above] = 2 + n
  BY <1>5, <1>8
<1> DEFINE m == IF output.stdout = <<>> THEN 1 ELSE Len(output.stdout)
<1>10. PICK view : view = WithStdout(above, output)
  OBVIOUS
<1>11. /\ view \in Texts /\ view # <<>>
       /\ Uncut(view) => /\ Uncut(above)
                         /\ AccountedFor[view] = AccountedFor[above] + 1 + m
  BY <1>8, <1>10, StdoutTells
<1>12. m \in Nat
  BY <1>1
<1>13. LinesOf(output) = 3 + n + m
  BY DEF LinesOf, n
<1> HIDE DEF m
<1>14. Uncut(view) => AccountedFor[view] = LinesOf(output)
  BY <1>5, <1>9, <1>11, <1>12, <1>13
<1>15. QED  BY <1>4, <1>7, <1>10, <1>11, <1>14
----------------------------------------------------------------------------
\* What a message of the append zone is.

Good == {m \in Messages :
           /\ m.text # <<>> /\ m.bytes > 0
           /\ m.tool \in DOMAIN Outputs \union {NoTool, "probe"}
           /\ m.passes = 1 /\ Uncut(m.text) => AccountedFor[m.text] = m.of}

\* A message with some text has a size, and is good if its text tells what
\* it was made of.
LEMMA MessageGood ==
  ASSUME NEW tool \in DOMAIN Outputs \union {NoTool, "probe"},
         NEW text \in Texts, text # <<>>, NEW passes \in 0..2, NEW of \in Nat,
         passes = 1 /\ Uncut(text) => AccountedFor[text] = of
  PROVE  Message(tool, text, passes, of) \in Good
<1>1. TextBytes[text] \in Nat /\ TextBytes[text] > 0
  <2>1. text \in Seq(Lines)
    BY TextsAre
  <2>2. Head(text) \in Lines
    BY <2>1, HeadTail
  <2>3. Bytes[Head(text)] > 0
    <3>1. \A line \in Lines : Bytes[line] > 0
      BY DEF Bytes, Lines
    <3>2. QED  BY <2>2, <3>1
  <2>4. TextBytes[text] > 0
    BY <2>1, <2>3, SumPositive, BytesAreSummed
  <2>5. QED  BY <2>1, <2>4, BytesAreSummed DEF IsSum
<1>2. tool \in STRING \union {NoTool}
  BY OutputsAssumption
<1>3. Message(tool, text, passes, of) \in Messages
  BY <1>1, <1>2 DEF Message, Messages
<1>4. QED  BY <1>1, <1>3 DEF Message, Good

\* The messages of the loop itself are good.
LEMMA PlainGood ==
  ASSUME NEW bytes \in Nat
  PROVE  Plain(bytes) \in Good
<1>1. /\ <<Line(bytes, "plain")>> \in Texts
      /\ <<Line(bytes, "plain")>> # <<>>
  BY LineIs
<1> DEFINE text == <<Line(bytes, "plain")>>
<1> HIDE DEF text
<1>2. /\ text \in Texts /\ text # <<>> /\ 0 \in 0..2 /\ 0 # 1
      /\ NoTool \in DOMAIN Outputs \union {NoTool, "probe"} /\ 1 \in Nat
  BY <1>1 DEF text
<1>4. Message(NoTool, text, 0, 1) \in Good
  BY <1>2, MessageGood
<1>5. QED  BY <1>4 DEF Plain, text

\* So is one whose text was replaced: nothing is claimed of it.
LEMMA RewrittenGood ==
  ASSUME NEW m \in Good, NEW text \in Texts, text # <<>>
  PROVE  Rewritten(m, text) \in Good
<1>1. m.tool \in DOMAIN Outputs \union {NoTool, "probe"} /\ m.of \in Nat
  BY DEF Good, Messages
<1>2. QED  BY <1>1, MessageGood DEF Rewritten

\* The result of a tool tells of every line that the command printed.
LEMMA ResultGood ==
  ASSUME NEW tool \in DOMAIN Outputs, NEW output \in Outputs[tool]
  PROVE  Result(tool, output) \in Good
<1>1. /\ output \in Output
      /\ Printed(output.stdout) /\ Printed(output.stderr)
  BY OutputsAssumption
<1>2. LinesOf(output) \in Nat
  <2>1. output.stdout \in Seq(Lines) /\ output.stderr \in Seq(Lines)
    BY <1>1, TextsAre DEF Output
  <2>2. Len(output.stdout) \in Nat /\ Len(output.stderr) \in Nat
    BY <2>1, LenProperties
  <2>3. PICK n \in Nat :
          n = IF output.stderr = <<>> THEN 0 ELSE 1 + Len(output.stderr)
    BY <2>2
  <2>4. PICK m \in Nat :
          m = IF output.stdout = <<>> THEN 1 ELSE Len(output.stdout)
    BY <2>2
  <2>5. LinesOf(output) = 3 + n + m
    BY <2>3, <2>4, Zenon DEF LinesOf
  <2>6. QED  BY <2>5
<1>3. PICK view : view = CompressCommandOutput[output]
  OBVIOUS
<1>4. /\ view \in Texts /\ view # <<>>
      /\ Uncut(view) => AccountedFor[view] = LinesOf(output)
  BY <1>1, <1>3, CommandTells
<1>5. Result(tool, output) = Message(tool, view, 1, LinesOf(output))
  BY <1>3 DEF Result, LinesOf
<1>6. QED  BY <1>2, <1>4, <1>5, MessageGood
----------------------------------------------------------------------------
\* The rungs and what follows a result keep the append zone good.

Zone == Seq(Good)

\* The messages of a zone are good, and their tokens can be counted.
LEMMA ZoneIs ==
  ASSUME NEW msgs \in Zone
  PROVE  /\ Len(msgs) \in Nat /\ DOMAIN msgs = 1..Len(msgs)
         /\ \A i \in DOMAIN msgs : msgs[i] \in Good
         /\ CountMessages[msgs] \in Nat
<1>1. Good \subseteq Messages
  BY DEF Good
<1>2. /\ Len(msgs) \in Nat /\ DOMAIN msgs = 1..Len(msgs)
      /\ \A i \in DOMAIN msgs : msgs[i] \in Good
  BY LenProperties, ElementOfSeq DEF Zone
<1>3. msgs \in Seq(Messages)
  BY <1>1 DEF Zone
<1>4. CountMessages[msgs] \in Nat
  BY <1>3, TokensAreSummed DEF IsSum
<1>5. QED  BY <1>2, <1>4

\* Markers for superseded results are good messages.
LEMMA DropZone ==
  ASSUME NEW msgs \in Zone
  PROVE  DropSuperseded(msgs) \in Zone
<1>1. /\ Len(msgs) \in Nat /\ DOMAIN msgs = 1..Len(msgs)
      /\ \A i \in DOMAIN msgs : msgs[i] \in Good
  BY ZoneIs
<1>2. \A i \in DOMAIN msgs :
        Rewritten(msgs[i], <<Line(70, "plain")>>) \in Good
  BY <1>1, LineIs, RewrittenGood
<1>3. DropSuperseded(msgs) \in [1..Len(msgs) -> Good]
  BY <1>1, <1>2 DEF DropSuperseded
<1>4. QED  BY <1>1, <1>3, SequenceOf DEF Zone

\* A result that is compressed again still has some text.
LEMMA RecompressedGood ==
  ASSUME NEW m \in Good
  PROVE  Recompressed(m) \in Good
<1>1. m.text \in Texts /\ m.text # <<>>
  BY DEF Good, Messages
<1>2. PICK text : text = Compressed(m.text, SummaryLines, SummaryBytes,
                                    "generic")
  OBVIOUS
<1>3. Tells(text, m.text)
  BY <1>1, <1>2, LadderLimits, CompressedTells DEF Kinds
<1>4. Rewritten(m, text) \in Good
  BY <1>1, <1>3, RewrittenGood DEF Tells
<1>5. QED  BY <1>2, <1>4 DEF Recompressed

\* Old results that are summarized are good messages.
LEMMA SummaryZone ==
  ASSUME NEW msgs \in Zone
  PROVE  SummarizeOldResults(msgs) \in Zone
<1>1. /\ Len(msgs) \in Nat /\ DOMAIN msgs = 1..Len(msgs)
      /\ \A i \in DOMAIN msgs : msgs[i] \in Good
  BY ZoneIs
<1>2. \A i \in DOMAIN msgs : Recompressed(msgs[i]) \in Good
  BY <1>1, RecompressedGood
<1>3. SummarizeOldResults(msgs) \in [1..Len(msgs) -> Good]
  BY <1>1, <1>2 DEF SummarizeOldResults
<1>4. QED  BY <1>1, <1>3, SequenceOf DEF Zone

\* A summary and the newest messages are good messages.
LEMMA ConversationZone ==
  ASSUME NEW msgs \in Zone
  PROVE  SummarizeOldConversation(msgs) \in Zone
<1>1. CASE Len(msgs) < KeepMessages + MinSpan
  BY <1>1 DEF SummarizeOldConversation
<1>2. CASE ~(Len(msgs) < KeepMessages + MinSpan)
  <2>1. /\ Len(msgs) \in Nat /\ DOMAIN msgs = 1..Len(msgs)
        /\ \A i \in DOMAIN msgs : msgs[i] \in Good
    BY ZoneIs
  <2>2. PICK k \in Nat \ {0} : k = Len(msgs) - KeepMessages /\ k <= Len(msgs)
    <3>1. KeepMessages \in Nat /\ MinSpan \in Nat \ {0}
      BY LadderLimits
    <3>2. Len(msgs) - KeepMessages \in Nat \ {0}
          /\ Len(msgs) - KeepMessages <= Len(msgs)
      <4>1. \A n, keep \in Nat, span \in Nat \ {0} :
              ~(n < keep + span) => n - keep \in Nat \ {0} /\ n - keep <= n
        OBVIOUS
      <4>2. QED  BY <1>2, <2>1, <3>1, <4>1
    <3>3. QED  BY <3>2
  <2>3. msgs[1] \in Good /\ msgs[k] \in Good
    <3>1. 1 \in DOMAIN msgs /\ k \in DOMAIN msgs
      BY <2>1, <2>2
    <3>2. QED  BY <2>1, <3>1
  <2>4. \A m \in Good : Extract(m) \in Nat
    BY LadderLimits DEF Extract, Good, Messages
  <2>5. PICK first : first = Plain(90 + Extract(msgs[1]) + Extract(msgs[k]))
    OBVIOUS
  <2>6. first \in Good
    <3>1. 90 + Extract(msgs[1]) + Extract(msgs[k]) \in Nat
      BY <2>3, <2>4
    <3>2. QED  BY <2>5, <3>1, PlainGood
  <2>7. PICK rest : rest = SubSeq(msgs, k + 1, Len(msgs))
    OBVIOUS
  <2>8. rest \in Zone
    BY <2>1, <2>2, <2>7, SubSeqProperties DEF Zone
  <2>9. SummarizeOldConversation(msgs) = <<first>> \o rest
    BY <1>2, <2>2, <2>5, <2>7 DEF SummarizeOldConversation
  <2>10. <<first>> \in Zone
    BY <2>6 DEF Zone
  <2>11. QED  BY <2>8, <2>9, <2>10, ConcatProperties DEF Zone
<1>3. QED  BY <1>1, <1>2

\* A zone grows by good messages.
LEMMA AppendZone ==
  ASSUME NEW msgs \in Zone, NEW m \in Good
  PROVE  Append(msgs, m) \in Zone
BY AppendProperties DEF Zone

\* Walk by walk: FirstPaying returns the zone itself or a rung.
LEMMA WalkZone ==
  ASSUME NEW msgs \in Zone, NEW remaining
  PROVE  Walk(msgs, remaining) \in Zone
<1>1. CASE Walk(msgs, remaining) = msgs
  BY <1>1
<1>2. CASE Walk(msgs, remaining) # msgs
  <2>1. Walk(msgs, remaining) \in
          {DropSuperseded(msgs), SummarizeOldResults(msgs),
           SummarizeOldConversation(msgs)}
    BY <1>2, Rungs
  <2>2. QED  BY <2>1, DropZone, SummaryZone, ConversationZone
<1>3. QED  BY <1>1, <1>2

\* What the ladder leaves is a zone, with retrieved text or without.
LEMMA EscalateZone ==
  ASSUME NEW msgs \in Zone, NEW overflow \in BOOLEAN, NEW found \in Nat,
         NEW remaining
  PROVE  Escalate(msgs, overflow, found, remaining) \in Zone
<1>1. RetrieveAgain(msgs, found) \in Zone
  <2>1. Plain(found + 20) \in Good
    BY PlainGood
  <2>2. QED  BY <2>1, AppendZone DEF RetrieveAgain
<1>2. QED  BY <1>1, WalkZone DEF Escalate
----------------------------------------------------------------------------
\* Types, the measure of a recovery, and what views tell.

\* Where the run is and what it has counted.
PlaceInv ==
  /\ pc \in {"configure", "refused", "build", "failed", "start", "call",
             "recovering", "ended", "cut", "probe"}
  /\ pc = "configure" => layers \in Layers
  /\ pc \in {"build", "start", "call", "recovering", "ended", "cut"}
       => settings # Null /\ layers = NoLayers
  /\ retrieved \in Nat /\ climbed \in BOOLEAN
  /\ step \in 0..MaxSteps /\ retries \in 0..MaxRetries
  /\ turns \in 0..MaxTurns /\ directive \in {"due", "unsaved", "saved"}
  /\ pc \in {"call", "recovering"} => step < MaxSteps /\ retries < MaxRetries

AssemblerInv == /\ prefix \in PrefixTexts
                /\ last \in PrefixTexts \union {Unbuilt}
                /\ pending \in BOOLEAN
                /\ append \in Zone

\* Each turn of a recovery compares with less than it began with.
MeasureInv == pc = "recovering" => /\ before \in Nat /\ entry \in Nat
                                   /\ before <= entry

PromptInv == PlaceInv /\ AssemblerInv /\ MeasureInv

\* The invariant holds at first.
LEMMA PromptInvInit == Init => PromptInv
<1>1. <<>> \in Zone
  BY DEF Zone
<1>2. 0 \in 0..MaxSteps /\ 0 \in 0..MaxRetries /\ 0 \in 0..MaxTurns
  BY PromptLimits
<1>3. ASSUME Init PROVE retrieved \in Nat
  <2>1. retrieved \in Retrieved \/ retrieved = 0
    BY <1>3 DEF Init
  <2>2. Retrieved \subseteq Nat /\ 0 \in Nat
    BY PromptLimits
  <2>3. QED  BY <2>1, <2>2, Zenon
<1>4. QED  BY <1>1, <1>2, <1>3
        DEF Init, AssemblerInit, PromptInv, PlaceInv, AssemblerInv, MeasureInv

\* What a benchmark step appends is good.
LEMMA AppendedGood ==
  ASSUME NEW kind, NEW msgs \in Zone
  PROVE  msgs \o Appended(kind) \in Zone
<1>1. Message("probe", <<Line(2, "plain")>>, 0, 1) \in Good
  <2>1. /\ <<Line(2, "plain")>> \in Texts /\ <<Line(2, "plain")>> # <<>>
        /\ 0 \in 0..2 /\ 1 \in Nat /\ 0 # 1
        /\ "probe" \in DOMAIN Outputs \union {NoTool, "probe"}
    BY LineIs
  <2>2. PICK text : text = <<Line(2, "plain")>>
    OBVIOUS
  <2>3. Message("probe", text, 0, 1) \in Good
    BY <2>1, <2>2, MessageGood
  <2>4. QED  BY <2>2, <2>3
<1>2. Plain(120) \in Good /\ Plain(40) \in Good
  BY PlainGood
<1>3. \A m \in Good : <<m>> \in Zone
  BY DEF Zone
<1>4. <<>> \in Zone
  BY DEF Zone
<1>5. Appended(kind) \in Zone
  BY <1>1, <1>2, <1>3, <1>4 DEF Appended
<1>6. QED  BY <1>5, ConcatProperties DEF Zone

\* The benchmark keeps the invariant.
LEMMA ProbePrompt == PromptInv /\ Probe => PromptInv'
<1> SUFFICES ASSUME PromptInv, Probe PROVE PromptInv'
  OBVIOUS
<1>1. /\ prefix \in PrefixTexts /\ last \in PrefixTexts \union {Unbuilt}
      /\ pending \in BOOLEAN /\ append \in Zone
  BY DEF PromptInv, AssemblerInv
<1>2. ASSUME ProbeCold PROVE AssemblerInv'
  BY <1>1, <1>2 DEF ProbeCold, Built, AssemblerInv
<1>3. ASSUME \E kind \in StepKinds, p \in PrefixTexts, hit \in BOOLEAN :
               ProbeStep(kind, p, hit)
      PROVE  AssemblerInv'
  <2>1. PICK kind \in StepKinds, p \in PrefixTexts, hit \in BOOLEAN :
               ProbeStep(kind, p, hit)
    BY <1>3
  <2>2. append \o Appended(kind) \in Zone
    BY <1>1, AppendedGood
  <2>3. append' \in {append, append \o Appended(kind)}
    BY <2>1 DEF ProbeStep
  <2>4. /\ prefix' \in {prefix, p} /\ last' \in {last, prefix, p}
        /\ pending' \in BOOLEAN
    BY <1>1, <2>1 DEF ProbeStep, Built
  <2>5. QED  BY <1>1, <2>2, <2>3, <2>4 DEF AssemblerInv
<1>4. AssemblerInv'
  BY <1>2, <1>3 DEF Probe
<1>5. PlaceInv' /\ MeasureInv'
  BY DEF Probe, PromptInv, PlaceInv, MeasureInv, configVars
<1>6. QED  BY <1>4, <1>5 DEF PromptInv

\* Resolving the configuration keeps the invariant.
LEMMA ConfigurePrompt == PromptInv /\ Configure => PromptInv'
<1> SUFFICES ASSUME PromptInv, Configure PROVE PromptInv'
  OBVIOUS
<1>1. AssemblerInv'
  BY DEF Configure, PromptInv, AssemblerInv, assemblerVars
<1>2. ~Refused(layers) => Resolved(layers) # Null
  BY NullAssumption DEF Configure, PromptInv, PlaceInv
<1>3. PlaceInv' /\ MeasureInv'
  <2>1. /\ retries' = retries /\ step' = step /\ retrieved' = retrieved
        /\ climbed' = climbed /\ layers' = NoLayers /\ pc = "configure"
        /\ turns' = turns /\ directive' = directive
        /\ \/ pc' = "refused"
           \/ pc' = "build" /\ settings' # Null
    BY <1>2 DEF Configure
  <2>2. QED  BY <2>1 DEF PromptInv, PlaceInv, MeasureInv
<1>4. QED  BY <1>1, <1>3 DEF PromptInv

\* The begin of a step keeps the invariant.
LEMMA BeginPrompt == PromptInv /\ BeginStep => PromptInv'
<1> SUFFICES ASSUME PromptInv, BeginStep PROVE PromptInv'
  OBVIOUS
<1>1. AssemblerInv'
  <2>1. Append(append, Plain(120)) \in Zone
    BY AppendZone, PlainGood DEF PromptInv, AssemblerInv
  <2>2. /\ append' \in {append, Append(append, Plain(120))}
        /\ prefix' = prefix
        /\ last' \in {last, prefix} /\ pending' \in {pending, FALSE}
    BY DEF BeginStep, AppendMessage, Built
  <2>3. QED  BY <2>1, <2>2 DEF PromptInv, AssemblerInv
<1>2. /\ retries' = retries /\ step' = step /\ retrieved' = retrieved
      /\ climbed' = FALSE /\ layers' = layers /\ pc = "start"
      /\ settings' = settings /\ turns' = turns
      /\ directive' \in {"unsaved", "saved", directive}
      /\ \/ pc' = "ended"
         \/ pc' = "call" /\ step < MaxSteps /\ retries < MaxRetries
  BY DEF BeginStep, configVars
<1>3. PlaceInv' /\ MeasureInv'
  BY <1>2 DEF PromptInv, PlaceInv, MeasureInv
<1>4. QED  BY <1>1, <1>3 DEF PromptInv

\* Feedback keeps the invariant, and the retries within their bound.
LEMMA RetryPrompt == PromptInv /\ Retry => PromptInv'
<1> SUFFICES ASSUME PromptInv, Retry PROVE PromptInv'
  OBVIOUS
<1>1. AssemblerInv'
  <2>1. Append(append, Plain(80)) \in Zone
    BY AppendZone, PlainGood DEF PromptInv, AssemblerInv
  <2>2. QED  BY <2>1 DEF Retry, AppendMessage, PromptInv, AssemblerInv
<1>2. /\ retries' = retries + 1 /\ step' = step /\ retrieved' = retrieved
      /\ climbed' = climbed /\ layers' = layers /\ pc = "call"
      /\ settings' = settings /\ turns' = turns /\ directive' = "saved"
      /\ pc' = "ended" \/ (pc' = "call" /\ retries' < MaxRetries)
  BY DEF Retry, configVars
<1>3. retries + 1 \in 0..MaxRetries
  BY <1>2, PromptLimits DEF PromptInv, PlaceInv
<1>4. PlaceInv' /\ MeasureInv'
  BY <1>2, <1>3 DEF PromptInv, PlaceInv, MeasureInv
<1>5. QED  BY <1>1, <1>4 DEF PromptInv

\* A result, compressed or not, keeps the invariant.
LEMMA ToolPrompt ==
  ASSUME PromptInv, NEW tool \in DOMAIN Outputs, NEW result \in Results[tool],
         ToolReturns(result)
  PROVE  PromptInv'
<1>1. AssemblerInv'
  <2>1. result \in Good
    BY ResultGood DEF Results
  <2>2. PICK grown : grown = Append(append, result)
    OBVIOUS
  <2>3. grown \in Zone
    BY <2>1, <2>2, AppendZone DEF PromptInv, AssemblerInv
  <2>4. retrieved \in Nat
    BY DEF PromptInv, PlaceInv
  <2>5. MaybeCompress(grown, MaxSteps - step') \in Zone
    BY <2>3, <2>4, EscalateZone DEF MaybeCompress
  <2>6. append' = MaybeCompress(grown, MaxSteps - step')
    BY <2>2 DEF ToolReturns
  <2>7. QED  BY <2>5, <2>6 DEF ToolReturns, PromptInv, AssemblerInv
<1>2. /\ retries' = retries /\ step' = step + 1 /\ retrieved' = retrieved
      /\ climbed' = climbed /\ layers' = layers /\ pc = "call"
      /\ settings' = settings /\ pc' = "start"
      /\ turns' = turns /\ directive' = "due"
  BY DEF ToolReturns, configVars
<1>3. step + 1 \in 0..MaxSteps
  BY <1>2, PromptLimits DEF PromptInv, PlaceInv
<1>4. PlaceInv' /\ MeasureInv'
  BY <1>2, <1>3 DEF PromptInv, PlaceInv, MeasureInv
<1>5. QED  BY <1>1, <1>4 DEF PromptInv

\* A recovery begins with the tokens there are.
LEMMA OverflowPrompt == PromptInv /\ Overflow => PromptInv'
<1> SUFFICES ASSUME PromptInv, Overflow PROVE PromptInv'
  OBVIOUS
<1>1. AssemblerInv'
  BY DEF Overflow, assemblerVars, PromptInv, AssemblerInv
<1>2. PrefixTokens + CountMessages[append] \in Nat
  BY PromptLimits, ZoneIs DEF PromptInv, AssemblerInv
<1>3. PICK n \in Nat : n = PrefixTokens + CountMessages[append]
  BY <1>2
<1>4. /\ retries' = retries /\ step' = step /\ retrieved' = retrieved
      /\ climbed' = TRUE /\ layers' = layers /\ pc = "call"
      /\ settings' = settings /\ turns' = turns /\ directive' = "saved"
      /\ \/ pc' = "ended"
         \/ pc' = "recovering" /\ before' = n /\ entry' = n
  BY <1>3 DEF Overflow, configVars
<1>5. PlaceInv' /\ MeasureInv'
  BY <1>4 DEF PromptInv, PlaceInv, MeasureInv
<1>6. QED  BY <1>1, <1>5 DEF PromptInv

\* A turn of the recovery keeps its measure below where it began; one that
\* reports success has reached the window.
LEMMA ClimbPrompt ==
  ASSUME PromptInv, Climb
  PROVE  /\ PromptInv'
         /\ pc' = "call" =>
              /\ PrefixTokens + CountMessages[append'] < entry
              /\ ~OverHardCeiling(Window, Reserve, PrefixTokens, append')
<1>1. append \in Zone /\ retrieved \in Nat
  BY DEF PromptInv, AssemblerInv, PlaceInv
<1>2. PICK climb : climb = Escalate(append, TRUE, retrieved, MaxSteps - step)
  OBVIOUS
<1>3. climb \in Zone
  BY <1>1, <1>2, EscalateZone
<1>4. PICK after \in Nat : after = PrefixTokens + CountMessages[climb]
  BY <1>3, PromptLimits, ZoneIs
<1>5. append' = climb
  BY <1>2 DEF Climb
<1>6. \/ pc' = "ended"
      \/ /\ ~(after >= before)
         /\ before' = after
         /\ \/ pc' = "recovering"
            \/ /\ pc' = "call"
               /\ ~OverHardCeiling(Window, Reserve, PrefixTokens, climb)
  BY <1>2, <1>4 DEF Climb
<1>7. /\ retries' = retries /\ step' = step /\ retrieved' = retrieved
      /\ climbed' = climbed /\ layers' = layers /\ pc = "recovering"
      /\ settings' = settings /\ entry' = entry
      /\ turns' = turns /\ directive' = directive
  BY DEF Climb, configVars
<1>8. before \in Nat /\ entry \in Nat /\ before <= entry
  BY <1>7 DEF PromptInv, MeasureInv
<1>9. ~(after >= before) => after < entry
  BY <1>8
<1>10. AssemblerInv'
  BY <1>3, <1>5 DEF Climb, PromptInv, AssemblerInv
<1>11. PlaceInv'
  BY <1>6, <1>7 DEF PromptInv, PlaceInv
<1>12. MeasureInv'
  <2>1. ~(after >= before) => after <= entry
    BY <1>8
  <2>2. QED  BY <1>6, <1>7, <1>8, <2>1 DEF MeasureInv
<1>13. pc' = "call" =>
         /\ PrefixTokens + CountMessages[append'] < entry
         /\ ~OverHardCeiling(Window, Reserve, PrefixTokens, append')
  BY <1>4, <1>5, <1>6, <1>9
<1>14. QED  BY <1>10, <1>11, <1>12, <1>13 DEF PromptInv

\* An interruption loses a directive or nothing.
LEMMA InterruptPrompt == PromptInv /\ KeptInv /\ Interrupt => PromptInv'
<1> SUFFICES ASSUME PromptInv, KeptInv, Interrupt PROVE PromptInv'
  OBVIOUS
<1>1. append' \in Zone
  <2>1. CASE directive = "unsaved" /\ append' = Front(append)
    <3>1. append # <<>> /\ append \in Zone
      BY <2>1 DEF PromptInv, AssemblerInv, KeptInv
    <3>2. Front(append) \in Zone
      BY <3>1 DEF Front, Zone
    <3>3. QED  BY <2>1, <3>2
  <2>2. CASE UNCHANGED append
    BY <2>2 DEF PromptInv, AssemblerInv
  <2>3. QED  BY <2>1, <2>2 DEF Interrupt
<1>2. /\ UNCHANGED <<prefix, last, pending, retries, step, retrieved, climbed,
                    layers, settings, turns>>
      /\ pc = "call" /\ pc' \in {"ended", "cut"}
      /\ directive' \in {"due", "saved"}
  BY DEF Interrupt, configVars
<1>3. AssemblerInv'
  BY <1>1, <1>2 DEF PromptInv, AssemblerInv
<1>4. PlaceInv' /\ MeasureInv'
  BY <1>2 DEF PromptInv, PlaceInv, MeasureInv
<1>5. QED  BY <1>3, <1>4 DEF PromptInv

\* A turn continues the zone with good messages.
LEMMA TurnPrompt ==
  ASSUME PromptInv, NEW message \in {<<>>, <<Plain(60)>>}, NextTurn(message)
  PROVE  PromptInv'
<1>1. PICK note : /\ note \in {<<>>, <<Plain(200)>>}
                  /\ append' = (append \o message) \o note
  BY DEF NextTurn
<1>2. {<<>>, <<Plain(60)>>, <<Plain(200)>>} \subseteq Zone
  <2>1. Plain(60) \in Good /\ Plain(200) \in Good
    BY PlainGood
  <2>2. QED  BY <2>1 DEF Zone
<1>3. \A s, t \in Zone : s \o t \in Zone
  BY ConcatProperties DEF Zone
<1>4. append' \in Zone
  <2>1. append \in Zone /\ message \in Zone /\ note \in Zone
    BY <1>1, <1>2 DEF PromptInv, AssemblerInv
  <2>2. append \o message \in Zone
    BY <1>3, <2>1
  <2>3. QED  BY <1>1, <1>3, <2>1, <2>2
<1>5. /\ UNCHANGED <<prefix, retries, step, retrieved, climbed, layers,
                    settings, directive>>
      /\ last' = Unbuilt /\ pending' = FALSE
      /\ pc \in {"ended", "cut"} /\ pc' = "start"
      /\ turns < MaxTurns /\ turns' = turns + 1
  BY DEF NextTurn, configVars
<1>6. turns + 1 \in 0..MaxTurns
  BY <1>5, PromptLimits DEF PromptInv, PlaceInv
<1>7. AssemblerInv'
  BY <1>4, <1>5 DEF PromptInv, AssemblerInv
<1>8. PlaceInv' /\ MeasureInv'
  BY <1>5, <1>6 DEF PromptInv, PlaceInv, MeasureInv
<1>9. QED  BY <1>7, <1>8 DEF PromptInv

\* An answer, a run that ends without one, and a budget that is built or not.
LEMMA EndPrompt ==
  ASSUME PromptInv, Answer \/ EndRun \/ BuildLoop
  PROVE  PromptInv'
<1>1. AssemblerInv'
  BY DEF Answer, EndRun, BuildLoop, assemblerVars, PromptInv, AssemblerInv
<1>2. /\ UNCHANGED <<retries, retrieved, climbed, layers, settings, turns>>
      /\ directive' \in {"due", "saved", directive}
      /\ \/ pc = "build" /\ pc' \in {"start", "failed"} /\ step' = step
         \/ pc = "call" /\ pc' = "ended" /\ step' \in {step, step + 1}
  BY DEF Answer, EndRun, BuildLoop, configVars
<1>3. step' \in 0..MaxSteps
  BY <1>2, PromptLimits DEF PromptInv, PlaceInv
<1>4. PlaceInv' /\ MeasureInv'
  BY <1>2, <1>3 DEF PromptInv, PlaceInv, MeasureInv
<1>5. QED  BY <1>1, <1>4 DEF PromptInv

\* Every step keeps the invariant.
LEMMA PromptInvStep == PromptInv /\ KeptInv /\ [Next]_vars => PromptInv'
<1> SUFFICES ASSUME PromptInv, KeptInv, [Next]_vars PROVE PromptInv'
  OBVIOUS
<1>1. CASE Configure
  BY <1>1, ConfigurePrompt
<1>2. CASE BeginStep
  BY <1>2, BeginPrompt
<1>3. CASE Climb
  BY <1>3, ClimbPrompt
<1>4. CASE Probe
  BY <1>4, ProbePrompt
<1>5. CASE Retry
  BY <1>5, RetryPrompt
<1>6. CASE Overflow
  BY <1>6, OverflowPrompt
<1>7. CASE Answer \/ EndRun \/ BuildLoop
  BY <1>7, EndPrompt
<1>8. CASE \E tool \in DOMAIN Outputs : \E result \in Results[tool] :
             ToolReturns(result)
  BY <1>8, ToolPrompt
<1>9. CASE Interrupt
  BY <1>9, InterruptPrompt
<1>10. CASE \E message \in {<<>>, <<Plain(60)>>} : NextTurn(message)
  BY <1>10, TurnPrompt
<1>11. CASE UNCHANGED vars
  BY <1>11 DEF vars, configVars, assemblerVars, PromptInv, PlaceInv,
               AssemblerInv, MeasureInv
<1>12. QED
  BY <1>1, <1>2, <1>3, <1>4, <1>5, <1>6, <1>7, <1>8, <1>9, <1>10, <1>11
     DEF Next, Call, Responds

\* Messages always have a text that is not empty, whatever was compressed how
\* often; steps and retries stay within their bounds.
THEOREM PromptTypeCorrect == Spec => []PromptTypeOK
<1>1. PromptInv /\ KeptInv => PromptTypeOK
  <2> SUFFICES ASSUME PromptInv, KeptInv PROVE PromptTypeOK
    OBVIOUS
  <2>1. \A i \in DOMAIN append :
          /\ append[i].tool \in DOMAIN Outputs \union {NoTool, "probe"}
          /\ append[i].passes \in 0..2
          /\ append[i].bytes > 0
    BY ZoneIs DEF PromptInv, AssemblerInv, Good, Messages
  <2>2. since \in 0..KeepMessages
    BY DEF KeptInv
  <2>3. QED
    BY <2>1, <2>2 DEF PromptTypeOK, PromptInv, AssemblerInv, PlaceInv
<1>2. QED
  BY <1>1, PromptInvInit, PromptInvStep, KeptInit, KeptStep, PTL DEF Spec

\* A view that was compressed once and not cut tells of every line that was
\* printed, shown or counted in a marker (compress_output, _render).
THEOREM ViewsTellAll == Spec => []ViewTellsAll
<1>1. PromptInv => ViewTellsAll
  BY ZoneIs DEF PromptInv, AssemblerInv, Good, ViewTellsAll
<1>2. QED
  BY <1>1, PromptInvInit, PromptInvStep, KeptInit, KeptStep, PTL DEF Spec

\* A recovery that reports success has a smaller prompt than the one refused,
\* and one that fits (recover_overflow).
THEOREM RecoveryFits == Spec => ResolvedMeansFits
<1> DEFINE A == pc = "recovering" /\ pc' = "call"
                  => /\ PrefixTokens + CountMessages[append'] < entry
                     /\ ~OverHardCeiling(Window, Reserve, PrefixTokens,
                                         append')
<1>1. PromptInv /\ [Next]_vars => [A]_vars
  <2> SUFFICES ASSUME PromptInv, Next, pc = "recovering", pc' = "call"
               PROVE  A
    OBVIOUS
  <2>1. Climb
    BY DEF Next, Configure, BuildLoop, BeginStep, Probe, Call, Retry, Answer,
           EndRun, Responds, ToolReturns, Overflow, Interrupt, NextTurn
  <2>2. QED  BY <2>1, ClimbPrompt
<1>2. QED
  BY <1>1, PromptInvInit, PromptInvStep, KeptInit, KeptStep, PTL
     DEF Spec, ResolvedMeansFits
=============================================================================
