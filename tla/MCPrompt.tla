------------------------------ MODULE MCPrompt ------------------------------
(***************************************************************************)
(* Prompt for TLC: windows of a few hundred tokens that a handful of tool  *)
(* results fills, a test run that prints much and a git command that       *)
(* prints little.                                                          *)
(***************************************************************************)
EXTENDS Prompt

CONSTANTS this_host, other_host

MCSymmetry == Permutations(PrefixTexts)

Lines(n, bytes) == [i \in 1..n |-> Line(bytes, "plain")]

Failing == [command |-> 10, kind |-> "pytest", stderr |-> Lines(1, 300),
            stdout |-> Lines(4, 30) \o <<Line(20, "banner"), Line(60, "keep")>>
                         \o Lines(3, 120) \o <<Line(40, "error")>>]
Quiet   == [command |-> 10, kind |-> "generic", stderr |-> <<>>,
            stdout |-> <<>>]
Listing == [command |-> 12, kind |-> "grep", stderr |-> <<>>,
            stdout |-> Lines(2, 40) \o <<Line(50, "keep"), Line(40, "path")>>
                         \o Lines(6, 95)]

MCOutputs == [run_command |-> {Failing, Quiet}, git_log |-> {Listing}]

None == << >>
File(state, values) == [state |-> state, values |-> values]
Layered(profile, file, env, cli) ==
  [profile |-> profile, file |-> file, env |-> env, cli |-> cli]

MCLayers ==
  {Layered(File("read", [context_length |-> w, max_output_tokens |-> 256]),
           f, e, c) :
     w \in {Null, 640},
     f \in {File("none", None), File("absent", None),
            File("read", [soft_ceiling |-> 600, port |-> 9090]),
            File("read", [n_ctx |-> 640]),
            File("read", [soft_cieling |-> 600])},
     e \in {None, [port |-> 9191, n_ctx |-> 800], [prot |-> 1],
            [generation_reserve_ratio |-> <<1, 1000>>],
            [generation_reserve_ratio |-> <<3, 3>>]},
     c \in {None, [host |-> other_host, context_window |-> 900,
                   generation_reserve_ratio |-> <<1, 5>>]}}
=============================================================================
