------------------------------ MODULE Settings ------------------------------
(***************************************************************************)
(* The effective configuration (harness/config/resolve.py, schema.py):     *)
(* defaults, hardware profile, configuration file, environment and command *)
(* line, merged in this order, with the layer each value came from.  Pure  *)
(* operators, no state.                                                    *)
(*                                                                         *)
(* A layer is a function from dotted paths (their last parts here) to      *)
(* values; a name outside Fields is a misspelt one.  Of the fields those   *)
(* are kept that a validator relates to one another or that the budget is  *)
(* built from.  A URL is the pair of the host and the port it names, a     *)
(* ratio that of its numerator and denominator.  Null is JSON's null.      *)
(* Abstracted: coercion, the redaction of secrets, the wording of errors.  *)
(***************************************************************************)
EXTENDS Naturals, FiniteSets

CONSTANTS
  Null,
  LocalHost, LocalPort,              \* the built-in host and port
  DefaultWindow, DefaultCeiling,     \* the built-in token limits
  LeastWindow, LeastCeiling          \* the smallest ones accepted

\* 512 and 256 in the code.
ASSUME LimitsAssumption == {LeastWindow, LeastCeiling} \subseteq Nat \ {0}

Fields == {"host", "port", "base_url", "n_ctx", "context_window",
           "soft_ceiling", "generation_reserve_ratio", "max_output_tokens"}

Defaults == [host |-> LocalHost, port |-> LocalPort,
             base_url |-> <<LocalHost, LocalPort>>, n_ctx |-> Null,
             context_window |-> DefaultWindow,
             soft_ceiling |-> DefaultCeiling,
             generation_reserve_ratio |-> <<15, 100>>,
             max_output_tokens |-> 512]

\* Keys of the profile's recommendations and the fields they set.
ProfileFields == [context_length    |-> "context_window",
                  max_output_tokens |-> "max_output_tokens"]

Origins == {"default", "profile", "file", "env", "cli"}

\* A file is not named, named and absent, unreadable, or read.
Source == {"none", "absent", "broken", "read"}

\* A named configuration file must be there; a profile need not.
Unreadable(l) == \/ l.file.state \in {"absent", "broken"}
                 \/ l.profile.state = "broken"

Content(source) == IF source.state = "read" THEN source.values ELSE << >>

\* Recommendations that are null are questions the benchmark left open.
FromProfile(profile) ==
  LET known == {k \in DOMAIN Content(profile) \intersect DOMAIN ProfileFields :
                  Content(profile)[k] # Null}
  IN [f \in {ProfileFields[k] : k \in known} |->
        Content(profile)[CHOOSE k \in known : ProfileFields[k] = f]]

\* A variable that names no field is refused before anything is merged.
Misnamed(env) == DOMAIN env \ Fields # {}

\* What the upper layer sets, and what only the lower one does.
Over(upper, lower) ==
  [f \in DOMAIN upper \union DOMAIN lower |->
     IF f \in DOMAIN upper THEN upper[f] ELSE lower[f]]

\* Defect: the file is merged after the environment.
MergedFileLate(l) ==
  Over(l.cli, Over(Content(l.file), Over(l.env, FromProfile(l.profile))))

\* Each layer overwrites what the lower ones set.
Merged(l) ==
  Over(l.cli, Over(l.env, Over(Content(l.file), FromProfile(l.profile))))

OriginsOf(l) ==
  [f \in DOMAIN Merged(l) |->
     CASE f \in DOMAIN l.cli           -> "cli"
       [] f \notin DOMAIN l.cli /\ f \in DOMAIN l.env -> "env"
       [] f \notin DOMAIN l.cli \union DOMAIN l.env
            /\ f \in DOMAIN Content(l.file) -> "file"
       [] OTHER -> "profile"]

Ports == 1..65535
AtLeast(least) == {n \in Nat : n >= least}

\* Strictly between nothing and all.
IsShare(ratio) == /\ ratio[1] \in Nat \ {0} /\ ratio[2] \in Nat
                  /\ ratio[1] < ratio[2]

\* Unknown keys and values of a wrong type or out of range are refused,
\* whatever their layer.
Acceptable(m) ==
  /\ DOMAIN m \subseteq Fields
  /\ LET c == Over(m, Defaults)
     IN /\ c.port \in Ports
        /\ c.n_ctx \in {Null} \union AtLeast(LeastWindow)
        /\ c.context_window \in AtLeast(LeastWindow)
        /\ c.soft_ceiling \in AtLeast(LeastCeiling)
        /\ IsShare(c.generation_reserve_ratio)
        /\ c.max_output_tokens \in AtLeast(1)

\* base_url follows host and port unless it was set to something else.
UrlFollows(c) ==
  IF c.base_url = Defaults.base_url
  THEN [c EXCEPT !.base_url = <<c.host, c.port>>]
  ELSE c

\* The ceiling is lowered to fit the window.
CeilingFits(c) ==
  IF c.soft_ceiling > c.context_window
  THEN [c EXCEPT !.soft_ceiling = c.context_window]
  ELSE c

\* Defect: the window follows the server's, the ceiling stays above it.
WindowAloneAgrees(c) ==
  IF c.n_ctx = Null THEN c ELSE [c EXCEPT !.context_window = c.n_ctx]

\* The window the server is launched with is the one the budget may fill.
WindowsAgree(c) ==
  IF c.n_ctx = Null THEN c
  ELSE CeilingFits([c EXCEPT !.context_window = c.n_ctx])

\* A derived URL is attributed to what it was derived from.
DerivedOrigins(l) ==
  LET o == OriginsOf(l)
  IN IF "base_url" \in DOMAIN o \/ {"port", "host"} \intersect DOMAIN o = {}
     THEN o
     ELSE Over([base_url |-> IF "port" \in DOMAIN o THEN o.port ELSE o.host],
               o)

Refused(l) == Unreadable(l) \/ Misnamed(l.env) \/ ~Acceptable(Merged(l))

\* The configuration, the origins of its values, and the fields a warning
\* says were adjusted.
Resolved(l) ==
  LET given   == UrlFollows(Over(Merged(l), Defaults))
      fitted  == CeilingFits(given)
      config  == WindowsAgree(fitted)
  IN [config  |-> config,
      origins |-> DerivedOrigins(l),
      warned  |-> {f \in {"context_window", "soft_ceiling"} :
                     \/ given[f] # fitted[f]
                     \/ fitted[f] # config[f]}]
=============================================================================
