--------------------------- MODULE ToolCallProofs ---------------------------
(***************************************************************************)
(* Proofs about Classifier and ToolCall for every command line, every set  *)
(* of call keys and every way a session may be set up.  A session composes *)
(* the actions of ToolCall; the lemmas here say what each of them keeps,   *)
(* ChatSessionProofs what follows for a session.                           *)
(***************************************************************************)
EXTENDS ToolCall, SequenceTheorems, TLAPS

----------------------------------------------------------------------------
\* The classifier.

\* A verdict is a risk class.
LEMMA RiskType ==
  ASSUME NEW line PROVE Classify(line) \in Risks
  BY DEF Classify, Worst, Risks

\* A part whose verdict is "allow" is listed: what precedes the command is
\* neither a command itself nor a privilege, no operand is outside of the
\* workspace, and no word begins a redirection to a file.
LEMMA AllowedPartListed ==
  ASSUME NEW part \in Part, PartRisk(part) = "allow"
  PROVE  OnlyListed(part)
<1> DEFINE w == part.words
<1>1. w \in Seq(Words) /\ DOMAIN w = 1..Len(w) /\ Len(w) \in Nat
  BY LenProperties DEF Part
<1>2. /\ part.unquoted /\ ~Has(w, {"device"})
      /\ Modified(ConfirmOrAllow(w), w) = "allow"
  BY DEF PartRisk
<1>3. ConfirmOrAllow(w) = "allow"
  BY <1>2 DEF Modified, ConfirmOrAllow
<1>4. /\ \A i \in DOMAIN w \ {1} : w[i] # "outside"
      /\ \A i \in Prefixes(w) : w[i] # "privilege"
      /\ ~Has(w, {"file"})
  BY <1>2, <1>3 DEF Modified
<1>5. PICK i \in DOMAIN w : w[i] \in ListedNames /\ 1..(i - 1) = Prefixes(w)
  BY <1>3 DEF ConfirmOrAllow
<1>6. \A j \in 1..(i - 1) : w[j] \in PrefixLike \ {"privilege"}
  <2> SUFFICES ASSUME NEW j \in 1..(i - 1)
               PROVE  w[j] \in PrefixLike \ {"privilege"}
    OBVIOUS
  <2>1. j \in Prefixes(w)
    BY <1>5
  <2>2. w[j] \in PrefixLike
    BY <2>1, <1>1 DEF Prefixes
  <2>3. QED  BY <2>1, <2>2, <1>4
<1>7. \A j \in i..Len(w) : w[j] \notin {"outside", "file", "device"}
  <2> SUFFICES ASSUME NEW j \in i..Len(w)
               PROVE  w[j] \notin {"outside", "file", "device"}
    OBVIOUS
  <2>1. j \in DOMAIN w /\ (j = 1 => w[j] \in ListedNames)
    BY <1>1, <1>5
  <2>2. QED  BY <2>1, <1>2, <1>4 DEF Has, ListedNames
<1>8. QED  BY <1>2, <1>5, <1>6, <1>7 DEF OnlyListed

\* classify_command takes the worst verdict: a line that is allowed has parts,
\* all of them were read, and each of them is listed.
LEMMA AllowedLineListed ==
  ASSUME NEW line \in Line, Classify(line) = "allow"
  PROVE  /\ line.parts # <<>> /\ ~TooDeep(line.parts)
         /\ \A i \in DOMAIN line.parts : OnlyListed(line.parts[i])
<1>1. /\ line.parts # <<>> /\ ~TooDeep(line.parts)
      /\ Worst({PartRisk(line.parts[i]) : i \in DOMAIN line.parts}) = "allow"
  BY DEF Classify
<1>2. ASSUME NEW i \in DOMAIN line.parts
      PROVE  PartRisk(line.parts[i]) = "allow"
  <2>1. PartRisk(line.parts[i]) \in {"allow", "confirm", "deny"}
    BY DEF PartRisk, Modified, ConfirmOrAllow
  <2>2. PartRisk(line.parts[i]) \notin {"confirm", "deny"}
    BY <1>1 DEF Worst
  <2>3. QED  BY <2>1, <2>2
<1>3. \A i \in DOMAIN line.parts : line.parts[i] \in Part
  BY LenProperties, ElementOfSeq DEF Line
<1>4. QED  BY <1>1, <1>2, <1>3, AllowedPartListed

----------------------------------------------------------------------------
\* What holds of every call.

CommandPCs == {"gate", "ask", "network", "ask_network", "launch", "running",
               "term", "stray"}

\* A call in its thread has come past every gate before the point where it is:
\* it is not denied, has been approved if its risk class asks for it, and runs
\* with the network only by an approval of that.  A call whose tool answered
\* has left its thread; what answered "ok" did run.
SafeCall(x, risk) ==
  /\ x.pc = "work" => ToolOf[x.key] \in FileTools \union GitTools
                      /\ ~x.landed
  /\ x.pc \in CommandPCs => ToolOf[x.key] = "run_command"
  /\ x.pc \in CommandPCs \ {"gate", "stray"} => risk # "deny"
  /\ x.pc \in CommandPCs \ {"gate", "ask", "stray"} /\ risk = "confirm"
       => "command" \in x.granted
  /\ x.pc = "launch" => x.mode \in {"isolated", "allowed"}
  /\ x.pc \in {"running", "term"} => x.mode \in Modes
  /\ x.pc \in {"launch", "running", "term"} /\ x.mode = "allowed"
       => "network" \in x.granted
  /\ x.pc \in {"running", "term"} /\ x.mode = "unsandboxed" => risk = "allow"
  /\ x.pc = "stray" => x.mode = "unsandboxed"
  /\ x.result # None =>
       /\ x.result.by = "tool" => x.pc \in {"gone", "stray"}
       /\ x.result.kind = "ok" =>
            /\ x.result.by = "tool"
            /\ ToolOf[x.key] = "run_command" => x.mode \in Modes

\* A file that is not as it was found was changed by whoever it names.
EffectsShown == \A p \in Paths : files[p] # None => ChangedBy(p, files[p])

ToolInv == /\ ToolTypeOK
           /\ \A c \in DOMAIN calls : SafeCall(calls[c], Risk)
           /\ EffectsShown

\* Calls are numbered from 1 on, each is a record of its type.
LEMMA CallsAre ==
  ASSUME ToolTypeOK
  PROVE  /\ Len(calls) \in Nat /\ DOMAIN calls = 1..Len(calls)
         /\ \A c \in DOMAIN calls : calls[c] \in Call
  BY LenProperties, ElementOfSeq DEF ToolTypeOK

\* Before the first call nothing has been asked and nothing runs.
LEMMA ToolInitInv == ToolInit => ToolInv
<1> SUFFICES ASSUME ToolInit PROVE ToolInv
  OBVIOUS
<1>1. DOMAIN calls = {}
  BY DEF ToolInit
<1>2. calls \in Seq(Call)
  BY EmptySeq DEF ToolInit
<1>3. QED  BY <1>1, <1>2 DEF ToolInit, ToolInv, ToolTypeOK, EffectsShown

\* One call's record replaced by a safe one that does not take back an effect:
\* what every action of a thread comes to.
LEMMA OneCall ==
  ASSUME ToolInv, setup' = setup,
         NEW c \in DOMAIN calls, NEW x \in Call,
         calls' = [calls EXCEPT ![c] = x],
         SafeCall(x, Risk), calls[c].landed => x.landed,
         x.key = calls[c].key,
         \/ files' = files
         \/ /\ x.landed /\ WritesTo[x.key] \in Paths
            /\ files' = [files EXCEPT ![WritesTo[x.key]] = x.key]
  PROVE  ToolInv'
<1>1. calls' \in Seq(Call) /\ DOMAIN calls' = DOMAIN calls
  BY CallsAre, ExceptSeq DEF ToolInv, ToolTypeOK
<1>2. \A d \in DOMAIN calls : calls'[d] = IF d = c THEN x ELSE calls[d]
  OBVIOUS
<1>3. ToolTypeOK'
  BY <1>1 DEF ToolInv, ToolTypeOK, Call, Writers
<1>4. Risk' = Risk
  BY DEF Risk
<1>5. \A d \in DOMAIN calls' : SafeCall(calls'[d], Risk')
  BY <1>1, <1>2, <1>4 DEF ToolInv
<1>6. EffectsShown'
  <2>1. \A p, who : ChangedBy(p, who) => ChangedBy(p, who)'
    BY <1>1, <1>2 DEF ChangedBy
  <2>2. CASE files' = files
    BY <2>1, <2>2 DEF ToolInv, EffectsShown
  <2>3. CASE /\ x.landed /\ WritesTo[x.key] \in Paths
             /\ files' = [files EXCEPT ![WritesTo[x.key]] = x.key]
    <3>1. ChangedBy(WritesTo[x.key], x.key)'
      BY <1>1, <1>2, <2>3 DEF ChangedBy
    <3>2. \A p \in Paths : files'[p] = IF p = WritesTo[x.key] THEN x.key
                                                              ELSE files[p]
      BY <2>3 DEF ToolInv, ToolTypeOK
    <3>3. QED  BY <2>1, <3>1, <3>2 DEF ToolInv, EffectsShown
  <2>4. QED  BY <2>2, <2>3
<1>7. QED  BY <1>3, <1>5, <1>6 DEF ToolInv

\* The record a returning tool leaves is safe: the thread is over.
LEMMA ReturnedIsSafe ==
  ASSUME ToolInv, NEW c \in DOMAIN calls, NEW kind \in Kinds,
         kind = "ok" /\ ToolOf[calls[c].key] = "run_command"
           => calls[c].mode \in Modes
  PROVE  /\ Returned(c, kind) \in Call
         /\ SafeCall(Returned(c, kind), Risk)
         /\ Returned(c, kind).landed = calls[c].landed
         /\ Returned(c, kind).key = calls[c].key
<1>1. calls[c] \in Call /\ SafeCall(calls[c], Risk)
  BY CallsAre DEF ToolInv
<1>2. By("tool", kind) \in Result
  BY DEF By, Result
<1>3. By("tool", kind) # None
  BY <1>2, AbsenceAssumption
<1>4. Returned(c, kind) \in Call
  BY <1>1, <1>2 DEF Returned, Call
<1>5. /\ Returned(c, kind).landed = calls[c].landed
      /\ Returned(c, kind).key = calls[c].key
  BY <1>1 DEF Returned, Call
<1>6. SafeCall(Returned(c, kind), Risk)
  BY <1>1, <1>3 DEF Returned, SafeCall, Call, By, CommandPCs
<1>7. QED  BY <1>4, <1>5, <1>6

\* A call that returns keeps the invariant.
LEMMA ReturnKeeps ==
  ASSUME ToolInv, NEW c \in DOMAIN calls, NEW kind \in Kinds,
         kind = "ok" /\ ToolOf[calls[c].key] = "run_command"
           => calls[c].mode \in Modes,
         Return(c, kind), UNCHANGED <<setup, files>>
  PROVE  ToolInv'
  BY ReturnedIsSafe, OneCall DEF Return

\* The frequent step: some fields of one record change, the workspace does not.
LEMMA CallMoves ==
  ASSUME ToolInv, UNCHANGED <<setup, files>>,
         NEW c \in DOMAIN calls, NEW x,
         calls' = [calls EXCEPT ![c] = x],
         x \in Call, SafeCall(x, Risk), x.landed = calls[c].landed,
         x.key = calls[c].key
  PROVE  ToolInv'
  BY OneCall

----------------------------------------------------------------------------
\* Each action keeps it.

\* Dispatch adds a call and changes none.
LEMMA InvokeKeeps ==
  ASSUME ToolInv, NEW k \in Keys, Invoke(k)
  PROVE  /\ ToolInv'
         /\ Len(calls') = Len(calls) + 1 /\ calls'[Len(calls')].key = k
         /\ \A c \in DOMAIN calls : c \in DOMAIN calls' /\ calls'[c] = calls[c]
<1> DEFINE New(e) == [key |-> k, pc |-> e[1], asked |-> FALSE,
                      granted |-> {}, mode |-> None, landed |-> FALSE,
                      result |-> e[2]]
<1>1. PICK e \in Entered(k) : calls' = Append(calls, New(e))
  BY DEF Invoke
<1>2. setup' = setup /\ files' = files
  BY DEF Invoke
<1>3. By("tool", "failed") \in Result /\ By("tool", "ok") \in Result
  BY DEF By, Result, Kinds
<1>4. ToolOf[k] \in Tools
  BY KeysAssumption
<1>5. \/ e[1] = "gone" /\ e[2] = By("tool", "failed")
      \/ e[1] = "gone" /\ e[2] = By("tool", "ok")
         /\ ToolOf[k] = "retrieve_facts"
      \/ e[1] = "gate" /\ e[2] = None /\ ToolOf[k] = "run_command"
      \/ e[1] = "work" /\ e[2] = None
         /\ ToolOf[k] \in FileTools \union GitTools
  BY <1>4 DEF Entered, Outcomes, FileTools, GitTools, Tools
<1>6. New(e) \in Call
  BY <1>3, <1>5 DEF Call
<1>7. SafeCall(New(e), Risk)
  BY <1>3, <1>5, AbsenceAssumption DEF SafeCall, CommandPCs, By
<1>8. /\ calls' \in Seq(Call) /\ Len(calls') = Len(calls) + 1
      /\ DOMAIN calls' = 1..(Len(calls) + 1)
      /\ \A c \in 1..Len(calls) : calls'[c] = calls[c]
      /\ calls'[Len(calls) + 1] = New(e)
  <2>1. calls \in Seq(Call)
    BY DEF ToolInv, ToolTypeOK
  <2>2. QED  BY <2>1, <1>1, <1>6, AppendProperties, LenProperties
<1>9. DOMAIN calls = 1..Len(calls) /\ Len(calls) \in Nat
  BY CallsAre DEF ToolInv
<1>10. ToolTypeOK'
  BY <1>2, <1>8 DEF ToolInv, ToolTypeOK
<1>11. Risk' = Risk
  BY <1>2 DEF Risk
<1>12. \A c \in DOMAIN calls' : SafeCall(calls'[c], Risk')
  BY <1>7, <1>8, <1>9, <1>11 DEF ToolInv
<1>13. EffectsShown'
  <2>1. \A p, who : ChangedBy(p, who) => ChangedBy(p, who)'
    BY <1>8, <1>9 DEF ChangedBy
  <2>2. QED  BY <2>1, <1>2 DEF ToolInv, EffectsShown
<1>14. ToolInv'
  BY <1>10, <1>12, <1>13 DEF ToolInv
<1>15. QED  BY <1>8, <1>9, <1>14

\* The registry's timeout and a cancelled turn leave the thread where it is.
LEMMA GivenUpIsSafe ==
  ASSUME ToolInv, NEW c \in DOMAIN calls, calls[c].result = None,
         NEW r \in Result, r.by # "tool", r.kind # "ok"
  PROVE  /\ [calls[c] EXCEPT !.result = r] \in Call
         /\ SafeCall([calls[c] EXCEPT !.result = r], Risk)
<1>1. calls[c] \in Call /\ SafeCall(calls[c], Risk)
  BY CallsAre DEF ToolInv
<1>2. [calls[c] EXCEPT !.result = r] \in Call
  BY <1>1 DEF Call
<1>3. QED  BY <1>1, <1>2 DEF SafeCall, Call, CommandPCs

\* So does one the registry stops waiting for.
LEMMA RegistryTimeoutKeeps ==
  ASSUME ToolInv, NEW c \in DOMAIN calls, RegistryTimeout(c)
  PROVE  ToolInv'
<1> DEFINE x == [calls[c] EXCEPT !.result = By("registry", "timeout")]
<1>1. /\ By("registry", "timeout") \in Result
      /\ By("registry", "timeout").by # "tool"
      /\ By("registry", "timeout").kind # "ok"
  BY DEF By, Result, Kinds
<1>2. x \in Call /\ SafeCall(x, Risk)
  BY <1>1, GivenUpIsSafe DEF RegistryTimeout
<1>3. x.landed = calls[c].landed /\ x.key = calls[c].key
  BY CallsAre DEF ToolInv, Call
<1>4. calls' = [calls EXCEPT ![c] = x] /\ setup' = setup /\ files' = files
  BY DEF RegistryTimeout
<1>5. QED  BY <1>2, <1>3, <1>4, CallMoves

\* So does the verdict on the risk of the line.
LEMMA GateKeeps ==
  ASSUME ToolInv, NEW c \in DOMAIN calls, Gate(c)
  PROVE  ToolInv'
<1>1. /\ calls[c] \in Call /\ SafeCall(calls[c], Risk)
      /\ calls[c].pc = "gate" /\ UNCHANGED <<setup, files>>
  BY CallsAre DEF ToolInv, Gate
<1>2. Risk \in {"allow", "confirm", "deny"}
  BY RiskType DEF Risk, Risks
<1>3. CASE Return(c, "denied")
  BY <1>1, <1>3, ReturnKeeps DEF Kinds
<1>4. CASE /\ Risk = "confirm"
           /\ calls' = [calls EXCEPT ![c].pc = "ask", ![c].asked = TRUE]
  <2> DEFINE x == [calls[c] EXCEPT !.pc = "ask", !.asked = TRUE]
  <2>1. /\ x \in Call /\ SafeCall(x, Risk)
        /\ x.landed = calls[c].landed /\ x.key = calls[c].key
    BY <1>1, <1>4 DEF Call, SafeCall, CommandPCs
  <2>2. calls' = [calls EXCEPT ![c] = x]
    BY <1>4
  <2>3. QED  BY <1>1, <2>1, <2>2, CallMoves
<1>5. CASE /\ Risk = "confirm"
           /\ calls' = [calls EXCEPT ![c].pc = "network",
                                     ![c].granted = {"command"}]
  <2> DEFINE x == [calls[c] EXCEPT !.pc = "network",
                                   !.granted = {"command"}]
  <2>1. /\ x \in Call /\ SafeCall(x, Risk)
        /\ x.landed = calls[c].landed /\ x.key = calls[c].key
    BY <1>1, <1>5 DEF Call, SafeCall, CommandPCs
  <2>2. calls' = [calls EXCEPT ![c] = x]
    BY <1>5
  <2>3. QED  BY <1>1, <2>1, <2>2, CallMoves
<1>6. CASE Risk = "allow" /\ MoveTo(c, "network")
  <2> DEFINE x == [calls[c] EXCEPT !.pc = "network"]
  <2>1. /\ x \in Call /\ SafeCall(x, Risk)
        /\ x.landed = calls[c].landed /\ x.key = calls[c].key
    BY <1>1, <1>6 DEF Call, SafeCall, CommandPCs
  <2>2. calls' = [calls EXCEPT ![c] = x]
    BY <1>6 DEF MoveTo
  <2>3. QED  BY <1>1, <2>1, <2>2, CallMoves
<1>7. QED  BY <1>3, <1>4, <1>5, <1>6 DEF Gate

\* So does the question about the network.
LEMMA NetworkKeeps ==
  ASSUME ToolInv, NEW c \in DOMAIN calls, Network(c)
  PROVE  ToolInv'
<1>1. /\ calls[c] \in Call /\ SafeCall(calls[c], Risk)
      /\ calls[c].pc = "network" /\ UNCHANGED <<setup, files>>
  BY CallsAre DEF ToolInv, Network
<1>2. CASE calls' = [calls EXCEPT ![c].pc = "launch", ![c].mode = "isolated"]
  <2> DEFINE x == [calls[c] EXCEPT !.pc = "launch", !.mode = "isolated"]
  <2>1. /\ x \in Call /\ SafeCall(x, Risk)
        /\ x.landed = calls[c].landed /\ x.key = calls[c].key
    BY <1>1 DEF Call, SafeCall, CommandPCs, Modes
  <2>2. calls' = [calls EXCEPT ![c] = x]
    BY <1>2
  <2>3. QED  BY <1>1, <2>1, <2>2, CallMoves
<1>3. CASE calls' = [calls EXCEPT ![c].pc = "launch", ![c].mode = "allowed",
                                  ![c].granted = @ \union {"network"}]
  <2> DEFINE x == [calls[c] EXCEPT !.pc = "launch", !.mode = "allowed",
                                   !.granted = @ \union {"network"}]
  <2>1. /\ x \in Call /\ SafeCall(x, Risk)
        /\ x.landed = calls[c].landed /\ x.key = calls[c].key
    BY <1>1 DEF Call, SafeCall, CommandPCs, Modes
  <2>2. calls' = [calls EXCEPT ![c] = x]
    BY <1>3
  <2>3. QED  BY <1>1, <2>1, <2>2, CallMoves
<1>4. CASE calls' = [calls EXCEPT ![c].pc = "ask_network", ![c].asked = TRUE]
  <2> DEFINE x == [calls[c] EXCEPT !.pc = "ask_network", !.asked = TRUE]
  <2>1. /\ x \in Call /\ SafeCall(x, Risk)
        /\ x.landed = calls[c].landed /\ x.key = calls[c].key
    BY <1>1 DEF Call, SafeCall, CommandPCs
  <2>2. calls' = [calls EXCEPT ![c] = x]
    BY <1>4
  <2>3. QED  BY <1>1, <2>1, <2>2, CallMoves
<1>5. QED  BY <1>2, <1>3, <1>4 DEF Network

\* Whichever prompt is answered, and however late.
LEMMA AnswerKeeps ==
  ASSUME ToolInv, NEW c \in DOMAIN calls, Answer(c)
  PROVE  ToolInv'
<1>1. /\ calls[c] \in Call /\ SafeCall(calls[c], Risk)
      /\ UNCHANGED <<setup, files>>
  BY CallsAre DEF ToolInv, Answer
<1>2. CASE Return(c, "denied") \/ Return(c, "failed")
  BY <1>1, <1>2, ReturnKeeps DEF Kinds
<1>3. CASE /\ calls[c].pc = "ask"
           /\ calls' = [calls EXCEPT ![c].pc = "network",
                                     ![c].granted = {"command"}]
  <2> DEFINE x == [calls[c] EXCEPT !.pc = "network",
                                   !.granted = {"command"}]
  <2>1. /\ x \in Call /\ SafeCall(x, Risk)
        /\ x.landed = calls[c].landed /\ x.key = calls[c].key
    BY <1>1, <1>3 DEF Call, SafeCall, CommandPCs
  <2>2. calls' = [calls EXCEPT ![c] = x]
    BY <1>3
  <2>3. QED  BY <1>1, <2>1, <2>2, CallMoves
<1>4. CASE /\ calls[c].pc = "ask_network"
           /\ calls' = [calls EXCEPT ![c].pc = "launch",
                                     ![c].mode = "allowed",
                                     ![c].granted = @ \union {"network"}]
  <2> DEFINE x == [calls[c] EXCEPT !.pc = "launch", !.mode = "allowed",
                                   !.granted = @ \union {"network"}]
  <2>1. /\ x \in Call /\ SafeCall(x, Risk)
        /\ x.landed = calls[c].landed /\ x.key = calls[c].key
    BY <1>1, <1>4 DEF Call, SafeCall, CommandPCs, Modes
  <2>2. calls' = [calls EXCEPT ![c] = x]
    BY <1>4
  <2>3. QED  BY <1>1, <2>1, <2>2, CallMoves
<1>5. CASE /\ calls[c].pc = "ask_network"
           /\ calls' = [calls EXCEPT ![c].pc = "launch",
                                     ![c].mode = "isolated"]
  <2> DEFINE x == [calls[c] EXCEPT !.pc = "launch", !.mode = "isolated"]
  <2>1. /\ x \in Call /\ SafeCall(x, Risk)
        /\ x.landed = calls[c].landed /\ x.key = calls[c].key
    BY <1>1, <1>5 DEF Call, SafeCall, CommandPCs, Modes
  <2>2. calls' = [calls EXCEPT ![c] = x]
    BY <1>5
  <2>3. QED  BY <1>1, <2>1, <2>2, CallMoves
<1>6. QED  BY <1>2, <1>3, <1>4, <1>5 DEF Answer

\* So does a command that is started, or refused for want of a sandbox.
LEMMA LaunchKeeps ==
  ASSUME ToolInv, NEW c \in DOMAIN calls, Launch(c)
  PROVE  ToolInv'
<1>1. /\ calls[c] \in Call /\ SafeCall(calls[c], Risk)
      /\ calls[c].pc = "launch" /\ UNCHANGED <<setup, files>>
  BY CallsAre DEF ToolInv, Launch
<1>2. CASE Return(c, "denied") \/ Return(c, "failed")
  BY <1>1, <1>2, ReturnKeeps DEF Kinds
<1>3. CASE /\ setup.sandbox \/ Risk = "allow"
           /\ calls' = [calls EXCEPT ![c].pc = "running",
                                     ![c].mode = IF setup.sandbox
                                                 THEN @ ELSE "unsandboxed"]
  <2> DEFINE x == [calls[c] EXCEPT !.pc = "running",
                                   !.mode = IF setup.sandbox
                                            THEN @ ELSE "unsandboxed"]
  <2>1. /\ x \in Call /\ SafeCall(x, Risk)
        /\ x.landed = calls[c].landed /\ x.key = calls[c].key
    BY <1>1, <1>3 DEF Call, SafeCall, CommandPCs, Modes
  <2>2. calls' = [calls EXCEPT ![c] = x]
    BY <1>3
  <2>3. QED  BY <1>1, <2>1, <2>2, CallMoves
<1>4. QED  BY <1>2, <1>3 DEF Launch

\* So does an effect that lands.
LEMMA LandKeeps ==
  ASSUME ToolInv, NEW c \in DOMAIN calls, Land(c)
  PROVE  ToolInv'
<1> DEFINE x == [calls[c] EXCEPT !.landed = TRUE]
           k == calls[c].key
<1>1. /\ calls[c] \in Call /\ SafeCall(calls[c], Risk)
      /\ calls[c].pc \in {"running", "term", "stray"}
      /\ WritesTo[k] # None /\ setup' = setup
      /\ calls' = [calls EXCEPT ![c].landed = TRUE]
      /\ files' = [files EXCEPT ![WritesTo[k]] = k]
  BY CallsAre DEF ToolInv, Land
<1>2. x \in Call /\ SafeCall(x, Risk) /\ x.landed /\ x.key = k
  BY <1>1 DEF Call, SafeCall, CommandPCs
<1>3. WritesTo[k] \in Paths
  BY <1>1, KeysAssumption DEF Call
<1>4. calls' = [calls EXCEPT ![c] = x]
  BY <1>1
<1>5. QED  BY <1>1, <1>2, <1>3, <1>4, OneCall

\* So does a command that ends by itself.
LEMMA CommandEndsKeeps ==
  ASSUME ToolInv, NEW c \in DOMAIN calls, CommandEnds(c)
  PROVE  ToolInv'
<1>1. /\ calls[c] \in Call /\ SafeCall(calls[c], Risk)
      /\ calls[c].pc = "running" /\ UNCHANGED <<setup, files>>
  BY CallsAre DEF ToolInv, CommandEnds
<1>2. CASE Return(c, "ok") \/ Return(c, "exit")
  BY <1>1, <1>2, ReturnKeeps DEF Kinds, SafeCall
<1>3. CASE MoveTo(c, "term")
  <2> DEFINE x == [calls[c] EXCEPT !.pc = "term"]
  <2>1. /\ x \in Call /\ SafeCall(x, Risk)
        /\ x.landed = calls[c].landed /\ x.key = calls[c].key
    BY <1>1 DEF Call, SafeCall, CommandPCs
  <2>2. calls' = [calls EXCEPT ![c] = x]
    BY <1>3 DEF MoveTo
  <2>3. QED  BY <1>1, <2>1, <2>2, CallMoves
<1>4. QED  BY <1>2, <1>3 DEF CommandEnds

\* A child that ignores SIGTERM is left only where there is no sandbox.
LEMMA TerminateKeeps ==
  ASSUME ToolInv, NEW c \in DOMAIN calls, Terminate(c)
  PROVE  ToolInv'
<1>1. /\ calls[c] \in Call /\ SafeCall(calls[c], Risk)
      /\ calls[c].pc = "term" /\ UNCHANGED <<setup, files>>
  BY CallsAre DEF ToolInv, Terminate
<1>2. CASE Return(c, "timeout")
  BY <1>1, <1>2, ReturnKeeps DEF Kinds
<1>3. CASE /\ calls[c].mode = "unsandboxed"
           /\ calls' = [calls EXCEPT ![c] = [Returned(c, "timeout")
                                               EXCEPT !.pc = "stray"]]
  <2> DEFINE r == Returned(c, "timeout")
             x == [r EXCEPT !.pc = "stray"]
  <2>1. /\ r \in Call /\ SafeCall(r, Risk)
        /\ r.landed = calls[c].landed /\ r.key = calls[c].key
    BY ReturnedIsSafe DEF Kinds
  <2>2. /\ r.pc = "gone" /\ r.mode = calls[c].mode /\ r.key = calls[c].key
    BY <1>1 DEF Returned, Call
  <2>3. ToolOf[r.key] = "run_command" /\ r.mode = "unsandboxed"
    BY <1>1, <1>3, <2>2 DEF SafeCall, CommandPCs
  <2>4. /\ x \in Call /\ SafeCall(x, Risk)
        /\ x.landed = calls[c].landed /\ x.key = calls[c].key
    BY <2>1, <2>2, <2>3 DEF Call, SafeCall, CommandPCs
  <2>5. QED  BY <1>1, <1>3, <2>4, CallMoves
<1>4. QED  BY <1>2, <1>3 DEF Terminate

\* So does one that outlived its call.
LEMMA StrayEndsKeeps ==
  ASSUME ToolInv, NEW c \in DOMAIN calls, StrayEnds(c)
  PROVE  ToolInv'
<1> DEFINE x == [calls[c] EXCEPT !.pc = "gone"]
<1>1. /\ calls[c] \in Call /\ SafeCall(calls[c], Risk)
      /\ UNCHANGED <<setup, files>> /\ calls' = [calls EXCEPT ![c] = x]
  BY CallsAre DEF ToolInv, StrayEnds, MoveTo
<1>2. /\ x \in Call /\ SafeCall(x, Risk)
      /\ x.landed = calls[c].landed /\ x.key = calls[c].key
  BY <1>1 DEF Call, SafeCall, CommandPCs
<1>3. QED  BY <1>1, <1>2, CallMoves

\* The file and git tools: an effect only of write_file, on the path it names.
LEMMA WorkKeeps ==
  ASSUME ToolInv, NEW c \in DOMAIN calls, Work(c)
  PROVE  ToolInv'
<1> DEFINE k == calls[c].key
<1>1. /\ calls[c] \in Call /\ SafeCall(calls[c], Risk)
      /\ calls[c].pc = "work" /\ setup' = setup
  BY CallsAre DEF ToolInv, Work
<1>2. k \in Keys /\ ToolOf[k] \in FileTools \union GitTools /\ ~calls[c].landed
  BY <1>1 DEF Call, SafeCall
<1>3. PICK o \in Outcomes(ToolOf[k]) :
        \E l \in IF ToolOf[k] # "write_file" \/ o = "denied" THEN {FALSE}
                 ELSE IF o = "ok" THEN {TRUE} ELSE BOOLEAN :
          /\ calls' = [calls EXCEPT
                         ![c] = [Returned(c, o) EXCEPT !.landed = l]]
          /\ files' = IF l THEN [files EXCEPT ![WritesTo[k]] = k] ELSE files
  BY DEF Work
<1>4. PICK l \in BOOLEAN :
        /\ l => ToolOf[k] = "write_file"
        /\ calls' = [calls EXCEPT ![c] = [Returned(c, o) EXCEPT !.landed = l]]
        /\ files' = IF l THEN [files EXCEPT ![WritesTo[k]] = k] ELSE files
  BY <1>3
<1>5. o \in Kinds /\ ToolOf[k] # "run_command"
  BY <1>2 DEF Outcomes, FileOutcomes, GitOutcomes, FileTools, GitTools, Kinds
<1> DEFINE r == Returned(c, o)
           x == [r EXCEPT !.landed = l]
<1>6. r \in Call /\ SafeCall(r, Risk) /\ r.pc = "gone"
  <2>1. r \in Call /\ SafeCall(r, Risk)
    BY <1>5, ReturnedIsSafe
  <2>2. r.pc = "gone"
    BY <1>1 DEF Returned, Call
  <2>3. QED  BY <2>1, <2>2
<1>7. x \in Call /\ SafeCall(x, Risk) /\ x.landed = l /\ x.key = k
  <2>1. r.key = k
    BY <1>5, ReturnedIsSafe
  <2>2. QED  BY <1>6, <2>1 DEF Call, SafeCall, CommandPCs
<1>8. l => WritesTo[k] \in Paths
  BY <1>2, <1>4, KeysAssumption
<1>9. QED  BY <1>1, <1>2, <1>4, <1>7, <1>8, OneCall

----------------------------------------------------------------------------
\* What never comes back: a call is always about the same key, an effect and
\* the answer given to the loop stay as they are, a command that has a mode
\* keeps having one, and a thread that is over changes nothing more.
Progress(x, y) == /\ y.key = x.key
                  /\ x.landed => y.landed
                  /\ x.result # None => y.result = x.result
                  /\ x.mode # None => y.mode # None
                  /\ x.pc = "gone" => y.landed = x.landed

Later == /\ setup' = setup /\ DOMAIN calls' = DOMAIN calls
         /\ \A d \in DOMAIN calls : Progress(calls[d], calls'[d])

\* Each step of a thread replaces the record of its own call by a later one.
LEMMA ThreadProgress ==
  ASSUME ToolInv, NEW c \in DOMAIN calls,
         ThreadStep(c) \/ ThreadMay(c) \/ RegistryTimeout(c)
  PROVE  Later
<1>1. \A d \in DOMAIN calls : calls[d] \in Call
  BY CallsAre DEF ToolInv
<1>2. /\ None \notin Modes /\ "unsandboxed" # None /\ "isolated" # None
      /\ "allowed" # None
  BY AbsenceAssumption DEF Modes
<1>3. ASSUME NEW kind, Return(c, kind), setup' = setup
      PROVE  Later
  BY <1>1, <1>3 DEF Return, Returned, Later, Progress, Call
<1>Gate. CASE Gate(c)
  BY <1>1, <1>3, <1>Gate DEF Gate, MoveTo, Later, Progress, Call
<1>Network. CASE Network(c)
  BY <1>1, <1>2, <1>Network DEF Network, Later, Progress, Call
<1>Answer. CASE Answer(c)
  BY <1>1, <1>2, <1>3, <1>Answer DEF Answer, Later, Progress, Call
<1>Launch. CASE Launch(c)
  BY <1>1, <1>2, <1>3, <1>Launch DEF Launch, Later, Progress, Call
<1>Land. CASE Land(c)
  <2>1. /\ setup' = setup
        /\ calls' = [calls EXCEPT ![c].landed = TRUE]
        /\ calls[c].pc # "gone"
    BY <1>Land DEF Land
  <2>2. Progress(calls[c], calls'[c])
    <3>1. calls'[c] = [calls[c] EXCEPT !.landed = TRUE]
      BY <2>1
    <3>2. QED  BY <1>1, <2>1, <3>1 DEF Progress, Call
  <2>3. \A d \in DOMAIN calls : d # c => calls'[d] = calls[d]
    BY <2>1
  <2>4. QED  BY <2>1, <2>2, <2>3 DEF Later, Progress
<1>CommandEnds. CASE CommandEnds(c)
  BY <1>1, <1>3, <1>CommandEnds DEF CommandEnds, MoveTo, Later, Progress, Call
<1>Terminate. CASE Terminate(c)
  <2>1. calls[c].pc = "term" /\ setup' = setup
    BY <1>Terminate DEF Terminate
  <2>2. CASE calls' = [calls EXCEPT ![c] = [Returned(c, "timeout")
                                              EXCEPT !.pc = "stray"]]
    BY <1>1, <2>1, <2>2 DEF Returned, Later, Progress, Call
  <2>3. QED  BY <1>3, <1>Terminate, <2>1, <2>2 DEF Terminate
<1>StrayEnds. CASE StrayEnds(c)
  BY <1>1, <1>StrayEnds DEF StrayEnds, MoveTo, Later, Progress, Call
<1>Work. CASE Work(c)
  <2>1. calls[c].pc = "work" /\ ~calls[c].landed /\ setup' = setup
    BY <1>Work DEF Work, ToolInv, SafeCall
  <2>2. PICK o, l :
          calls' = [calls EXCEPT ![c] = [Returned(c, o) EXCEPT !.landed = l]]
    BY <1>Work DEF Work
  <2>3. QED  BY <1>1, <2>1, <2>2 DEF Returned, Later, Progress, Call
<1>RegistryTimeout. CASE RegistryTimeout(c)
  BY <1>1, <1>RegistryTimeout DEF RegistryTimeout, Later, Progress, Call
<1>QED. QED
  BY <1>Gate, <1>Network, <1>Answer, <1>Launch, <1>Land, <1>CommandEnds,
     <1>Terminate, <1>StrayEnds, <1>Work, <1>RegistryTimeout
  DEF ThreadStep, ThreadMay

\* So does every thread keep the invariant, whatever the loop is doing.
LEMMA ThreadKeeps ==
  ASSUME ToolInv, NEW c \in DOMAIN calls,
         ThreadStep(c) \/ ThreadMay(c) \/ RegistryTimeout(c)
  PROVE  ToolInv'
  BY GateKeeps, NetworkKeeps, AnswerKeeps, LaunchKeeps, LandKeeps,
     CommandEndsKeeps, TerminateKeeps, StrayEndsKeeps, WorkKeeps,
     RegistryTimeoutKeeps
  DEF ThreadStep, ThreadMay

----------------------------------------------------------------------------
\* What the invariant is for.

\* A running command is past every gate.
LEMMA GatedHolds == ToolInv => Gated
<1> SUFFICES ASSUME ToolInv, NEW c \in DOMAIN calls,
                    calls[c].pc \in {"running", "term"}
             PROVE  /\ Risk # "deny"
                    /\ Risk = "confirm" => /\ "command" \in calls[c].granted
                                            /\ calls[c].mode # "unsandboxed"
                    /\ calls[c].mode = "allowed"
                         => "network" \in calls[c].granted
  BY DEF Gated
<1>1. SafeCall(calls[c], Risk)
  BY DEF ToolInv
<1>2. QED  BY <1>1 DEF SafeCall, CommandPCs

\* One that nobody approved was allowed by the classifier, so all of its
\* parts are listed.
LEMMA UnaskedHolds == ToolInv => UnaskedIsListed
<1> SUFFICES ASSUME ToolInv, NEW c \in DOMAIN calls,
                    calls[c].pc \in {"running", "term"},
                    "command" \notin calls[c].granted
             PROVE  \A i \in DOMAIN setup.line.parts :
                       OnlyListed(setup.line.parts[i])
  BY DEF UnaskedIsListed
<1>1. SafeCall(calls[c], Risk)
  BY DEF ToolInv
<1>2. Risk \notin {"deny", "confirm"}
  BY <1>1 DEF SafeCall, CommandPCs
<1>3. Classify(setup.line) = "allow"
  BY <1>2, RiskType DEF Risk, Risks
<1>4. setup.line \in Line
  BY KeysAssumption DEF ToolInv, ToolTypeOK, Setup
<1>5. QED  BY <1>3, <1>4, AllowedLineListed

\* A call whose tool answered, without leaving a stray process, is over.
LEMMA AnsweredIsOver ==
  ASSUME ToolInv, NEW c \in DOMAIN calls,
         calls[c].result # None, calls[c].result.by = "tool",
         calls[c].mode # "unsandboxed"
  PROVE  calls[c].pc = "gone"
  BY DEF ToolInv, SafeCall
=============================================================================
