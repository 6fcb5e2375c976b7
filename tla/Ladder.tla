------------------------------- MODULE Ladder -------------------------------
(***************************************************************************)
(* The token budget, the compression ladder and what it pays               *)
(* (harness/context/budget.py, compressor.py, economics.py).  Pure         *)
(* operators on the append zone, a sequence of messages.                   *)
(*                                                                         *)
(* Abstracted: who wrote a message, beyond whether it is a tool's result   *)
(* and of which tool; the rate of prompt processing, which divides both    *)
(* sides of the comparison the economics make.                             *)
(***************************************************************************)
EXTENDS ToolOutput, FiniteSetsExt

CONSTANTS
  NoTool,          \* the name of a message that is no tool's result
  KeepResults,     \* newest tool results that are not summarized
  SummaryLines, SummaryBytes,  \* limits of a summarized tool result
  KeepMessages,    \* newest messages that are not collapsed
  MinSpan,         \* fewer old messages are not worth collapsing
  ExtractBytes,    \* what a summary keeps of its first and last message
  MarginPercent    \* a rewrite must save this share of what it costs

ASSUME LadderLimits == /\ {KeepResults, KeepMessages} \subseteq Nat \ {0}
                       /\ {MinSpan, MarginPercent} \subseteq Nat \ {0}
                       /\ {SummaryLines, ExtractBytes} \subseteq Nat
                       /\ SummaryBytes \in Nat \ {0}

\* passes: how often the text has been compressed; of: lines of the output.
\* Both are for the properties, the code has neither.
Message(tool, text, passes, of) ==
  [tool |-> tool, text |-> text, bytes |-> TextBytes[text],
   passes |-> passes, of |-> of]

Rewritten(m, text) == Message(m.tool, text, 2, m.of)

Plain(bytes) == Message(NoTool, <<Line(bytes, "plain")>>, 0, 1)

Messages == [tool : STRING \union {NoTool}, text : Texts, bytes : Nat,
             passes : 0..2, of : Nat]

\* Characters / 3.6, rounded up, at least one unless the text is empty.
EstimateTokens(bytes) == (10 * bytes + 35) \div 36

CountMessage(m) ==
  EstimateTokens(m.bytes) + 4
    + (IF m.tool = NoTool THEN 0 ELSE EstimateTokens(11))

CountMessages[msgs \in Seq(Messages)] ==
  IF msgs = <<>> THEN 0
  ELSE CountMessage(Head(msgs)) + CountMessages[Tail(msgs)]

-----------------------------------------------------------------------------
(* The budget: c is the soft ceiling, g the reserve for generation, p the  *)
(* tokens of the prefix.                                                   *)

\* The share of the ceiling kept for generation, rounded down; of a small
\* ceiling and a small share that is nothing.
GenerationReserve(c, ratio) == (c * ratio[1]) \div ratio[2]

AppendLimit(c, g, p) == IF c > p + g THEN c - (p + g) ELSE 0

WithinBudget(c, g, p, msgs) == CountMessages[msgs] <= AppendLimit(c, g, p)

OverHardCeiling(window, g, p, msgs) == p + CountMessages[msgs] + g > window

-----------------------------------------------------------------------------
(* The rungs: each returns the append zone it would leave, msgs itself     *)
(* when there is nothing to do.                                            *)

ResultsOf(msgs) == {i \in DOMAIN msgs : msgs[i].tool # NoTool}

\* Retrieved context at the tail; nothing is retrieved in 0 bytes.
RetrieveAgain(msgs, retrieved) ==
  IF retrieved = 0 THEN msgs ELSE Append(msgs, Plain(retrieved + 20))

\* A marker takes the place of a result that a later call replaced.
DropSuperseded(msgs) ==
  [i \in DOMAIN msgs |->
     IF /\ msgs[i].tool # NoTool
        /\ \E j \in DOMAIN msgs : j > i /\ msgs[j].tool = msgs[i].tool
     THEN Rewritten(msgs[i], <<Line(70, "plain")>>)
     ELSE msgs[i]]

Recompressed(m) ==
  IF m.bytes <= SummaryBytes THEN m
  ELSE Rewritten(m, Compressed(m.text, SummaryLines, SummaryBytes, "generic"))

\* Defect: the results that are shortened are the newest ones.
SummarizeNewResults(msgs) ==
  [i \in DOMAIN msgs |->
     IF /\ msgs[i].tool # NoTool
        /\ Cardinality({j \in ResultsOf(msgs) : j < i}) >= KeepResults
     THEN Recompressed(msgs[i])
     ELSE msgs[i]]

\* Results with that many newer ones are compressed once more.
SummarizeOldResults(msgs) ==
  [i \in DOMAIN msgs |->
     IF /\ msgs[i].tool # NoTool
        /\ Cardinality({j \in ResultsOf(msgs) : j > i}) >= KeepResults
     THEN Recompressed(msgs[i])
     ELSE msgs[i]]

Extract(m) == IF m.bytes < ExtractBytes THEN m.bytes ELSE ExtractBytes

\* One message takes the place of the old conversation: the beginnings of
\* its first and its last message.
SummarizeOldConversation(msgs) ==
  IF Len(msgs) < KeepMessages + MinSpan THEN msgs
  ELSE <<Plain(90 + Extract(msgs[1])
                  + Extract(msgs[Len(msgs) - KeepMessages]))>>
         \o SubSeq(msgs, Len(msgs) - KeepMessages + 1, Len(msgs))

Ladder(msgs) == <<DropSuperseded(msgs), SummarizeOldResults(msgs),
                  SummarizeOldConversation(msgs)>>

-----------------------------------------------------------------------------
(* What a rewrite is worth.                                                *)

FirstDiff(old, new) ==
  Min({i \in DOMAIN old \intersect DOMAIN new : old[i] # new[i]}
        \union {1 + Len(old), 1 + Len(new)})

\* Tokens the server must process again.
ReprocessTokens(old, new) ==
  CountMessages[SubSeq(new, FirstDiff(old, new), Len(new))]

FreedTokens(old, new) ==
  IF CountMessages[old] > CountMessages[new]
  THEN CountMessages[old] - CountMessages[new]
  ELSE 0

\* What the remaining steps save must exceed the cost, with a margin.
Pays(old, new, remaining) ==
  /\ FreedTokens(old, new) > 0
  /\ remaining > 0
  /\ 100 * FreedTokens(old, new) * remaining
       > MarginPercent * ReprocessTokens(old, new)

FirstPaying(msgs, rungs, remaining) ==
  LET paying == {i \in DOMAIN rungs : Pays(msgs, rungs[i], remaining)}
  IN IF paying = {} THEN msgs ELSE rungs[Min(paying)]

Walk(msgs, remaining) == FirstPaying(msgs, Ladder(msgs), remaining)

\* Defect: retrieval is tried in an overflow, too.
EscalateAlike(msgs, overflow, retrieved, remaining) ==
  Walk(RetrieveAgain(msgs, retrieved), remaining)

\* The append zone after one walk up the ladder: the first rung that pays is
\* applied.  An overflow skips the retrieval.
Escalate(msgs, overflow, retrieved, remaining) ==
  Walk(IF overflow THEN msgs ELSE RetrieveAgain(msgs, retrieved), remaining)
=============================================================================
