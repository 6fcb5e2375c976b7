----------------------- MODULE AgentRunHistoryProofs -----------------------
(***************************************************************************)
(* Proofs about what a run records (AgentRun): its history, its guards,    *)
(* its directives and its budgets, through any number of processes.        *)
(*                                                                         *)
(* The database and the process hold the same kind of record.  What makes  *)
(* one good, Good below, is stated of a steps table, a record and a resume *)
(* point, and every write of the process's record keeps the database good  *)
(* because the process's own was.                                          *)
(***************************************************************************)
EXTENDS AgentRunProofs, FiniteSetTheorems

----------------------------------------------------------------------------
\* What a record m with resume point t says truly of the steps table s.

\* The ledger: closed tool steps in order, below the resume point, and every
\* tool step done or refused is among them.
InOrder(s, m, t) ==
  \A k \in DOMAIN m.executed :
    LET id == m.executed[k]
    IN  /\ id \in DOMAIN s
        /\ s[id].call # None
        /\ s[id].status \in {"done", "failed", "skipped"}
        /\ s[id].index < t
        /\ k > 1 => /\ m.executed[k - 1] < id
                    /\ s[m.executed[k - 1]].index < s[id].index

Ids(m) == {m.executed[k] : k \in DOMAIN m.executed}

AllListed(s, m) ==
  \A id \in DOMAIN s :
    s[id].call # None /\ s[id].status \in {"done", "skipped"} => id \in Ids(m)

Charged(s, m) == {id \in Ids(m) : s[id].status # "skipped"}

Ledger(s, m, t) ==
  /\ InOrder(s, m, t)
  /\ AllListed(s, m)
  /\ m.tool_calls = Cardinality(Charged(s, m))

\* The guards: a step marked uncertain is listed, guarded and warned about,
\* or its call was refused later.
Warned(a) == \E k \in DOMAIN a : a[k].kind \in {"resume", "summary"}

RefusedLater(s, id) ==
  \E later \in DOMAIN s :
    later > id /\ s[later] = [s[id] EXCEPT !.status = "skipped",
                                           !.index  = s[later].index]

Remembered(s, m) ==
  \A id \in DOMAIN s : s[id].status = "uncertain" =>
    \/ /\ id \in m.uncertain /\ s[id].call \in m.blocked
       /\ Warned(m.append)
    \/ RefusedLater(s, id)

\* The directives: none twice, none for a later step, and that of the active
\* step is there unless summarised away.
RolesOnce(a) ==
  \A j, k \in DOMAIN a : a[j].kind = "role" /\ a[j] = a[k] => j = k

Summarised(a) == \E k \in DOMAIN a : a[k].kind = "summary"

HasRole(a, i) == \E k \in DOMAIN a : a[k] = Msg("role", i)

Told(m, t) ==
  /\ RolesOnce(m.append)
  /\ \A k \in DOMAIN m.append : m.append[k].kind = "role" =>
       m.append[k].of < t \/ (m.append[k].of = t /\ m.active = t)
  /\ m.active # None => HasRole(m.append, m.active) \/ Summarised(m.append)

\* The window q of recent calls ends as history done ends, as far as the
\* detector needs it.
Latest(s, done, k) ==
  /\ Executes(s, done, k)
  /\ \A l \in DOMAIN done : l > k => ~ Executes(s, done, l)

NoTriple(s, done) ==
  \A i, j, k \in DOMAIN done :
    InARow(s, done, i, j) /\ InARow(s, done, j, k) =>
      ~ /\ s[done[i]].call = s[done[j]].call
        /\ s[done[j]].call = s[done[k]].call

Window(s, done, q) ==
  /\ Len(q) <= NoProgressRepeat
  /\ \A k \in DOMAIN done : Latest(s, done, k) =>
       /\ Len(q) >= 1 /\ q[Len(q)] = s[done[k]].call
       /\ \A j \in DOMAIN done :
            InARow(s, done, j, k) /\ s[done[j]].call = s[done[k]].call =>
              Len(q) >= 2 /\ q[Len(q) - 1] = s[done[k]].call

\* The budgets.
Within(m, t) ==
  /\ t <= MaxSteps
  /\ m.tool_calls <= MaxToolCalls /\ m.retries <= MaxRetries

Good(s, m, t) ==
  /\ Ledger(s, m, t)
  /\ Remembered(s, m)
  /\ Told(m, t)
  /\ NoTriple(s, m.executed)
  /\ Within(m, t)

----------------------------------------------------------------------------
\* The inductive invariant.

Off == {"off"} \union Fresh

\* What a resume would restore is good, and so is what a process works on.
DiskGood == runtime # None => /\ task # None
                              /\ Good(steps, runtime, task)
                              /\ Window(steps, runtime.executed,
                                        runtime.recent)

ProcessGood ==
  /\ pc \in Off => mem = Blank /\ idx = 0
  /\ pc = "save_first_runtime" => task = 0
  /\ pc \notin Off => Good(steps, mem, idx)

\* What is written only together with the disk agrees with it.
Synced ==
  pc \notin Off =>
    /\ task # None /\ task <= idx
    /\ pc # "save_task" => task = idx
    /\ mem.executed = runtime.executed
    /\ mem.tool_calls = runtime.tool_calls

\* The window in memory; with a call in hand, before the call was pushed.
WindowGood ==
  /\ pc \notin Off \union {"tool", "ran"} =>
       Window(steps, mem.executed, mem.recent)
  /\ pc \in {"tool", "ran"} /\ call \notin mem.blocked =>
       \E q \in Seq(Calls) : /\ Window(steps, mem.executed, q)
                             /\ mem.recent = Pushed(q, call)
                             /\ ~ Stuck(mem.recent)
  /\ pc \in {"tool", "ran"} /\ call \in mem.blocked =>
       Window(steps, mem.executed, mem.recent)

\* A step is performed within the budget; the open one is the newest row.
StepInv ==
  /\ pc \in {"model", "parsed", "retry", "act", "tool", "ran"} =>
       idx < MaxSteps /\ mem.tool_calls < MaxToolCalls
  /\ pc \in {"model", "parsed", "tool", "ran"} =>
       cur = Len(steps) /\ steps[cur].index = idx
  /\ pc \in {"ask", "model", "parsed", "retry", "act", "tool", "ran"} =>
       mem.active = idx

\* What was sent last for this step, and what a retry would send.
SentInv ==
  /\ pc \in Off \union {"recover", "top"} => sent = <<>>
  /\ pc = "ask" => mem.append # sent
  /\ pc \in {"model", "parsed", "retry"} => mem.append = sent

\* Each process but the one at work may have left one call uncharged.
ToolRows == {id \in DOMAIN steps : /\ steps[id].call # None
                                   /\ steps[id].status # "skipped"}

OnDiskCharge == IF runtime = None THEN 0 ELSE runtime.tool_calls

CountInv ==
  /\ pc = "off" => Cardinality(ToolRows) <= OnDiskCharge + starts
  /\ pc # "off" =>
       /\ starts >= 1
       /\ Cardinality(ToolRows)
            <= OnDiskCharge + (starts - 1)
               + IF pc \in {"tool", "ran"} THEN 1 ELSE 0

HistoryInv ==
  DiskGood /\ ProcessGood /\ Synced /\ WindowGood /\ StepInv /\ SentInv
    /\ CountInv

----------------------------------------------------------------------------
\* Lemmas about the append zone.

\* What a rewrite of the append zone keeps of it.
Keeps(a, b) ==
  /\ RolesOnce(a) => RolesOnce(b)
  /\ \A k \in DOMAIN b : b[k].kind = "role" =>
       \E j \in DOMAIN a : a[j] = b[k]
  /\ \A i \in Nat : HasRole(a, i) => HasRole(b, i) \/ Summarised(b)
  /\ Summarised(a) => Summarised(b)
  /\ Warned(a) => Warned(b)

\* How one rung makes progress: the zone gets shorter, or a result does.
Shrinks(a, b) ==
  \/ Len(b) < Len(a)
  \/ /\ Len(b) = Len(a)
     /\ \A k \in DOMAIN a : a[k].kind = "short" => b[k].kind = "short"
     /\ \E k \in DOMAIN a : a[k].kind = "result" /\ b[k].kind = "short"

\* Shortening tool results leaves every other message in its place.
LEMMA ShortenKeeps ==
  ASSUME NEW a \in Seq(Message), NEW b \in Shortened(a)
  PROVE  Keeps(a, b) /\ Shrinks(a, b)
<1>1. PICK K \in SUBSET Stale(a) : b = Shorten(a, K) /\ b # a
  BY DEF Shortened
<1>2. /\ DOMAIN a = 1..Len(a) /\ Len(a) \in Nat
      /\ \A k \in DOMAIN a : a[k] \in Message
  BY LenProperties, ElementOfSeq
<1>3. /\ b \in Seq(Message) /\ DOMAIN b = DOMAIN a
      /\ \A k \in DOMAIN a :
           b[k] = IF k \in K THEN Msg("short", a[k].of) ELSE a[k]
  BY <1>1, RewritesType DEF Shorten, Rewrites
<1>4. Len(b) = Len(a)
  <2>1. DOMAIN b = 1..Len(b) /\ Len(b) \in Nat
    BY <1>3, LenProperties
  <2>2. QED  BY <1>2, <1>3, <2>1
<1>5. \A k \in K : k \in DOMAIN a /\ a[k].kind \in {"result", "short"}
  BY <1>1 DEF Stale, Results
<1>6. \A k \in DOMAIN a :
        \/ k \notin K /\ b[k] = a[k]
        \/ /\ k \in K /\ b[k].kind = "short"
           /\ a[k].kind \in {"result", "short"}
           /\ a[k].kind = "short" => b[k] = a[k]
  BY <1>2, <1>3, <1>5 DEF Msg, Message
<1>7. Keeps(a, b)
  <2>1. RolesOnce(a) => RolesOnce(b)
    BY <1>3, <1>6 DEF RolesOnce
  <2>2. \A k \in DOMAIN b : b[k].kind = "role" =>
          \E j \in DOMAIN a : a[j] = b[k]
    BY <1>3, <1>6
  <2>3. \A i \in Nat : HasRole(a, i) => HasRole(b, i)
    BY <1>3, <1>6 DEF HasRole, Msg
  <2>4. /\ Summarised(a) => Summarised(b)
        /\ Warned(a) => Warned(b)
    BY <1>3, <1>6 DEF Summarised, Warned
  <2>5. QED  BY <2>1, <2>2, <2>3, <2>4 DEF Keeps
<1>8. \E k \in DOMAIN a : b[k] # a[k]
  BY <1>1, <1>2, <1>3, <1>4, SeqEqual
<1>9. QED  BY <1>4, <1>6, <1>7, <1>8 DEF Shrinks

\* Collapsing the old messages leaves a summary and the newest messages.
LEMMA CollapseKeeps ==
  ASSUME NEW a \in Seq(Message), NEW b \in Collapsed(a)
  PROVE  Keeps(a, b) /\ Shrinks(a, b)
<1> DEFINE p == <<Msg("summary", Span(a))>>
           q == SubSeq(a, Span(a) + 1, Len(a))
<1>2. /\ Len(a) \in Nat /\ DOMAIN a = 1..Len(a)
      /\ \A k \in 1..Len(a) : a[k] \in Message
  BY LenProperties, ElementOfSeq
<1>1. Len(a) >= KeepRecent + MinSpan /\ b = p \o q
  <2>1. ~ (Len(a) < KeepRecent + MinSpan) /\ b = p \o q
    BY DEF Collapsed
  <2>2. QED  BY <1>2, <2>1, BoundsAssumption
<1>3. Span(a) \in Nat /\ Span(a) >= 2 /\ Len(a) - Span(a) \in Nat
  BY <1>1, <1>2, BoundsAssumption DEF Span
<1>4. Msg("summary", Span(a)) \in Message
  BY <1>3, MsgType
<1>5. p \in Seq(Message) /\ Len(p) = 1 /\ p[1] = Msg("summary", Span(a))
  BY <1>4
<1>6. /\ q \in Seq(Message) /\ Len(q) = Len(a) - Span(a)
      /\ \A k \in 1..Len(q) : q[k] = a[Span(a) + k]
  <2>1. /\ q \in Seq(Message)
        /\ Len(q) = IF Span(a) + 1 <= Len(a)
                    THEN Len(a) - (Span(a) + 1) + 1 ELSE 0
        /\ \A i \in 1..(Len(a) - (Span(a) + 1) + 1) :
             q[i] = a[Span(a) + 1 + i - 1]
    <3>1. /\ Span(a) + 1 \in Int /\ Len(a) \in Int
          /\ \A i \in (Span(a) + 1)..Len(a) : a[i] \in Message
      BY <1>2, <1>3
    <3>2. QED  BY <1>2, <3>1, SubSeqProperties
  <2> HIDE DEF q
  <2>2. Len(q) = Len(a) - Span(a)
    BY <1>2, <1>3, <2>1
  <2>3. ASSUME NEW k \in 1..Len(q) PROVE q[k] = a[Span(a) + k]
    <3>1. /\ k \in 1..(Len(a) - (Span(a) + 1) + 1)
          /\ Span(a) + 1 + k - 1 = Span(a) + k
      BY <1>2, <1>3, <2>2
    <3>2. QED  BY <2>1, <3>1
  <2>4. QED  BY <2>1, <2>2, <2>3
<1> HIDE DEF p, q
<1>7. /\ b \in Seq(Message) /\ Len(b) = 1 + Len(q)
      /\ \A i \in 1..(Len(p) + Len(q)) :
           b[i] = IF i <= Len(p) THEN p[i] ELSE q[i - Len(p)]
  <2>1. /\ p \o q \in Seq(Message) /\ Len(p \o q) = Len(p) + Len(q)
        /\ \A i \in 1..(Len(p) + Len(q)) :
             (p \o q)[i] = IF i <= Len(p) THEN p[i] ELSE q[i - Len(p)]
    BY <1>5, <1>6, ConcatProperties
  <2>2. QED  BY <1>1, <1>5, <2>1
<1>8. /\ DOMAIN b = 1..(1 + Len(q)) /\ Len(q) \in Nat
      /\ b[1] = Msg("summary", Span(a))
      /\ \A i \in DOMAIN b : i # 1 =>
           i - 1 + Span(a) \in DOMAIN a /\ b[i] = a[i - 1 + Span(a)]
  <2>1. DOMAIN b = 1..(1 + Len(q)) /\ Len(q) \in Nat
    BY <1>6, <1>7, LenProperties
  <2>2. b[1] = Msg("summary", Span(a))
    BY <1>5, <1>7, <2>1
  <2>3. ASSUME NEW i \in DOMAIN b, i # 1
        PROVE  i - 1 + Span(a) \in DOMAIN a /\ b[i] = a[i - 1 + Span(a)]
    <3>1. i - 1 \in 1..Len(q) /\ i \in 1..(Len(p) + Len(q)) /\ ~ (i <= 1)
      BY <1>5, <2>1, <2>3
    <3>2. b[i] = q[i - 1]
      BY <1>5, <1>7, <3>1
    <3>3. /\ i - 1 + Span(a) \in 1..Len(a)
          /\ Span(a) + (i - 1) = i - 1 + Span(a)
      BY <1>2, <1>3, <1>6, <3>1
    <3>4. q[i - 1] = a[Span(a) + (i - 1)]
      BY <1>6, <3>1
    <3>5. QED  BY <1>2, <3>2, <3>3, <3>4
  <2>4. QED  BY <2>1, <2>2, <2>3
<1>9. b[1].kind = "summary" /\ 1 \in DOMAIN b
  BY <1>8 DEF Msg
<1>10. Summarised(b) /\ Warned(b)
  BY <1>9 DEF Summarised, Warned
<1>11. RolesOnce(a) => RolesOnce(b)
  <2> SUFFICES ASSUME RolesOnce(a), NEW j \in DOMAIN b, NEW k \in DOMAIN b,
                      b[j].kind = "role", b[j] = b[k]
               PROVE  j = k
    BY DEF RolesOnce
  <2>1. j # 1 /\ k # 1
    BY <1>9
  <2>2. j - 1 + Span(a) = k - 1 + Span(a)
    BY <1>8, <2>1 DEF RolesOnce
  <2>3. QED  BY <1>3, <1>8, <2>2
<1>12. \A k \in DOMAIN b : b[k].kind = "role" =>
         \E j \in DOMAIN a : a[j] = b[k]
  BY <1>8, <1>9
<1>13. QED
  BY <1>2, <1>3, <1>6, <1>7, <1>10, <1>11, <1>12 DEF Keeps, Shrinks

\* So does each rung.
LEMMA RewritesKeep ==
  ASSUME NEW a \in Seq(Message), NEW b \in Rewrites(a)
  PROVE  b \in Seq(Message) /\ Keeps(a, b) /\ Shrinks(a, b)
  BY RewritesType, ShortenKeeps, CollapseKeeps DEF Rewrites

\* Compression after a tool result keeps what has to be kept, and overflow
\* recovery does so and never returns the append zone it was given.
LEMMA CompressionKeeps ==
  ASSUME NEW a \in Seq(Message)
  PROVE  /\ \A b \in BudgetRewrites(a) : Keeps(a, b)
         /\ \A b \in OverflowRewrites(a) : Keeps(a, b) /\ b # a
<1>1. ASSUME NEW b \in BudgetRewrites(a) PROVE Keeps(a, b)
  <2>1. Keeps(a, a)
    BY DEF Keeps
  <2>2. QED  BY <2>1, RewritesKeep DEF BudgetRewrites
<1>2. ASSUME NEW b \in Seq(Message), Keeps(a, b) /\ Shrinks(a, b)
      PROVE  b # a
  <2>1. Len(a) \in Nat /\ Len(b) \in Nat
    BY LenProperties
  <2>2. QED  BY <1>2, <2>1 DEF Shrinks
<1>3. ASSUME NEW b \in Rewrites(a), NEW c \in Rewrites(b)
      PROVE  Keeps(a, c) /\ c # a
  <2>1. /\ b \in Seq(Message) /\ Keeps(a, b) /\ Shrinks(a, b)
        /\ c \in Seq(Message) /\ Keeps(b, c) /\ Shrinks(b, c)
    BY <1>3, RewritesKeep
  <2>2. Keeps(a, c)
    <3>1. \A i \in Nat : HasRole(a, i) => HasRole(c, i) \/ Summarised(c)
      BY <2>1 DEF Keeps
    <3>2. \A k \in DOMAIN c : c[k].kind = "role" =>
            \E j \in DOMAIN a : a[j] = c[k]
      BY <2>1 DEF Keeps
    <3>3. QED  BY <2>1, <3>1, <3>2 DEF Keeps
  <2>3. Shrinks(a, c)
    <3>1. /\ Len(a) \in Nat /\ Len(b) \in Nat /\ Len(c) \in Nat
          /\ DOMAIN a = 1..Len(a) /\ DOMAIN b = 1..Len(b)
      BY <2>1, LenProperties
    <3>2. CASE Len(b) < Len(a) \/ Len(c) < Len(b)
      <4>1. /\ Len(b) < Len(a) \/ Len(b) = Len(a)
            /\ Len(c) < Len(b) \/ Len(c) = Len(b)
        BY <2>1, Zenon DEF Shrinks
      <4>2. \A x, y, z \in Nat :
              (x < y \/ x = y) /\ (z < x \/ z = x) /\ (x < y \/ z < x) => z < y
        OBVIOUS
      <4>3. Len(c) < Len(a)
        BY <3>1, <3>2, <4>1, <4>2, Zenon
      <4>4. QED  BY <4>3 DEF Shrinks
    <3>3. CASE ~ (Len(b) < Len(a) \/ Len(c) < Len(b))
      <4>1. Len(b) = Len(a) /\ Len(c) = Len(b) /\ DOMAIN b = DOMAIN a
        BY <2>1, <3>1, <3>3 DEF Shrinks
      <4>2. /\ \A k \in DOMAIN a : a[k].kind = "short" => c[k].kind = "short"
            /\ \E k \in DOMAIN a : a[k].kind = "result" /\ c[k].kind = "short"
        BY <2>1, <3>3, <4>1 DEF Shrinks
      <4>3. QED  BY <4>1, <4>2 DEF Shrinks
    <3>4. QED  BY <3>2, <3>3
  <2>4. QED  BY <1>2, <2>1, <2>2, <2>3
<1>4. QED  BY <1>1, <1>2, <1>3, RewritesKeep DEF OverflowRewrites

----------------------------------------------------------------------------
\* Lemmas about growing histories.

\* From s to s2 no closed row changes, and a row that does is no tool step
\* that a record would have to list: it is open, was interrupted without
\* danger, or is a model call.
Extends(s, s2) ==
  /\ \A id \in DOMAIN s :
       /\ id \in DOMAIN s2
       /\ s[id].status # "running" => s2[id] = s[id]
  /\ \A id \in DOMAIN s2 :
       \/ id \in DOMAIN s /\ s2[id] = s[id]
       \/ s2[id].status \in {"running", "failed"}
       \/ s2[id].call = None /\ s2[id].status = "done"

\* Listed steps are closed, so an extension leaves them as they are.
LEMMA ListedKept ==
  ASSUME NEW s, NEW s2, Extends(s, s2), NEW m, NEW t, InOrder(s, m, t)
  PROVE  /\ \A k \in DOMAIN m.executed :
              s2[m.executed[k]] = s[m.executed[k]]
         /\ \A id \in Ids(m) : s2[id] = s[id]
<1>1. ASSUME NEW k \in DOMAIN m.executed
      PROVE  s2[m.executed[k]] = s[m.executed[k]]
  <2>1. /\ m.executed[k] \in DOMAIN s
        /\ s[m.executed[k]].status # "running"
    BY DEF InOrder
  <2>2. QED  BY <2>1 DEF Extends
<1>2. QED  BY <1>1 DEF Ids

\* What a history says of repetition depends on the rows it lists only.
LEMMA RunsKept ==
  ASSUME NEW s, NEW s2, NEW done,
         \A k \in DOMAIN done : s2[done[k]] = s[done[k]]
  PROVE  /\ NoTriple(s, done) => NoTriple(s2, done)
         /\ \A q : Window(s, done, q) => Window(s2, done, q)
<1>1. \A k : Executes(s2, done, k) <=> Executes(s, done, k)
  BY DEF Executes
<1>2. \A j, k : InARow(s2, done, j, k) <=> InARow(s, done, j, k)
  BY <1>1 DEF InARow
<1>3. \A k : Latest(s2, done, k) <=> Latest(s, done, k)
  BY <1>1 DEF Latest
<1>4. NoTriple(s, done) => NoTriple(s2, done)
  BY <1>2 DEF NoTriple
<1>5. ASSUME NEW q, Window(s, done, q) PROVE Window(s2, done, q)
  BY <1>2, <1>3, <1>5 DEF Window
<1>6. QED  BY <1>4, <1>5

\* A record that is good stays good while steps are opened and closed.
LEMMA GoodExtends ==
  ASSUME NEW s \in Seq(Step), NEW s2, Extends(s, s2),
         NEW m \in Runtime, NEW t, Good(s, m, t)
  PROVE  Good(s2, m, t)
<1>type. /\ m.executed \in Seq(Nat) /\ Len(m.executed) \in Nat
         /\ DOMAIN m.executed = 1..Len(m.executed)
         /\ \A id \in DOMAIN s : s[id] \in Step
  BY LenProperties, ElementOfSeq DEF Runtime
<1>1. InOrder(s, m, t) /\ AllListed(s, m) /\ Remembered(s, m)
  BY DEF Good, Ledger
<1>2. /\ \A k \in DOMAIN m.executed : s2[m.executed[k]] = s[m.executed[k]]
      /\ \A id \in Ids(m) : s2[id] = s[id]
  BY <1>1, ListedKept
<1>3. InOrder(s2, m, t)
  <2> SUFFICES ASSUME NEW k \in DOMAIN m.executed
               PROVE  LET id == m.executed[k]
                      IN  /\ id \in DOMAIN s2
                          /\ s2[id].call # None
                          /\ s2[id].status \in {"done", "failed", "skipped"}
                          /\ s2[id].index < t
                          /\ k > 1 => /\ m.executed[k - 1] < id
                                      /\ s2[m.executed[k - 1]].index
                                           < s2[id].index
    BY DEF InOrder
  <2> DEFINE id == m.executed[k]
  <2>1. /\ id \in DOMAIN s /\ s2[id] = s[id]
        /\ s[id].call # None
        /\ s[id].status \in {"done", "failed", "skipped"}
        /\ s[id].index < t
        /\ k > 1 => /\ m.executed[k - 1] < id
                    /\ s[m.executed[k - 1]].index < s[id].index
    BY <1>1, <1>2 DEF InOrder
  <2>2. k > 1 => s2[m.executed[k - 1]].index < s2[id].index
    <3>1. k > 1 => k - 1 \in DOMAIN m.executed
      BY <1>type
    <3>2. QED  BY <1>2, <2>1, <3>1
  <2>3. QED  BY <2>1, <2>2 DEF Extends
<1>4. AllListed(s2, m)
  BY <1>1 DEF AllListed, Extends
<1>5. Charged(s2, m) = Charged(s, m)
  BY <1>2 DEF Charged
<1>6. Remembered(s2, m)
  <2> SUFFICES ASSUME NEW id \in DOMAIN s2, s2[id].status = "uncertain"
               PROVE  \/ /\ id \in m.uncertain /\ s2[id].call \in m.blocked
                         /\ Warned(m.append)
                      \/ RefusedLater(s2, id)
    BY DEF Remembered
  <2>1. id \in DOMAIN s /\ s2[id] = s[id]
    BY DEF Extends
  <2>2. CASE RefusedLater(s, id)
    <3>1. PICK later \in DOMAIN s :
            later > id /\ s[later] = [s[id] EXCEPT !.status = "skipped",
                                                   !.index  = s[later].index]
      BY <2>2 DEF RefusedLater
    <3>2. s[later].status = "skipped"
      BY <1>type, <2>1, <3>1 DEF Step
    <3>3. QED  BY <2>1, <3>1, <3>2 DEF RefusedLater, Extends
  <2>3. QED  BY <1>1, <2>1, <2>2 DEF Remembered
<1>7. NoTriple(s2, m.executed)
  BY <1>2, RunsKept DEF Good
<1>8. QED
  BY <1>3, <1>4, <1>5, <1>6, <1>7 DEF Good, Ledger

\* Recording a step, and closing a model call, extends the table.
LEMMA OpenExtends ==
  ASSUME NEW s \in Seq(Step), NEW i \in Nat, NEW c \in Calls \union {None}
  PROVE  Extends(s, Append(s, Row(i, c)))
<1>1. Row(i, c) \in Step /\ Row(i, c).status = "running"
  BY DEF Row, Step, Statuses
<1>2. Len(s) \in Nat /\ DOMAIN s = 1..Len(s)
  BY LenProperties
<1> DEFINE s2 == Append(s, Row(i, c))
<1>3. /\ s2 \in Seq(Step) /\ Len(s2) = Len(s) + 1
      /\ \A id \in 1..Len(s) : s2[id] = s[id]
      /\ s2[Len(s) + 1] = Row(i, c)
  BY <1>1, AppendProperties
<1> HIDE DEF s2
<1>4. DOMAIN s2 = 1..(Len(s) + 1)
  BY <1>3, LenProperties
<1>5. Extends(s, s2)
  BY <1>1, <1>2, <1>3, <1>4 DEF Extends
<1>6. QED  BY <1>5 DEF s2

\* Closing the open model call changes no row that a record lists.
LEMMA CloseExtends ==
  ASSUME NEW s \in Seq(Step), NEW id \in DOMAIN s,
         s[id].status = "running", s[id].call = None,
         NEW st \in {"failed", "done"}
  PROVE  Extends(s, [s EXCEPT ![id].status = st])
<1>1. s[id] \in Step
  BY LenProperties, ElementOfSeq
<1> DEFINE s2 == [s EXCEPT ![id].status = st]
<1>2. DOMAIN s2 = DOMAIN s
  OBVIOUS
<1>3. s2[id].status = st /\ s2[id].call = None
  BY <1>1 DEF Step
<1>4. \A k \in DOMAIN s : k # id => s2[k] = s[k]
  OBVIOUS
<1> HIDE DEF s2
<1>5. Extends(s, s2)
  BY <1>2, <1>3, <1>4 DEF Extends
<1>6. QED  BY <1>5 DEF s2

----------------------------------------------------------------------------
\* Lemmas about the repetition detector.

\* What the window of recent calls ends with after a push.
LEMMA PushedEnds ==
  ASSUME NEW q \in Seq(Calls), NEW c \in Calls, Len(q) <= NoProgressRepeat,
         NEW p \in Seq(Calls), p = Pushed(q, c)
  PROVE  /\ Len(p) \in 1..3
         /\ p[Len(p)] = c
         /\ Len(q) >= 1 => Len(p) >= 2 /\ p[Len(p) - 1] = q[Len(q)]
         /\ Len(q) >= 2 => Len(p) = 3 /\ p[1] = q[Len(q) - 1]
<1>1. Len(q) \in Nat /\ Len(q) <= 3
  BY LenProperties DEF NoProgressRepeat
<1>2. p = Pushed(q, c)
  OBVIOUS
<1>3. CASE Len(q) < 3
  <2>1. p = Append(q, c)
    BY <1>2, <1>3 DEF Pushed, NoProgressRepeat
  <2>2. /\ Len(p) = Len(q) + 1
        /\ \A i \in 1..Len(q) : p[i] = q[i]
        /\ p[Len(q) + 1] = c
    BY <2>1, AppendProperties
  <2>3. Len(p) \in 1..3 /\ p[Len(p)] = c
    BY <1>1, <1>3, <2>2
  <2>4. Len(q) >= 1 => Len(p) >= 2 /\ p[Len(p) - 1] = q[Len(q)]
    BY <1>1, <1>3, <2>2
  <2>5. Len(q) >= 2 => Len(p) = 3 /\ p[1] = q[Len(q) - 1]
    BY <1>1, <1>3, <2>2
  <2>6. QED  BY <1>2, <2>3, <2>4, <2>5
<1>4. CASE Len(q) = 3
  <2>1. q # <<>>
    BY <1>4, EmptySeq
  <2>2. PICK r \in Seq(Calls) : r = Tail(q)
    BY <2>1, HeadTailProperties
  <2>3. Len(r) = Len(q) - 1 /\ \A i \in 1..Len(r) : r[i] = q[i + 1]
    BY <2>1, <2>2, HeadTailProperties
  <2>9. Len(r) = 2 /\ r[1] = q[2] /\ r[2] = q[3]
    BY <1>4, <2>3
  <2>4. p = Append(r, c)
    BY <1>2, <1>4, <2>2 DEF Pushed, NoProgressRepeat
  <2>5. /\ Len(p) = Len(r) + 1 /\ p[Len(r) + 1] = c
        /\ \A i \in 1..Len(r) : p[i] = r[i]
    BY <2>4, AppendProperties
  <2>6. Len(p) = 3 /\ p[1] = q[2] /\ p[2] = q[3] /\ p[3] = c
    BY <2>5, <2>9
  <2>7. /\ Len(p) \in 1..3 /\ p[Len(p)] = c
        /\ Len(p) >= 2 /\ p[Len(p) - 1] = q[Len(q)]
        /\ p[1] = q[Len(q) - 1]
    BY <1>4, <2>6
  <2>8. /\ Len(p) \in 1..3 /\ p[Len(p)] = c
        /\ Len(q) >= 1 => Len(p) >= 2 /\ p[Len(p) - 1] = q[Len(q)]
        /\ Len(q) >= 2 => Len(p) = 3 /\ p[1] = q[Len(q) - 1]
    BY <2>6, <2>7
  <2>10. QED  BY <1>2, <2>8
<1>5. Len(q) < 3 \/ Len(q) = 3
  <2>1. \A n \in Nat : n <= 3 => n < 3 \/ n = 3
    OBVIOUS
  <2>2. QED  BY <1>1, <2>1, Zenon
<1>6. QED  BY <1>3, <1>4, <1>5, Zenon

\* A push that is not executed, of a run that is stuck, ends the window as
\* it ended before.
LEMMA StuckKeepsWindow ==
  ASSUME NEW s, NEW done, NEW q \in Seq(Calls), NEW c \in Calls,
         Window(s, done, q), Stuck(Pushed(q, c))
  PROVE  Window(s, done, Pushed(q, c))
<1>1. PICK p \in Seq(Calls) : p = Pushed(q, c)
  BY PushedType
<1>2. /\ Len(p) \in 1..3 /\ p[Len(p)] = c
      /\ Len(q) >= 1 => Len(p) >= 2 /\ p[Len(p) - 1] = q[Len(q)]
  BY <1>1, PushedEnds DEF Window
<1>3. Len(p) = 3 /\ \A i \in DOMAIN p : p[i] = p[1]
  BY <1>1 DEF Stuck, NoProgressRepeat
<1>4. p[1] = c /\ p[2] = c /\ p[3] = c
  BY <1>2, <1>3, LenProperties
<1>5. Len(q) >= 1 => q[Len(q)] = c
  BY <1>2, <1>3, <1>4
<1>6. Len(p) <= NoProgressRepeat
  BY <1>3 DEF NoProgressRepeat
<1>7. ASSUME NEW k \in DOMAIN done, Latest(s, done, k)
      PROVE  s[done[k]].call = c
  BY <1>5, <1>7 DEF Window
<1>8. Len(p) >= 1 /\ Len(p) >= 2 /\ p[Len(p)] = c /\ p[Len(p) - 1] = c
  BY <1>3, <1>4
<1>9. Window(s, done, p)
  BY <1>6, <1>7, <1>8 DEF Window
<1>10. QED  BY <1>1, <1>9

\* A history that grows by one executed call ends with that call; a refused
\* one does not count.
LEMMA RunsAppend ==
  ASSUME NEW s, NEW s2, NEW done \in Seq(Nat), NEW id \in Nat,
         \A k \in DOMAIN done : s2[done[k]] = s[done[k]]
  PROVE  LET d2 == Append(done, id)
             n  == Len(done) + 1
         IN  /\ \A k \in DOMAIN done : d2[k] = done[k]
             /\ DOMAIN d2 = DOMAIN done \union {n}
             /\ d2[n] = id /\ n \notin DOMAIN done
             /\ \A j, k \in DOMAIN done :
                  InARow(s2, d2, j, k) <=> InARow(s, done, j, k)
             /\ s2[id].status # "skipped" =>
                  /\ \A j \in DOMAIN done :
                       InARow(s2, d2, j, n) => Latest(s, done, j)
                  /\ \A k \in DOMAIN d2 : Latest(s2, d2, k) => k = n
             /\ s2[id].status = "skipped" =>
                  /\ ~ Executes(s2, d2, n)
                  /\ \A k \in DOMAIN d2 : Latest(s2, d2, k) =>
                       k \in DOMAIN done /\ Latest(s, done, k)
<1> DEFINE d2 == Append(done, id)
           n  == Len(done) + 1
<1>1. /\ d2 \in Seq(Nat) /\ Len(d2) = n
      /\ \A k \in 1..Len(done) : d2[k] = done[k]
      /\ d2[n] = id
  BY AppendProperties
<1>2. /\ Len(done) \in Nat /\ DOMAIN done = 1..Len(done) /\ DOMAIN d2 = 1..n
  BY <1>1, LenProperties
<1> HIDE DEF d2
<1>3. /\ \A k \in DOMAIN done : d2[k] = done[k]
      /\ DOMAIN d2 = DOMAIN done \union {n}
      /\ n \notin DOMAIN done /\ n \in Nat
      /\ \A k \in DOMAIN done : k \in Nat /\ k < n
  BY <1>1, <1>2
<1>4. /\ \A k \in DOMAIN done : Executes(s2, d2, k) <=> Executes(s, done, k)
      /\ Executes(s2, d2, n) <=> s2[id].status # "skipped"
  BY <1>1, <1>3 DEF Executes
<1>5. ASSUME NEW j \in DOMAIN done, NEW k \in DOMAIN done
      PROVE  InARow(s2, d2, j, k) <=> InARow(s, done, j, k)
  <2>1. \A l \in (j + 1)..(k - 1) : l \in DOMAIN done
    BY <1>2
  <2>2. QED  BY <1>4, <2>1 DEF InARow
<1>6. ASSUME NEW j \in DOMAIN done, InARow(s2, d2, j, n)
      PROVE  Latest(s, done, j)
  <2>1. \A l \in DOMAIN done : l > j => l \in (j + 1)..(n - 1)
    BY <1>2
  <2>2. QED  BY <1>4, <1>6, <2>1 DEF InARow, Latest
<1>7. ASSUME s2[id].status # "skipped",
             NEW k \in DOMAIN d2, Latest(s2, d2, k)
      PROVE  k = n
  BY <1>3, <1>4, <1>7 DEF Latest
<1>8. ASSUME s2[id].status = "skipped",
             NEW k \in DOMAIN d2, Latest(s2, d2, k)
      PROVE  k \in DOMAIN done /\ Latest(s, done, k)
  BY <1>3, <1>4, <1>8 DEF Latest
<1>9. QED
  BY <1>1, <1>3, <1>4, <1>5, <1>6, <1>7, <1>8 DEF d2

----------------------------------------------------------------------------
\* Lemmas about the transaction at the end of a tool step.

\* The newest row of s, id, is closed with status st as the step at resume
\* point t, and the record goes from m to m2.
Recorded(s, m, t, id, st, s2, m2) ==
  /\ id \in DOMAIN s /\ id = Len(s)
  /\ s[id].status = "running" /\ s[id].call \in Calls /\ s[id].index = t
  /\ st \in {"done", "failed", "skipped"}
  /\ s2 = [s EXCEPT ![id].status = st]
  /\ m2.executed = Append(m.executed, id) /\ m2.active = None
  /\ m2.retries = m.retries
  /\ m2.tool_calls = IF st = "skipped" THEN m.tool_calls
                                       ELSE m.tool_calls + 1
  /\ st # "skipped" => /\ m2.blocked = m.blocked
                       /\ m2.uncertain = m.uncertain
  /\ st = "skipped" =>
       /\ m2.blocked = m.blocked \ {s[id].call}
       /\ m2.uncertain = {i \in m.uncertain : s[i].call # s[id].call}
  /\ Keeps(Append(m.append, Msg("result", id)), m2.append)

\* The ledger after step id, the newest row, is recorded at resume point t.
LEMMA LedgerGrows ==
  ASSUME NEW s \in Seq(Step), NEW m \in Runtime, NEW t \in Nat,
         NEW id, NEW st, NEW s2 \in Seq(Step), NEW m2 \in Runtime,
         Recorded(s, m, t, id, st, s2, m2), Ledger(s, m, t)
  PROVE  /\ Ledger(s2, m2, t + 1)
         /\ \A k \in DOMAIN m.executed :
              s2[m.executed[k]] = s[m.executed[k]]
<1>0. /\ id \in DOMAIN s /\ id = Len(s)
      /\ s[id].status = "running" /\ s[id].call # None /\ s[id].index = t
      /\ st \in {"done", "failed", "skipped"}
      /\ s2 = [s EXCEPT ![id].status = st]
      /\ m2.executed = Append(m.executed, id)
      /\ m2.tool_calls = IF st = "skipped" THEN m.tool_calls
                                           ELSE m.tool_calls + 1
  BY CallsAssumption DEF Recorded
<1> USE <1>0
<1> DEFINE e == m.executed
           n == Len(e) + 1
<1>1. /\ e \in Seq(Nat) /\ Len(e) \in Nat /\ DOMAIN e = 1..Len(e)
      /\ m2.executed \in Seq(Nat)
  BY LenProperties DEF Runtime
<1>2. /\ Len(s) \in Nat /\ DOMAIN s = 1..Len(s) /\ id \in Nat
      /\ \A k \in DOMAIN s : s[k] \in Step
  BY LenProperties, ElementOfSeq
<1>3. /\ DOMAIN s2 = DOMAIN s
      /\ s2[id] = [s[id] EXCEPT !.status = st]
      /\ \A k \in DOMAIN s : k # id => s2[k] = s[k]
  OBVIOUS
<1>4. s2[id].status = st /\ s2[id].call # None /\ s2[id].index = t
  BY <1>2, <1>3 DEF Step
<1>5. /\ Len(m2.executed) = n
      /\ \A k \in 1..Len(e) : m2.executed[k] = e[k]
      /\ m2.executed[n] = id
  BY <1>1, <1>2, AppendProperties
<1>6. DOMAIN m2.executed = 1..n
  BY <1>1, <1>5, LenProperties
<1>7. \A k \in DOMAIN e :
        /\ e[k] \in DOMAIN s /\ e[k] # id /\ e[k] < id
        /\ s[e[k]].call # None
        /\ s[e[k]].status \in {"done", "failed", "skipped"}
        /\ s[e[k]].index < t
        /\ k > 1 => /\ e[k - 1] < e[k] /\ s[e[k - 1]].index < s[e[k]].index
  <2> SUFFICES ASSUME NEW k \in DOMAIN e
               PROVE  /\ e[k] \in DOMAIN s /\ e[k] # id /\ e[k] < id
                      /\ s[e[k]].call # None
                      /\ s[e[k]].status \in {"done", "failed", "skipped"}
                      /\ s[e[k]].index < t
                      /\ k > 1 => /\ e[k - 1] < e[k]
                                  /\ s[e[k - 1]].index < s[e[k]].index
    OBVIOUS
  <2>1. /\ e[k] \in DOMAIN s
        /\ s[e[k]].call # None
        /\ s[e[k]].status \in {"done", "failed", "skipped"}
        /\ s[e[k]].index < t
        /\ k > 1 => /\ e[k - 1] < e[k] /\ s[e[k - 1]].index < s[e[k]].index
    BY DEF Ledger, InOrder
  <2>2. e[k] # id
    BY <2>1
  <2>3. e[k] < id
    BY <1>2, <2>1, <2>2
  <2>4. QED  BY <2>1, <2>2, <2>3
<1>8. \A k \in DOMAIN e : s2[e[k]] = s[e[k]]
  BY <1>3, <1>7
<1>9. InOrder(s2, m2, t + 1)
  <2> SUFFICES ASSUME NEW k \in 1..n
               PROVE  LET i == m2.executed[k]
                      IN  /\ i \in DOMAIN s2
                          /\ s2[i].call # None
                          /\ s2[i].status \in {"done", "failed", "skipped"}
                          /\ s2[i].index < t + 1
                          /\ k > 1 => /\ m2.executed[k - 1] < i
                                      /\ s2[m2.executed[k - 1]].index
                                           < s2[i].index
    BY <1>6 DEF InOrder
  <2>1. CASE k \in 1..Len(e)
    <3>1. m2.executed[k] = e[k] /\ s2[e[k]] = s[e[k]] /\ k \in DOMAIN e
      BY <1>1, <1>5, <1>8, <2>1
    <3>2. s[e[k]].index \in Nat
      BY <1>2, <1>7, <3>1 DEF Step
    <3>3. k > 1 => k - 1 \in DOMAIN e /\ m2.executed[k - 1] = e[k - 1]
      BY <1>1, <1>5, <2>1
    <3>4. s[e[k]].index < t + 1
      BY <1>7, <3>1, <3>2
    <3>5. k > 1 => /\ m2.executed[k - 1] < e[k]
                   /\ s2[m2.executed[k - 1]].index < s2[e[k]].index
      BY <1>7, <1>8, <3>1, <3>3
    <3>6. /\ e[k] \in DOMAIN s2 /\ s2[e[k]].call # None
          /\ s2[e[k]].status \in {"done", "failed", "skipped"}
      BY <1>3, <1>7, <3>1
    <3>7. QED  BY <3>1, <3>4, <3>5, <3>6
  <2>2. CASE k = n
    <3>1. m2.executed[k] = id
      BY <1>5, <2>2
    <3>2. k > 1 => k - 1 \in DOMAIN e /\ m2.executed[k - 1] = e[k - 1]
      BY <1>1, <1>5, <2>2
    <3>3. k > 1 => /\ m2.executed[k - 1] < id
                   /\ s2[m2.executed[k - 1]].index < s2[id].index
      BY <1>4, <1>7, <1>8, <3>2
    <3>4. s2[id].index < t + 1 /\ id \in DOMAIN s2
      BY <1>3, <1>4
    <3>5. QED  BY <1>4, <3>1, <3>3, <3>4
  <2>3. k \in 1..Len(e) \/ k = n
    <3>1. \A x \in Nat : \A y \in 1..(x + 1) : y \in 1..x \/ y = x + 1
      OBVIOUS
    <3>2. QED  BY <1>1, <3>1, Zenon
  <2>4. QED  BY <2>1, <2>2, <2>3
<1>10. Ids(m2) = Ids(m) \union {id} /\ id \notin Ids(m)
  <2>1. DOMAIN m2.executed = DOMAIN e \union {n}
    BY <1>1, <1>6
  <2>2. \A k \in DOMAIN e : m2.executed[k] = e[k]
    BY <1>1, <1>5
  <2>3. QED  BY <1>5, <1>7, <2>1, <2>2 DEF Ids
<1>11. AllListed(s2, m2)
  BY <1>3, <1>10 DEF Ledger, AllListed
<1>12. m2.tool_calls = Cardinality(Charged(s2, m2))
  <2>1. Charged(s2, m2) = IF st = "skipped" THEN Charged(s, m)
                          ELSE Charged(s, m) \union {id}
    <3>1. \A i \in Ids(m) : s2[i] = s[i]
      BY <1>8 DEF Ids
    <3>2. Charged(s, m) = {i \in Ids(m) : s2[i].status # "skipped"}
      BY <3>1 DEF Charged
    <3>3. CASE st = "skipped"
      BY <1>4, <1>10, <3>2, <3>3 DEF Charged
    <3>4. CASE st # "skipped"
      BY <1>4, <1>10, <3>2, <3>4 DEF Charged
    <3>5. QED  BY <3>3, <3>4
  <2>2. IsFiniteSet(Charged(s, m)) /\ id \notin Charged(s, m)
    <3>1. IsFiniteSet(1..Len(s))
      <4>1. \A x \in Nat : x \in Int
        OBVIOUS
      <4>2. 1 \in Int /\ Len(s) \in Int
        BY <1>2, <4>1
      <4>3. QED  BY <4>2, FS_Interval, Zenon
    <3>2. Charged(s, m) \subseteq 1..Len(s)
      BY <1>2, <1>7 DEF Charged, Ids
    <3>3. QED  BY <1>10, <3>1, <3>2, FS_Subset DEF Charged
  <2>3. Cardinality(Charged(s, m) \union {id})
          = Cardinality(Charged(s, m)) + 1
    BY <2>2, FS_AddElement
  <2>4. QED  BY <2>1, <2>3 DEF Ledger
<1>13. QED  BY <1>8, <1>9, <1>11, <1>12 DEF Ledger

\* What the append zone b says that is a with the message x appended.
Says(a, x, b) ==
  /\ x.kind # "role" => (RolesOnce(a) => RolesOnce(b))
  /\ (\A k \in DOMAIN a : a[k] # x) => (RolesOnce(a) => RolesOnce(b))
  /\ \A k \in DOMAIN b : b[k] = x \/ \E j \in DOMAIN a : a[j] = b[k]
  /\ \A i \in Nat : HasRole(a, i) => HasRole(b, i)
  /\ \A i \in Nat : x = Msg("role", i) => HasRole(b, i)
  /\ Summarised(a) => Summarised(b)
  /\ Warned(a) => Warned(b)
  /\ x.kind = "resume" => Warned(b)
  /\ b # a /\ b # <<>>

\* An appended message is the only one that is new.
LEMMA AppendSays ==
  ASSUME NEW a \in Seq(Message), NEW x \in Message,
         NEW b \in Seq(Message), b = Append(a, x)
  PROVE  Says(a, x, b)
<1> DEFINE n == Len(a) + 1
<1>1. /\ Len(b) = n /\ b[n] = x /\ b # <<>>
      /\ \A k \in 1..Len(a) : b[k] = a[k]
  BY AppendProperties
<1>2. /\ Len(a) \in Nat /\ DOMAIN a = 1..Len(a) /\ DOMAIN b = 1..n
  BY <1>1, LenProperties
<1>3. /\ DOMAIN b = DOMAIN a \union {n} /\ n \notin DOMAIN a
      /\ \A k \in DOMAIN a : b[k] = a[k]
  BY <1>1, <1>2
<1> HIDE DEF n
<1>4. /\ x.kind # "role" => (RolesOnce(a) => RolesOnce(b))
      /\ (\A k \in DOMAIN a : a[k] # x) => (RolesOnce(a) => RolesOnce(b))
  BY <1>1, <1>3 DEF RolesOnce
<1>5. /\ \A i \in Nat : HasRole(a, i) => HasRole(b, i)
      /\ \A i \in Nat : x = Msg("role", i) => HasRole(b, i)
  BY <1>1, <1>3 DEF HasRole
<1>6. /\ Summarised(a) => Summarised(b)
      /\ Warned(a) => Warned(b)
      /\ x.kind = "resume" => Warned(b)
  BY <1>1, <1>3 DEF Summarised, Warned
<1>7. b # a
  BY <1>3
<1>8. QED  BY <1>1, <1>3, <1>4, <1>5, <1>6, <1>7 DEF Says

\* The next step is not told its role yet.
LEMMA ToldGrows ==
  ASSUME NEW m \in Runtime, NEW t \in Nat, Told(m, t),
         NEW x \in Message, x.kind = "result",
         NEW m2 \in Runtime, m2.active = None,
         Keeps(Append(m.append, x), m2.append)
  PROVE  Told(m2, t + 1)
<1>1. PICK a \in Seq(Message) : a = m.append
  BY DEF Runtime
<1>2. PICK b \in Seq(Message) : b = Append(a, x)
  BY AppendProperties
<1>3. /\ RolesOnce(b)
      /\ \A k \in DOMAIN b : b[k] = x \/ \E j \in DOMAIN a : a[j] = b[k]
  <2>1. RolesOnce(a) /\ x.kind # "role"
    BY <1>1 DEF Told
  <2>2. Says(a, x, b)
    BY <1>1, <1>2, AppendSays
  <2>3. QED  BY <2>1, <2>2 DEF Says
<1>4. RolesOnce(m2.append)
  BY <1>1, <1>2, <1>3 DEF Keeps
<1>5. ASSUME NEW k \in DOMAIN m2.append, m2.append[k].kind = "role"
      PROVE  m2.append[k].of < t + 1
  <2>1. PICK j \in DOMAIN a : a[j] = m2.append[k]
    <3>1. PICK l \in DOMAIN b : b[l] = m2.append[k]
      BY <1>1, <1>2, <1>5 DEF Keeps
    <3>2. b[l] # x
      BY <1>5, <3>1
    <3>3. QED  BY <1>3, <3>1, <3>2
  <2>2. a[j] \in Message /\ a[j].of \in Nat
    <3>1. DOMAIN a = 1..Len(a) /\ a \in Seq(Message)
      BY <1>1, LenProperties
    <3>2. a[j] \in Message
      BY <3>1, ElementOfSeq
    <3>3. QED  BY <3>2 DEF Message
  <2>3. a[j].of < t \/ a[j].of = t
    BY <1>1, <1>5, <2>1 DEF Told
  <2>4. QED  BY <2>1, <2>2, <2>3
<1>6. QED  BY <1>4, <1>5 DEF Told

\* A result neither hides an uncertain step nor its guard; a refusal says of
\* the uncertain steps with the same call that it is later than they are.
LEMMA RememberedGrows ==
  ASSUME NEW s \in Seq(Step), NEW m \in Runtime, NEW t \in Nat,
         NEW id, NEW st, NEW s2 \in Seq(Step), NEW m2 \in Runtime,
         Recorded(s, m, t, id, st, s2, m2), Remembered(s, m),
         Warned(m.append) => Warned(m2.append)
  PROVE  Remembered(s2, m2)
<1>0. /\ id \in DOMAIN s /\ id = Len(s) /\ s[id].status = "running"
      /\ st \in {"done", "failed", "skipped"}
      /\ s2 = [s EXCEPT ![id].status = st]
      /\ st # "skipped" => /\ m2.blocked = m.blocked
                           /\ m2.uncertain = m.uncertain
      /\ st = "skipped" =>
           /\ m2.blocked = m.blocked \ {s[id].call}
           /\ m2.uncertain = {i \in m.uncertain : s[i].call # s[id].call}
  BY DEF Recorded
<1> USE <1>0
<1>1. /\ Len(s) \in Nat /\ DOMAIN s = 1..Len(s)
      /\ \A k \in DOMAIN s : s[k] \in Step
  BY LenProperties, ElementOfSeq
<1>2. /\ DOMAIN s2 = DOMAIN s
      /\ s2[id] = [s[id] EXCEPT !.status = st]
      /\ \A k \in DOMAIN s : k # id => s2[k] = s[k]
  OBVIOUS
<1>3. s2[id].status = st /\ s2[id].call = s[id].call
  BY <1>1, <1>2 DEF Step
<1> SUFFICES ASSUME NEW i \in DOMAIN s2, s2[i].status = "uncertain"
             PROVE  \/ /\ i \in m2.uncertain /\ s2[i].call \in m2.blocked
                       /\ Warned(m2.append)
                    \/ RefusedLater(s2, i)
  BY DEF Remembered
<1>4. i # id /\ i \in DOMAIN s /\ s2[i] = s[i]
  BY <1>2, <1>3
<1>5. i < id
  <2>1. \A x \in Nat : \A y \in 1..x : y # x => y < x
    OBVIOUS
  <2>2. QED  BY <1>1, <1>4, <2>1, Zenon
<1>6. CASE RefusedLater(s, i)
  <2>1. PICK later \in DOMAIN s :
          later > i /\ s[later] = [s[i] EXCEPT !.status = "skipped",
                                               !.index  = s[later].index]
    BY <1>6 DEF RefusedLater
  <2>2. s[later].status = "skipped"
    BY <1>1, <1>4, <2>1 DEF Step
  <2>3. s2[later] = s[later] /\ later \in DOMAIN s2
    BY <1>2, <2>2
  <2>4. QED  BY <1>4, <2>1, <2>3 DEF RefusedLater
<1>7. CASE ~ RefusedLater(s, i)
  <2>1. i \in m.uncertain /\ s[i].call \in m.blocked /\ Warned(m.append)
    BY <1>4, <1>7 DEF Remembered
  <2>2. CASE st = "skipped" /\ s[i].call = s[id].call
    <3>1. s2[id] = [s2[i] EXCEPT !.status = "skipped",
                                 !.index  = s2[id].index]
      <4>1. \A y, z \in Step : y.call = z.call =>
              [y EXCEPT !.status = "skipped"]
                = [z EXCEPT !.status = "skipped", !.index = y.index]
        BY DEF Step
      <4>2. s2[id].index = s[id].index
        BY <1>1, <1>2 DEF Step
      <4>3. s[id] \in Step /\ s[i] \in Step
        BY <1>1, <1>4
      <4>4. [s[id] EXCEPT !.status = "skipped"]
              = [s[i] EXCEPT !.status = "skipped", !.index = s[id].index]
        BY <2>2, <4>1, <4>3
      <4>6. s2[id] = [s[id] EXCEPT !.status = "skipped"]
        BY <1>2, <2>2
      <4>5. QED  BY <1>4, <4>2, <4>4, <4>6
    <3>2. id > i
      <4>1. \A x \in Nat : \A y \in 1..x : y < x => x > y
        OBVIOUS
      <4>2. QED  BY <1>1, <1>4, <1>5, <4>1, Zenon
    <3>3. QED  BY <1>2, <3>1, <3>2 DEF RefusedLater
  <2>3. CASE ~ (st = "skipped" /\ s[i].call = s[id].call)
    BY <1>4, <2>1, <2>3
  <2>4. QED  BY <2>2, <2>3
<1>8. QED  BY <1>6, <1>7

\* The window r that is stored with step id, if it was q before.
Slides(s2, id, q, r) ==
  /\ s2[id].call \in Calls
  /\ s2[id].status = "skipped" => r = q
  /\ s2[id].status # "skipped" => r = Pushed(q, s2[id].call) /\ ~ Stuck(r)

\* A call executes only if the window, with it, is not stuck: then it is not
\* the third in a row.
LEMMA RepetitionGrows ==
  ASSUME NEW s, NEW s2, NEW done \in Seq(Nat), NEW id \in Nat,
         \A k \in DOMAIN done : s2[done[k]] = s[done[k]],
         NoTriple(s, done),
         NEW q \in Seq(Calls), Window(s, done, q),
         NEW r, Slides(s2, id, q, r)
  PROVE  /\ NoTriple(s2, Append(done, id))
         /\ Window(s2, Append(done, id), r)
<1>0. /\ s2[id].call \in Calls
      /\ s2[id].status = "skipped" => r = q
      /\ s2[id].status # "skipped" => r = Pushed(q, s2[id].call) /\ ~ Stuck(r)
  BY DEF Slides
<1> DEFINE d2 == Append(done, id)
           n  == Len(done) + 1
           c  == s2[id].call
<1>1. /\ \A k \in DOMAIN done : d2[k] = done[k]
      /\ DOMAIN d2 = DOMAIN done \union {n}
      /\ d2[n] = id /\ n \notin DOMAIN done
      /\ \A j, k \in DOMAIN done :
           InARow(s2, d2, j, k) <=> InARow(s, done, j, k)
      /\ s2[id].status # "skipped" =>
           /\ \A j \in DOMAIN done : InARow(s2, d2, j, n) => Latest(s, done, j)
           /\ \A k \in DOMAIN d2 : Latest(s2, d2, k) => k = n
      /\ s2[id].status = "skipped" =>
           /\ ~ Executes(s2, d2, n)
           /\ \A k \in DOMAIN d2 : Latest(s2, d2, k) =>
                k \in DOMAIN done /\ Latest(s, done, k)
  BY RunsAppend
<1>2. /\ \A k \in DOMAIN d2 : k \in Nat /\ k <= n
      /\ n \in Nat
  <2>1. Len(done) \in Nat /\ DOMAIN done = 1..Len(done)
    BY LenProperties
  <2>2. \A x \in Nat : \A y \in 1..x : y \in Nat /\ y <= x + 1 /\ x + 1 \in Nat
    OBVIOUS
  <2>3. \A x \in Nat : x + 1 \in Nat /\ x + 1 <= x + 1
    OBVIOUS
  <2>4. QED  BY <1>1, <2>1, <2>2, <2>3, Zenon
<1> HIDE DEF d2, n
<1>3. \A i, j \in DOMAIN d2 : InARow(s2, d2, i, j) => i \in DOMAIN done
  BY <1>1, <1>2 DEF InARow
<1>4. CASE s2[id].status = "skipped"
  <2>1. \A i, j \in DOMAIN d2 : InARow(s2, d2, i, j) =>
          /\ i \in DOMAIN done /\ j \in DOMAIN done
          /\ InARow(s, done, i, j)
    BY <1>1, <1>3, <1>4 DEF InARow
  <2>3. \A k \in DOMAIN done : s2[d2[k]] = s[done[k]]
    BY <1>1
  <2>2. NoTriple(s2, d2)
    <3> SUFFICES ASSUME NEW i \in DOMAIN d2, NEW j \in DOMAIN d2,
                        NEW k \in DOMAIN d2,
                        InARow(s2, d2, i, j), InARow(s2, d2, j, k)
                 PROVE  ~ /\ s2[d2[i]].call = s2[d2[j]].call
                          /\ s2[d2[j]].call = s2[d2[k]].call
      BY DEF NoTriple
    <3>1. /\ i \in DOMAIN done /\ j \in DOMAIN done /\ k \in DOMAIN done
          /\ InARow(s, done, i, j) /\ InARow(s, done, j, k)
      BY <2>1
    <3>2. ~ /\ s[done[i]].call = s[done[j]].call
            /\ s[done[j]].call = s[done[k]].call
      BY <3>1 DEF NoTriple
    <3>3. /\ s2[d2[i]] = s[done[i]]
          /\ s2[d2[j]] = s[done[j]]
          /\ s2[d2[k]] = s[done[k]]
      BY <2>3, <3>1
    <3>4. QED  BY <3>2, <3>3
  <2>5. ASSUME NEW k \in DOMAIN d2, Latest(s2, d2, k)
        PROVE  /\ Len(q) >= 1 /\ q[Len(q)] = s2[d2[k]].call
               /\ \A j \in DOMAIN d2 :
                    /\ InARow(s2, d2, j, k)
                    /\ s2[d2[j]].call = s2[d2[k]].call
                    => Len(q) >= 2 /\ q[Len(q) - 1] = s2[d2[k]].call
    <3>1. k \in DOMAIN done /\ Latest(s, done, k)
      BY <1>1, <1>4, <2>5
    <3>2. /\ Len(q) >= 1 /\ q[Len(q)] = s[done[k]].call
          /\ \A j \in DOMAIN done :
               InARow(s, done, j, k) /\ s[done[j]].call = s[done[k]].call
                 => Len(q) >= 2 /\ q[Len(q) - 1] = s[done[k]].call
      BY <3>1 DEF Window
    <3>3. QED  BY <2>1, <2>3, <3>1, <3>2
  <2>6. Window(s2, d2, q)
    BY <2>5 DEF Window
  <2>7. QED  BY <1>0, <1>4, <2>2, <2>6 DEF d2
<1>5. CASE s2[id].status # "skipped"
  <2>1. PICK p \in Seq(Calls) : p = r
    BY <1>0, <1>5, PushedType
  <2>2. /\ Len(p) \in 1..3 /\ p[Len(p)] = c
        /\ Len(q) >= 1 => Len(p) >= 2 /\ p[Len(p) - 1] = q[Len(q)]
        /\ Len(q) >= 2 => Len(p) = 3 /\ p[1] = q[Len(q) - 1]
    BY <1>0, <1>5, <2>1, PushedEnds DEF Window
  <2>3. ~ Stuck(p)
    BY <1>0, <1>5, <2>1
  <2>4. ASSUME NEW j \in DOMAIN done, InARow(s2, d2, j, n),
               s[done[j]].call = c
        PROVE  /\ Latest(s, done, j)
               /\ Len(q) >= 1 /\ q[Len(q)] = c
               /\ Len(p) >= 2 /\ p[Len(p) - 1] = c
               /\ ~ \E i \in DOMAIN done : /\ InARow(s, done, i, j)
                                           /\ s[done[i]].call = c
    <3>1. Latest(s, done, j)
      BY <1>1, <1>5, <2>4
    <3>2. Len(q) >= 1 /\ q[Len(q)] = c
      BY <2>4, <3>1 DEF Window
    <3>3. Len(p) >= 2 /\ p[Len(p) - 1] = c
      BY <2>2, <3>2
    <3>4. ASSUME NEW i \in DOMAIN done, InARow(s, done, i, j),
                 s[done[i]].call = c
          PROVE  FALSE
      <4>1. Len(q) >= 2 /\ q[Len(q) - 1] = c
        BY <2>4, <3>1, <3>4 DEF Window
      <4>2. Len(p) = 3 /\ p[1] = c /\ p[3 - 1] = c /\ p[3] = c
        BY <2>2, <3>3, <4>1
      <4>3. \A k \in DOMAIN p : p[k] = p[1]
        <5>1. DOMAIN p = 1..3 /\ 3 - 1 = 2
          BY <4>2, LenProperties
        <5>2. QED  BY <4>2, <5>1
      <4>4. QED  BY <2>3, <4>2, <4>3 DEF Stuck, NoProgressRepeat
    <3>5. QED  BY <3>1, <3>2, <3>3, <3>4
  <2>5. /\ \A k \in DOMAIN done : s2[d2[k]].call = s[done[k]].call
        /\ s2[d2[n]].call = c
    BY <1>1
  <2>6. NoTriple(s2, d2)
    <3> SUFFICES ASSUME NEW i \in DOMAIN d2, NEW j \in DOMAIN d2,
                        NEW k \in DOMAIN d2,
                        InARow(s2, d2, i, j), InARow(s2, d2, j, k),
                        s2[d2[i]].call = s2[d2[j]].call,
                        s2[d2[j]].call = s2[d2[k]].call
                 PROVE  FALSE
      BY DEF NoTriple
    <3>1. i \in DOMAIN done /\ j \in DOMAIN done /\ InARow(s, done, i, j)
      BY <1>1, <1>3
    <3>2. CASE k \in DOMAIN done
      BY <1>1, <2>5, <3>1, <3>2 DEF NoTriple
    <3>3. CASE k = n
      BY <2>4, <2>5, <3>1, <3>3
    <3>4. QED  BY <1>1, <3>2, <3>3
  <2>7. Window(s2, d2, p)
    <3>1. Len(p) <= NoProgressRepeat /\ Len(p) >= 1
      <4>1. \A x \in 1..3 : x <= 3 /\ x >= 1
        OBVIOUS
      <4>2. QED  BY <2>2, <4>1, Zenon DEF NoProgressRepeat
    <3>2. ASSUME NEW k \in DOMAIN d2, Latest(s2, d2, k)
          PROVE  /\ Len(p) >= 1 /\ p[Len(p)] = s2[d2[k]].call
                 /\ \A j \in DOMAIN d2 :
                      /\ InARow(s2, d2, j, k)
                      /\ s2[d2[j]].call = s2[d2[k]].call
                      => Len(p) >= 2 /\ p[Len(p) - 1] = s2[d2[k]].call
      <4>1. k = n /\ s2[d2[k]].call = c
        BY <1>1, <1>5, <2>5, <3>2
      <4>2. Len(p) >= 1 /\ p[Len(p)] = c
        BY <2>2, <3>1
      <4>3. ASSUME NEW j \in DOMAIN d2, InARow(s2, d2, j, n),
                   s2[d2[j]].call = c
            PROVE  Len(p) >= 2 /\ p[Len(p) - 1] = c
        BY <1>3, <2>4, <2>5, <4>3, <1>1
      <4>4. QED  BY <4>1, <4>2, <4>3
    <3>3. QED  BY <3>1, <3>2 DEF Window
  <2>8. QED  BY <2>1, <2>6, <2>7 DEF d2
<1>6. QED  BY <1>4, <1>5

----------------------------------------------------------------------------
\* Lemmas about the other changes of a record.

\* A change of the record that leaves its history and guards alone and its
\* directives and budgets in order.
LEMMA GoodFrame ==
  ASSUME NEW s, NEW m, NEW t, Good(s, m, t), NEW m2,
         m2.executed = m.executed, m2.tool_calls = m.tool_calls,
         m2.uncertain = m.uncertain, m2.blocked = m.blocked,
         Warned(m.append) => Warned(m2.append), Told(m2, t), Within(m2, t)
  PROVE  Good(s, m2, t)
<1>1. Ids(m2) = Ids(m)
  BY DEF Ids
<1>2. Ledger(s, m2, t)
  BY <1>1 DEF Good, Ledger, InOrder, AllListed, Charged
<1>3. Remembered(s, m2)
  BY DEF Good, Remembered
<1>4. QED  BY <1>2, <1>3 DEF Good

\* A record that is good below a resume point is good below a later one.
LEMMA GoodLater ==
  ASSUME NEW s \in Seq(Step), NEW m \in Runtime, NEW t \in Nat,
         NEW t2 \in Nat, t <= t2, t2 <= MaxSteps, Good(s, m, t)
  PROVE  Good(s, m, t2)
<1>1. \A id \in DOMAIN s : s[id] \in Step /\ s[id].index \in Nat
  <2>1. \A id \in DOMAIN s : s[id] \in Step
    BY LenProperties, ElementOfSeq
  <2>2. \A st \in Step : st.index \in Nat
    BY DEF Step
  <2>3. QED  BY <2>1, <2>2
<1>2. /\ m.append \in Seq(Message)
      /\ \A k \in DOMAIN m.append : m.append[k].of \in Nat
  <2>1. m.append \in Seq(Message)
    BY DEF Runtime
  <2>2. \A k \in DOMAIN m.append : m.append[k] \in Message
    BY <2>1, LenProperties, ElementOfSeq
  <2>3. QED  BY <2>1, <2>2 DEF Message
<1>3. \A x \in Nat : x < t => x < t2
  OBVIOUS
<1>4. InOrder(s, m, t2)
  BY <1>1, <1>3 DEF Good, Ledger, InOrder
<1>5. Told(m, t2)
  <2>1. t = t2 \/ t < t2
    OBVIOUS
  <2>2. ASSUME NEW k \in DOMAIN m.append, m.append[k].kind = "role"
        PROVE  m.append[k].of < t2 \/ (m.append[k].of = t2 /\ m.active = t2)
    <3>1. m.append[k].of < t \/ (m.append[k].of = t /\ m.active = t)
      BY <2>2 DEF Good, Told
    <3>2. QED  BY <1>2, <1>3, <2>1, <3>1
  <2>3. QED  BY <2>2 DEF Good, Told
<1>6. Within(m, t2)
  BY DEF Good, Within
<1>7. QED  BY <1>4, <1>5, <1>6 DEF Good, Ledger

\* The verdicts of process n on the open steps O of s, of which U may have
\* taken effect, and the record m2 written with them.
Judged(s, m, O, U, n, s2, m2) ==
  /\ O = {id \in DOMAIN s : s[id].status = "running"}
  /\ U = {id \in O : s[id].call \in Mutating}
  /\ s2 = [id \in DOMAIN s |->
            IF id \notin O THEN s[id]
            ELSE [s[id] EXCEPT !.status =
                    IF id \in U THEN "uncertain" ELSE "failed"]]
  /\ m2.executed = m.executed /\ m2.tool_calls = m.tool_calls
  /\ m2.retries = m.retries /\ m2.active = m.active
  /\ m2.uncertain = m.uncertain \union U
  /\ m2.blocked = m.blocked \union {s[id].call : id \in U}
  /\ m2.append = IF U = {} THEN m.append
                 ELSE Append(m.append, Msg("resume", n))

\* Recovery: what the verdicts say is in the record that is written with
\* them.
LEMMA GoodRecover ==
  ASSUME NEW s \in Seq(Step), NEW m \in Runtime, NEW t, Good(s, m, t),
         NEW O, NEW U, NEW n \in Nat,
         NEW s2 \in Seq(Step), NEW m2 \in Runtime,
         Judged(s, m, O, U, n, s2, m2)
  PROVE  /\ Good(s2, m2, t)
         /\ \A k \in DOMAIN m.executed :
              s2[m.executed[k]] = s[m.executed[k]]
<1>0. /\ O = {id \in DOMAIN s : s[id].status = "running"}
      /\ U = {id \in O : s[id].call \in Mutating}
      /\ s2 = [id \in DOMAIN s |->
                IF id \notin O THEN s[id]
                ELSE [s[id] EXCEPT !.status =
                        IF id \in U THEN "uncertain" ELSE "failed"]]
      /\ m2.executed = m.executed /\ m2.tool_calls = m.tool_calls
      /\ m2.retries = m.retries /\ m2.active = m.active
      /\ m2.uncertain = m.uncertain \union U
      /\ m2.blocked = m.blocked \union {s[id].call : id \in U}
      /\ m2.append = IF U = {} THEN m.append
                     ELSE Append(m.append, Msg("resume", n))
  BY DEF Judged
<1> USE <1>0
<1>1. \A id \in DOMAIN s : s[id] \in Step
  BY LenProperties, ElementOfSeq
<1>2. DOMAIN s2 = DOMAIN s
  OBVIOUS
<1>3. ASSUME NEW id \in DOMAIN s, s[id].status # "running"
      PROVE  s2[id] = s[id]
  BY <1>3
<1>4. ASSUME NEW id \in DOMAIN s, s[id].status = "running"
      PROVE  /\ s2[id].status = IF id \in U THEN "uncertain" ELSE "failed"
             /\ s2[id].call = s[id].call
  <2>1. s2[id] = [s[id] EXCEPT !.status =
                    IF id \in U THEN "uncertain" ELSE "failed"]
    BY <1>4
  <2>2. QED  BY <1>1, <2>1 DEF Step
<1>5. InOrder(s, m, t) /\ AllListed(s, m) /\ Remembered(s, m) /\ Told(m, t)
  BY DEF Good, Ledger
<1>6. \A k \in DOMAIN m.executed :
        /\ m.executed[k] \in DOMAIN s
        /\ s2[m.executed[k]] = s[m.executed[k]]
  BY <1>3, <1>5 DEF InOrder
<1>7. /\ m.append \in Seq(Message) /\ Len(m.executed) \in Nat
      /\ DOMAIN m.executed = 1..Len(m.executed)
  BY LenProperties DEF Runtime
<1>8. Ids(m2) = Ids(m) /\ \A id \in Ids(m) : s2[id] = s[id]
  <2>1. Ids(m2) = Ids(m)
    BY DEF Ids
  <2>2. ASSUME NEW id \in Ids(m) PROVE s2[id] = s[id]
    <3>1. PICK k \in DOMAIN m.executed : id = m.executed[k]
      BY DEF Ids
    <3>2. QED  BY <1>6, <3>1
  <2>3. QED  BY <2>1, <2>2
<1>9. InOrder(s2, m2, t)
  <2> SUFFICES ASSUME NEW k \in DOMAIN m.executed
               PROVE  LET id == m.executed[k]
                      IN  /\ id \in DOMAIN s2
                          /\ s2[id].call # None
                          /\ s2[id].status \in {"done", "failed", "skipped"}
                          /\ s2[id].index < t
                          /\ k > 1 => /\ m.executed[k - 1] < id
                                      /\ s2[m.executed[k - 1]].index
                                           < s2[id].index
    <3>1. m2.executed = m.executed
      OBVIOUS
    <3> HIDE <1>0
    <3>2. QED  BY <3>1 DEF InOrder
  <2>1. k > 1 => k - 1 \in DOMAIN m.executed
    BY <1>7
  <2>2. k > 1 => s2[m.executed[k - 1]] = s[m.executed[k - 1]]
    BY <1>6, <2>1
  <2>3. QED  BY <1>2, <1>5, <1>6, <2>2 DEF InOrder
<1>10. AllListed(s2, m2)
  BY <1>2, <1>3, <1>4, <1>5, <1>8 DEF AllListed
<1>11. Charged(s2, m2) = Charged(s, m)
  BY <1>8 DEF Charged
<1>12. /\ Told(m2, t)
       /\ Warned(m.append) => Warned(m2.append)
       /\ U # {} => Warned(m2.append)
  <2>1. CASE U = {}
    BY <1>5, <2>1 DEF Told
  <2>2. CASE U # {}
    <3> DEFINE x == Msg("resume", n)
    <3>1. x \in Message /\ x.kind = "resume"
      BY MsgType DEF Msg
    <3>2. PICK a \in Seq(Message) : a = m.append
      BY <1>7
    <3>3. PICK b \in Seq(Message) : b = Append(a, x)
      BY <3>1, <3>2, AppendProperties
    <3> HIDE DEF x
    <3>4. Says(a, x, b) /\ m2.append = b /\ m.append = a
      BY <2>2, <3>1, <3>2, <3>3, AppendSays DEF x
    <3>5. RolesOnce(b) /\ Warned(b)
      BY <1>5, <3>1, <3>4 DEF Says, Told
    <3>6. \A k \in DOMAIN b : b[k].kind = "role" =>
            b[k].of < t \/ (b[k].of = t /\ m.active = t)
      <4> SUFFICES ASSUME NEW k \in DOMAIN b, b[k].kind = "role"
                   PROVE  b[k].of < t \/ (b[k].of = t /\ m.active = t)
        OBVIOUS
      <4>1. b[k] = x \/ \E j \in DOMAIN a : a[j] = b[k]
        BY <3>4 DEF Says
      <4>2. b[k] # x
        BY <3>1
      <4>3. PICK j \in DOMAIN a : a[j] = b[k]
        BY <4>1, <4>2
      <4>4. a[j].kind = "role" =>
              a[j].of < t \/ (a[j].of = t /\ m.active = t)
        BY <1>5, <3>2 DEF Told
      <4>5. QED  BY <4>3, <4>4
    <3>7. m.active # None => HasRole(b, m.active) \/ Summarised(b)
      BY <1>5, <3>4 DEF Says, Told, Runtime
    <3>8. QED  BY <3>4, <3>5, <3>6, <3>7 DEF Told
  <2>3. QED  BY <2>1, <2>2
<1>13. Remembered(s2, m2)
  <2> SUFFICES ASSUME NEW id \in DOMAIN s2, s2[id].status = "uncertain"
               PROVE  \/ /\ id \in m2.uncertain /\ s2[id].call \in m2.blocked
                         /\ Warned(m2.append)
                      \/ RefusedLater(s2, id)
    BY DEF Remembered
  <2>1. CASE s[id].status = "running"
    <3>1. id \in U /\ s2[id].call = s[id].call
      BY <1>2, <1>4, <2>1
    <3>2. QED  BY <1>12, <3>1
  <2>2. CASE s[id].status # "running"
    <3>1. s2[id] = s[id] /\ s[id].status = "uncertain" /\ id \in DOMAIN s
      BY <1>2, <1>3, <2>2
    <3>2. CASE RefusedLater(s, id)
      <4>1. PICK later \in DOMAIN s :
              /\ later > id
              /\ s[later] = [s[id] EXCEPT !.status = "skipped",
                                          !.index  = s[later].index]
        BY <3>2 DEF RefusedLater
      <4>2. s[later].status = "skipped"
        BY <1>1, <3>1, <4>1 DEF Step
      <4>3. s2[later] = s[later] /\ later \in DOMAIN s2
        BY <1>2, <1>3, <4>2
      <4>4. s2[later] = [s2[id] EXCEPT !.status = "skipped",
                                       !.index  = s2[later].index]
        BY <3>1, <4>1, <4>3
      <4> HIDE <1>0
      <4>5. QED  BY <4>1, <4>3, <4>4 DEF RefusedLater
    <3>3. CASE ~ RefusedLater(s, id)
      BY <1>5, <1>12, <3>1, <3>3 DEF Remembered
    <3>4. QED  BY <3>2, <3>3
  <2>3. QED  BY <2>1, <2>2
<1>14. NoTriple(s2, m2.executed)
  BY <1>6, RunsKept DEF Good
<1>15. Within(m2, t)
  BY DEF Good, Within
<1>16. QED
  BY <1>6, <1>9, <1>10, <1>11, <1>12, <1>13, <1>14, <1>15
  DEF Good, Ledger

\* The transaction at the end of a tool step: history, guards, directives and
\* window move on together.
LEMMA GoodCheckpoint ==
  ASSUME NEW s \in Seq(Step), NEW m \in Runtime, NEW t \in Nat,
         NEW id, NEW st, NEW s2 \in Seq(Step), NEW m2 \in Runtime,
         Recorded(s, m, t, id, st, s2, m2),
         Good(s, m, t), t < MaxSteps, m.tool_calls < MaxToolCalls,
         NEW q \in Seq(Calls), Window(s, m.executed, q),
         Slides(s2, id, q, m2.recent)
  PROVE  Good(s2, m2, t + 1) /\ Window(s2, m2.executed, m2.recent)
<1>1. id \in Nat /\ m.executed \in Seq(Nat)
  BY LenProperties DEF Recorded, Runtime
<1>2. /\ Ledger(s2, m2, t + 1)
      /\ \A k \in DOMAIN m.executed : s2[m.executed[k]] = s[m.executed[k]]
  <2>1. Ledger(s, m, t)
    BY DEF Good
  <2>2. /\ s \in Seq(Step) /\ m \in Runtime /\ t \in Nat
        /\ s2 \in Seq(Step) /\ m2 \in Runtime
        /\ Recorded(s, m, t, id, st, s2, m2)
    OBVIOUS
  <2>3. Ledger(s2, m2, t + 1)
    BY <2>1, <2>2, LedgerGrows
  <2>4. \A k \in DOMAIN m.executed : s2[m.executed[k]] = s[m.executed[k]]
    BY <2>1, <2>2, LedgerGrows
  <2>5. QED  BY <2>3, <2>4
<1>3. PICK x \in Message : x = Msg("result", id)
  BY <1>1, MsgType
<1>4. Keeps(Append(m.append, x), m2.append) /\ m2.active = None
  BY <1>3 DEF Recorded
<1>5. Told(m2, t + 1)
  BY <1>3, <1>4, ToldGrows DEF Good, Msg
<1>6. Warned(m.append) => Warned(m2.append)
  <2>1. PICK a \in Seq(Message) : a = m.append
    BY DEF Runtime
  <2>2. PICK b \in Seq(Message) : b = Append(a, x)
    BY <2>1, AppendProperties
  <2>3. Says(a, x, b)
    BY <2>1, <2>2, AppendSays
  <2>4. Keeps(b, m2.append) /\ m.append = a
    BY <1>4, <2>1, <2>2
  <2>5. (Warned(a) => Warned(b)) /\ (Warned(b) => Warned(m2.append))
    BY <2>3, <2>4 DEF Says, Keeps
  <2>6. QED  BY <2>4, <2>5
<1>7. Remembered(s2, m2)
  BY <1>6, RememberedGrows DEF Good
<1>8. /\ NoTriple(s2, Append(m.executed, id))
      /\ Window(s2, Append(m.executed, id), m2.recent)
  <2>1. NoTriple(s, m.executed)
    BY DEF Good
  <2>2. QED  BY <1>1, <1>2, <2>1, RepetitionGrows
<1>9. Within(m2, t + 1)
  <2>1. m.tool_calls \in Nat /\ m.retries \in Nat
    BY DEF Runtime
  <2>2. \A a, b \in Nat : a < b => a + 1 <= b
    OBVIOUS
  <2>3. /\ m2.retries = m.retries
        /\ m2.tool_calls = m.tool_calls \/ m2.tool_calls = m.tool_calls + 1
    BY DEF Recorded
  <2>4. m.tool_calls <= MaxToolCalls /\ m.retries <= MaxRetries
    BY DEF Good, Within
  <2>5. t + 1 <= MaxSteps /\ m2.tool_calls <= MaxToolCalls
    BY <2>1, <2>2, <2>3, <2>4, BoundsAssumption
  <2>6. QED  BY <2>3, <2>4, <2>5 DEF Within
<1>10. m2.executed = Append(m.executed, id)
  BY DEF Recorded
<1>11. QED  BY <1>2, <1>5, <1>7, <1>8, <1>9, <1>10 DEF Good

----------------------------------------------------------------------------
\* The invariant holds throughout.

\* An empty database and no process: nothing to be wrong about.
LEMMA HistoryInit == Init => HistoryInv
<1> SUFFICES ASSUME Init PROVE HistoryInv
  OBVIOUS
<1>1. /\ runtime = None /\ pc = "off" /\ mem = Blank /\ idx = 0
      /\ sent = <<>> /\ starts = 0 /\ steps = <<>>
  BY DEF Init
<1>2. Cardinality(ToolRows) = 0
  <2>1. ToolRows = {}
    BY <1>1 DEF ToolRows
  <2>2. QED  BY <2>1, FS_EmptySet
<1>3. QED
  BY <1>1, <1>2
  DEF HistoryInv, DiskGood, ProcessGood, Synced, WindowGood, StepInv, SentInv,
      CountInv, Off, Fresh, OnDiskCharge

\* The tool calls recorded as executed are finitely many.
LEMMA Counts ==
  ASSUME TypeInv
  PROVE  /\ IsFiniteSet(ToolRows) /\ Cardinality(ToolRows) \in Nat
         /\ OnDiskCharge \in Nat /\ starts \in Nat
<1>1. steps \in Seq(Step) /\ runtime \in Runtime \union {None}
      /\ starts \in Nat
  BY DEF TypeInv, TypeOK
<1>2. IsFiniteSet(1..Len(steps))
  <2>1. Len(steps) \in Nat
    BY <1>1, LenProperties
  <2>2. \A x \in Nat : x \in Int
    OBVIOUS
  <2>3. 1 \in Int /\ Len(steps) \in Int
    BY <2>1, <2>2
  <2>4. QED  BY <2>3, FS_Interval, Zenon
<1>3. ToolRows \subseteq 1..Len(steps)
  BY <1>1, LenProperties DEF ToolRows
<1>4. IsFiniteSet(ToolRows) /\ Cardinality(ToolRows) \in Nat
  BY <1>2, <1>3, FS_Subset, FS_CardinalityType
<1>5. OnDiskCharge \in Nat
  BY <1>1 DEF OnDiskCharge, Runtime
<1>6. QED  BY <1>1, <1>4, <1>5

\* What neither executes a call nor charges one keeps the count, unless it
\* begins a tool or leaves one.
LEMMA CountKept ==
  ASSUME TypeInv, CountInv, ToolRows' = ToolRows,
         OnDiskCharge' = OnDiskCharge, starts' = starts, pc # "off",
         pc \in {"tool", "ran"} => pc' \in {"off", "tool", "ran"}
  PROVE  CountInv'
<1>1. /\ Cardinality(ToolRows) \in Nat /\ OnDiskCharge \in Nat
      /\ starts \in Nat
  BY Counts
<1>2. CASE pc' = "off"
  BY <1>1, <1>2 DEF CountInv
<1>3. CASE pc' # "off"
  BY <1>1, <1>3 DEF CountInv
<1>4. QED  BY <1>2, <1>3

\* What a process at work may rely on.
AtWork ==
  /\ idx \in Nat /\ mem \in Runtime /\ steps \in Seq(Step)
  /\ task \in Nat /\ task <= idx /\ runtime \in Runtime
  /\ Good(steps, mem, idx) /\ Good(steps, runtime, task)
  /\ Window(steps, runtime.executed, runtime.recent)
  /\ mem.executed = runtime.executed /\ mem.tool_calls = runtime.tool_calls
  /\ idx <= MaxSteps

\* It may: the invariant says so of every process past its start.
LEMMA AtWorkHolds ==
  ASSUME TypeInv, GuardInv, HistoryInv, pc \notin Off
  PROVE  AtWork
<1>1. /\ idx \in Nat /\ mem \in Runtime /\ steps \in Seq(Step)
      /\ task \in Nat \union {None} /\ runtime \in Runtime \union {None}
  BY DEF TypeInv, TypeOK
<1>2. runtime # None
  BY DEF GuardInv, StartInv, Off
<1>3. /\ Good(steps, mem, idx) /\ Good(steps, runtime, task) /\ task # None
      /\ Window(steps, runtime.executed, runtime.recent) /\ task <= idx
      /\ mem.executed = runtime.executed
      /\ mem.tool_calls = runtime.tool_calls
  BY <1>2 DEF HistoryInv, DiskGood, ProcessGood, Synced
<1>4. idx <= MaxSteps
  BY <1>3 DEF Good, Within
<1>5. QED  BY <1>1, <1>2, <1>3, <1>4 DEF AtWork

\* A process that goes away leaves the database as it was.
LEMMA ForgetHistory ==
  ASSUME TypeInv, HistoryInv, pc # "off", Forget,
         UNCHANGED <<task, runtime, steps, starts>>
  PROVE  HistoryInv'
<1>1. /\ pc' = "off" /\ idx' = 0 /\ mem' = Blank /\ sent' = <<>>
      /\ task' = task /\ runtime' = runtime /\ steps' = steps
      /\ starts' = starts
  BY DEF Forget
<1>2. CountInv'
  <2>1. ToolRows' = ToolRows /\ OnDiskCharge' = OnDiskCharge
    BY <1>1 DEF ToolRows, OnDiskCharge
  <2>2. QED  BY <1>1, <2>1, CountKept DEF HistoryInv
<1>3. DiskGood'
  BY <1>1 DEF HistoryInv, DiskGood
<1>4. QED
  BY <1>1, <1>2, <1>3
  DEF HistoryInv, ProcessGood, Synced, WindowGood, StepInv, SentInv, Off

\* A new process works on what it finds on disk, or on nothing.
LEMMA StartHistory ==
  ASSUME TypeInv, GuardInv, HistoryInv, Start
  PROVE  HistoryInv'
<1>1. /\ pc = "off" /\ starts' = starts + 1
      /\ UNCHANGED <<task, runtime, steps, sent>>
      /\ starts \in Nat
  BY DEF Start, StartFresh, StartResume, StartRefused, disk, TypeInv, TypeOK
<1>2. CountInv'
  <2>1. ToolRows' = ToolRows /\ OnDiskCharge' = OnDiskCharge
    BY <1>1 DEF ToolRows, OnDiskCharge
  <2>2. /\ Cardinality(ToolRows) \in Nat /\ OnDiskCharge \in Nat
        /\ Cardinality(ToolRows) <= OnDiskCharge + starts
    BY <1>1, Counts DEF HistoryInv, CountInv
  <2>3. pc' \notin {"tool", "ran"}
    BY <1>1 DEF Start, StartFresh, StartResume, StartRefused
  <2>4. QED  BY <1>1, <2>1, <2>2, <2>3 DEF CountInv
<1>3. DiskGood'
  BY <1>1 DEF HistoryInv, DiskGood
<1>4. mem = Blank /\ idx = 0 /\ sent = <<>>
  BY <1>1 DEF HistoryInv, ProcessGood, SentInv, Off
<1>5. CASE StartFresh \/ StartRefused
  BY <1>1, <1>2, <1>3, <1>4, <1>5
  DEF HistoryInv, ProcessGood, Synced, WindowGood, StepInv, SentInv, Off,
      Fresh, StartFresh, StartRefused, local
<1>6. CASE StartResume
  <2>1. /\ pc' = "recover" /\ idx' = task /\ mem' = runtime
        /\ task # None /\ runtime # None /\ task \in Nat
    BY <1>6 DEF StartResume, TypeInv, TypeOK
  <2>2. /\ Good(steps, runtime, task)
        /\ Window(steps, runtime.executed, runtime.recent)
    BY <2>1 DEF HistoryInv, DiskGood
  <2>3. QED
    BY <1>1, <1>2, <1>3, <1>4, <2>1, <2>2
    DEF HistoryInv, ProcessGood, Synced, WindowGood, StepInv, SentInv, Off,
        Fresh
<1>7. QED  BY <1>5, <1>6 DEF Start

\* A fresh start writes a blank record, which is good of an empty table.
LEMMA FreshHistory ==
  ASSUME TypeInv, GuardInv, HistoryInv,
         StartRun \/ SaveFirstTask \/ SaveFirstRuntime
  PROVE  HistoryInv'
<1>1. /\ mem = Blank /\ idx = 0 /\ sent = <<>> /\ runtime = None
      /\ steps = <<>> /\ pc \in Fresh
      /\ UNCHANGED <<steps, mem, idx, sent, starts>>
  BY DEF StartRun, SaveFirstTask, SaveFirstRuntime, HistoryInv, ProcessGood,
         SentInv, Off, Fresh, GuardInv, StartInv, disk, local, world
<1>2. CountInv'
  <2>1. ToolRows' = ToolRows
    BY <1>1 DEF ToolRows
  <2>2. OnDiskCharge' = OnDiskCharge
    <3>1. runtime' = None \/ runtime' = Blank
      BY <1>1 DEF StartRun, SaveFirstTask, SaveFirstRuntime, disk
    <3>2. Blank.tool_calls = 0
      BY DEF Blank
    <3>3. QED  BY <1>1, <3>1, <3>2 DEF OnDiskCharge
  <2>3. pc # "off" /\ pc \notin {"tool", "ran"}
        /\ pc' \notin {"off", "tool", "ran"}
    BY <1>1 DEF Fresh, StartRun, SaveFirstTask, SaveFirstRuntime
  <2>4. QED  BY <1>1, <2>1, <2>2, <2>3, CountKept DEF HistoryInv
<1>3. CASE StartRun \/ SaveFirstTask
  BY <1>1, <1>2, <1>3
  DEF HistoryInv, DiskGood, ProcessGood, Synced, WindowGood, StepInv,
      SentInv, Off, Fresh, StartRun, SaveFirstTask, disk
<1>4. CASE SaveFirstRuntime
  <2>1. /\ pc = "save_first_runtime" /\ pc' = "top" /\ runtime' = Blank
        /\ task' = 0 /\ 0 # None
    BY <1>1, <1>4, NoneAssumption
    DEF SaveFirstRuntime, HistoryInv, ProcessGood
  <2>2. /\ Blank.executed = <<>> /\ Blank.recent = <<>>
        /\ Blank.append = <<>> /\ Blank.tool_calls = 0 /\ Blank.retries = 0
        /\ Blank.active = None
        /\ DOMAIN <<>> = {} /\ Len(<<>>) = 0
    BY DEF Blank
  <2>3. Good(<<>>, Blank, 0)
    <3>1. Ids(Blank) = {} /\ Charged(<<>>, Blank) = {}
      BY <2>2 DEF Ids, Charged
    <3>2. Ledger(<<>>, Blank, 0)
      BY <2>2, <3>1, FS_EmptySet DEF Ledger, InOrder, AllListed
    <3>3. Remembered(<<>>, Blank) /\ NoTriple(<<>>, Blank.executed)
      BY <2>2 DEF Remembered, NoTriple
    <3>4. Told(Blank, 0)
      BY <2>2 DEF Told, RolesOnce
    <3>5. Within(Blank, 0)
      BY <2>2, BoundsAssumption DEF Within
    <3>6. QED  BY <3>2, <3>3, <3>4, <3>5 DEF Good
  <2>4. Window(<<>>, Blank.executed, Blank.recent)
    BY <2>2 DEF Window, NoProgressRepeat
  <2>5. QED
    BY <1>1, <1>2, <2>1, <2>3, <2>4
    DEF HistoryInv, DiskGood, ProcessGood, Synced, WindowGood, StepInv,
        SentInv, Off, Fresh
<1>5. QED  BY <1>3, <1>4

\* The loop ends, or is cancelled: nothing is written, nothing forgotten.
LEMMA StopHistory ==
  ASSUME TypeInv, GuardInv, HistoryInv,
         pc \in {"top", "ask", "retry"}, pc' \in {pc, "save_task"},
         UNCHANGED <<task, runtime, steps, idx, mem, sent, starts>>,
         pc' = pc => cur' = cur
  PROVE  HistoryInv'
<1>1. CountInv'
  <2>1. ToolRows' = ToolRows /\ OnDiskCharge' = OnDiskCharge
    BY DEF ToolRows, OnDiskCharge
  <2>2. QED  BY <2>1, CountKept DEF HistoryInv
<1>2. pc \notin Off /\ pc' \notin Off
  BY DEF Off, Fresh
<1>3. DiskGood' /\ ProcessGood' /\ Synced'
  BY <1>2 DEF HistoryInv, DiskGood, ProcessGood, Synced, Off, Fresh
<1>4. WindowGood'
  <2>1. Window(steps, mem.executed, mem.recent)
    BY <1>2 DEF HistoryInv, WindowGood
  <2>2. pc' \notin {"tool", "ran"}
    OBVIOUS
  <2>3. QED  BY <2>1, <2>2 DEF WindowGood
<1>5. StepInv' /\ SentInv'
  BY <1>2 DEF HistoryInv, StepInv, SentInv, Off, Fresh
<1>6. QED  BY <1>1, <1>3, <1>4, <1>5 DEF HistoryInv

\* What the process works on is written, or its answer counted as a step.
LEMMA SaveHistory ==
  ASSUME TypeInv, GuardInv, HistoryInv,
         \/ SaveTask \/ SaveRuntime \/ Answer
         \/ \E kind, c : ModelReplies(kind, c)
  PROVE  HistoryInv'
<1>1. /\ pc \in {"save_task", "save_runtime", "act", "model"}
      /\ pc' \in {"save_runtime", "finish_run", "save_task", "parsed"}
      /\ UNCHANGED <<steps, mem, cur, sent, starts>>
      /\ runtime' = runtime \/ runtime' = mem
  BY DEF SaveTask, SaveRuntime, Answer, ModelReplies, ToFinalize, disk,
         local, world
<1>2. AtWork /\ pc \notin Off /\ pc' \notin Off
  BY <1>1, AtWorkHolds DEF Off, Fresh
<1>3. runtime # None /\ mem # None /\ runtime' # None
  BY <1>1, <1>2, NoneNotRuntime DEF AtWork
<1>4. CountInv'
  <2>1. ToolRows' = ToolRows
    BY <1>1 DEF ToolRows
  <2>2. OnDiskCharge' = OnDiskCharge
    BY <1>1, <1>2, <1>3 DEF OnDiskCharge, AtWork
  <2>3. QED  BY <1>1, <2>1, <2>2, CountKept DEF HistoryInv
<1>5. Window(steps, mem.executed, mem.recent)
  BY <1>1, <1>2 DEF HistoryInv, WindowGood
<1>6. WindowGood'
  BY <1>1, <1>5 DEF WindowGood
<1>7. CASE SaveTask
  <2>1. pc = "save_task" /\ pc' = "save_runtime" /\ task' = idx
        /\ runtime' = runtime /\ idx' = idx
    BY <1>7 DEF SaveTask, local
  <2>2. Good(steps, runtime, idx)
    BY <1>2, GoodLater DEF AtWork
  <2>3. idx # None
    BY <1>2, NoneAssumption DEF AtWork
  <2>4. QED
    BY <1>1, <1>2, <1>4, <1>6, <2>1, <2>2, <2>3
    DEF HistoryInv, DiskGood, ProcessGood, Synced, StepInv, SentInv, AtWork,
        Off, Fresh
<1>8. CASE SaveRuntime \/ \E kind, c : ModelReplies(kind, c)
  <2>1. /\ pc # "save_task" /\ pc' # "save_task" /\ runtime' = mem
        /\ idx' = idx /\ task' = task
        /\ \/ pc = "save_runtime" /\ pc' = "finish_run"
           \/ pc = "model" /\ pc' = "parsed"
    BY <1>8 DEF SaveRuntime, ModelReplies, local
  <2>2. task = idx
    BY <1>2, <2>1 DEF HistoryInv, Synced
  <2>3. DiskGood'
    BY <1>1, <1>2, <1>5, <2>1, <2>2, NoneAssumption DEF DiskGood, AtWork
  <2>4. QED
    BY <1>1, <1>2, <1>4, <1>6, <2>1, <2>2, <2>3, NoneAssumption
    DEF HistoryInv, ProcessGood, Synced, StepInv, SentInv, AtWork, Off, Fresh
<1>9. CASE Answer
  <2>1. pc = "act" /\ pc' = "save_task" /\ idx' = idx + 1
        /\ runtime' = runtime /\ task' = task
    BY <1>9 DEF Answer, ToFinalize, disk
  <2>2. idx < MaxSteps
    BY <2>1 DEF HistoryInv, StepInv
  <2>3. /\ idx + 1 \in Nat /\ idx <= idx + 1 /\ idx + 1 <= MaxSteps
        /\ task <= idx + 1
    BY <1>2, <2>2, BoundsAssumption DEF AtWork
  <2>4. Good(steps, mem, idx + 1)
    BY <1>2, <2>3, GoodLater DEF AtWork
  <2>5. QED
    BY <1>1, <1>2, <1>4, <1>6, <2>1, <2>3, <2>4
    DEF HistoryInv, DiskGood, ProcessGood, Synced, StepInv, SentInv, AtWork,
        Off, Fresh
<1>10. QED  BY <1>7, <1>8, <1>9

\* Opening and closing steps keeps what was good of the table.
LEMMA ExtendsKeeps ==
  ASSUME AtWork, Extends(steps, steps')
  PROVE  /\ Good(steps', mem, idx) /\ Good(steps', runtime, task)
         /\ Window(steps', runtime.executed, runtime.recent)
         /\ \A q : Window(steps, mem.executed, q) =>
                     Window(steps', mem.executed, q)
<1>1. Good(steps', mem, idx) /\ Good(steps', runtime, task)
  BY GoodExtends DEF AtWork
<1>2. InOrder(steps, mem, idx)
  BY DEF AtWork, Good, Ledger
<1>3. \A k \in DOMAIN mem.executed :
        steps'[mem.executed[k]] = steps[mem.executed[k]]
  BY <1>2, ListedKept
<1>4. \A q : Window(steps, mem.executed, q) => Window(steps', mem.executed, q)
  BY <1>3, RunsKept
<1>5. QED  BY <1>1, <1>4 DEF AtWork

\* A model call is recorded and its step closed.
LEMMA ModelHistory ==
  ASSUME TypeInv, GuardInv, HistoryInv,
         \/ AskModel \/ CloseModelStep
         \/ \E failure : ProviderFails(failure)
  PROVE  HistoryInv'
<1>1. /\ pc \in {"ask", "model", "parsed"}
      /\ pc' \in {"model", "retry", "act"}
      /\ UNCHANGED <<task, runtime, idx, mem, starts>>
      /\ pc = "ask" <=> pc' = "model"
      /\ pc' # "model" => sent' = sent
  BY DEF AskModel, CloseModelStep, ProviderFails, disk, local, world
<1>2. AtWork /\ pc \notin Off /\ pc' \notin Off
  BY <1>1, AtWorkHolds DEF Off, Fresh
<1>3. /\ Extends(steps, steps')
      /\ ToolRows' = ToolRows
      /\ pc' = "model" => /\ cur' = Len(steps') /\ steps'[cur'].index = idx
                          /\ sent' = mem.append
                          /\ idx < MaxSteps /\ mem.tool_calls < MaxToolCalls
  <2>1. CASE AskModel
    <3>1. /\ steps' = Append(steps, Row(idx, None)) /\ cur' = Len(steps) + 1
          /\ sent' = mem.append /\ Exhausted(FALSE) = None
      BY <2>1 DEF AskModel
    <3>2. Extends(steps, steps')
      BY <1>2, <3>1, OpenExtends DEF AtWork
    <3>3. Row(idx, None) \in Step /\ Row(idx, None).index = idx
          /\ Row(idx, None).call = None
      BY <1>2 DEF AtWork, Row, Step, Statuses
    <3>4. /\ Len(steps') = Len(steps) + 1
          /\ \A i \in 1..Len(steps) : steps'[i] = steps[i]
          /\ steps'[Len(steps) + 1] = Row(idx, None)
          /\ steps' \in Seq(Step)
      BY <1>2, <3>1, <3>3, AppendProperties DEF AtWork
    <3>5. /\ Len(steps) \in Nat /\ DOMAIN steps = 1..Len(steps)
          /\ DOMAIN steps' = 1..(Len(steps) + 1)
      BY <1>2, <3>4, LenProperties DEF AtWork
    <3>6. ToolRows' = ToolRows
      <4>1. DOMAIN steps' = DOMAIN steps \union {Len(steps) + 1}
        BY <3>5
      <4>2. steps'[Len(steps) + 1].call = None
        BY <3>3, <3>4
      <4>3. \A i \in DOMAIN steps : steps'[i] = steps[i]
        BY <3>4, <3>5
      <4>4. Len(steps) + 1 \notin DOMAIN steps
        BY <3>5
      <4>5. QED  BY <4>1, <4>2, <4>3, <4>4 DEF ToolRows
    <3>7. idx < MaxSteps /\ mem.tool_calls < MaxToolCalls
      <4>1. ~ (idx >= MaxSteps) /\ ~ (mem.tool_calls >= MaxToolCalls)
        BY <3>1, NoneAssumption DEF Exhausted
      <4>2. mem.tool_calls \in Nat /\ idx \in Nat
        BY <1>2 DEF AtWork, Runtime
      <4>3. QED  BY <4>1, <4>2, BoundsAssumption
    <3>8. QED  BY <3>1, <3>2, <3>3, <3>4, <3>6, <3>7
  <2>2. CASE CloseModelStep \/ \E failure : ProviderFails(failure)
    <3>1. PICK st \in {"failed", "done"} : steps' = Complete(cur, st)
      BY <2>2 DEF CloseModelStep, ProviderFails
    <3>2. pc \in {"model", "parsed"} /\ pc' # "model"
      BY <2>2 DEF CloseModelStep, ProviderFails
    <3>3. Orphans = {cur} /\ steps[cur].call = None
      BY <3>2 DEF GuardInv, OneRunning, Working, Fresh, PCs
    <3>4. cur \in DOMAIN steps /\ steps[cur].status = "running"
      BY <3>3 DEF Orphans
    <3>5. Extends(steps, steps')
      BY <1>2, <3>1, <3>3, <3>4, CloseExtends DEF AtWork, Complete
    <3>6. /\ DOMAIN steps' = DOMAIN steps
          /\ \A k \in DOMAIN steps : k # cur => steps'[k] = steps[k]
      BY <3>1 DEF Complete
    <3>7. steps'[cur].call = None
      <4>1. \A k \in DOMAIN steps : steps'[k].call = steps[k].call
        BY <1>2, <3>1, OrphansComplete DEF AtWork, Statuses
      <4>2. QED  BY <3>3, <3>4, <4>1
    <3>8. ToolRows' = ToolRows
      BY <3>3, <3>6, <3>7 DEF ToolRows
    <3>9. QED  BY <3>2, <3>5, <3>8
  <2>3. QED  BY <2>1, <2>2
<1>4. CountInv'
  <2>1. OnDiskCharge' = OnDiskCharge
    BY <1>1 DEF OnDiskCharge
  <2>2. QED  BY <1>1, <1>3, <2>1, CountKept DEF HistoryInv
<1>5. /\ Good(steps', mem, idx) /\ Good(steps', runtime, task)
      /\ Window(steps', runtime.executed, runtime.recent)
      /\ Window(steps', mem.executed, mem.recent)
  <2>1. Window(steps, mem.executed, mem.recent)
    BY <1>1, <1>2 DEF HistoryInv, WindowGood
  <2>2. QED  BY <1>2, <1>3, <2>1, ExtendsKeeps
<1>6. DiskGood' /\ ProcessGood' /\ Synced'
  BY <1>1, <1>2, <1>5
  DEF HistoryInv, DiskGood, ProcessGood, Synced, Off, Fresh
<1>7. WindowGood'
  BY <1>1, <1>5 DEF WindowGood
<1>8. StepInv'
  BY <1>1, <1>2, <1>3 DEF HistoryInv, StepInv
<1>9. SentInv'
  BY <1>1, <1>2, <1>3 DEF HistoryInv, SentInv, Off, Fresh
<1>10. QED  BY <1>4, <1>6, <1>7, <1>8, <1>9 DEF HistoryInv

\* The role directive is appended for a step that does not have it.
LEMMA EnterHistory ==
  ASSUME TypeInv, GuardInv, HistoryInv, EnterStep, TypeInv'
  PROVE  HistoryInv'
<1>1. /\ pc = "top" /\ pc' = "ask"
      /\ UNCHANGED <<task, runtime, steps, idx, starts, sent>>
      /\ mem' = IF mem.active = idx THEN mem
                ELSE [mem EXCEPT !.append = Append(@, Msg("role", idx)),
                                 !.active = idx]
  BY DEF EnterStep, disk, world
<1>2. AtWork /\ pc \notin Off /\ pc' \notin Off /\ mem' \in Runtime
  BY <1>1, AtWorkHolds DEF Off, Fresh, TypeInv, TypeOK
<1>3. /\ mem'.executed = mem.executed /\ mem'.tool_calls = mem.tool_calls
      /\ mem'.uncertain = mem.uncertain /\ mem'.blocked = mem.blocked
      /\ mem'.retries = mem.retries /\ mem'.recent = mem.recent
      /\ mem'.active = idx
      /\ mem.active # idx => mem'.append = Append(mem.append, Msg("role", idx))
      /\ mem.active = idx => mem' = mem
  BY <1>1, <1>2 DEF AtWork, Runtime
<1>4. Told(mem, idx) /\ Within(mem, idx) /\ idx # None
  BY <1>2, NoneAssumption DEF AtWork, Good
<1>5. /\ Told(mem', idx) /\ (Warned(mem.append) => Warned(mem'.append))
      /\ mem'.append # <<>>
  <2>1. CASE mem.active = idx
    <3>1. HasRole(mem.append, idx) \/ Summarised(mem.append)
      BY <1>4, <2>1 DEF Told
    <3>2. mem.append # <<>>
      BY <3>1 DEF HasRole, Summarised
    <3>3. QED  BY <1>3, <1>4, <2>1, <3>2
  <2>2. CASE mem.active # idx
    <3>1. PICK a \in Seq(Message) : a = mem.append
      BY <1>2 DEF AtWork, Runtime
    <3>2. PICK x \in Message : x = Msg("role", idx)
      BY <1>2, MsgType DEF AtWork
    <3>3. PICK b \in Seq(Message) : b = Append(a, x)
      BY <3>1, <3>2, AppendProperties
    <3>4. Says(a, x, b) /\ mem'.append = b /\ mem.append = a
      BY <1>3, <2>2, <3>1, <3>2, <3>3, AppendSays
    <3>5. x.kind = "role" /\ x.of = idx
      BY <3>2 DEF Msg
    <3>6. \A k \in DOMAIN a : a[k] # x
      <4>1. ASSUME NEW k \in DOMAIN a, a[k] = x PROVE FALSE
        <5>1. a[k].of < idx \/ (a[k].of = idx /\ mem.active = idx)
          BY <1>4, <3>1, <3>5, <4>1 DEF Told
        <5>2. ~ (idx < idx)
          BY <1>2 DEF AtWork
        <5>3. QED  BY <2>2, <3>5, <4>1, <5>1, <5>2
      <4>2. QED  BY <4>1
    <3>7. RolesOnce(b)
      BY <1>4, <3>4, <3>6 DEF Told, Says
    <3>8. \A k \in DOMAIN b : b[k].kind = "role" =>
            b[k].of < idx \/ (b[k].of = idx /\ mem'.active = idx)
      <4> SUFFICES ASSUME NEW k \in DOMAIN b, b[k].kind = "role"
                   PROVE  b[k].of < idx \/ (b[k].of = idx /\ mem'.active = idx)
        OBVIOUS
      <4>1. CASE b[k] = x
        BY <1>3, <3>5, <4>1
      <4>2. CASE \E j \in DOMAIN a : a[j] = b[k]
        <5>1. PICK j \in DOMAIN a : a[j] = b[k]
          BY <4>2
        <5>2. a[j].of < idx \/ (a[j].of = idx /\ mem.active = idx)
          BY <1>4, <3>1, <5>1 DEF Told
        <5>3. QED  BY <2>2, <5>1, <5>2
      <4>3. QED  BY <3>4, <4>1, <4>2 DEF Says
    <3>9. HasRole(b, idx)
      BY <1>2, <3>2, <3>4 DEF Says, AtWork
    <3>10. Told(mem', idx)
      BY <1>3, <3>4, <3>7, <3>8, <3>9 DEF Told
    <3>11. (Warned(a) => Warned(b)) /\ b # <<>>
      BY <3>4 DEF Says
    <3>12. QED  BY <3>4, <3>10, <3>11
  <2>3. QED  BY <2>1, <2>2
<1>6. Good(steps, mem', idx)
  <2>1. Within(mem', idx)
    BY <1>3, <1>4 DEF Within
  <2>2. QED  BY <1>2, <1>3, <1>5, <2>1, GoodFrame DEF AtWork
<1>7. CountInv'
  <2>1. ToolRows' = ToolRows /\ OnDiskCharge' = OnDiskCharge
    BY <1>1 DEF ToolRows, OnDiskCharge
  <2>2. QED  BY <1>1, <2>1, CountKept DEF HistoryInv
<1>8. DiskGood' /\ ProcessGood' /\ Synced'
  BY <1>1, <1>2, <1>3, <1>6
  DEF HistoryInv, DiskGood, ProcessGood, Synced, Off, Fresh
<1>9. WindowGood'
  <2>1. Window(steps, mem.executed, mem.recent)
    BY <1>1, <1>2 DEF HistoryInv, WindowGood
  <2>2. QED  BY <1>1, <1>3, <2>1 DEF WindowGood
<1>10. StepInv' /\ SentInv'
  BY <1>1, <1>3, <1>5 DEF HistoryInv, StepInv, SentInv, Off, Fresh
<1>11. QED  BY <1>7, <1>8, <1>9, <1>10 DEF HistoryInv

\* What a changed append zone has to keep for the record to stay good.
LEMMA ZoneKept ==
  ASSUME NEW m \in Runtime, NEW t \in Nat, Told(m, t), NEW m2,
         m2.active = m.active, RolesOnce(m2.append),
         \A k \in DOMAIN m2.append : m2.append[k].kind = "role" =>
           \E j \in DOMAIN m.append : m.append[j] = m2.append[k],
         \A i \in Nat : HasRole(m.append, i) =>
           HasRole(m2.append, i) \/ Summarised(m2.append),
         Summarised(m.append) => Summarised(m2.append)
  PROVE  Told(m2, t)
<1>1. ASSUME NEW k \in DOMAIN m2.append, m2.append[k].kind = "role"
      PROVE  \/ m2.append[k].of < t
             \/ m2.append[k].of = t /\ m2.active = t
  <2>1. PICK j \in DOMAIN m.append : m.append[j] = m2.append[k]
    BY <1>1
  <2>2. m.append[j].of < t \/ (m.append[j].of = t /\ m.active = t)
    BY <1>1, <2>1 DEF Told
  <2>3. QED  BY <2>1, <2>2
<1>2. m2.active # None => \/ HasRole(m2.append, m2.active)
                          \/ Summarised(m2.append)
  BY DEF Told, Runtime
<1>3. QED  BY <1>1, <1>2 DEF Told

\* A failed step: the prompt is compressed, or told of the failure, and the
\* result is persisted; the next prompt differs from the one that failed.
LEMMA RetryHistory ==
  ASSUME TypeInv, GuardInv, HistoryInv, RecoverOverflow \/ RetryWithFeedback,
         TypeInv'
  PROVE  HistoryInv'
<1>1. /\ pc = "retry" /\ pc' \in {"ask", "save_task"}
      /\ UNCHANGED <<task, steps, idx, starts, sent>>
      /\ runtime' = mem'
  BY DEF RecoverOverflow, RetryWithFeedback, ToFinalize, world
<1>2. AtWork /\ pc \notin Off /\ pc' \notin Off /\ mem' \in Runtime
  BY <1>1, AtWorkHolds DEF Off, Fresh, TypeInv, TypeOK
<1>3. /\ Told(mem, idx) /\ Within(mem, idx)
      /\ mem.append \in Seq(Message) /\ mem.retries \in Nat
  BY <1>2 DEF AtWork, Good, Runtime
<1>4. /\ mem'.executed = mem.executed /\ mem'.tool_calls = mem.tool_calls
      /\ mem'.uncertain = mem.uncertain /\ mem'.blocked = mem.blocked
      /\ mem'.recent = mem.recent /\ mem'.active = mem.active
  BY <1>2 DEF RecoverOverflow, RetryWithFeedback, AtWork, Runtime
<1>5. /\ Told(mem', idx) /\ Within(mem', idx)
      /\ Warned(mem.append) => Warned(mem'.append)
      /\ pc' = "ask" => mem'.append # mem.append
  <2>1. CASE RecoverOverflow
    <3>1. PICK a \in {mem.append} \union OverflowRewrites(mem.append) :
            /\ mem' = [mem EXCEPT !.append = a]
            /\ pc' = "ask" => a \in OverflowRewrites(mem.append)
      BY <2>1 DEF RecoverOverflow, ToFinalize
    <3>2. mem'.append = a /\ mem'.retries = mem.retries
      BY <1>2, <3>1 DEF AtWork, Runtime
    <3>3. Keeps(mem.append, mem.append)
      BY DEF Keeps
    <3>4. /\ Keeps(mem.append, a)
          /\ pc' = "ask" => a # mem.append
      BY <1>3, <3>1, <3>3, CompressionKeeps
    <3>5. RolesOnce(mem.append)
      BY <1>3 DEF Told
    <3>6. Told(mem', idx)
      BY <1>2, <1>3, <1>4, <3>2, <3>4, <3>5, ZoneKept DEF Keeps, AtWork
    <3>7. Within(mem', idx)
      BY <1>3, <1>4, <3>2 DEF Within
    <3>8. QED  BY <3>2, <3>4, <3>6, <3>7 DEF Keeps
  <2>2. CASE RetryWithFeedback
    <3>1. /\ RetryStop(reply) = None
          /\ mem' = [mem EXCEPT !.retries = @ + 1,
                                !.append = Append(@, Msg("retry",
                                                         mem.retries + 1))]
      BY <2>2 DEF RetryWithFeedback
    <3>2. PICK x \in Message : x = Msg("retry", mem.retries + 1)
      BY <1>3, MsgType
    <3>3. /\ mem'.append = Append(mem.append, x)
          /\ mem'.retries = mem.retries + 1
      BY <1>2, <3>1, <3>2 DEF AtWork, Runtime
    <3>4. PICK a \in Seq(Message) : a = mem.append
      BY <1>3
    <3>5. PICK b \in Seq(Message) : b = Append(a, x)
      BY <3>2, <3>4, AppendProperties
    <3>6. Says(a, x, b) /\ mem'.append = b /\ mem.append = a
      BY <3>2, <3>3, <3>4, <3>5, AppendSays
    <3>7. x.kind = "retry"
      BY <3>2 DEF Msg
    <3>8. RolesOnce(b)
      BY <1>3, <3>6, <3>7 DEF Says, Told
    <3>9. \A k \in DOMAIN b : b[k].kind = "role" =>
            \E j \in DOMAIN a : a[j] = b[k]
      BY <3>6, <3>7 DEF Says
    <3>10. Told(mem', idx)
      BY <1>2, <1>3, <1>4, <3>6, <3>8, <3>9, ZoneKept DEF Says, AtWork
    <3>11. mem.retries < MaxRetries
      <4>1. ~ (mem.retries >= MaxRetries)
        BY <3>1, NoneAssumption DEF RetryStop, StopReasons
      <4>2. QED  BY <1>3, <4>1, BoundsAssumption
    <3>12. Within(mem', idx)
      BY <1>3, <1>4, <3>3, <3>11, BoundsAssumption DEF Within
    <3>13. QED  BY <3>6, <3>10, <3>12 DEF Says
  <2>3. QED  BY <2>1, <2>2
<1>6. Good(steps, mem', idx)
  BY <1>2, <1>4, <1>5, GoodFrame DEF AtWork
<1>7. CountInv'
  <2>1. ToolRows' = ToolRows
    BY <1>1 DEF ToolRows
  <2>2. mem' # None /\ runtime # None
    BY <1>2, NoneNotRuntime DEF AtWork
  <2>3. OnDiskCharge' = OnDiskCharge
    BY <1>1, <1>2, <1>4, <2>2 DEF OnDiskCharge, AtWork
  <2>4. QED  BY <1>1, <2>1, <2>3, CountKept DEF HistoryInv
<1>8. Window(steps, mem.executed, mem.recent) /\ task = idx
  BY <1>1, <1>2 DEF HistoryInv, WindowGood, Synced
<1>9. DiskGood' /\ ProcessGood' /\ Synced'
  BY <1>1, <1>2, <1>4, <1>6, <1>8, NoneAssumption
  DEF DiskGood, ProcessGood, Synced, AtWork, Off, Fresh
<1>10. WindowGood'
  BY <1>1, <1>4, <1>8 DEF WindowGood
<1>11. StepInv' /\ SentInv'
  BY <1>1, <1>4, <1>5 DEF HistoryInv, StepInv, SentInv, Off, Fresh
<1>12. QED  BY <1>7, <1>9, <1>10, <1>11 DEF HistoryInv

\* A call is pushed on the window: the run is stuck and stops, or the call is
\* recorded, and then executed unless it is guarded.
LEMMA CallHistory ==
  ASSUME TypeInv, GuardInv, HistoryInv,
         StopOnNoProgress \/ BeginTool \/ InvokeTool, TypeInv'
  PROVE  HistoryInv'
<1>1. /\ pc \in {"act", "tool"} /\ pc' \in {"save_task", "tool", "ran"}
      /\ UNCHANGED <<task, runtime, idx, starts, call>>
      /\ call \in Calls
  BY DEF StopOnNoProgress, BeginTool, InvokeTool, ToFinalize, disk, local,
         world, TypeInv, CallInHand
<1>2. AtWork /\ pc \notin Off /\ pc' \notin Off /\ mem' \in Runtime
  BY <1>1, AtWorkHolds DEF Off, Fresh, TypeInv, TypeOK
<1>3. OnDiskCharge' = OnDiskCharge
  BY <1>1 DEF OnDiskCharge
<1>4. CASE InvokeTool
  <2>1. /\ pc = "tool" /\ pc' = "ran" /\ call \notin mem.blocked
        /\ UNCHANGED <<steps, mem, cur, sent>>
    BY <1>4 DEF InvokeTool, disk, local
  <2>2. CountInv'
    <3>1. ToolRows' = ToolRows
      BY <2>1 DEF ToolRows
    <3>2. QED  BY <1>1, <1>3, <2>1, <3>1, CountKept DEF HistoryInv
  <2>3. DiskGood' /\ ProcessGood' /\ Synced'
    BY <1>1, <1>2, <2>1
    DEF HistoryInv, DiskGood, ProcessGood, Synced, Off, Fresh
  <2>4. WindowGood'
    BY <1>1, <2>1 DEF HistoryInv, WindowGood
  <2>5. StepInv' /\ SentInv'
    BY <1>1, <2>1 DEF HistoryInv, StepInv, SentInv, Off, Fresh
  <2>6. QED  BY <2>2, <2>3, <2>4, <2>5 DEF HistoryInv
<1>5. ASSUME pc = "act"
      PROVE  Window(steps, mem.executed, mem.recent)
  BY <1>2, <1>5 DEF HistoryInv, WindowGood
<1>6. ASSUME mem'.executed = mem.executed,
             mem'.tool_calls = mem.tool_calls,
             mem'.uncertain = mem.uncertain, mem'.blocked = mem.blocked,
             mem'.retries = mem.retries, mem'.append = mem.append,
             mem'.active = mem.active,
             NEW s, Good(s, mem, idx)
      PROVE  Good(s, mem', idx)
  <2>1. Told(mem', idx) /\ Within(mem', idx)
    BY <1>6 DEF Good, Told, Within
  <2>2. QED  BY <1>6, <2>1, GoodFrame
<1>7. CASE StopOnNoProgress
  <2>1. /\ pc = "act" /\ pc' = "save_task" /\ Stuck(Pushed(mem.recent, call))
        /\ mem' = [mem EXCEPT !.recent = Pushed(@, call)]
        /\ UNCHANGED <<steps, sent>>
    BY <1>7 DEF StopOnNoProgress, ToFinalize, disk, world
  <2>2. /\ mem'.executed = mem.executed /\ mem'.tool_calls = mem.tool_calls
        /\ mem'.uncertain = mem.uncertain /\ mem'.blocked = mem.blocked
        /\ mem'.retries = mem.retries /\ mem'.append = mem.append
        /\ mem'.active = mem.active
        /\ mem'.recent = Pushed(mem.recent, call)
        /\ mem.recent \in Seq(Calls)
    BY <1>2, <2>1 DEF AtWork, Runtime
  <2>3. Good(steps, mem', idx)
    BY <1>2, <1>6, <2>2 DEF AtWork
  <2>4. Window(steps, mem.executed, mem'.recent)
    BY <1>1, <1>5, <2>1, <2>2, StuckKeepsWindow
  <2>5. CountInv'
    <3>1. ToolRows' = ToolRows
      BY <2>1 DEF ToolRows
    <3>2. QED  BY <1>1, <1>3, <2>1, <3>1, CountKept DEF HistoryInv
  <2>6. DiskGood' /\ ProcessGood' /\ Synced'
    BY <1>1, <1>2, <2>1, <2>2, <2>3
    DEF HistoryInv, DiskGood, ProcessGood, Synced, AtWork, Off, Fresh
  <2>7. WindowGood'
    BY <2>1, <2>2, <2>4 DEF WindowGood
  <2>8. StepInv' /\ SentInv'
    BY <2>1 DEF StepInv, SentInv, Off, Fresh
  <2>9. QED  BY <2>5, <2>6, <2>7, <2>8 DEF HistoryInv
<1>8. CASE BeginTool
  <2>1. /\ pc = "act" /\ pc' = "tool"
        /\ call \in mem.blocked \/ ~ Stuck(Pushed(mem.recent, call))
        /\ mem' = IF call \in mem.blocked THEN mem
                  ELSE [mem EXCEPT !.recent = Pushed(@, call)]
        /\ steps' = Append(steps, Row(idx, call)) /\ cur' = Len(steps) + 1
    BY <1>8 DEF BeginTool
  <2>2. /\ mem'.executed = mem.executed /\ mem'.tool_calls = mem.tool_calls
        /\ mem'.uncertain = mem.uncertain /\ mem'.blocked = mem.blocked
        /\ mem'.retries = mem.retries /\ mem'.append = mem.append
        /\ mem'.active = mem.active
        /\ call \in mem.blocked => mem'.recent = mem.recent
        /\ call \notin mem.blocked => mem'.recent = Pushed(mem.recent, call)
        /\ mem.recent \in Seq(Calls)
    BY <1>2, <2>1 DEF AtWork, Runtime
  <2>3. Extends(steps, steps')
    BY <1>1, <1>2, <2>1, OpenExtends DEF AtWork
  <2>4. /\ Good(steps', mem, idx) /\ Good(steps', runtime, task)
        /\ Window(steps', runtime.executed, runtime.recent)
        /\ Window(steps', mem.executed, mem.recent)
    BY <1>2, <1>5, <2>1, <2>3, ExtendsKeeps
  <2>5. Good(steps', mem', idx)
    BY <1>6, <2>2, <2>4
  <2>6. /\ Row(idx, call) \in Step /\ Row(idx, call).index = idx
        /\ Row(idx, call).call # None /\ Row(idx, call).status # "skipped"
    BY <1>1, <1>2, CallsAssumption DEF AtWork, Row, Step, Statuses
  <2>7. /\ Len(steps') = Len(steps) + 1
        /\ \A i \in 1..Len(steps) : steps'[i] = steps[i]
        /\ steps'[Len(steps) + 1] = Row(idx, call)
        /\ steps' \in Seq(Step)
    BY <1>2, <2>1, <2>6, AppendProperties DEF AtWork
  <2>8. /\ Len(steps) \in Nat /\ DOMAIN steps = 1..Len(steps)
        /\ DOMAIN steps' = 1..(Len(steps) + 1)
    BY <1>2, <2>7, LenProperties DEF AtWork
  <2>9. ToolRows' = ToolRows \union {Len(steps) + 1}
        /\ Len(steps) + 1 \notin ToolRows
    <3>1. /\ DOMAIN steps' = DOMAIN steps \union {Len(steps) + 1}
          /\ Len(steps) + 1 \notin DOMAIN steps
      BY <2>8
    <3>2. /\ steps'[Len(steps) + 1].call # None
          /\ steps'[Len(steps) + 1].status # "skipped"
      BY <2>6, <2>7
    <3>3. \A i \in DOMAIN steps : steps'[i] = steps[i]
      BY <2>7, <2>8
    <3>4. QED  BY <3>1, <3>2, <3>3 DEF ToolRows
  <2>10. CountInv'
    <3>1. Cardinality(ToolRows') = Cardinality(ToolRows) + 1
      BY <2>9, Counts, FS_AddElement
    <3>2. /\ Cardinality(ToolRows) \in Nat /\ OnDiskCharge \in Nat
          /\ starts \in Nat /\ starts >= 1
          /\ Cardinality(ToolRows) <= OnDiskCharge + (starts - 1)
      BY <2>1, Counts DEF HistoryInv, CountInv
    <3>3. QED  BY <1>1, <1>3, <2>1, <3>1, <3>2 DEF CountInv
  <2>11. DiskGood' /\ ProcessGood' /\ Synced'
    BY <1>1, <1>2, <2>1, <2>2, <2>4, <2>5
    DEF HistoryInv, DiskGood, ProcessGood, Synced, Off, Fresh
  <2>12. WindowGood'
    <3>1. CASE call \in mem.blocked
      BY <1>1, <2>1, <2>2, <2>4, <3>1 DEF WindowGood
    <3>2. CASE call \notin mem.blocked
      <4>1. /\ Window(steps', mem'.executed, mem.recent)
            /\ mem'.recent = Pushed(mem.recent, call')
            /\ ~ Stuck(mem'.recent) /\ call' \notin mem'.blocked
        BY <1>1, <2>1, <2>2, <2>4, <3>2
      <4>2. QED  BY <2>1, <2>2, <4>1, Zenon DEF WindowGood, Off, Fresh
    <3>3. QED  BY <3>1, <3>2
  <2>13. StepInv' /\ SentInv'
    BY <1>1, <2>1, <2>2, <2>6, <2>7
    DEF HistoryInv, StepInv, SentInv, Off, Fresh
  <2>14. QED  BY <2>10, <2>11, <2>12, <2>13 DEF HistoryInv
<1>9. QED  BY <1>4, <1>7, <1>8

\* A resumed process judges the interrupted steps and commits the verdicts
\* with the guards.
LEMMA RecoverHistory ==
  ASSUME TypeInv, GuardInv, HistoryInv, Recover, TypeInv'
  PROVE  HistoryInv'
<1>1. /\ pc = "recover" /\ pc' = "top"
      /\ UNCHANGED <<idx, starts, sent>>
      /\ steps' = [id \in DOMAIN steps |->
                     IF id \notin Orphans THEN steps[id]
                     ELSE [steps[id] EXCEPT !.status =
                             IF id \in UnsafeOrphans THEN "uncertain"
                                                     ELSE "failed"]]
      /\ IF Orphans = {} THEN UNCHANGED <<task, runtime>>
                         ELSE task' = idx /\ runtime' = mem'
      /\ starts \in Nat
  BY DEF Recover, world, TypeInv, TypeOK
<1>2. AtWork /\ pc \notin Off /\ pc' \notin Off /\ mem' \in Runtime
      /\ steps' \in Seq(Step)
  BY <1>1, AtWorkHolds DEF Off, Fresh, TypeInv, TypeOK
<1>3. /\ mem'.executed = mem.executed /\ mem'.tool_calls = mem.tool_calls
      /\ mem'.retries = mem.retries /\ mem'.active = mem.active
      /\ mem'.recent = mem.recent
      /\ mem'.uncertain = mem.uncertain \union UnsafeOrphans
      /\ mem'.blocked
           = mem.blocked \union {steps[id].call : id \in UnsafeOrphans}
      /\ mem'.append = IF UnsafeOrphans = {} THEN mem.append
                       ELSE Append(mem.append, Msg("resume", starts))
  <2>1. mem \in Runtime
    BY <1>2 DEF AtWork
  <2>2. mem' = [mem EXCEPT
                  !.uncertain = @ \union UnsafeOrphans,
                  !.blocked   = @ \union {steps[id].call :
                                            id \in UnsafeOrphans},
                  !.append    = IF UnsafeOrphans = {} THEN @
                                ELSE Append(@, Msg("resume", starts))]
    BY DEF Recover
  <2>3. QED  BY <2>1, <2>2 DEF Runtime
<1>4. /\ Good(steps', mem', idx)
      /\ \A k \in DOMAIN mem.executed :
           steps'[mem.executed[k]] = steps[mem.executed[k]]
  <2>1. /\ Orphans = {id \in DOMAIN steps : steps[id].status = "running"}
        /\ UnsafeOrphans = {id \in Orphans : steps[id].call \in Mutating}
    BY DEF Orphans, UnsafeOrphans
  <2>2. Good(steps, mem, idx) /\ mem \in Runtime /\ steps \in Seq(Step)
    BY <1>2 DEF AtWork
  <2> HIDE DEF Orphans, UnsafeOrphans
  <2>3. Judged(steps, mem, Orphans, UnsafeOrphans, starts, steps', mem')
    BY <1>1, <1>3, <2>1 DEF Judged
  <2>4. /\ steps \in Seq(Step) /\ mem \in Runtime /\ starts \in Nat
        /\ steps' \in Seq(Step) /\ mem' \in Runtime
    BY <1>1, <1>2, <2>2
  <2>5. Good(steps', mem', idx)
    BY <2>2, <2>3, <2>4, GoodRecover
  <2>6. \A k \in DOMAIN mem.executed :
          steps'[mem.executed[k]] = steps[mem.executed[k]]
    BY <2>2, <2>3, <2>4, GoodRecover
  <2>7. QED  BY <2>5, <2>6
<1>5. Window(steps', mem'.executed, mem'.recent)
  <2>1. Window(steps, mem.executed, mem.recent)
    BY <1>1, <1>2 DEF HistoryInv, WindowGood
  <2>2. QED  BY <1>3, <1>4, <2>1, RunsKept
<1>6. ToolRows' = ToolRows
  <2>1. \A id \in DOMAIN steps : steps[id] \in Step
    BY <1>2, LenProperties, ElementOfSeq DEF AtWork
  <2>2. \A st \in Step : \A x \in {"uncertain", "failed"} :
          /\ [st EXCEPT !.status = x].call = st.call
          /\ [st EXCEPT !.status = x].status # "skipped"
    BY DEF Step
  <2>3. ASSUME NEW id \in DOMAIN steps
        PROVE  /\ steps'[id].call = steps[id].call
               /\ steps'[id].status = "skipped"
                    <=> steps[id].status = "skipped"
    <3>1. CASE id \in Orphans
      <4>1. PICK x \in {"uncertain", "failed"} :
              steps'[id] = [steps[id] EXCEPT !.status = x]
        BY <1>1, <3>1
      <4>2. steps[id].status = "running"
        BY <3>1 DEF Orphans
      <4>3. QED  BY <2>1, <2>2, <4>1, <4>2
    <3>2. CASE id \notin Orphans
      BY <1>1, <3>2
    <3>3. QED  BY <3>1, <3>2
  <2>4. DOMAIN steps' = DOMAIN steps
    BY <1>1
  <2>5. QED  BY <2>3, <2>4 DEF ToolRows
<1>7. mem' # None /\ runtime # None /\ task = idx
  BY <1>1, <1>2, NoneNotRuntime DEF AtWork, HistoryInv, Synced
<1>8. CountInv'
  <2>1. OnDiskCharge' = OnDiskCharge
    BY <1>1, <1>2, <1>3, <1>7 DEF OnDiskCharge, AtWork
  <2>2. QED  BY <1>1, <1>6, <2>1, CountKept DEF HistoryInv
<1>9. DiskGood'
  <2>1. CASE Orphans = {}
    <3>1. steps' = steps
      <4>1. steps' = [id \in DOMAIN steps |-> steps[id]]
        BY <1>1, <2>1
      <4>2. QED  BY <1>2, <4>1, LenProperties DEF AtWork
    <3>2. QED  BY <1>1, <2>1, <3>1 DEF HistoryInv, DiskGood
  <2>2. CASE Orphans # {}
    <3>1. task' = idx /\ runtime' = mem' /\ idx # None
      BY <1>1, <1>2, <2>2, NoneAssumption DEF AtWork
    <3>2. QED  BY <1>4, <1>5, <3>1 DEF DiskGood
  <2>3. QED  BY <2>1, <2>2
<1>10. ProcessGood' /\ Synced'
  BY <1>1, <1>2, <1>3, <1>4, <1>7, NoneAssumption
  DEF ProcessGood, Synced, AtWork, Off, Fresh
<1>11. WindowGood'
  BY <1>1, <1>5 DEF WindowGood
<1>12. StepInv' /\ SentInv'
  BY <1>1, <1>2 DEF HistoryInv, StepInv, SentInv, Off, Fresh
<1>13. QED  BY <1>8, <1>9, <1>10, <1>11, <1>12 DEF HistoryInv

\* What a tool step leaves in memory before its checkpoint: an execution is
\* charged, a refusal lifts the guard.
Finished(m, st) ==
  /\ st \in {"done", "failed", "skipped"}
  /\ m.executed = mem.executed /\ m.append = mem.append
  /\ m.recent = mem.recent /\ m.retries = mem.retries
  /\ st # "skipped" =>
       /\ call \notin mem.blocked
       /\ m.tool_calls = mem.tool_calls + 1
       /\ m.blocked = mem.blocked /\ m.uncertain = mem.uncertain
  /\ st = "skipped" =>
       /\ call \in mem.blocked
       /\ m.tool_calls = mem.tool_calls
       /\ m.blocked = mem.blocked \ {call}
       /\ m.uncertain = {id \in mem.uncertain : steps[id].call # call}

\* The transaction at the end of a tool step.
LEMMA CheckpointHistory ==
  ASSUME TypeInv, GuardInv, HistoryInv, TypeInv', pc \in {"tool", "ran"},
         NEW m \in Runtime, NEW st, Finished(m, st), Checkpoint(m, st)
  PROVE  HistoryInv'
<1>1. /\ pc' = "top" /\ idx' = idx + 1 /\ task' = idx + 1 /\ runtime' = mem'
      /\ steps' = [steps EXCEPT ![cur].status = st]
      /\ sent' = <<>> /\ starts' = starts
      /\ call \in Calls
  BY DEF Checkpoint, Complete, TypeInv, CallInHand
<1>2. AtWork /\ pc \notin Off /\ pc' \notin Off /\ mem' \in Runtime
      /\ steps' \in Seq(Step)
  BY <1>1, AtWorkHolds DEF Off, Fresh, TypeInv, TypeOK
<1>3. /\ idx < MaxSteps /\ mem.tool_calls < MaxToolCalls
      /\ cur = Len(steps) /\ steps[cur].index = idx
      /\ Orphans = {cur} /\ steps[cur].call = call
  BY DEF HistoryInv, StepInv, GuardInv, OneRunning, Working, Fresh, PCs
<1>4. cur \in DOMAIN steps /\ steps[cur].status = "running"
  BY <1>3 DEF Orphans
<1>5. /\ st \in {"done", "failed", "skipped"}
      /\ m.append = mem.append /\ m.executed = mem.executed
      /\ m.retries = mem.retries /\ m.recent = mem.recent
      /\ m.tool_calls = IF st = "skipped" THEN mem.tool_calls
                                          ELSE mem.tool_calls + 1
  BY DEF Finished
<1>6. PICK a \in BudgetRewrites(Append(mem.append, Msg("result", cur))) :
        mem' = [m EXCEPT !.executed = Append(@, cur),
                         !.append   = a,
                         !.active   = None]
  BY <1>5 DEF Checkpoint
<1>7. /\ mem'.executed = Append(mem.executed, cur)
      /\ mem'.append = a /\ mem'.active = None
      /\ mem'.recent = mem.recent /\ mem'.retries = mem.retries
      /\ mem'.tool_calls = m.tool_calls
      /\ mem'.blocked = m.blocked /\ mem'.uncertain = m.uncertain
  BY <1>5, <1>6 DEF Runtime
<1>8. Keeps(Append(mem.append, Msg("result", cur)), mem'.append)
  <2>1. mem.append \in Seq(Message) /\ Msg("result", cur) \in Message
    BY <1>2, MsgType DEF AtWork, Runtime, TypeInv, TypeOK
  <2>2. Append(mem.append, Msg("result", cur)) \in Seq(Message)
    BY <2>1, AppendProperties
  <2>3. QED  BY <1>6, <1>7, <2>2, CompressionKeeps
<1>9. Recorded(steps, mem, idx, cur, st, steps', mem')
  BY <1>1, <1>3, <1>4, <1>5, <1>7, <1>8 DEF Recorded, Finished
<1>10. /\ DOMAIN steps' = DOMAIN steps
       /\ steps'[cur].call = call /\ steps'[cur].status = st
       /\ \A k \in DOMAIN steps : k # cur => steps'[k] = steps[k]
  <2>1. steps[cur] \in Step
    BY <1>2, <1>4, LenProperties, ElementOfSeq DEF AtWork
  <2>2. steps'[cur] = [steps[cur] EXCEPT !.status = st]
    BY <1>1, <1>4
  <2>3. steps'[cur].call = call /\ steps'[cur].status = st
    BY <1>3, <2>1, <2>2 DEF Step
  <2>4. QED  BY <1>1, <2>3
<1>11. PICK q \in Seq(Calls) : /\ Window(steps, mem.executed, q)
                               /\ Slides(steps', cur, q, mem'.recent)
  <2>1. CASE call \in mem.blocked
    <3>1. Window(steps, mem.executed, mem.recent) /\ st = "skipped"
      BY <2>1 DEF HistoryInv, WindowGood, Finished
    <3>2. Slides(steps', cur, mem.recent, mem'.recent)
      BY <1>1, <1>7, <1>10, <3>1 DEF Slides
    <3>3. mem.recent \in Seq(Calls)
      BY <1>2 DEF AtWork, Runtime
    <3>4. QED  BY <3>1, <3>2, <3>3
  <2>2. CASE call \notin mem.blocked
    <3>1. PICK q \in Seq(Calls) : /\ Window(steps, mem.executed, q)
                                  /\ mem.recent = Pushed(q, call)
                                  /\ ~ Stuck(mem.recent)
      BY <2>2 DEF HistoryInv, WindowGood
    <3>2. st # "skipped"
      BY <2>2 DEF Finished
    <3>3. Slides(steps', cur, q, mem'.recent)
      BY <1>1, <1>7, <1>10, <3>1, <3>2 DEF Slides
    <3>4. QED  BY <3>1, <3>3
  <2>3. QED  BY <2>1, <2>2
<1>12. /\ Good(steps', mem', idx + 1)
       /\ Window(steps', mem'.executed, mem'.recent)
  <2>1. /\ steps \in Seq(Step) /\ mem \in Runtime /\ idx \in Nat
        /\ steps' \in Seq(Step) /\ mem' \in Runtime
        /\ Good(steps, mem, idx)
    BY <1>2 DEF AtWork
  <2>2. Good(steps', mem', idx + 1)
    BY <1>3, <1>9, <1>11, <2>1, GoodCheckpoint
  <2>3. Window(steps', mem'.executed, mem'.recent)
    BY <1>3, <1>9, <1>11, <2>1, GoodCheckpoint
  <2>4. QED  BY <2>2, <2>3
<1>13. CountInv'
  <2>1. /\ Cardinality(ToolRows) \in Nat /\ IsFiniteSet(ToolRows)
        /\ OnDiskCharge \in Nat /\ starts \in Nat /\ starts >= 1
        /\ Cardinality(ToolRows) <= OnDiskCharge + (starts - 1) + 1
    BY <1>2, Counts DEF HistoryInv, CountInv, Off
  <2>2. mem' # None /\ runtime # None
    BY <1>2, NoneNotRuntime DEF AtWork
  <2>3. /\ OnDiskCharge = mem.tool_calls
        /\ OnDiskCharge' = m.tool_calls
    BY <1>1, <1>2, <1>7, <2>2 DEF OnDiskCharge, AtWork
  <2>4. cur \in ToolRows
    BY <1>1, <1>3, <1>4, CallsAssumption DEF ToolRows
  <2>5. CASE st = "skipped"
    <3>1. ToolRows' = ToolRows \ {cur}
      BY <1>10, <2>5 DEF ToolRows
    <3>2. Cardinality(ToolRows') = Cardinality(ToolRows) - 1
      BY <2>1, <2>4, <3>1, FS_RemoveElement
    <3>3. QED
      BY <1>1, <1>5, <2>1, <2>3, <2>5, <3>2 DEF CountInv
  <2>6. CASE st # "skipped"
    <3>1. ToolRows' = ToolRows
      BY <1>1, <1>3, <1>4, <1>10, <2>6, CallsAssumption DEF ToolRows
    <3>2. QED
      BY <1>1, <1>5, <2>1, <2>3, <2>6, <3>1 DEF CountInv
  <2>7. QED  BY <2>5, <2>6
<1>14. DiskGood' /\ ProcessGood' /\ Synced'
  <2>1. idx + 1 \in Nat /\ idx + 1 # None
    BY <1>2, NoneAssumption DEF AtWork
  <2>2. QED
    BY <1>1, <1>2, <1>12, <2>1
    DEF DiskGood, ProcessGood, Synced, Off, Fresh
<1>15. WindowGood' /\ StepInv' /\ SentInv'
  BY <1>1, <1>12 DEF WindowGood, StepInv, SentInv, Off, Fresh
<1>16. QED  BY <1>13, <1>14, <1>15 DEF HistoryInv

\* Every action of the program, the user and the crash keeps the invariant.
LEMMA HistoryStep == TypeInv /\ GuardInv /\ HistoryInv /\ [Next]_vars
                       => HistoryInv'
<1> SUFFICES ASSUME TypeInv, GuardInv, HistoryInv, [Next]_vars
             PROVE  HistoryInv'
  OBVIOUS
<1>type. TypeInv' /\ mem \in Runtime
  BY TypeStep DEF TypeInv, TypeOK
<1>Start. CASE Start
  BY <1>Start, StartHistory
<1>Fresh. CASE StartRun \/ SaveFirstTask \/ SaveFirstRuntime
  BY <1>Fresh, FreshHistory
<1>Recover. CASE Recover
  BY <1>Recover, <1>type, RecoverHistory
<1>Stop. CASE HonourCancel \/ StopOnBudget \/ StopOnPrefix \/ GiveUp
  BY <1>Stop, StopHistory
  DEF HonourCancel, StopOnBudget, StopOnPrefix, GiveUp, ToFinalize, disk,
      world
<1>Cancel. CASE Cancel
  BY <1>Cancel, StopHistory DEF Cancel, disk, local, world
<1>EnterStep. CASE EnterStep
  BY <1>EnterStep, <1>type, EnterHistory
<1>Model. CASE \/ AskModel \/ CloseModelStep
               \/ \E failure : ProviderFails(failure)
  BY <1>Model, ModelHistory
<1>Retry. CASE RecoverOverflow \/ RetryWithFeedback
  BY <1>Retry, <1>type, RetryHistory
<1>Save. CASE \/ SaveTask \/ SaveRuntime \/ Answer
              \/ \E kind, c : ModelReplies(kind, c)
  BY <1>Save, SaveHistory
<1>Call. CASE StopOnNoProgress \/ BeginTool \/ InvokeTool
  BY <1>Call, <1>type, CallHistory
<1>RecordTool. CASE RecordTool
  <2> DEFINE m == [mem EXCEPT !.tool_calls = @ + 1]
  <2>1. PICK st \in {"done", "failed"} : Checkpoint(m, st)
    BY <1>RecordTool DEF RecordTool
  <2>2. mem.tool_calls + 1 \in Nat
    BY <1>type DEF Runtime
  <2>3. m \in Runtime
    BY <1>type, <2>2, RuntimeType
  <2>4. pc = "ran" /\ call \notin mem.blocked
    BY <1>RecordTool
    DEF RecordTool, GuardInv, OneRunning, Working, Fresh, PCs
  <2>5. Finished(m, st)
    BY <1>type, <2>4 DEF Finished, Runtime
  <2> HIDE DEF m
  <2>6. QED  BY <1>type, <2>1, <2>3, <2>4, <2>5, CheckpointHistory
<1>RefuseTool. CASE RefuseTool
  <2> DEFINE B == mem.blocked \ {call}
             U == {id \in mem.uncertain : steps[id].call # call}
             m == [mem EXCEPT !.blocked = B, !.uncertain = U]
  <2>1. pc = "tool" /\ call \in mem.blocked /\ Checkpoint(m, "skipped")
    BY <1>RefuseTool DEF RefuseTool
  <2>2. B \in SUBSET Calls /\ U \in SUBSET Nat
    BY <1>type DEF Runtime
  <2>3. m \in Runtime
    BY <1>type, <2>2, RuntimeType
  <2>4. Finished(m, "skipped")
    BY <1>type, <2>1 DEF Finished, Runtime
  <2> HIDE DEF m
  <2>5. QED  BY <1>type, <2>1, <2>3, <2>4, CheckpointHistory
<1>Forget. CASE FinishRun \/ Crash
  BY <1>Forget, ForgetHistory DEF FinishRun, Crash, disk
<1>Stutter. CASE UNCHANGED vars
  BY <1>Stutter
  DEF vars, HistoryInv, DiskGood, ProcessGood, Synced, WindowGood, StepInv,
      SentInv, CountInv, ToolRows, OnDiskCharge
<1>QED. QED
  BY <1>Start, <1>Fresh, <1>Recover, <1>Stop, <1>Cancel, <1>EnterStep,
     <1>Model, <1>Retry, <1>Save, <1>Call, <1>RecordTool, <1>RefuseTool,
     <1>Forget, <1>Stutter
  DEF Next, Loop, Reply

\* All three invariants of a run.
RunInv == TypeInv /\ GuardInv /\ HistoryInv

\* The types, the guard and the history hold in every reachable state.
LEMMA RunCorrect == Spec => []RunInv
<1>1. Init => RunInv
  BY TypeInit, GuardInit, HistoryInit DEF RunInv
<1>2. RunInv /\ [Next]_vars => RunInv'
  BY TypeStep, GuardStep, HistoryStep DEF RunInv
<1>3. QED  BY <1>1, <1>2, PTL DEF Spec

----------------------------------------------------------------------------
\* The properties.

\* Each step marked uncertain stays guarded and announced until a later
\* request for its call was refused (_recover_orphaned_steps).
THEOREM GuardsOutlive == Spec => []RepeatGuarded
<1>1. RunInv => RepeatGuarded
  <2> SUFFICES ASSUME RunInv, NEW id \in DOMAIN steps,
                      steps[id].status = "uncertain"
               PROVE  \/ /\ runtime # None
                         /\ id \in runtime.uncertain
                         /\ steps[id].call \in runtime.blocked
                         /\ \E k \in DOMAIN runtime.append :
                              runtime.append[k].kind \in {"resume", "summary"}
                      \/ \E later \in DOMAIN steps :
                           /\ later > id
                           /\ steps[later] = [steps[id] EXCEPT
                                                !.status = "skipped",
                                                !.index = steps[later].index]
    BY DEF RepeatGuarded
  <2>1. runtime # None
    BY DEF RunInv, GuardInv, StartInv
  <2>2. Remembered(steps, runtime)
    BY <2>1 DEF RunInv, HistoryInv, DiskGood, Good
  <2>3. QED  BY <2>1, <2>2 DEF Remembered, RefusedLater, Warned
<1>2. QED  BY <1>1, RunCorrect, PTL

\* History on disk, steps table and charge tell one story, whatever was
\* interrupted (save_tool_checkpoint).
THEOREM LedgerCorrect == Spec => []LedgerAgrees
<1>1. RunInv => LedgerAgrees
  <2> SUFFICES ASSUME RunInv, runtime # None PROVE LedgerAgrees
    BY DEF LedgerAgrees
  <2>1. Ledger(steps, runtime, task)
    BY DEF RunInv, HistoryInv, DiskGood, Good
  <2>2. QED
    BY <2>1 DEF LedgerAgrees, Ledger, InOrder, AllListed, Charged, Ids
<1>2. QED  BY <1>1, RunCorrect, PTL

\* A third identical call in a row never executes, in one process or in
\* several (NO_PROGRESS_REPEAT).
THEOREM RepetitionStops == Spec => []NoThirdRepeat
<1>1. RunInv => NoThirdRepeat
  BY DEF RunInv, HistoryInv, DiskGood, Good, NoTriple, NoThirdRepeat
<1>2. QED  BY <1>1, RunCorrect, PTL

\* No step is told its role twice, and the active one is told it, in memory
\* and in what a resume restores (_run_step).
THEOREM DirectivesOnce == Spec => []RoleDirectiveOnce
<1>1. RunInv => RoleDirectiveOnce
  <2> SUFFICES ASSUME RunInv, NEW m \in {mem} \union ({runtime} \ {None})
               PROVE  LET at(i) == {k \in DOMAIN m.append :
                                      m.append[k] = Msg("role", i)}
                      IN  /\ \A i \in 0..MaxSteps : Cardinality(at(i)) <= 1
                          /\ m.active # None =>
                               \/ at(m.active) # {}
                               \/ \E k \in DOMAIN m.append :
                                    m.append[k].kind = "summary"
    BY DEF RoleDirectiveOnce
  <2> DEFINE at(i) == {k \in DOMAIN m.append : m.append[k] = Msg("role", i)}
  <2>1. /\ RolesOnce(m.append)
        /\ m.active # None => \/ HasRole(m.append, m.active)
                              \/ Summarised(m.append)
    <3>1. CASE m = Blank
      BY <3>1 DEF Blank, RolesOnce
    <3>2. CASE m # Blank
      BY <3>2 DEF RunInv, HistoryInv, DiskGood, ProcessGood, Good, Told
    <3>3. QED  BY <3>1, <3>2
  <2>2. ASSUME NEW i \in 0..MaxSteps PROVE Cardinality(at(i)) <= 1
    <3>1. \A j, k \in at(i) : j = k
      BY <2>1 DEF RolesOnce, Msg
    <3>2. CASE at(i) = {}
      <4>1. Cardinality({}) = 0
        BY FS_EmptySet
      <4>2. QED  BY <3>2, <4>1
    <3>3. CASE at(i) # {}
      <4>1. PICK k : at(i) = {k}
        BY <3>1, <3>3
      <4>2. Cardinality({k}) = 1
        BY FS_Singleton
      <4>3. QED  BY <4>1, <4>2
    <3>4. QED  BY <3>2, <3>3
  <2>3. m.active # None =>
          at(m.active) # {} \/ \E k \in DOMAIN m.append :
                                 m.append[k].kind = "summary"
    BY <2>1 DEF HasRole, Summarised
  <2>4. QED  BY <2>2, <2>3
<1>2. QED  BY <1>1, RunCorrect, PTL

\* No bound of the budget is passed, and what was executed exceeds what is
\* charged by at most one call for each process (core.Budget).
THEOREM BudgetsCorrect == Spec => []BudgetsHold
<1>1. RunInv => BudgetsHold
  <2> SUFFICES ASSUME RunInv PROVE BudgetsHold
    OBVIOUS
  <2>1. /\ idx <= MaxSteps /\ mem.tool_calls <= MaxToolCalls
        /\ mem.retries <= MaxRetries
    <3>1. CASE pc \in Off
      BY <3>1, BoundsAssumption DEF RunInv, HistoryInv, ProcessGood, Blank
    <3>2. CASE pc \notin Off
      BY <3>2 DEF RunInv, HistoryInv, ProcessGood, Good, Within
    <3>3. QED  BY <3>1, <3>2
  <2>2. Cardinality(ToolRows) <= OnDiskCharge + starts
    <3>1. /\ Cardinality(ToolRows) \in Nat /\ OnDiskCharge \in Nat
          /\ starts \in Nat
      BY Counts DEF RunInv
    <3>2. QED  BY <3>1 DEF RunInv, HistoryInv, CountInv
  <2>3. QED  BY <2>1, <2>2 DEF BudgetsHold, ToolRows, OnDiskCharge
<1>2. QED  BY <1>1, RunCorrect, PTL

\* Within a step, the model is never sent the prompt it was just sent
\* (retry.py).
THEOREM RetriesDiffer == Spec => RetryChangesPrompt
<1>1. RunInv => (pc = "ask" /\ pc' = "model" => mem.append # sent)
  BY DEF RunInv, HistoryInv, SentInv
<1>2. QED  BY <1>1, RunCorrect, PTL DEF RetryChangesPrompt

\* A history is a prefix of itself and of itself with one more step.
LEMMA Prefixes ==
  ASSUME NEW e \in Seq(Nat), NEW id \in Nat
  PROVE  IsPrefixOf(e, e) /\ IsPrefixOf(e, Append(e, id))
<1> DEFINE d == Append(e, id)
<1>1. /\ Len(e) \in Nat /\ DOMAIN e = 1..Len(e)
  BY LenProperties
<1>2. /\ d \in Seq(Nat) /\ Len(d) = Len(e) + 1
      /\ \A i \in 1..Len(e) : d[i] = e[i]
  BY AppendProperties
<1> HIDE DEF d
<1>3. ASSUME NEW f \in Seq(Nat), Len(e) <= Len(f),
             \A i \in 1..Len(e) : f[i] = e[i]
      PROVE  IsPrefixOf(e, f)
  <2>0. Len(f) \in Nat
    BY LenProperties
  <2>1. /\ \A i \in 1..Len(e) : f[i] \in Nat
        /\ 1 \in Int /\ Len(e) \in Int
    <3>1. \A i \in 1..Len(e) : i \in 1..Len(f)
      BY <1>1, <1>3, <2>0
    <3>2. QED  BY <1>1, <3>1, ElementOfSeq
  <2>2. PICK g \in Seq(Nat) : g = SubSeq(f, 1, Len(e))
    BY <2>1, SubSeqProperties
  <2>3. /\ Len(g) = IF 1 <= Len(e) THEN Len(e) - 1 + 1 ELSE 0
        /\ \A i \in 1..(Len(e) - 1 + 1) : g[i] = f[1 + i - 1]
    BY <2>1, <2>2, SubSeqProperties
  <2>4. Len(g) = Len(e) /\ \A i \in 1..Len(e) : g[i] = f[i]
    BY <1>1, <2>3
  <2>5. g = e
    BY <1>3, <2>4, SeqEqual
  <2>6. QED  BY <1>3, <2>2, <2>5 DEF IsPrefixOf
<1>4. IsPrefixOf(e, e)
  BY <1>1, <1>3
<1>5. IsPrefixOf(e, d)
  BY <1>1, <1>2, <1>3
<1>6. QED  BY <1>4, <1>5 DEF d

\* What a step never undoes.
Progress ==
  /\ task # None => task' # None /\ task' >= task
  /\ runtime # None => /\ runtime' # None
                       /\ IsPrefixOf(runtime.executed, runtime'.executed)
  /\ \A id \in DOMAIN steps : steps[id].status # "running" =>
                                steps'[id] = steps[id]

\* Steps are only added to the table and closed once; a record is only
\* replaced by one whose history begins with its own.
LEMMA ProgressStep == RunInv /\ RunInv' /\ [Next]_vars => Progress
<1> SUFFICES ASSUME RunInv, RunInv', [Next]_vars PROVE Progress
  OBVIOUS
<1>inv. TypeInv /\ GuardInv /\ HistoryInv
  BY DEF RunInv
<1>type. /\ steps \in Seq(Step) /\ cur \in Nat
         /\ task # None => task \in Nat
         /\ runtime # None => runtime \in Runtime
  BY <1>inv DEF TypeInv, TypeOK
<1>work. pc \notin Off => AtWork
  BY <1>inv, AtWorkHolds
<1>open. pc \in {"model", "parsed", "tool", "ran"} => cur \in Orphans
  BY <1>inv DEF GuardInv, OneRunning, Working, Fresh, PCs
<1>1. ASSUME NEW id \in DOMAIN steps, steps[id].status # "running"
      PROVE  steps'[id] = steps[id]
  <2>1. \/ UNCHANGED steps
        \/ pc = "recover" /\ Recover
        \/ \E c \in Calls \union {None} : steps' = Append(steps, Row(idx, c))
        \/ /\ pc \in {"model", "parsed", "tool", "ran"}
           /\ \E st \in Statuses : steps' = Complete(cur, st)
    <3>1. CASE Start \/ Crash \/ Cancel \/ UNCHANGED vars
      BY <3>1 DEF Start, StartFresh, StartResume, StartRefused, Crash, Cancel,
                  vars, disk
    <3>2. CASE Reply \/ CloseModelStep \/ RecordTool \/ RefuseTool
      <4>1. CASE Reply
        BY <4>1 DEF Reply, ProviderFails, ModelReplies, Statuses, disk
      <4>2. CASE CloseModelStep
        BY <4>2 DEF CloseModelStep, Statuses
      <4>3. CASE RecordTool
        BY <4>3 DEF RecordTool, Checkpoint, Statuses
      <4>4. CASE RefuseTool
        BY <4>4 DEF RefuseTool, Checkpoint, Statuses
      <4>5. QED  BY <3>2, <4>1, <4>2, <4>3, <4>4
    <3>3. CASE AskModel \/ BeginTool
      BY <1>inv, <3>3 DEF AskModel, BeginTool, TypeInv, CallInHand
    <3>4. CASE \/ StartRun \/ SaveFirstTask \/ SaveFirstRuntime
               \/ HonourCancel \/ EnterStep \/ StopOnBudget \/ StopOnPrefix
               \/ RecoverOverflow \/ GiveUp \/ RetryWithFeedback
      BY <3>4 DEF StartRun, SaveFirstTask, SaveFirstRuntime, HonourCancel,
                  EnterStep, StopOnBudget, StopOnPrefix, RecoverOverflow,
                  GiveUp, RetryWithFeedback, ToFinalize, disk
    <3>5. CASE \/ Answer \/ StopOnNoProgress \/ InvokeTool
               \/ SaveTask \/ SaveRuntime \/ FinishRun
      BY <3>5 DEF Answer, StopOnNoProgress, InvokeTool, SaveTask,
                  SaveRuntime, FinishRun, ToFinalize, disk
    <3>6. CASE Recover
      BY <3>6 DEF Recover
    <3>7. QED  BY <3>1, <3>2, <3>3, <3>4, <3>5, <3>6 DEF Next, Loop
  <2>2. CASE pc = "recover" /\ Recover
    <3>1. id \notin Orphans
      BY <1>1 DEF Orphans
    <3>2. QED  BY <2>2, <3>1 DEF Recover
  <2>3. CASE \E c \in Calls \union {None} :
               steps' = Append(steps, Row(idx, c))
    <3>1. PICK c \in Calls \union {None} : steps' = Append(steps, Row(idx, c))
      BY <2>3
    <3>2. idx \in Nat
      BY <1>inv DEF TypeInv, TypeOK
    <3>3. QED  BY <1>type, <3>1, <3>2, OrphansAppend
  <2>4. CASE /\ pc \in {"model", "parsed", "tool", "ran"}
             /\ \E st \in Statuses : steps' = Complete(cur, st)
    <3>1. id # cur
      BY <1>1, <1>open, <2>4 DEF Orphans
    <3>2. QED  BY <2>4, <3>1 DEF Complete
  <2>5. QED  BY <2>1, <2>2, <2>3, <2>4
<1>2. ASSUME task # None
      PROVE  task' # None /\ task' >= task
  <2>1. \/ task' = task
        \/ pc \notin Off /\ task' = idx
        \/ pc \notin Off /\ task' = idx + 1
    BY <1>inv, <1>2
    DEF Next, Loop, Start, Reply, vars, disk, local, world, StartFresh,
        StartRun, SaveFirstTask, SaveFirstRuntime, StartResume, StartRefused,
        SaveTask, SaveRuntime, FinishRun, HonourCancel, EnterStep,
        StopOnBudget, StopOnPrefix, AskModel, ProviderFails, ModelReplies,
        CloseModelStep, RecoverOverflow, GiveUp, RetryWithFeedback, Answer,
        StopOnNoProgress, BeginTool, InvokeTool, RecordTool, RefuseTool,
        Checkpoint, Crash, Cancel, Recover, ToFinalize, Off, Fresh,
        GuardInv, StartInv
  <2>2. CASE task' = task
    BY <1>type, <1>2, <2>2
  <2>3. CASE pc \notin Off /\ (task' = idx \/ task' = idx + 1)
    <3>1. idx \in Nat /\ task \in Nat /\ task <= idx
      BY <1>work, <2>3 DEF AtWork
    <3>2. QED  BY <2>3, <3>1, NoneAssumption
  <2>4. QED  BY <2>1, <2>2, <2>3
<1>3. ASSUME runtime # None
      PROVE  /\ runtime' # None
             /\ IsPrefixOf(runtime.executed, runtime'.executed)
  <2>0. mem' \in Runtime /\ runtime.executed \in Seq(Nat) /\ mem \in Runtime
    BY <1>3, <1>type, <1>inv DEF RunInv, TypeInv, TypeOK, Runtime
  <2>1. \/ runtime' = runtime
        \/ pc \notin Off /\ runtime' = mem
        \/ /\ pc \notin Off /\ runtime' = mem'
           /\ \/ mem'.executed = mem.executed
              \/ mem'.executed = Append(mem.executed, cur)
    BY <1>inv, <1>3, <2>0
    DEF Next, Loop, Start, Reply, vars, disk, local, world, StartFresh,
        StartRun, SaveFirstTask, SaveFirstRuntime, StartResume, StartRefused,
        SaveTask, SaveRuntime, FinishRun, HonourCancel, EnterStep,
        StopOnBudget, StopOnPrefix, AskModel, ProviderFails, ModelReplies,
        CloseModelStep, RecoverOverflow, GiveUp, RetryWithFeedback, Answer,
        StopOnNoProgress, BeginTool, InvokeTool, RecordTool, RefuseTool,
        Checkpoint, Crash, Cancel, Recover, ToFinalize, Off, Fresh,
        GuardInv, StartInv, Runtime
  <2>2. CASE runtime' = runtime
    BY <1>3, <1>type, <2>0, <2>2, Prefixes
  <2>3. CASE pc \notin Off /\ runtime' # runtime
    <3>1. mem.executed = runtime.executed
      BY <1>work, <2>3 DEF AtWork
    <3>2. runtime' # None
      BY <2>0, <2>1, <2>3, NoneNotRuntime
    <3>3. QED  BY <1>type, <2>0, <2>1, <2>3, <3>1, <3>2, Prefixes
  <2>4. QED  BY <2>1, <2>2, <2>3
<1>4. QED  BY <1>1, <1>2, <1>3 DEF Progress

\* The resume point never moves back, recorded results are never dropped and
\* a closed step is never reopened (ARCHITECTURE.md, Agent loop).
THEOREM ProgressIsKept == Spec => ProgressKept
<1>1. RunInv /\ RunInv' /\ [Next]_vars => [Progress]_vars
  BY ProgressStep
<1>2. [][Progress]_vars => ProgressKept
  BY PTL DEF ProgressKept, Progress
<1>3. QED  BY <1>1, <1>2, RunCorrect, PTL DEF Spec
=============================================================================
