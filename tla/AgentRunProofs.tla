--------------------------- MODULE AgentRunProofs ---------------------------
(***************************************************************************)
(* Proofs about AgentRun for every set of calls, every budget and every    *)
(* number of processes.                                                    *)
(***************************************************************************)
EXTENDS AgentRun, SequenceTheorems, TLAPS

----------------------------------------------------------------------------
\* Data lemmas.

\* A message built by Msg from a kind of the append zone is a Message.
LEMMA MsgType ==
  ASSUME NEW n \in Nat,
         NEW kind \in {"role", "result", "short", "retry", "resume",
                       "summary"}
  PROVE  Msg(kind, n) \in Message
  BY DEF Msg, Message

\* What a compression rung leaves of an append zone is an append zone.
LEMMA RewritesType ==
  ASSUME NEW a \in Seq(Message)
  PROVE  Rewrites(a) \subseteq Seq(Message)
<1> DEFINE n == Len(a)
<1>1. /\ n \in Nat /\ DOMAIN a = 1..n
      /\ \A k \in 1..n : a[k] \in Message
  BY LenProperties, ElementOfSeq
<1>2. ASSUME NEW K PROVE Shorten(a, K) \in Seq(Message)
  <2> DEFINE e(k) == IF k \in K THEN Msg("short", a[k].of) ELSE a[k]
  <2>1. \A k \in 1..n : a[k].of \in Nat
    BY <1>1 DEF Message
  <2>2. \A k \in 1..n : e(k) \in Message
    BY <1>1, <2>1, MsgType
  <2>3. Shorten(a, K) = [k \in 1..n |-> e(k)]
    BY <1>1 DEF Shorten
  <2>4. Shorten(a, K) \in [1..n -> Message]
    BY <2>2, <2>3
  <2>5. QED  BY <1>1, <2>4, SeqDef
<1>3. ASSUME Len(a) >= KeepRecent + MinSpan
      PROVE  <<Msg("summary", Span(a))>> \o SubSeq(a, Span(a) + 1, Len(a))
               \in Seq(Message)
  <2>1. Span(a) \in Nat
    BY <1>1, <1>3, BoundsAssumption DEF Span
  <2>2. <<Msg("summary", Span(a))>> \in Seq(Message)
    BY <2>1, MsgType
  <2>3. SubSeq(a, Span(a) + 1, Len(a)) \in Seq(Message)
    BY <1>1, <2>1, SubSeqProperties
  <2>4. QED  BY <2>2, <2>3, ConcatProperties
<1>4. Collapsed(a) \subseteq Seq(Message)
  <2>1. CASE Len(a) < KeepRecent + MinSpan
    BY <2>1 DEF Collapsed
  <2>2. CASE ~ (Len(a) < KeepRecent + MinSpan)
    BY <2>2, <1>1, <1>3, BoundsAssumption DEF Collapsed
  <2>3. QED  BY <2>1, <2>2
<1>5. QED  BY <1>2, <1>4 DEF Rewrites, Shortened

\* The same for the repeated rungs of overflow recovery and for the single
\* pass after a tool result.
LEMMA CompressionType ==
  ASSUME NEW a \in Seq(Message)
  PROVE  /\ OverflowRewrites(a) \subseteq Seq(Message)
         /\ BudgetRewrites(a) \subseteq Seq(Message)
  BY RewritesType DEF OverflowRewrites, BudgetRewrites

\* The window of recent calls stays a sequence of calls.
LEMMA PushedType ==
  ASSUME NEW q \in Seq(Calls), NEW c \in Calls
  PROVE  Pushed(q, c) \in Seq(Calls)
<1>1. CASE Len(q) < NoProgressRepeat
  BY <1>1, AppendProperties DEF Pushed
<1>2. CASE ~ (Len(q) < NoProgressRepeat)
  <2>1. q # <<>>
    BY <1>2, EmptySeq DEF NoProgressRepeat
  <2>2. Tail(q) \in Seq(Calls)
    BY <2>1, HeadTailProperties
  <2>3. QED  BY <1>2, <2>2, AppendProperties DEF Pushed
<1>3. QED  BY <1>1, <1>2

\* Setting the status of a row gives a row.
LEMMA StatusType ==
  ASSUME NEW st \in Step, NEW s \in Statuses
  PROVE  [st EXCEPT !.status = s] \in Step
  BY DEF Step

\* A new row, and closing a row, keep the steps table a table; closing a row
\* changes nothing but that row's status.
LEMMA StepsType ==
  ASSUME steps \in Seq(Step)
  PROVE  /\ \A i \in Nat, c \in Calls \union {None} :
              Append(steps, Row(i, c)) \in Seq(Step)
         /\ \A id : \A s \in Statuses : Complete(id, s) \in Seq(Step)
<1>1. \A i \in Nat, c \in Calls \union {None} : Row(i, c) \in Step
  BY DEF Row, Step, Statuses
<1>2. ASSUME NEW id, NEW s \in Statuses
      PROVE  Complete(id, s) \in Seq(Step)
  <2>1. DOMAIN steps = 1..Len(steps)
    BY LenProperties
  <2>2. CASE id \in 1..Len(steps)
    <3>1. [steps[id] EXCEPT !.status = s] \in Step
      <4>1. steps[id] \in Step
        BY <2>2, ElementOfSeq
      <4>2. QED  BY <4>1, StatusType
    <3>2. QED  BY <2>2, <3>1, ExceptSeq DEF Complete
  <2>3. CASE id \notin 1..Len(steps)
    <3>1. Complete(id, s) = steps
      BY <2>1, <2>3, LenProperties DEF Complete
    <3>2. QED  BY <3>1
  <2>4. QED  BY <2>2, <2>3
<1>3. QED  BY <1>1, <1>2, AppendProperties

\* Memory after each kind of update is again of the shape that is persisted.
LEMMA RuntimeType ==
  ASSUME NEW m \in Runtime
  PROVE  /\ \A a \in Seq(Message) : [m EXCEPT !.append = a] \in Runtime
         /\ \A a \in Seq(Message), i \in Nat :
              [m EXCEPT !.append = a, !.active = i] \in Runtime
         /\ \A a \in Seq(Message), k \in Nat :
              [m EXCEPT !.retries = k, !.append = a] \in Runtime
         /\ \A q \in Seq(Calls) : [m EXCEPT !.recent = q] \in Runtime
         /\ \A k \in Nat : [m EXCEPT !.tool_calls = k] \in Runtime
         /\ \A B \in SUBSET Calls, U \in SUBSET Nat :
              [m EXCEPT !.blocked = B, !.uncertain = U] \in Runtime
         /\ \A B \in SUBSET Calls, U \in SUBSET Nat, a \in Seq(Message) :
              [m EXCEPT !.uncertain = U, !.blocked = B, !.append = a]
                \in Runtime
         /\ \A e \in Seq(Nat), a \in Seq(Message) :
              [m EXCEPT !.executed = e, !.append = a, !.active = None]
                \in Runtime
  BY DEF Runtime

\* An absent runtime_state row is not taken for a present one.
LEMMA NoneNotRuntime ==
  ASSUME NEW m \in Runtime PROVE m # None
  BY NoneAssumption DEF Runtime

\* The memory of a process that has not read anything is typed.
LEMMA BlankType == Blank \in Runtime
  BY EmptySeq DEF Blank, Runtime

----------------------------------------------------------------------------
\* Type correctness.

\* Wherever the loop is about to act on a tool call, it has one in hand.
CallInHand ==
  /\ pc \in {"parsed", "act"} /\ reply = "tool" => call \in Calls
  /\ pc \in {"tool", "ran"} => call \in Calls

TypeInv == TypeOK /\ CallInHand

\* The process's exit, whether by return or by death, leaves typed state.
LEMMA ForgetType ==
  ASSUME TypeInv, Forget,
         UNCHANGED <<task, runtime, steps, starts, landed>>,
         run' \in StopReasons \union {None}
  PROVE  TypeInv'
  BY BlankType, EmptySeq
  DEF TypeInv, TypeOK, CallInHand, Forget, Failures, Replies, PCs

\* The transaction at the end of a tool step keeps the state typed, whatever
\* memory the tool left and whatever compression made of the append zone.
LEMMA CheckpointType ==
  ASSUME TypeInv, pc \in {"tool", "ran"},
         NEW m \in Runtime, NEW status \in Statuses,
         Checkpoint(m, status)
  PROVE  TypeInv'
<1>1. mem' \in Runtime
  <2>1. Append(m.append, Msg("result", cur)) \in Seq(Message)
    <3>1. m.append \in Seq(Message)
      BY DEF Runtime
    <3>2. Msg("result", cur) \in Message
      BY MsgType DEF TypeInv, TypeOK
    <3>3. QED  BY <3>1, <3>2, AppendProperties
  <2>2. PICK a \in BudgetRewrites(Append(m.append, Msg("result", cur))) :
          mem' = [m EXCEPT !.executed = Append(@, cur), !.append = a,
                           !.active = None]
    BY DEF Checkpoint
  <2>3. a \in Seq(Message)
    BY <2>1, <2>2, CompressionType
  <2>4. Append(m.executed, cur) \in Seq(Nat)
    <3>1. m.executed \in Seq(Nat) /\ cur \in Nat
      BY DEF Runtime, TypeInv, TypeOK
    <3>2. QED  BY <3>1, AppendProperties
  <2>5. QED  BY <2>2, <2>3, <2>4, RuntimeType
<1>2. steps' \in Seq(Step)
  <2>1. steps' = Complete(cur, status)
    BY DEF Checkpoint
  <2>2. steps \in Seq(Step)
    BY DEF TypeInv, TypeOK
  <2>3. QED  BY <2>1, <2>2, StepsType
<1>3. landed' \in [Calls -> Nat]
  <2>1. landed' = [landed EXCEPT ![call] = 0]
    BY DEF Checkpoint
  <2>2. QED  BY <2>1 DEF TypeInv, TypeOK
<1>4. /\ idx' = idx + 1 /\ task' = idx' /\ runtime' = mem' /\ pc' = "top"
      /\ cur' = 0 /\ call' = None /\ reply' = "answer" /\ compressed' = FALSE
      /\ sent' = <<>> /\ run' = run /\ stop' = stop
      /\ cancelled' = cancelled /\ starts' = starts
  BY DEF Checkpoint
<1>5. sent' \in Seq(Message)
  BY <1>4, EmptySeq
<1>6. /\ idx' \in Nat /\ cur' \in Nat /\ starts' \in Nat
      /\ task' \in Nat \union {None} /\ runtime' \in Runtime \union {None}
  BY <1>1, <1>4 DEF TypeInv, TypeOK
<1>7. /\ run' \in StopReasons \union {None}
      /\ stop' \in StopReasons \union {None}
      /\ cancelled' \in BOOLEAN /\ compressed' \in BOOLEAN
      /\ call' \in Calls \union {None}
  BY <1>4 DEF TypeInv, TypeOK
<1>8. pc' \in PCs /\ reply' \in Failures \union Replies /\ CallInHand'
  BY <1>4 DEF PCs, Failures, Replies, CallInHand
<1>9. QED
  BY <1>1, <1>2, <1>3, <1>5, <1>6, <1>7, <1>8 DEF TypeInv, TypeOK

\* An empty database and no process.
LEMMA TypeInit == Init => TypeInv
<1> SUFFICES ASSUME Init PROVE TypeInv
  OBVIOUS
<1>1. mem \in Runtime
  BY BlankType DEF Init
<1>2. steps \in Seq(Step) /\ sent \in Seq(Message)
  BY EmptySeq DEF Init
<1>3. landed \in [Calls -> Nat]
  BY DEF Init
<1>4. QED
  BY <1>1, <1>2, <1>3
  DEF Init, TypeInv, TypeOK, CallInHand, Failures, Replies, PCs

\* Every action of the program, the user and the crash keeps the types.
LEMMA TypeStep == TypeInv /\ [Next]_vars => TypeInv'
<1> SUFFICES ASSUME TypeInv, [Next]_vars PROVE TypeInv'
  OBVIOUS
<1> USE DEF TypeInv, TypeOK, CallInHand, PCs, disk, local, world
<1>StartFresh. CASE StartFresh
  BY <1>StartFresh DEF StartFresh
<1>StartRun. CASE StartRun
  BY <1>StartRun DEF StartRun
<1>SaveFirstTask. CASE SaveFirstTask
  BY <1>SaveFirstTask DEF SaveFirstTask
<1>SaveFirstRuntime. CASE SaveFirstRuntime
  BY <1>SaveFirstRuntime DEF SaveFirstRuntime
<1>StartResume. CASE StartResume
  BY <1>StartResume DEF StartResume
<1>StartRefused. CASE StartRefused
  BY <1>StartRefused DEF StartRefused
<1>SaveTask. CASE SaveTask
  BY <1>SaveTask DEF SaveTask
<1>SaveRuntime. CASE SaveRuntime
  BY <1>SaveRuntime DEF SaveRuntime
<1>HonourCancel. CASE HonourCancel
  BY <1>HonourCancel DEF HonourCancel, ToFinalize, StopReasons
<1>StopOnBudget. CASE StopOnBudget
  BY <1>StopOnBudget DEF StopOnBudget, ToFinalize, StopReasons
<1>StopOnPrefix. CASE StopOnPrefix
  BY <1>StopOnPrefix DEF StopOnPrefix, ToFinalize, StopReasons
<1>GiveUp. CASE GiveUp
  BY <1>GiveUp DEF GiveUp, ToFinalize, RetryStop, StopReasons
<1>Answer. CASE Answer
  BY <1>Answer DEF Answer, ToFinalize, StopReasons
<1>Cancel. CASE Cancel
  BY <1>Cancel DEF Cancel
<1>Recover. CASE Recover
  <2>1. steps' \in Seq(Step)
    <3> DEFINE e(id) == IF id \notin Orphans THEN steps[id]
                        ELSE [steps[id] EXCEPT !.status =
                                IF id \in UnsafeOrphans THEN "uncertain"
                                                        ELSE "failed"]
    <3>1. Len(steps) \in Nat /\ DOMAIN steps = 1..Len(steps)
      BY LenProperties
    <3>2. \A id \in 1..Len(steps) : steps[id] \in Step
      BY ElementOfSeq
    <3>3. \A id \in 1..Len(steps) : e(id) \in Step
      BY <3>2, StatusType DEF Statuses
    <3>4. steps' = [id \in 1..Len(steps) |-> e(id)]
      BY <1>Recover, <3>1 DEF Recover
    <3>5. steps' \in [1..Len(steps) -> Step]
      BY <3>3, <3>4
    <3>6. QED  BY <3>1, <3>5, SeqDef
  <2>2. mem' \in Runtime
    <3> DEFINE U == mem.uncertain \union UnsafeOrphans
               B == mem.blocked \union {steps[id].call : id \in UnsafeOrphans}
               a == IF UnsafeOrphans = {} THEN mem.append
                    ELSE Append(mem.append, Msg("resume", starts))
    <3>1. DOMAIN steps \subseteq Nat
      BY LenProperties
    <3>2. U \in SUBSET Nat
      BY <3>1 DEF UnsafeOrphans, Orphans, Runtime
    <3>3. B \in SUBSET Calls
      BY CallsAssumption DEF UnsafeOrphans, Runtime
    <3>4. a \in Seq(Message)
      <4>1. mem.append \in Seq(Message)
        BY DEF Runtime
      <4>2. Msg("resume", starts) \in Message
        BY MsgType
      <4>3. QED  BY <4>1, <4>2, AppendProperties
    <3>5. mem' = [mem EXCEPT !.uncertain = U, !.blocked = B, !.append = a]
      BY <1>Recover DEF Recover
    <3>6. QED  BY <3>2, <3>3, <3>4, <3>5, RuntimeType
  <2>3. /\ task' \in Nat \union {None}
        /\ runtime' \in Runtime \union {None}
    BY <1>Recover, <2>2 DEF Recover
  <2>4. /\ pc' = "top"
        /\ UNCHANGED <<run, idx, cur, reply, call, compressed, stop,
                       cancelled, starts, landed, sent>>
    BY <1>Recover DEF Recover
  <2>5. QED  BY <2>1, <2>2, <2>3, <2>4
<1>FinishRun. CASE FinishRun
  BY <1>FinishRun, ForgetType DEF FinishRun
<1>Crash. CASE Crash
  BY <1>Crash, ForgetType DEF Crash
<1>EnterStep. CASE EnterStep
  <2>1. Append(mem.append, Msg("role", idx)) \in Seq(Message)
    <3>1. mem.append \in Seq(Message)
      BY DEF Runtime
    <3>2. Msg("role", idx) \in Message
      BY MsgType
    <3>3. QED  BY <3>1, <3>2, AppendProperties
  <2>2. mem' \in Runtime
    BY <1>EnterStep, <2>1, RuntimeType DEF EnterStep
  <2>3. /\ pc' = "ask" /\ compressed' = FALSE
        /\ UNCHANGED <<run, task, runtime, steps, idx, cur, reply, call,
                       stop, cancelled, starts, landed, sent>>
    BY <1>EnterStep DEF EnterStep
  <2>4. QED  BY <2>2, <2>3
<1>AskModel. CASE AskModel
  <2>1. steps' \in Seq(Step)
    BY <1>AskModel, StepsType DEF AskModel
  <2>2. cur' \in Nat
    BY <1>AskModel, LenProperties DEF AskModel
  <2>3. sent' \in Seq(Message)
    BY <1>AskModel DEF AskModel, Runtime
  <2>4. /\ pc' = "model"
        /\ UNCHANGED <<run, task, runtime, idx, mem, reply, call,
                       compressed, stop, cancelled, starts, landed>>
    BY <1>AskModel DEF AskModel
  <2>5. QED  BY <2>1, <2>2, <2>3, <2>4
<1>ProviderFails. ASSUME NEW failure \in Failures \ Replies,
                         ProviderFails(failure)
                  PROVE  TypeInv'
  <2>1. steps' \in Seq(Step)
    BY <1>ProviderFails, StepsType DEF ProviderFails, Statuses
  <2>2. QED  BY <1>ProviderFails, <2>1 DEF ProviderFails
<1>ModelReplies. ASSUME NEW kind \in Replies, NEW c \in Calls \union {None},
                        kind = "tool" => c \in Calls,
                        ModelReplies(kind, c)
                 PROVE  TypeInv'
  BY <1>ModelReplies DEF ModelReplies
<1>CloseModelStep. CASE CloseModelStep
  <2>1. steps' \in Seq(Step)
    BY <1>CloseModelStep, StepsType DEF CloseModelStep, Statuses
  <2>2. /\ pc' \in {"retry", "act"} /\ pc = "parsed"
        /\ UNCHANGED <<run, task, runtime, idx, mem, cur, reply, call,
                       compressed, stop, cancelled, starts, landed, sent>>
    BY <1>CloseModelStep DEF CloseModelStep
  <2>3. QED  BY <2>1, <2>2
<1>RecoverOverflow. CASE RecoverOverflow
  <2>1. mem.append \in Seq(Message)
    BY DEF Runtime
  <2>2. PICK a \in {mem.append} \union OverflowRewrites(mem.append) :
          mem' = [mem EXCEPT !.append = a]
    BY <1>RecoverOverflow DEF RecoverOverflow
  <2>3. mem' \in Runtime
    BY <2>1, <2>2, CompressionType, RuntimeType
  <2>4. stop' \in StopReasons \union {None} /\ pc' \in {"ask", "save_task"}
    BY <1>RecoverOverflow DEF RecoverOverflow, ToFinalize, StopReasons
  <2>5. /\ runtime' = mem' /\ compressed' = TRUE
        /\ UNCHANGED <<run, task, steps, idx, cur, reply, call, cancelled,
                       starts, landed, sent>>
    BY <1>RecoverOverflow DEF RecoverOverflow
  <2>6. QED  BY <2>3, <2>4, <2>5
<1>RetryWithFeedback. CASE RetryWithFeedback
  <2>1. mem.retries + 1 \in Nat /\ mem.append \in Seq(Message)
    BY DEF Runtime
  <2>2. Append(mem.append, Msg("retry", mem.retries + 1)) \in Seq(Message)
    <3>1. Msg("retry", mem.retries + 1) \in Message
      BY <2>1, MsgType
    <3>2. QED  BY <2>1, <3>1, AppendProperties
  <2>3. mem' \in Runtime
    BY <1>RetryWithFeedback, <2>1, <2>2, RuntimeType DEF RetryWithFeedback
  <2>4. /\ pc' = "ask" /\ runtime' = mem'
        /\ UNCHANGED <<run, task, steps, idx, cur, reply, call, compressed,
                       stop, cancelled, starts, landed, sent>>
    BY <1>RetryWithFeedback DEF RetryWithFeedback
  <2>5. QED  BY <2>3, <2>4
<1>StopOnNoProgress. CASE StopOnNoProgress
  <2>1. call \in Calls /\ mem.recent \in Seq(Calls)
    BY <1>StopOnNoProgress DEF StopOnNoProgress, Runtime
  <2>2. mem' \in Runtime
    BY <1>StopOnNoProgress, <2>1, PushedType, RuntimeType
    DEF StopOnNoProgress
  <2>3. /\ pc' = "save_task" /\ stop' = "no_progress"
        /\ UNCHANGED <<run, task, runtime, steps, idx, cur, reply, call,
                       compressed, cancelled, starts, landed, sent>>
    BY <1>StopOnNoProgress DEF StopOnNoProgress, ToFinalize
  <2>4. QED  BY <2>2, <2>3 DEF StopReasons
<1>BeginTool. CASE BeginTool
  <2>1. call \in Calls /\ mem.recent \in Seq(Calls)
    BY <1>BeginTool DEF BeginTool, Runtime
  <2>2. mem' \in Runtime
    BY <1>BeginTool, <2>1, PushedType, RuntimeType DEF BeginTool
  <2>3. steps' \in Seq(Step)
    BY <1>BeginTool, <2>1, StepsType DEF BeginTool
  <2>4. cur' \in Nat
    BY <1>BeginTool, LenProperties DEF BeginTool
  <2>5. /\ pc' = "tool"
        /\ UNCHANGED <<run, task, runtime, idx, reply, call, compressed,
                       stop, cancelled, starts, landed, sent>>
    BY <1>BeginTool DEF BeginTool
  <2>6. QED  BY <2>1, <2>2, <2>3, <2>4, <2>5
<1>InvokeTool. CASE InvokeTool
  BY <1>InvokeTool DEF InvokeTool
<1>RecordTool. CASE RecordTool
  <2>1. [mem EXCEPT !.tool_calls = @ + 1] \in Runtime
    <3>1. mem.tool_calls + 1 \in Nat
      BY DEF Runtime
    <3>2. QED  BY <3>1, RuntimeType
  <2>2. QED
    BY <1>RecordTool, <2>1, CheckpointType DEF RecordTool, Statuses
<1>RefuseTool. CASE RefuseTool
  <2> DEFINE B == mem.blocked \ {call}
             U == {id \in mem.uncertain : steps[id].call # call}
  <2>1. B \in SUBSET Calls /\ U \in SUBSET Nat
    BY DEF Runtime
  <2>2. [mem EXCEPT !.blocked = B, !.uncertain = U] \in Runtime
    BY <2>1, RuntimeType
  <2>3. Checkpoint([mem EXCEPT !.blocked = B, !.uncertain = U], "skipped")
    BY <1>RefuseTool DEF RefuseTool
  <2>4. QED
    BY <1>RefuseTool, <2>2, <2>3, CheckpointType DEF RefuseTool, Statuses
<1>Reply. CASE Reply
  <2>1. "tool" \in Replies
    BY DEF Replies
  <2>2. QED
    BY <1>Reply, <2>1, <1>ProviderFails, <1>ModelReplies DEF Reply
<1>Stutter. CASE UNCHANGED vars
  BY <1>Stutter DEF vars
<1> HIDE DEF TypeInv, TypeOK, CallInHand
<1>Loop. CASE Loop
  BY <1>Loop, <1>StartRun, <1>SaveFirstTask, <1>SaveFirstRuntime, <1>Recover,
     <1>HonourCancel, <1>EnterStep, <1>StopOnBudget, <1>StopOnPrefix,
     <1>AskModel, <1>Reply, <1>CloseModelStep, <1>RecoverOverflow,
     <1>GiveUp, <1>RetryWithFeedback, <1>Answer, <1>StopOnNoProgress,
     <1>BeginTool, <1>InvokeTool, <1>RecordTool, <1>RefuseTool,
     <1>SaveTask, <1>SaveRuntime, <1>FinishRun
  DEF Loop
<1>QED. QED
  BY <1>Loop, <1>StartFresh, <1>StartResume, <1>StartRefused, <1>Crash,
     <1>Cancel, <1>Stutter
  DEF Next, Start

\* Type correctness: the database, the process and the world hold what the
\* code's annotations say, whatever the model answers, and wherever the
\* process is killed (AgentLoop, MemoryStore).
THEOREM TypeCorrect == Spec => []TypeOK
<1>1. Spec => []TypeInv
  BY TypeInit, TypeStep, PTL DEF Spec
<1>2. TypeInv => TypeOK
  BY DEF TypeInv
<1>3. QED  BY <1>1, <1>2, PTL

----------------------------------------------------------------------------
\* The guard against silent repeats.

Fresh   == {"start_run", "save_first_task", "save_first_runtime"}
Working == PCs \ ({"off", "recover"} \union Fresh)

\* The rows of a run appear in order, the steps table last; a fresh process
\* works on blank memory.
StartInv ==
  /\ task = None => runtime = None
  /\ runtime = None => steps = <<>>
  /\ pc \in {"start_run", "save_first_task"} => task = None
  /\ pc = "save_first_runtime" => task # None
  /\ pc \in Fresh => runtime = None
  /\ pc \in {"off"} \union Fresh => mem.blocked = {}
  /\ pc \notin {"off"} \union Fresh => runtime # None

\* The guards a working process enforces are those a resume would restore.
MemoryAgrees == pc \notin {"off"} \union Fresh => mem.blocked = runtime.blocked

\* A working process has at most one step open: the one it is performing.
OneRunning ==
  pc \in Working =>
    /\ Orphans = IF pc \in {"model", "parsed", "tool", "ran"} THEN {cur}
                                                              ELSE {}
    /\ pc \in {"model", "parsed"} => steps[cur].call = None
    /\ pc \in {"tool", "ran"} => steps[cur].call = call
    /\ pc = "ran" => call \notin mem.blocked

\* An effect nobody reported is the effect of a guarded call, or of a step
\* still open that did execute.
Covered(c) == \/ c \in GuardedOnDisk
              \/ \E id \in Orphans : /\ steps[id].call = c
                                     /\ ~ (pc = "tool" /\ id = cur)

LandedCovered == \A c \in Mutating : /\ landed[c] \in {0, 1}
                                     /\ landed[c] = 1 => Covered(c)

GuardInv == StartInv /\ MemoryAgrees /\ OneRunning /\ LandedCovered

\* Recording a step opens exactly that step.
LEMMA OrphansAppend ==
  ASSUME steps \in Seq(Step), NEW i \in Nat, NEW c \in Calls \union {None},
         steps' = Append(steps, Row(i, c))
  PROVE  /\ Orphans' = Orphans \union {Len(steps) + 1}
         /\ Len(steps) + 1 \notin DOMAIN steps
         /\ \A id \in DOMAIN steps : steps'[id] = steps[id]
         /\ steps'[Len(steps) + 1].call = c
<1>1. Row(i, c) \in Step /\ Row(i, c).status = "running" /\ Row(i, c).call = c
  BY DEF Row, Step, Statuses
<1>2. Len(steps) \in Nat /\ DOMAIN steps = 1..Len(steps)
  BY LenProperties
<1>3. /\ steps' \in Seq(Step) /\ Len(steps') = Len(steps) + 1
      /\ \A id \in 1..Len(steps) : steps'[id] = steps[id]
      /\ steps'[Len(steps) + 1] = Row(i, c)
  BY <1>1, AppendProperties
<1>4. DOMAIN steps' = 1..(Len(steps) + 1)
  BY <1>3, LenProperties
<1>5. QED  BY <1>1, <1>2, <1>3, <1>4 DEF Orphans

\* Closing a step closes exactly that step and keeps every call.
LEMMA OrphansComplete ==
  ASSUME steps \in Seq(Step), NEW id, NEW s \in Statuses \ {"running"},
         steps' = Complete(id, s)
  PROVE  /\ Orphans' = Orphans \ {id}
         /\ DOMAIN steps' = DOMAIN steps
         /\ \A k \in DOMAIN steps : steps'[k].call = steps[k].call
<1>1. DOMAIN steps' = DOMAIN steps
  BY DEF Complete
<1>2. \A k \in DOMAIN steps :
        steps'[k] = IF k = id THEN [steps[k] EXCEPT !.status = s]
                              ELSE steps[k]
  BY DEF Complete
<1>3. \A k \in DOMAIN steps : steps[k] \in Step
  BY LenProperties, ElementOfSeq
<1>4. \A st \in Step : /\ [st EXCEPT !.status = s].status = s
                       /\ [st EXCEPT !.status = s].call = st.call
  BY DEF Step
<1>5. \A k \in DOMAIN steps :
        /\ steps'[k].call = steps[k].call
        /\ steps'[k].status = IF k = id THEN s ELSE steps[k].status
  <2> SUFFICES ASSUME NEW k \in DOMAIN steps
               PROVE  /\ steps'[k].call = steps[k].call
                      /\ steps'[k].status = IF k = id THEN s
                                                     ELSE steps[k].status
    OBVIOUS
  <2>1. CASE k = id
    BY <2>1, <1>2, <1>3, <1>4
  <2>2. CASE k # id
    BY <2>2, <1>2
  <2>3. QED  BY <2>1, <2>2
<1>6. Orphans' = Orphans \ {id}
  BY <1>1, <1>5 DEF Orphans
<1>7. QED  BY <1>1, <1>5, <1>6

\* Nothing has taken effect yet, so nothing needs a guard.
LEMMA GuardInit == Init => GuardInv
<1> SUFFICES ASSUME Init PROVE GuardInv
  OBVIOUS
<1>1. runtime = None /\ steps = <<>> /\ task = None /\ pc = "off"
  BY DEF Init
<1>2. \A c \in Mutating : landed[c] = 0
  BY CallsAssumption DEF Init
<1>3. mem.blocked = {}
  BY DEF Init, Blank
<1>4. QED
  BY <1>1, <1>2, <1>3
  DEF GuardInv, StartInv, MemoryAgrees, OneRunning, LandedCovered, Working,
      Fresh

\* What uncovers no effect: a step that reports and lands nothing, keeps the
\* table and the guards on disk, and begins no tool.
LEMMA CoverKept ==
  ASSUME LandedCovered, UNCHANGED <<steps, landed>>,
         GuardedOnDisk \subseteq GuardedOnDisk', pc' # "tool"
  PROVE  LandedCovered'
  BY DEF LandedCovered, Covered, Orphans

\* A crash or a return keeps the guard: it changes nothing on disk.
LEMMA ForgetGuard ==
  ASSUME GuardInv, Forget, UNCHANGED <<task, runtime, steps, starts, landed>>
  PROVE  GuardInv'
<1>1. LandedCovered'
  BY CoverKept DEF GuardInv, Forget, GuardedOnDisk
<1>2. pc' = "off" /\ mem'.blocked = {}
  BY DEF Forget, Blank
<1>3. QED
  BY <1>1, <1>2
  DEF GuardInv, StartInv, MemoryAgrees, OneRunning, Working, Fresh

\* Every action of the program, the user and the crash keeps the guard.
LEMMA GuardStep == TypeInv /\ GuardInv /\ [Next]_vars => GuardInv'
<1> SUFFICES ASSUME TypeInv, GuardInv, [Next]_vars PROVE GuardInv'
  OBVIOUS
<1>idx. idx # None /\ idx + 1 # None /\ steps \in Seq(Step)
  BY NoneAssumption DEF TypeInv, TypeOK
<1>mem. mem # None /\ mem \in Runtime
  BY NoneNotRuntime DEF TypeInv, TypeOK
<1> USE DEF GuardInv, StartInv, MemoryAgrees, OneRunning, Working, Fresh,
            PCs, disk, local, world
<1>StartFresh. CASE StartFresh
  <2>1. LandedCovered'
    BY <1>StartFresh, CoverKept DEF StartFresh, GuardedOnDisk
  <2>2. QED  BY <1>StartFresh, <2>1 DEF StartFresh, Orphans
<1>StartRun. CASE StartRun
  <2>1. LandedCovered'
    BY <1>StartRun, CoverKept DEF StartRun, GuardedOnDisk
  <2>2. QED  BY <1>StartRun, <2>1 DEF StartRun, Orphans
<1>SaveFirstTask. CASE SaveFirstTask
  <2>1. LandedCovered'
    BY <1>SaveFirstTask, CoverKept DEF SaveFirstTask, GuardedOnDisk
  <2>2. QED  BY <1>SaveFirstTask, <1>idx, <2>1 DEF SaveFirstTask, Orphans
<1>StartRefused. CASE StartRefused
  <2>1. LandedCovered'
    BY <1>StartRefused, CoverKept DEF StartRefused, GuardedOnDisk
  <2>2. QED  BY <1>StartRefused, <2>1 DEF StartRefused, Orphans
<1>SaveTask. CASE SaveTask
  <2>1. LandedCovered'
    BY <1>SaveTask, CoverKept DEF SaveTask, GuardedOnDisk
  <2>2. QED  BY <1>SaveTask, <1>idx, <2>1 DEF SaveTask, Orphans
<1>HonourCancel. CASE HonourCancel
  <2>1. LandedCovered'
    BY <1>HonourCancel, CoverKept DEF HonourCancel, ToFinalize, GuardedOnDisk
  <2>2. QED  BY <1>HonourCancel, <2>1 DEF HonourCancel, ToFinalize, Orphans
<1>StopOnBudget. CASE StopOnBudget
  <2>1. LandedCovered'
    BY <1>StopOnBudget, CoverKept DEF StopOnBudget, ToFinalize, GuardedOnDisk
  <2>2. QED  BY <1>StopOnBudget, <2>1 DEF StopOnBudget, ToFinalize, Orphans
<1>StopOnPrefix. CASE StopOnPrefix
  <2>1. LandedCovered'
    BY <1>StopOnPrefix, CoverKept DEF StopOnPrefix, ToFinalize, GuardedOnDisk
  <2>2. QED  BY <1>StopOnPrefix, <2>1 DEF StopOnPrefix, ToFinalize, Orphans
<1>GiveUp. CASE GiveUp
  <2>1. LandedCovered'
    BY <1>GiveUp, CoverKept DEF GiveUp, ToFinalize, GuardedOnDisk
  <2>2. QED  BY <1>GiveUp, <2>1 DEF GiveUp, ToFinalize, Orphans
<1>Answer. CASE Answer
  <2>1. LandedCovered'
    BY <1>Answer, CoverKept DEF Answer, ToFinalize, GuardedOnDisk
  <2>2. QED  BY <1>Answer, <2>1 DEF Answer, ToFinalize, Orphans
<1>Cancel. CASE Cancel
  <2>1. LandedCovered'
    BY <1>Cancel, CoverKept DEF Cancel, GuardedOnDisk
  <2>2. QED  BY <1>Cancel, <2>1 DEF Cancel, Orphans
<1>EnterStep. CASE EnterStep
  <2>1. LandedCovered'
    BY <1>EnterStep, CoverKept DEF EnterStep, GuardedOnDisk
  <2>2. QED  BY <1>EnterStep, <2>1 DEF EnterStep, Orphans
<1>StopOnNoProgress. CASE StopOnNoProgress
  <2>1. LandedCovered'
    BY <1>StopOnNoProgress, CoverKept
    DEF StopOnNoProgress, ToFinalize, GuardedOnDisk
  <2>2. QED
    BY <1>StopOnNoProgress, <2>1 DEF StopOnNoProgress, ToFinalize, Orphans
<1>SaveFirstRuntime. CASE SaveFirstRuntime
  <2>1. runtime' # None
    BY <1>SaveFirstRuntime, <1>mem DEF SaveFirstRuntime
  <2>2. LandedCovered'
    BY <1>SaveFirstRuntime, CoverKept DEF SaveFirstRuntime, GuardedOnDisk
  <2>3. Orphans' = {}
    BY <1>SaveFirstRuntime DEF SaveFirstRuntime, Orphans
  <2>4. QED  BY <1>SaveFirstRuntime, <2>1, <2>2, <2>3 DEF SaveFirstRuntime
<1>StartResume. CASE StartResume
  <2>1. LandedCovered'
    BY <1>StartResume, CoverKept DEF StartResume, GuardedOnDisk
  <2>2. QED  BY <1>StartResume, <2>1 DEF StartResume
<1>SaveRuntime. CASE SaveRuntime
  <2>1. runtime' # None
    BY <1>SaveRuntime, <1>mem DEF SaveRuntime
  <2>2. LandedCovered'
    BY <1>SaveRuntime, <2>1, CoverKept DEF SaveRuntime, GuardedOnDisk
  <2>3. QED  BY <1>SaveRuntime, <2>1, <2>2 DEF SaveRuntime, Orphans
<1>FinishRun. CASE FinishRun
  BY <1>FinishRun, ForgetGuard DEF FinishRun
<1>Crash. CASE Crash
  BY <1>Crash, ForgetGuard DEF Crash
<1>AskModel. CASE AskModel
  <2>1. steps' = Append(steps, Row(idx, None))
    BY <1>AskModel DEF AskModel
  <2>2. /\ Orphans' = Orphans \union {Len(steps) + 1}
        /\ Len(steps) + 1 \notin DOMAIN steps
        /\ \A id \in DOMAIN steps : steps'[id] = steps[id]
        /\ steps'[Len(steps) + 1].call = None
    BY <2>1, <1>idx, OrphansAppend DEF TypeInv, TypeOK
  <2>3. LandedCovered'
    BY <1>AskModel, <2>2
    DEF AskModel, LandedCovered, Covered, GuardedOnDisk, Orphans
  <2>4. QED  BY <1>AskModel, <2>2, <2>3 DEF AskModel
<1>ProviderFails. ASSUME NEW failure, ProviderFails(failure)
                  PROVE  GuardInv'
  <2>1. steps' = Complete(cur, "failed")
    BY <1>ProviderFails DEF ProviderFails
  <2>2. /\ Orphans' = Orphans \ {cur}
        /\ \A k \in DOMAIN steps : steps'[k].call = steps[k].call
    BY <2>1, <1>idx, OrphansComplete DEF Statuses
  <2>3. LandedCovered'
    <3>1. pc = "model" /\ pc' = "retry" /\ landed' = landed
          /\ runtime' = runtime
      BY <1>ProviderFails DEF ProviderFails
    <3>2. Orphans = {cur} /\ cur \in DOMAIN steps /\ steps[cur].call = None
      BY <3>1 DEF Orphans
    <3>3. ASSUME NEW c \in Mutating, Covered(c) PROVE c \in GuardedOnDisk
      BY <3>2, <3>3, CallsAssumption DEF Covered
    <3>4. GuardedOnDisk' = GuardedOnDisk
      BY <3>1 DEF GuardedOnDisk
    <3>5. QED  BY <3>1, <3>3, <3>4 DEF LandedCovered, Covered
  <2>4. QED  BY <1>ProviderFails, <2>2, <2>3 DEF ProviderFails
<1>ModelReplies. ASSUME NEW kind, NEW c, ModelReplies(kind, c)
                 PROVE  GuardInv'
  <2>1. runtime' = mem /\ mem.blocked = runtime.blocked /\ runtime # None
    BY <1>ModelReplies DEF ModelReplies
  <2>2. LandedCovered'
    BY <1>ModelReplies, <1>mem, <2>1, CoverKept
    DEF ModelReplies, GuardedOnDisk
  <2>3. QED
    BY <1>ModelReplies, <1>mem, <2>1, <2>2 DEF ModelReplies, Orphans
<1>CloseModelStep. CASE CloseModelStep
  <2>1. PICK s \in {"failed", "done"} : steps' = Complete(cur, s)
    BY <1>CloseModelStep DEF CloseModelStep
  <2>2. /\ Orphans' = Orphans \ {cur}
        /\ \A k \in DOMAIN steps : steps'[k].call = steps[k].call
    BY <2>1, <1>idx, OrphansComplete DEF Statuses
  <2>3. LandedCovered'
    <3>1. pc = "parsed" /\ pc' \in {"retry", "act"} /\ landed' = landed
          /\ runtime' = runtime
      BY <1>CloseModelStep DEF CloseModelStep
    <3>2. Orphans = {cur} /\ cur \in DOMAIN steps /\ steps[cur].call = None
      BY <3>1 DEF Orphans
    <3>3. ASSUME NEW c \in Mutating, Covered(c) PROVE c \in GuardedOnDisk
      BY <3>2, <3>3, CallsAssumption DEF Covered
    <3>4. GuardedOnDisk' = GuardedOnDisk
      BY <3>1 DEF GuardedOnDisk
    <3>5. QED  BY <3>1, <3>3, <3>4 DEF LandedCovered, Covered
  <2>4. QED  BY <1>CloseModelStep, <2>2, <2>3 DEF CloseModelStep
<1>RecoverOverflow. CASE RecoverOverflow
  <2>1. mem'.blocked = mem.blocked /\ runtime' = mem' /\ runtime # None
    BY <1>RecoverOverflow, <1>mem DEF RecoverOverflow, Runtime
  <2>2. runtime' # None
    <3>1. mem'.blocked = mem.blocked /\ mem' \in Runtime
      BY <2>1, <1>RecoverOverflow, TypeStep DEF Next, Loop, TypeInv, TypeOK
    <3>2. QED  BY <2>1, <3>1, NoneNotRuntime
  <2>3. LandedCovered'
    BY <1>RecoverOverflow, <2>1, <2>2, CoverKept
    DEF RecoverOverflow, ToFinalize, GuardedOnDisk
  <2>4. QED
    BY <1>RecoverOverflow, <2>1, <2>2, <2>3
    DEF RecoverOverflow, ToFinalize, Orphans
<1>RetryWithFeedback. CASE RetryWithFeedback
  <2>1. mem'.blocked = mem.blocked /\ runtime' = mem' /\ runtime # None
    BY <1>RetryWithFeedback, <1>mem DEF RetryWithFeedback, Runtime
  <2>2. runtime' # None
    <3>1. mem' \in Runtime
      BY <1>RetryWithFeedback, TypeStep DEF Next, Loop, TypeInv, TypeOK
    <3>2. QED  BY <2>1, <3>1, NoneNotRuntime
  <2>3. LandedCovered'
    BY <1>RetryWithFeedback, <2>1, <2>2, CoverKept
    DEF RetryWithFeedback, GuardedOnDisk
  <2>4. QED
    BY <1>RetryWithFeedback, <2>1, <2>2, <2>3
    DEF RetryWithFeedback, Orphans
<1>BeginTool. CASE BeginTool
  <2>1. /\ pc = "act" /\ call \in Calls /\ pc' = "tool"
        /\ steps' = Append(steps, Row(idx, call)) /\ cur' = Len(steps) + 1
        /\ UNCHANGED <<task, runtime, call, landed>>
    BY <1>BeginTool DEF BeginTool, TypeInv, CallInHand
  <2>2. /\ Orphans' = Orphans \union {Len(steps) + 1}
        /\ steps'[Len(steps) + 1].call = call
    BY <2>1, <1>idx, OrphansAppend DEF TypeInv, TypeOK
  <2>3. Orphans = {}
    BY <2>1
  <2>4. mem'.blocked = mem.blocked
    BY <1>BeginTool, <1>mem DEF BeginTool, Runtime
  <2>5. LandedCovered'
    BY <2>1, <2>3 DEF LandedCovered, Covered, GuardedOnDisk
  <2>6. QED  BY <2>1, <2>2, <2>3, <2>4, <2>5
<1>InvokeTool. CASE InvokeTool
  <2>1. /\ pc = "tool" /\ call \notin mem.blocked /\ pc' = "ran"
        /\ landed' = [landed EXCEPT ![call] = @ + 1]
        /\ UNCHANGED <<task, runtime, steps, mem, cur, call>>
    BY <1>InvokeTool DEF InvokeTool
  <2>2. Orphans = {cur} /\ steps[cur].call = call /\ Orphans' = Orphans
    BY <2>1 DEF Orphans
  <2>3. landed \in [Calls -> Nat] /\ Mutating \subseteq Calls
    BY CallsAssumption DEF TypeInv, TypeOK
  <2>4. call \notin GuardedOnDisk
    BY <2>1 DEF GuardedOnDisk
  <2>5. call \in Mutating => landed[call] = 0
    BY <2>1, <2>2, <2>4 DEF LandedCovered, Covered
  <2>6. ASSUME NEW c \in Mutating
        PROVE  landed'[c] \in {0, 1} /\ (landed'[c] = 1 => Covered(c)')
    <3>1. CASE c = call
      BY <3>1, <2>1, <2>2, <2>3, <2>5 DEF Covered
    <3>2. CASE c # call
      BY <3>2, <2>1, <2>2, <2>3 DEF LandedCovered, Covered, GuardedOnDisk
    <3>3. QED  BY <3>1, <3>2
  <2>7. QED  BY <2>1, <2>2, <2>6 DEF LandedCovered
<1>Checkpoint. ASSUME pc \in {"tool", "ran"}, NEW m \in Runtime,
                      NEW s \in Statuses \ {"running"}, Checkpoint(m, s),
                      mem.blocked \ {call} \subseteq m.blocked
               PROVE  GuardInv'
  <2>1. /\ steps' = Complete(cur, s) /\ runtime' = mem' /\ task' = idx + 1
        /\ landed' = [landed EXCEPT ![call] = 0] /\ pc' = "top"
    BY <1>Checkpoint DEF Checkpoint
  <2>2. mem'.blocked = m.blocked
    BY <1>Checkpoint DEF Checkpoint, Runtime
  <2>3. Orphans = {cur} /\ steps[cur].call = call
    BY <1>Checkpoint
  <2>4. Orphans' = {}
    BY <2>1, <2>3, <1>idx, OrphansComplete
  <2>5. mem' \in Runtime /\ runtime' # None
    <3>1. mem' \in Runtime
      BY <1>Checkpoint, CheckpointType DEF TypeInv, TypeOK
    <3>2. QED  BY <2>1, <3>1, NoneNotRuntime
  <2>6. GuardedOnDisk \ {call} \subseteq GuardedOnDisk'
    BY <1>Checkpoint, <2>1, <2>2, <2>5 DEF GuardedOnDisk
  <2>7. ASSUME NEW c \in Mutating
        PROVE  landed'[c] \in {0, 1} /\ (landed'[c] = 1 => Covered(c)')
    <3>1. landed \in [Calls -> Nat] /\ c \in Calls
      BY CallsAssumption DEF TypeInv, TypeOK
    <3>2. CASE c = call
      BY <3>1, <3>2, <2>1
    <3>3. CASE c # call
      BY <3>1, <3>3, <2>1, <2>3, <2>6 DEF LandedCovered, Covered
    <3>4. QED  BY <3>2, <3>3
  <2>8. QED  BY <1>idx, <2>1, <2>4, <2>5, <2>7 DEF LandedCovered
<1>RecordTool. CASE RecordTool
  <2>1. [mem EXCEPT !.tool_calls = @ + 1] \in Runtime
    <3>1. mem.tool_calls + 1 \in Nat
      BY <1>mem DEF Runtime
    <3>2. QED  BY <1>mem, <3>1, RuntimeType
  <2>2. [mem EXCEPT !.tool_calls = @ + 1].blocked = mem.blocked
    BY <1>mem DEF Runtime
  <2>3. QED
    BY <1>RecordTool, <1>Checkpoint, <2>1, <2>2 DEF RecordTool, Statuses
<1>RefuseTool. CASE RefuseTool
  <2> DEFINE B == mem.blocked \ {call}
             U == {id \in mem.uncertain : steps[id].call # call}
             m == [mem EXCEPT !.blocked = B, !.uncertain = U]
  <2>1. B \in SUBSET Calls /\ U \in SUBSET Nat
    BY <1>mem DEF Runtime
  <2>2. m \in Runtime
    BY <1>mem, <2>1, RuntimeType
  <2>3. m.blocked = B
    BY <1>mem DEF Runtime
  <2>4. pc = "tool" /\ Checkpoint(m, "skipped")
    BY <1>RefuseTool DEF RefuseTool
  <2>5. mem.blocked \ {call} \subseteq m.blocked
    BY <2>3
  <2>6. "skipped" \in Statuses \ {"running"} /\ pc \in {"tool", "ran"}
    BY <2>4 DEF Statuses
  <2> HIDE DEF m
  <2>7. QED  BY <1>Checkpoint, <2>2, <2>4, <2>5, <2>6
<1>Recover. CASE Recover
  <2>1. /\ pc = "recover" /\ pc' = "top" /\ landed' = landed
        /\ runtime # None /\ mem.blocked = runtime.blocked
    BY <1>Recover DEF Recover
  <2>2. DOMAIN steps' = DOMAIN steps /\ Orphans' = {}
    <3>1. DOMAIN steps' = DOMAIN steps
      BY <1>Recover DEF Recover
    <3>2. ASSUME NEW id \in DOMAIN steps PROVE steps'[id].status # "running"
      <4>1. steps[id] \in Step
        BY <1>idx, LenProperties, ElementOfSeq
      <4>2. CASE id \notin Orphans
        BY <1>Recover, <4>2 DEF Recover, Orphans
      <4>3. CASE id \in Orphans
        <5>1. PICK s \in {"uncertain", "failed"} :
                steps'[id] = [steps[id] EXCEPT !.status = s]
          BY <1>Recover, <4>3 DEF Recover
        <5>2. QED  BY <4>1, <5>1 DEF Step
      <4>4. QED  BY <4>2, <4>3
    <3>3. QED  BY <3>1, <3>2 DEF Orphans
  <2>3. mem'.blocked
          = mem.blocked \union {steps[id].call : id \in UnsafeOrphans}
    BY <1>Recover, <1>mem DEF Recover, Runtime
  <2>4. mem' # None
    BY <1>Recover, TypeStep, NoneNotRuntime
    DEF Next, Loop, TypeInv, TypeOK
  <2>5. runtime' # None /\ mem'.blocked = runtime'.blocked /\ task' # None
    <3>1. CASE Orphans = {}
      <4>1. UnsafeOrphans = {} /\ UNCHANGED <<task, runtime>>
        BY <1>Recover, <3>1 DEF Recover, UnsafeOrphans
      <4>2. QED  BY <2>1, <2>3, <4>1
    <3>2. CASE Orphans # {}
      BY <1>Recover, <1>idx, <2>4, <3>2 DEF Recover
    <3>3. QED  BY <3>1, <3>2
  <2>6. ASSUME NEW c \in Mutating, Covered(c) PROVE c \in GuardedOnDisk'
    <3>1. CASE c \in GuardedOnDisk
      BY <3>1, <2>1, <2>3, <2>5 DEF GuardedOnDisk
    <3>2. CASE \E id \in Orphans : steps[id].call = c
      <4>1. PICK id \in UnsafeOrphans : steps[id].call = c
        BY <3>2 DEF UnsafeOrphans
      <4>2. QED  BY <4>1, <2>3, <2>5 DEF GuardedOnDisk
    <3>3. QED  BY <2>6, <3>1, <3>2 DEF Covered
  <2>7. LandedCovered'
    BY <2>1, <2>6 DEF LandedCovered, Covered
  <2>8. QED  BY <2>1, <2>2, <2>5, <2>7
<1>Stutter. CASE UNCHANGED vars
  BY <1>Stutter
  DEF vars, LandedCovered, Covered, GuardedOnDisk, Orphans
<1> HIDE DEF GuardInv, StartInv, MemoryAgrees, OneRunning
<1>Reply. CASE Reply
  BY <1>Reply, <1>ProviderFails, <1>ModelReplies DEF Reply
<1>Loop. CASE Loop
  BY <1>Loop, <1>StartRun, <1>SaveFirstTask, <1>SaveFirstRuntime, <1>Recover,
     <1>HonourCancel, <1>EnterStep, <1>StopOnBudget, <1>StopOnPrefix,
     <1>AskModel, <1>Reply, <1>CloseModelStep, <1>RecoverOverflow,
     <1>GiveUp, <1>RetryWithFeedback, <1>Answer, <1>StopOnNoProgress,
     <1>BeginTool, <1>InvokeTool, <1>RecordTool, <1>RefuseTool,
     <1>SaveTask, <1>SaveRuntime, <1>FinishRun
  DEF Loop
<1>QED. QED
  BY <1>Loop, <1>StartFresh, <1>StartResume, <1>StartRefused, <1>Crash,
     <1>Cancel, <1>Stutter
  DEF Next, Start

\* Resume never silently re-applies an effect (loop.py _recover_orphaned_steps
\* and _invoke_or_refuse): with any number of crashes, at any point, a call
\* that may apply its effect twice is not executed again while an earlier
\* execution has been reported neither by a durable result nor by a durable
\* refusal.
THEOREM NoSilentRepeat == Spec => []AtMostOnceUnreported
<1>1. Spec => [](TypeInv /\ GuardInv)
  BY TypeInit, TypeStep, GuardInit, GuardStep, PTL DEF Spec
<1>2. TypeInv /\ GuardInv => AtMostOnceUnreported
  BY DEF GuardInv, LandedCovered, AtMostOnceUnreported
<1>3. QED  BY <1>1, <1>2, PTL

----------------------------------------------------------------------------
\* The loop implements EffectGuard.

\* The call whose phase is decided by the process rather than by the disk.
InHand(c) == pc \in {"tool", "ran"} /\ call = c /\ c \notin mem.blocked

\* The refinement mapping in terms of InHand.
LEMMA PhaseCases ==
  ASSUME GuardInv, NEW c \in Mutating
  PROVE  /\ InHand(c) => GuardPhase[c] = IF pc = "tool" THEN "begun"
                                                        ELSE "ran"
         /\ ~ InHand(c) => GuardPhase[c] = IF OwedOnDisk(c) THEN "owed"
                                                            ELSE "free"
  BY DEF GuardPhase, InHand, GuardInv, OneRunning, Working, Fresh, PCs

\* A step that leaves the disk's debts and the world alone, with no tool in
\* hand before or after, is a stutter of the promise.
LEMMA QuietStep ==
  ASSUME pc \notin {"tool", "ran"}, pc' \notin {"tool", "ran"},
         landed' = landed,
         \A c \in Mutating : OwedOnDisk(c)' <=> OwedOnDisk(c)
  PROVE  UNCHANGED Guard!vars
<1>1. GuardPhase = [c \in Mutating |-> IF OwedOnDisk(c) THEN "owed"
                                                        ELSE "free"]
  BY DEF GuardPhase
<1>2. GuardPhase' = [c \in Mutating |-> IF OwedOnDisk(c)' THEN "owed"
                                                          ELSE "free"]
  BY DEF GuardPhase
<1>3. GuardPhase' = GuardPhase
  BY <1>1, <1>2
<1>4. QED  BY <1>3 DEF Guard!vars

\* The debts are on disk: they are what they were if table and guards are.
LEMMA SameDebts ==
  ASSUME UNCHANGED steps, GuardedOnDisk' = GuardedOnDisk
  PROVE  \A c \in Mutating : OwedOnDisk(c)' <=> OwedOnDisk(c)
  BY DEF OwedOnDisk, Orphans

\* At the start no call owes anything.
LEMMA GuardInitRefined == Init => Guard!Init
<1> SUFFICES ASSUME Init PROVE Guard!Init
  OBVIOUS
<1>1. pc = "off" /\ runtime = None /\ steps = <<>>
  BY DEF Init
<1>2. Orphans = {} /\ GuardedOnDisk = {}
  BY <1>1 DEF Orphans, GuardedOnDisk
<1>3. GuardPhase = [c \in Mutating |-> "free"]
  BY <1>1, <1>2 DEF GuardPhase, OwedOnDisk
<1>4. [c \in Mutating |-> landed[c]] = [c \in Mutating |-> 0]
  BY CallsAssumption DEF Init
<1>5. QED  BY <1>3, <1>4 DEF Guard!Init

\* Every step of the program, the user and the crash is a step of the promise
\* or leaves it alone.
LEMMA GuardStepRefined ==
  TypeInv /\ GuardInv /\ [Next]_vars => [Guard!Next]_(Guard!vars)
<1> SUFFICES ASSUME TypeInv, GuardInv, [Next]_vars
             PROVE  [Guard!Next]_(Guard!vars)
  OBVIOUS
<1>type. /\ steps \in Seq(Step) /\ mem \in Runtime /\ mem # None
         /\ landed \in [Calls -> Nat] /\ idx \in Nat
         /\ Mutating \subseteq Calls /\ None \notin Mutating
  BY NoneNotRuntime, CallsAssumption DEF TypeInv, TypeOK
<1>next. TypeInv' /\ GuardInv'
  BY TypeStep, GuardStep
<1>agree. pc \notin {"off"} \union Fresh =>
            runtime # None /\ mem.blocked = runtime.blocked
  BY DEF GuardInv, StartInv, MemoryAgrees
<1>one. pc \in Working =>
          /\ Orphans = IF pc \in {"model", "parsed", "tool", "ran"}
                       THEN {cur} ELSE {}
          /\ pc \in {"model", "parsed"} => steps[cur].call = None
          /\ pc \in {"tool", "ran"} => steps[cur].call = call
          /\ pc = "ran" => call \notin mem.blocked
  BY DEF GuardInv, OneRunning
<1> USE DEF disk, local, world
<1>StartFresh. CASE StartFresh
  BY <1>StartFresh, SameDebts, QuietStep
  DEF StartFresh, ToFinalize, GuardedOnDisk
<1>StartRun. CASE StartRun
  BY <1>StartRun, SameDebts, QuietStep
  DEF StartRun, ToFinalize, GuardedOnDisk
<1>SaveFirstTask. CASE SaveFirstTask
  BY <1>SaveFirstTask, SameDebts, QuietStep
  DEF SaveFirstTask, ToFinalize, GuardedOnDisk
<1>StartRefused. CASE StartRefused
  BY <1>StartRefused, SameDebts, QuietStep
  DEF StartRefused, ToFinalize, GuardedOnDisk
<1>StartResume. CASE StartResume
  BY <1>StartResume, SameDebts, QuietStep
  DEF StartResume, ToFinalize, GuardedOnDisk
<1>SaveTask. CASE SaveTask
  BY <1>SaveTask, SameDebts, QuietStep
  DEF SaveTask, ToFinalize, GuardedOnDisk
<1>HonourCancel. CASE HonourCancel
  BY <1>HonourCancel, SameDebts, QuietStep
  DEF HonourCancel, ToFinalize, GuardedOnDisk
<1>StopOnBudget. CASE StopOnBudget
  BY <1>StopOnBudget, SameDebts, QuietStep
  DEF StopOnBudget, ToFinalize, GuardedOnDisk
<1>StopOnPrefix. CASE StopOnPrefix
  BY <1>StopOnPrefix, SameDebts, QuietStep
  DEF StopOnPrefix, ToFinalize, GuardedOnDisk
<1>GiveUp. CASE GiveUp
  BY <1>GiveUp, SameDebts, QuietStep
  DEF GiveUp, ToFinalize, GuardedOnDisk
<1>Answer. CASE Answer
  BY <1>Answer, SameDebts, QuietStep
  DEF Answer, ToFinalize, GuardedOnDisk
<1>Cancel. CASE Cancel
  BY <1>Cancel, SameDebts, QuietStep
  DEF Cancel, ToFinalize, GuardedOnDisk
<1>EnterStep. CASE EnterStep
  BY <1>EnterStep, SameDebts, QuietStep
  DEF EnterStep, ToFinalize, GuardedOnDisk
<1>StopOnNoProgress. CASE StopOnNoProgress
  BY <1>StopOnNoProgress, SameDebts, QuietStep
  DEF StopOnNoProgress, ToFinalize, GuardedOnDisk
<1>disk. pc \notin {"off"} \union Fresh => GuardedOnDisk = mem.blocked
  BY <1>agree DEF GuardedOnDisk
<1>disk2. pc' \notin {"off"} \union Fresh => GuardedOnDisk' = mem'.blocked
  BY <1>next DEF GuardInv, StartInv, MemoryAgrees, GuardedOnDisk
<1>SaveFirstRuntime. CASE SaveFirstRuntime
  <2>1. pc = "save_first_runtime" /\ pc' = "top" /\ landed' = landed
        /\ steps' = steps /\ mem' = mem
    BY <1>SaveFirstRuntime DEF SaveFirstRuntime
  <2>2. runtime = None /\ mem.blocked = {}
    BY <2>1 DEF GuardInv, StartInv, Fresh
  <2>3. GuardedOnDisk' = GuardedOnDisk
    BY <1>disk2, <2>1, <2>2 DEF GuardedOnDisk, Fresh
  <2>4. QED  BY <2>1, <2>3, SameDebts, QuietStep
<1>SaveRuntime. CASE SaveRuntime
  <2>1. pc = "save_runtime" /\ pc' = "finish_run" /\ landed' = landed
        /\ steps' = steps /\ mem' = mem
    BY <1>SaveRuntime DEF SaveRuntime
  <2>2. GuardedOnDisk' = GuardedOnDisk
    BY <1>disk, <1>disk2, <2>1 DEF Fresh
  <2>3. QED  BY <2>1, <2>2, SameDebts, QuietStep
<1>ModelReplies. ASSUME NEW kind, NEW c, ModelReplies(kind, c)
                 PROVE  [Guard!Next]_(Guard!vars)
  <2>1. pc = "model" /\ pc' = "parsed" /\ landed' = landed
        /\ steps' = steps /\ mem' = mem
    BY <1>ModelReplies DEF ModelReplies
  <2>2. GuardedOnDisk' = GuardedOnDisk
    BY <1>disk, <1>disk2, <2>1 DEF Fresh
  <2>3. QED  BY <2>1, <2>2, SameDebts, QuietStep
<1>RecoverOverflow. CASE RecoverOverflow
  <2>1. pc = "retry" /\ pc' \in {"ask", "save_task"} /\ landed' = landed
        /\ steps' = steps
    BY <1>RecoverOverflow DEF RecoverOverflow, ToFinalize
  <2>2. mem'.blocked = mem.blocked
    BY <1>RecoverOverflow, <1>type DEF RecoverOverflow, Runtime
  <2>3. GuardedOnDisk' = GuardedOnDisk
    BY <1>disk, <1>disk2, <2>1, <2>2 DEF Fresh
  <2>4. QED  BY <2>1, <2>3, SameDebts, QuietStep
<1>RetryWithFeedback. CASE RetryWithFeedback
  <2>1. pc = "retry" /\ pc' = "ask" /\ landed' = landed /\ steps' = steps
    BY <1>RetryWithFeedback DEF RetryWithFeedback
  <2>2. mem'.blocked = mem.blocked
    BY <1>RetryWithFeedback, <1>type DEF RetryWithFeedback, Runtime
  <2>3. GuardedOnDisk' = GuardedOnDisk
    BY <1>disk, <1>disk2, <2>1, <2>2 DEF Fresh
  <2>4. QED  BY <2>1, <2>3, SameDebts, QuietStep
<1>AskModel. CASE AskModel
  <2>1. pc = "ask" /\ pc' = "model" /\ landed' = landed
        /\ runtime' = runtime /\ steps' = Append(steps, Row(idx, None))
    BY <1>AskModel DEF AskModel
  <2>2. /\ Orphans' = Orphans \union {Len(steps) + 1}
        /\ \A id \in DOMAIN steps : steps'[id] = steps[id]
        /\ steps'[Len(steps) + 1].call = None
    BY <2>1, <1>type, OrphansAppend
  <2>3. \A c \in Mutating : OwedOnDisk(c)' <=> OwedOnDisk(c)
    BY <2>1, <2>2, <1>type DEF OwedOnDisk, GuardedOnDisk, Orphans
  <2>4. QED  BY <2>1, <2>3, QuietStep
<1>CloseModel. ASSUME pc \in {"model", "parsed"}, pc' \in {"retry", "act"},
                      landed' = landed, runtime' = runtime,
                      NEW s \in {"failed", "done"},
                      steps' = Complete(cur, s)
               PROVE  [Guard!Next]_(Guard!vars)
  <2>1. Orphans' = Orphans \ {cur}
    BY <1>CloseModel, <1>type, OrphansComplete DEF Statuses
  <2>2. Orphans = {cur} /\ steps[cur].call = None
    BY <1>CloseModel, <1>one DEF Working, PCs, Fresh
  <2>3. \A c \in Mutating : OwedOnDisk(c)' <=> OwedOnDisk(c)
    BY <1>CloseModel, <2>1, <2>2, <1>type DEF OwedOnDisk, GuardedOnDisk
  <2>4. QED  BY <1>CloseModel, <2>3, QuietStep
<1>ProviderFails. ASSUME NEW failure, ProviderFails(failure)
                  PROVE  [Guard!Next]_(Guard!vars)
  BY <1>ProviderFails, <1>CloseModel DEF ProviderFails
<1>CloseModelStep. CASE CloseModelStep
  BY <1>CloseModelStep, <1>CloseModel DEF CloseModelStep
<1>Recover. CASE Recover
  <2>1. /\ pc = "recover" /\ pc' = "top" /\ landed' = landed
        /\ mem'.blocked
             = mem.blocked \union {steps[id].call : id \in UnsafeOrphans}
    BY <1>Recover, <1>type DEF Recover, Runtime
  <2>2. Orphans' = {}
    BY <1>next, <2>1 DEF GuardInv, OneRunning, Working, PCs, Fresh
  <2>3. ASSUME NEW c \in Mutating
        PROVE  OwedOnDisk(c)' <=> OwedOnDisk(c)
    <3>1. OwedOnDisk(c)' <=> c \in mem'.blocked
      BY <1>disk2, <2>1, <2>2 DEF OwedOnDisk, Fresh
    <3>2. OwedOnDisk(c)
            <=> c \in mem.blocked \/ \E id \in UnsafeOrphans :
                                        steps[id].call = c
      BY <1>disk, <2>1 DEF OwedOnDisk, UnsafeOrphans, Fresh
    <3>3. QED  BY <2>1, <3>1, <3>2
  <2>4. QED  BY <2>1, <2>3, QuietStep
<1>FinishRun. CASE FinishRun
  BY <1>FinishRun, SameDebts, QuietStep DEF FinishRun, Forget, GuardedOnDisk
<1>phase. ASSUME NEW c \in Mutating
          PROVE  /\ InHand(c) => GuardPhase[c] = IF pc = "tool" THEN "begun"
                                                               ELSE "ran"
                 /\ ~ InHand(c) => GuardPhase[c] = IF OwedOnDisk(c)
                                                   THEN "owed" ELSE "free"
  BY PhaseCases
<1>phase2. ASSUME NEW c \in Mutating
           PROVE  /\ InHand(c)' => GuardPhase'[c] = IF pc' = "tool"
                                                    THEN "begun" ELSE "ran"
                  /\ ~ InHand(c)' => GuardPhase'[c] = IF OwedOnDisk(c)'
                                                      THEN "owed" ELSE "free"
  BY <1>next DEF GuardPhase, InHand, GuardInv, OneRunning, Working, Fresh, PCs
<1>fun. /\ GuardPhase  = [c \in Mutating |-> GuardPhase[c]]
        /\ GuardPhase' = [c \in Mutating |-> GuardPhase'[c]]
  BY DEF GuardPhase
<1>same. ASSUME \A c \in Mutating : GuardPhase'[c] = GuardPhase[c],
                \A c \in Mutating : landed'[c] = landed[c]
         PROVE  UNCHANGED Guard!vars
  <2>1. GuardPhase' = GuardPhase
    BY <1>fun, <1>same
  <2>2. QED  BY <1>same, <2>1 DEF Guard!vars
<1>one1. ASSUME NEW c \in Mutating, c = call, NEW x,
                \A d \in Mutating : GuardPhase'[d] = IF d = call THEN x
                                                     ELSE GuardPhase[d]
         PROVE  GuardPhase' = [GuardPhase EXCEPT ![c] = x]
  BY <1>fun, <1>one1
<1>BeginTool. CASE BeginTool
  <2>1. pc = "act" /\ pc' = "tool" /\ landed' = landed /\ call' = call
        /\ runtime' = runtime /\ steps' = Append(steps, Row(idx, call))
    BY <1>BeginTool DEF BeginTool
  <2>2. mem'.blocked = mem.blocked
    BY <1>BeginTool, <1>type DEF BeginTool, Runtime
  <2>3. call \in Calls
    BY <1>BeginTool DEF TypeInv, CallInHand, BeginTool
  <2>4. Orphans = {}
    BY <1>one, <2>1 DEF Working, PCs, Fresh
  <2>5. Orphans' = {Len(steps) + 1} /\ steps'[Len(steps) + 1].call = call
    BY <2>1, <2>3, <2>4, <1>type, OrphansAppend
  <2>6. GuardedOnDisk = mem.blocked /\ GuardedOnDisk' = mem.blocked
    BY <1>disk, <1>disk2, <2>1, <2>2 DEF Fresh
  <2>7. ASSUME NEW c \in Mutating
        PROVE  /\ GuardPhase[c] = IF c \in mem.blocked THEN "owed" ELSE "free"
               /\ GuardPhase'[c] =
                    IF c = call /\ c \notin mem.blocked THEN "begun"
                    ELSE IF c \in mem.blocked THEN "owed" ELSE "free"
    <3>1. /\ ~ InHand(c)
          /\ OwedOnDisk(c) <=> c \in mem.blocked
          /\ InHand(c)' <=> c = call /\ c \notin mem.blocked
          /\ OwedOnDisk(c)' <=> c \in mem.blocked \/ c = call
      BY <2>1, <2>2, <2>4, <2>5, <2>6 DEF InHand, OwedOnDisk
    <3>2. QED  BY <1>phase, <1>phase2, <2>1, <3>1
  <2>8. ASSUME NEW c \in Mutating, c = call, c \notin mem.blocked
        PROVE  [Guard!Next]_(Guard!vars)
    <3>1. GuardPhase' = [GuardPhase EXCEPT ![c] = "begun"]
      BY <1>one1, <2>7, <2>8
    <3>2. Guard!Begin(c)
      BY <2>1, <2>7, <2>8, <3>1 DEF Guard!Begin
    <3>3. QED  BY <3>2 DEF Guard!Next
  <2>9. CASE call \notin Mutating \ mem.blocked
    BY <1>same, <2>1, <2>7, <2>9
  <2>10. QED  BY <2>8, <2>9
<1>InvokeTool. CASE InvokeTool
  <2>1. /\ pc = "tool" /\ pc' = "ran" /\ call \notin mem.blocked
        /\ landed' = [landed EXCEPT ![call] = @ + 1]
        /\ UNCHANGED <<runtime, steps, mem, call>>
    BY <1>InvokeTool DEF InvokeTool
  <2>2. ASSUME NEW c \in Mutating
        PROVE  GuardPhase'[c] = IF c = call THEN "ran" ELSE GuardPhase[c]
    <3>1. /\ InHand(c) <=> c = call
          /\ InHand(c)' <=> c = call
          /\ OwedOnDisk(c)' <=> OwedOnDisk(c)
      BY <2>1 DEF InHand, OwedOnDisk, GuardedOnDisk, Orphans
    <3>2. QED  BY <1>phase, <1>phase2, <2>1, <3>1
  <2>3. ASSUME NEW c \in Mutating, c = call
        PROVE  [Guard!Next]_(Guard!vars)
    <3>1. GuardPhase' = [GuardPhase EXCEPT ![c] = "ran"]
      BY <1>one1, <2>2, <2>3
    <3>2. GuardPhase[c] = "begun"
      BY <1>phase, <2>1, <2>3 DEF InHand
    <3>3. [d \in Mutating |-> landed'[d]]
            = [[d \in Mutating |-> landed[d]] EXCEPT ![c] = @ + 1]
      BY <1>type, <2>1, <2>3
    <3>4. Guard!Land(c)
      BY <3>1, <3>2, <3>3 DEF Guard!Land
    <3>5. QED  BY <3>4 DEF Guard!Next
  <2>4. CASE call \notin Mutating
    BY <1>same, <1>type, <2>1, <2>2, <2>4
  <2>5. QED  BY <2>3, <2>4
<1>Checkpoint. ASSUME pc \in {"tool", "ran"}, NEW m \in Runtime,
                      NEW s \in Statuses \ {"running"}, Checkpoint(m, s),
                      mem.blocked \ {call} = m.blocked
               PROVE  /\ landed' = [landed EXCEPT ![call] = 0]
                      /\ \A c \in Mutating :
                           GuardPhase'[c] = IF c = call THEN "free"
                                            ELSE GuardPhase[c]
  <2>1. /\ steps' = Complete(cur, s) /\ pc' = "top"
        /\ landed' = [landed EXCEPT ![call] = 0]
    BY <1>Checkpoint DEF Checkpoint
  <2>2. mem'.blocked = mem.blocked \ {call}
    BY <1>Checkpoint DEF Checkpoint, Runtime
  <2>3. Orphans = {cur} /\ steps[cur].call = call
    BY <1>one, <1>Checkpoint DEF Working, PCs, Fresh
  <2>4. Orphans' = {}
    BY <1>Checkpoint, <1>type, <2>1, <2>3, OrphansComplete
  <2>5. GuardedOnDisk = mem.blocked /\ GuardedOnDisk' = mem.blocked \ {call}
    BY <1>disk, <1>disk2, <1>Checkpoint, <2>1, <2>2 DEF Fresh
  <2>6. ASSUME NEW c \in Mutating
        PROVE  GuardPhase'[c] = IF c = call THEN "free" ELSE GuardPhase[c]
    <3>1. /\ ~ InHand(c)'
          /\ c # call => ~ InHand(c)
          /\ c # call => (OwedOnDisk(c) <=> c \in mem.blocked)
          /\ OwedOnDisk(c)' <=> c \in mem.blocked \ {call}
      BY <2>1, <2>3, <2>4, <2>5 DEF InHand, OwedOnDisk
    <3>2. QED  BY <1>phase, <1>phase2, <3>1
  <2>7. QED  BY <2>1, <2>6
<1>zero. ASSUME landed' = [landed EXCEPT ![call] = 0],
                NEW c \in Mutating, c = call
         PROVE  [d \in Mutating |-> landed'[d]]
                  = [[d \in Mutating |-> landed[d]] EXCEPT ![c] = 0]
  BY <1>type, <1>zero
<1>idle. ASSUME landed' = [landed EXCEPT ![call] = 0], call \notin Mutating,
                \A c \in Mutating : GuardPhase'[c] = IF c = call THEN "free"
                                                     ELSE GuardPhase[c]
         PROVE  UNCHANGED Guard!vars
  BY <1>type, <1>idle, <1>same
<1>RecordTool. CASE RecordTool
  <2> DEFINE m == [mem EXCEPT !.tool_calls = @ + 1]
  <2>1. m \in Runtime
    <3>1. mem.tool_calls + 1 \in Nat
      BY <1>type DEF Runtime
    <3>2. QED  BY <1>type, <3>1, RuntimeType
  <2>2. pc = "ran" /\ \E s \in {"done", "failed"} : Checkpoint(m, s)
    BY <1>RecordTool DEF RecordTool
  <2>3. call \notin mem.blocked
    BY <1>one, <2>2 DEF Working, PCs, Fresh
  <2>4. mem.blocked \ {call} = m.blocked
    BY <1>type, <2>3 DEF Runtime
  <2> HIDE DEF m
  <2>5. /\ landed' = [landed EXCEPT ![call] = 0]
        /\ \A c \in Mutating : GuardPhase'[c] = IF c = call THEN "free"
                                                ELSE GuardPhase[c]
    BY <1>Checkpoint, <2>1, <2>2, <2>4 DEF Statuses
  <2>6. ASSUME NEW c \in Mutating, c = call
        PROVE  [Guard!Next]_(Guard!vars)
    <3>1. GuardPhase' = [GuardPhase EXCEPT ![c] = "free"]
      BY <1>one1, <2>5, <2>6
    <3>2. GuardPhase[c] = "ran"
      BY <1>phase, <2>2, <2>3, <2>6 DEF InHand
    <3>3. Guard!Record(c)
      BY <1>zero, <2>5, <2>6, <3>1, <3>2 DEF Guard!Record
    <3>4. QED  BY <3>3 DEF Guard!Next
  <2>7. QED  BY <1>idle, <2>5, <2>6
<1>RefuseTool. CASE RefuseTool
  <2> DEFINE B == mem.blocked \ {call}
             U == {id \in mem.uncertain : steps[id].call # call}
             m == [mem EXCEPT !.blocked = B, !.uncertain = U]
  <2>1. B \in SUBSET Calls /\ U \in SUBSET Nat
    BY <1>type DEF Runtime
  <2>2. m \in Runtime /\ m.blocked = B
    BY <1>type, <2>1, RuntimeType DEF Runtime
  <2>3. pc = "tool" /\ call \in mem.blocked /\ Checkpoint(m, "skipped")
    BY <1>RefuseTool DEF RefuseTool
  <2>4. mem.blocked \ {call} = m.blocked
    BY <2>2
  <2> HIDE DEF m
  <2>5. /\ landed' = [landed EXCEPT ![call] = 0]
        /\ \A c \in Mutating : GuardPhase'[c] = IF c = call THEN "free"
                                                ELSE GuardPhase[c]
    BY <1>Checkpoint, <2>2, <2>3, <2>4 DEF Statuses
  <2>6. ASSUME NEW c \in Mutating, c = call
        PROVE  [Guard!Next]_(Guard!vars)
    <3>1. GuardPhase' = [GuardPhase EXCEPT ![c] = "free"]
      BY <1>one1, <2>5, <2>6
    <3>2. GuardPhase[c] = "owed"
      BY <1>phase, <1>disk, <2>3, <2>6 DEF InHand, OwedOnDisk, Fresh
    <3>3. Guard!Refuse(c)
      BY <1>zero, <2>5, <2>6, <3>1, <3>2 DEF Guard!Refuse
    <3>4. QED  BY <3>3 DEF Guard!Next
  <2>7. QED  BY <1>idle, <2>5, <2>6
<1>Crash. CASE Crash
  <2>1. /\ pc' = "off" /\ landed' = landed /\ UNCHANGED <<runtime, steps>>
    BY <1>Crash DEF Crash, Forget
  <2>2. ASSUME NEW c \in Mutating
        PROVE  GuardPhase'[c] = IF InHand(c) THEN "owed" ELSE GuardPhase[c]
    <3>1. ~ InHand(c)' /\ (OwedOnDisk(c)' <=> OwedOnDisk(c))
      BY <2>1 DEF InHand, OwedOnDisk, GuardedOnDisk, Orphans
    <3>2. InHand(c) => OwedOnDisk(c)
      BY <1>one DEF InHand, OwedOnDisk, Working, PCs, Fresh
    <3>3. QED  BY <1>phase, <1>phase2, <3>1, <3>2
  <2>3. ASSUME NEW c \in Mutating, c = call, InHand(c)
        PROVE  [Guard!Next]_(Guard!vars)
    <3>1. GuardPhase' = [GuardPhase EXCEPT ![c] = "owed"]
      BY <1>one1, <2>2, <2>3 DEF InHand
    <3>2. GuardPhase[c] \in {"begun", "ran"}
      BY <1>phase, <2>3
    <3>3. Guard!Interrupt(c)
      BY <2>1, <3>1, <3>2 DEF Guard!Interrupt
    <3>4. QED  BY <3>3 DEF Guard!Next
  <2>4. CASE ~ (call \in Mutating /\ InHand(call))
    BY <1>same, <2>1, <2>2, <2>4 DEF InHand
  <2>5. QED  BY <2>3, <2>4
<1>Stutter. CASE UNCHANGED vars
  <2>1. UNCHANGED <<pc, call, mem, runtime, steps, landed>>
    BY <1>Stutter DEF vars
  <2>2. GuardPhase' = GuardPhase
    BY <2>1 DEF GuardPhase, OwedOnDisk, GuardedOnDisk, Orphans
  <2>3. QED  BY <2>1, <2>2 DEF Guard!vars
<1>Reply. CASE Reply
  BY <1>Reply, <1>ProviderFails, <1>ModelReplies DEF Reply
<1>Loop. CASE Loop
  BY <1>Loop, <1>StartRun, <1>SaveFirstTask, <1>SaveFirstRuntime, <1>Recover,
     <1>HonourCancel, <1>EnterStep, <1>StopOnBudget, <1>StopOnPrefix,
     <1>AskModel, <1>Reply, <1>CloseModelStep, <1>RecoverOverflow,
     <1>GiveUp, <1>RetryWithFeedback, <1>Answer, <1>StopOnNoProgress,
     <1>BeginTool, <1>InvokeTool, <1>RecordTool, <1>RefuseTool,
     <1>SaveTask, <1>SaveRuntime, <1>FinishRun
  DEF Loop
<1>QED. QED
  BY <1>Loop, <1>StartFresh, <1>StartResume, <1>StartRefused, <1>Crash,
     <1>Cancel, <1>Stutter
  DEF Next, Start

\* The loop implements the promise about side effects: what recovery, the
\* guard of _invoke_or_refuse and the transactions of WorkingMemory do is,
\* step by step, what EffectGuard allows, whatever the calls and bounds.
THEOREM Refinement == Spec => ImplementsGuard
<1>1. Spec => Guard!Init /\ [][Guard!Next]_(Guard!vars)
  BY TypeInit, TypeStep, GuardInit, GuardStep, GuardInitRefined,
     GuardStepRefined, PTL DEF Spec
<1>2. QED  BY <1>1 DEF ImplementsGuard, Guard!Spec
=============================================================================
