------------------------- MODULE ChatSessionProofs -------------------------
(***************************************************************************)
(* Proofs about ChatSession: the properties of a session, for every set of *)
(* calls, replies and bounds, and for any number of messages, cancelled    *)
(* turns and threads that are left over from them.                         *)
(***************************************************************************)
EXTENDS ChatSession, ToolCallProofs, Recursion

----------------------------------------------------------------------------
\* The inductive invariant.

\* The points of a turn at which the loop has nothing that is not stored.
Between == {"step", "model", "act", "final"}

\* No step is at RUNNING.
Closed(rows) == \A r \in DOMAIN rows : ~rows[r].open

\* An action in hand has the fields it is used by.
HasFields(a) ==
  /\ a.action = "tool" => a.arguments \in Keys
  /\ a.action = "answer" => a.content \in [claims : SUBSET Claims,
                                           evidence : Seq(Evidence)]

\* Where the process is in a turn, and what it knows there.  During a tool
\* call the last row is that call's, and the only one still open.
TurnInv ==
  /\ pc \in InTurn => goal # None
  /\ pc \in Between => store # None /\ mem = store /\ Closed(store.rows)
  /\ pc = "act" => HasFields(action)
  /\ pc = "tool" =>
       /\ store # None /\ mem # None
       /\ mem.history = store.history /\ mem.executed = store.executed
       /\ mem.rows = store.rows /\ mem.baseline = store.baseline
       /\ Len(mem.rows) > 0 /\ Len(calls) > 0
       /\ mem.rows[Len(mem.rows)].key = calls[Len(calls)].key
       /\ \A r \in 1..(Len(mem.rows) - 1) : ~mem.rows[r].open

\* A command of this kind ran in a call of this session, and exited 0.
Ran(kind) == \E c \in DOMAIN calls : /\ Kind[calls[c].key] = kind
                                     /\ calls[c].mode # None
                                     /\ calls[c].result = By("tool", "ok")

\* What may be said of rows s.  The history tells of every command that is
\* over, a recorded success was one, and the baseline is the workspace as the
\* session found it.
ToldOf(s) ==
  \A r \in DOMAIN s.rows :
    ~s.rows[r].open /\ ToolOf[s.rows[r].key] = "run_command"
      => Told(r) \in s.history \/ Warned(r) \in s.history

Sound(s) ==
  /\ \A i \in DOMAIN s.executed :
       s.executed[i].ok /\ Kind[s.executed[i].key] # None
         => Ran(Kind[s.executed[i].key])
  /\ \A p \in Paths : s.baseline[p] = None

\* Every message typed so far is stored, unless nothing was.
Kept == \A n \in 1..typed : \/ n = goal \/ n \in lost
                            \/ store # None /\ Said(n) \in store.history

\* Nothing is called and nothing changes before the run has its rows.
Untouched == store = None => /\ calls = <<>>
                             /\ \A p \in Paths : files[p] = None

SessionInv == /\ ToolInv /\ SessionTypeOK /\ Untouched
              /\ mem # None => Len(mem.recent) <= Repeats
              /\ TurnInv /\ Kept
              /\ store # None => ToldOf(store) /\ Sound(store)
              /\ VerifiedWasDone

----------------------------------------------------------------------------
\* What is decoded of a reply.

\* A tool action names a call key, an answer has claims and evidence: both
\* codecs hand on an object only if the validator found its fields.
LEMMA ActionFields ==
  ASSUME NEW r \in Replies
  PROVE  HasFields(Parse(r))
<1> DEFINE o == Extracted(Stripped(r))
<1>1. /\ None # "answer" /\ None # "tool"
  BY NoneAssumption
<1>2. {ToolOf[k] : k \in Keys} \intersect Registered \subseteq Tools
  BY DEF Registered
<1>3. CASE Parse(r).action = "error"
  BY <1>3 DEF HasFields
<1>4. CASE Parse(r).action # "error"
  <2>1. /\ o # None /\ Parse(r) = Validated(o) /\ Validated(o).action # "error"
    BY <1>4 DEF Parse, ParseError
  <2>2. CASE o.action = "answer"
    BY <1>1, <2>1, <2>2, RepliesAssumption
    DEF Validated, ParseError, HasFields
  <2>3. CASE o.action = "tool"
    BY <1>1, <1>2, <2>1, <2>3, RepliesAssumption
    DEF Validated, ParseError, HasFields
  <2>4. CASE o.action \notin {"answer", "tool"}
    BY <2>1, <2>4 DEF Validated, ParseError, HasFields
  <2>5. QED  BY <2>2, <2>3, <2>4
<1>5. QED  BY <1>3, <1>4

----------------------------------------------------------------------------
\* What survives a step of a thread, of the loop and of the person.

\* The calls made so far are kept, each at least as far as it was.
CallsKept == \A c \in DOMAIN calls : /\ c \in DOMAIN calls'
                                     /\ Progress(calls[c], calls'[c])

\* What was done stays done.
LEMMA DoneStays ==
  ASSUME CallsKept
  PROVE  /\ \A kind : Ran(kind) => Ran(kind)'
         /\ VerifiedWasDone /\ outcome' = outcome => VerifiedWasDone'
<1>1. By("tool", "ok") # None
  BY AbsenceAssumption DEF By, Result, Kinds
<1>2. ASSUME NEW c \in DOMAIN calls
      PROVE  /\ c \in DOMAIN calls' /\ calls'[c].key = calls[c].key
             /\ calls[c].landed => calls'[c].landed
             /\ calls[c].mode # None => calls'[c].mode # None
             /\ calls[c].result = By("tool", "ok")
                  => calls'[c].result = By("tool", "ok")
  BY <1>1 DEF CallsKept, Progress
<1>3. \A kind : Ran(kind) => Ran(kind)'
  BY <1>2 DEF Ran
<1>4. \A p, who : ChangedBy(p, who) => ChangedBy(p, who)'
  BY <1>2 DEF ChangedBy
<1>5. VerifiedWasDone /\ outcome' = outcome => VerifiedWasDone'
  BY <1>2, <1>4 DEF VerifiedWasDone
<1>6. QED  BY <1>3, <1>5

\* A record of an earlier turn stays sound whatever this turn does.
LEMMA SoundStays ==
  ASSUME CallsKept, NEW s, Sound(s)
  PROVE  /\ \A i \in DOMAIN s.executed :
              s.executed[i].ok /\ Kind[s.executed[i].key] # None
                => Ran(Kind[s.executed[i].key])'
         /\ \A p \in Paths : s.baseline[p] = None
  BY DoneStays DEF Sound

\* The loop and the person leave calls and files alone; what holds of them
\* holds on.
LEMMA ToolsUntouched ==
  ASSUME SessionInv, UNCHANGED toolVars
  PROVE  /\ ToolInv' /\ ToolTypeOK' /\ CallsKept
         /\ \A s : Sound(s) => /\ \A i \in DOMAIN s.executed :
                                   s.executed[i].ok
                                   /\ Kind[s.executed[i].key] # None
                                     => Ran(Kind[s.executed[i].key])'
                               /\ \A p \in Paths : s.baseline[p] = None
<1>1. calls' = calls /\ setup' = setup /\ files' = files
  BY DEF toolVars
<1>2. ToolTypeOK'
  BY <1>1 DEF SessionInv, ToolInv, ToolTypeOK
<1>3. ToolInv'
  BY <1>1, <1>2 DEF SessionInv, ToolInv, EffectsShown, ChangedBy, Risk
<1>4. CallsKept
  BY <1>1 DEF CallsKept, Progress
<1>5. QED  BY <1>2, <1>3, <1>4, SoundStays

\* A step that ends between two of the loop's waits, with everything stored.
LEMMA StoredKeeps ==
  ASSUME SessionInv, ToolInv', CallsKept,
         UNCHANGED <<goal, typed, lost, code>>,
         goal # None, NEW s \in Rows, mem' = s, store' = s,
         pc' \in Between,
         Len(s.recent) <= Repeats, Closed(s.rows), ToldOf(s), Sound(s),
         store # None => store.history \subseteq s.history,
         reply' \in Replies \union {None},
         pc' = "act" => HasFields(action'),
         outcome' \in Outcome \union {None}, VerifiedWasDone'
  PROVE  SessionInv'
<1>1. s # None
  BY NoneAssumption
<1>2. ToolTypeOK' /\ Untouched'
  BY <1>1 DEF ToolInv, Untouched
<1>3. Sound(store)'
  BY SoundStays DEF Sound
<1>4. ToldOf(store)' /\ Closed(store.rows)'
  BY DEF ToldOf, Closed
<1>5. SessionTypeOK'
  BY <1>2 DEF SessionInv, SessionTypeOK, Between, InTurn
<1>6. TurnInv'
  BY <1>1, <1>4 DEF TurnInv, Between
<1>7. Kept'
  <2> SUFFICES ASSUME NEW n \in 1..typed
               PROVE  \/ n = goal \/ n \in lost \/ Said(n) \in s.history
    BY <1>1 DEF Kept, Said
  <2>1. QED  BY DEF SessionInv, Kept
<1>8. QED  BY <1>2, <1>3, <1>4, <1>5, <1>6, <1>7 DEF SessionInv

\* The same of one that leaves calls and files alone.
LEMMA SavedKeeps ==
  ASSUME SessionInv, UNCHANGED <<toolVars, goal, typed, lost, code>>,
         goal # None, NEW s \in Rows, mem' = s, store' = s,
         pc' \in Between,
         Len(s.recent) <= Repeats, Closed(s.rows), ToldOf(s), Sound(s),
         store # None => store.history \subseteq s.history,
         reply' \in Replies \union {None},
         pc' = "act" => HasFields(action'),
         outcome' \in Outcome \union {None}, VerifiedWasDone'
  PROVE  SessionInv'
  BY ToolsUntouched, StoredKeeps

\* A step outside of the turns, in which nothing is stored.
LEMMA OutsideKeeps ==
  ASSUME SessionInv, ToolInv', CallsKept, Untouched',
         UNCHANGED <<goal, store, typed, lost>>,
         pc' \in {"input", "closing", "left", "exited"},
         mem' \in {mem, None}, reply' \in {reply, None},
         code' \in 0..6 \union {None}, outcome' \in {outcome, None}
  PROVE  SessionInv'
<1>1. (store # None => ToldOf(store) /\ Sound(store))'
  BY SoundStays DEF SessionInv, ToldOf, Sound
<1>2. VerifiedWasDone'
  BY DoneStays DEF SessionInv, VerifiedWasDone
<1>3. SessionTypeOK'
  BY DEF SessionInv, SessionTypeOK, ToolInv
<1>4. TurnInv'
  BY DEF TurnInv, InTurn, Between
<1>5. Kept'
  BY DEF SessionInv, Kept, Said
<1>6. (mem # None => Len(mem.recent) <= Repeats)'
  BY DEF SessionInv
<1>7. QED  BY <1>1, <1>2, <1>3, <1>4, <1>5, <1>6 DEF SessionInv

----------------------------------------------------------------------------
\* The steps of the loop, one lemma each where there is something to say.

\* Between two waits the loop has the stored rows in hand.
LEMMA InHandRows ==
  ASSUME SessionInv, pc \in Between
  PROVE  /\ goal # None /\ store # None /\ mem = store /\ store \in Rows
         /\ Len(store.recent) <= Repeats /\ Closed(store.rows)
         /\ ToldOf(store) /\ Sound(store)
         /\ reply \in Replies \union {None}
         /\ outcome \in Outcome \union {None}
  BY DEF SessionInv, SessionTypeOK, TurnInv, Between, InTurn

\* The window never outgrows the bound it is compared with.
LEMMA WindowType ==
  ASSUME SessionInv, pc \in Between, NEW k \in Keys
  PROVE  Window(k) \in Seq(Keys) /\ Len(Window(k)) <= Repeats
<1> DEFINE longer == Append(mem.recent, k)
<1>1. mem.recent \in Seq(Keys) /\ Len(mem.recent) <= Repeats
  BY InHandRows DEF Rows
<1>2. /\ longer \in Seq(Keys) /\ Len(longer) = Len(mem.recent) + 1
      /\ Len(mem.recent) \in Nat /\ longer # <<>>
  BY <1>1, AppendProperties, LenProperties, EmptySeq
<1>3. Tail(longer) \in Seq(Keys) /\ Len(Tail(longer)) = Len(longer) - 1
  BY <1>2, HeadTailProperties
<1>4. Repeats \in Nat
  BY SessionBounds
<1> HIDE DEF longer
<1>5. QED  BY <1>1, <1>2, <1>3, <1>4 DEF Window, longer

\* A turn that ends with the rows as they are, but for the counters and the
\* window.
LEMMA FinishKeeps ==
  ASSUME SessionInv, UNCHANGED <<toolVars, goal, typed, lost, code>>,
         pc \in Between, NEW result \in Outcome, NEW s \in Rows,
         Finish(result, s), Len(s.recent) <= Repeats,
         s.rows = store.rows, s.history = store.history,
         s.executed = store.executed, s.baseline = store.baseline,
         reply' \in {reply, None}, VerifiedWasDone'
  PROVE  SessionInv'
<1>1. ToldOf(s) /\ Sound(s) /\ Closed(s.rows)
  BY InHandRows DEF ToldOf, Sound
<1>2. pc' \in Between /\ pc' # "act" /\ mem' = s /\ store' = s
      /\ outcome' = result
  BY DEF Finish, Between
<1>3. QED  BY <1>1, <1>2, InHandRows, SavedKeeps

\* The same of a turn that is stopped without an answer.
LEMMA StoppedKeeps ==
  ASSUME SessionInv, UNCHANGED <<toolVars, goal, typed, lost, code>>,
         pc \in Between, NEW why \in StopReasons, NEW s \in Rows,
         Finish(Stopped(why), s), Len(s.recent) <= Repeats,
         s.rows = store.rows, s.history = store.history,
         s.executed = store.executed, s.baseline = store.baseline,
         reply' \in {reply, None}
  PROVE  SessionInv'
<1>1. Stopped(why) \in Outcome
  BY DEF Stopped, Outcome
<1>2. VerifiedWasDone'
  BY DEF VerifiedWasDone, Finish, Stopped
<1>3. QED  BY <1>1, <1>2, FinishKeeps

\* A model call keeps the invariant.
LEMMA StepKeeps == SessionInv /\ Step => SessionInv'
<1> SUFFICES ASSUME SessionInv, Step PROVE SessionInv'
  OBVIOUS
<1>1. pc \in Between /\ UNCHANGED <<toolVars, goal, typed, lost, reply, code>>
  BY DEF Step, Between
<1>2. CASE pc' = "model" /\ UNCHANGED <<mem, store, outcome>>
  <2>1. VerifiedWasDone'
    BY <1>1, <1>2, ToolsUntouched, DoneStays DEF SessionInv
  <2>2. QED  BY <1>1, <1>2, <2>1, InHandRows, SavedKeeps DEF Between
<1>3. CASE Finish(Stopped("budget_exhausted"), mem)
  BY <1>1, <1>3, InHandRows, StoppedKeeps DEF StopReasons
<1>4. QED  BY <1>2, <1>3 DEF Step

\* So does a call that fails.
LEMMA FailKeeps == SessionInv /\ Fail => SessionInv'
  BY InHandRows, StoppedKeeps DEF Fail, StopReasons, Between

\* So does taking up what the model answered.
LEMMA RespondKeeps == SessionInv /\ Respond => SessionInv'
<1> SUFFICES ASSUME SessionInv, Respond PROVE SessionInv'
  OBVIOUS
<1>1. /\ pc \in Between /\ pc' = "act" /\ reply' \in Replies
      /\ UNCHANGED <<toolVars, goal, typed, lost, code, mem, store, outcome>>
      /\ action' = Parse(reply')
  BY DEF Respond, Between
<1>2. HasFields(action')
  BY <1>1, ActionFields
<1>3. VerifiedWasDone'
  BY <1>1, ToolsUntouched, DoneStays DEF SessionInv
<1>4. QED  BY <1>1, <1>2, <1>3, InHandRows, SavedKeeps DEF Between

\* Feedback is added to the history, nothing is taken from it.
LEMMA CorrectKeeps == SessionInv /\ Correct => SessionInv'
<1> SUFFICES ASSUME SessionInv, Correct PROVE SessionInv'
  OBVIOUS
<1>1. /\ pc \in Between /\ reply' = None
      /\ UNCHANGED <<toolVars, goal, typed, lost, code>>
  BY DEF Correct, Between
<1>2. CASE Finish(Stopped("budget_exhausted"), mem)
  BY <1>1, <1>2, InHandRows, StoppedKeeps DEF StopReasons
<1>3. CASE /\ mem' = [mem EXCEPT !.retries = @ + 1,
                                 !.history = @ \union {Retry}]
           /\ store' = mem' /\ pc' = "step" /\ UNCHANGED outcome
  <2> DEFINE s == [mem EXCEPT !.retries = @ + 1,
                              !.history = @ \union {Retry}]
  <2>1. mem = store /\ store \in Rows
    BY <1>1, InHandRows
  <2>r. Retry \in Entry
    BY DEF Retry, Entry
  <2>h. mem.history \union {Retry} \in SUBSET Entry /\ mem.retries + 1 \in Nat
    BY <2>1, <2>r DEF Rows
  <2>s. s \in Rows
    BY <2>1, <2>h DEF Rows
  <2>2. /\ s.rows = store.rows /\ s.executed = store.executed
        /\ s.recent = store.recent /\ s.baseline = store.baseline
        /\ store.history \subseteq s.history /\ s \in Rows
    BY <2>1, <2>s DEF Rows
  <2>3. Closed(s.rows) /\ ToldOf(s) /\ Sound(s)
    BY <1>1, <2>2, InHandRows DEF ToldOf, Sound
  <2>4. VerifiedWasDone'
    BY <1>1, <1>3, ToolsUntouched, DoneStays DEF SessionInv
  <2>5. pc' \in Between /\ pc' # "act" /\ mem' = s /\ store' = s
    BY <1>3 DEF Between
  <2> HIDE DEF s
  <2>6. QED
    BY <1>1, <1>3, <2>2, <2>3, <2>4, <2>5, InHandRows, SavedKeeps
<1>4. QED  BY <1>2, <1>3 DEF Correct

\* The heart of VerifiedWasDone: a claim the verifier lets pass is about a
\* command that ran, or about a file that changed since the run began.
LEMMA VerifiedClaim ==
  ASSUME SessionInv, pc \in Between,
         NEW answer \in [claims : SUBSET Claims, evidence : Seq(Evidence)],
         Verified(answer, mem.executed, files, mem.baseline),
         NEW claim \in answer.claims
  PROVE  IF claim \in FileKinds
         THEN \E file \in Cited(answer.evidence, files) :
                ChangedBy(file.path, file.by)
         ELSE Ran(claim)
<1> DEFINE evidence == answer.evidence
<1>1. Sound(mem) /\ mem \in Rows
  BY InHandRows
<1>2. \A i \in DOMAIN evidence : evidence[i] \in Evidence
  BY LenProperties, ElementOfSeq
<1>3. CASE claim \in FileKinds
  <2>1. FileHolds(claim, evidence, files, mem.baseline)
    BY <1>3 DEF Verified
  <2>2. PICK i \in DOMAIN evidence :
          /\ evidence[i].kind = claim /\ evidence[i].path # None
          /\ mem.baseline[evidence[i].path] # files[evidence[i].path]
    BY <2>1 DEF FileHolds
  <2>3. evidence[i] \in [kind : FileKinds, path : Paths \union {None}]
    BY <1>2, <1>3, <2>2 DEF Evidence, CommandKinds, FileKinds
  <2>4. evidence[i].path \in Paths
    BY <2>2, <2>3
  <2> DEFINE p == evidence[i].path
             file == [path |-> p, by |-> files[p]]
  <2>5. files[p] # None
    BY <1>1, <2>2, <2>4 DEF Sound
  <2>6. ChangedBy(file.path, file.by)
    BY <2>4, <2>5 DEF SessionInv, ToolInv, EffectsShown
  <2>7. file \in Cited(evidence, files)
    BY <1>3, <2>2 DEF Cited
  <2>8. QED  BY <1>3, <2>6, <2>7
<1>4. CASE claim \notin FileKinds
  <2>1. CommandHolds(claim, evidence, mem.executed)
    BY <1>4 DEF Verified
  <2>2. claim \in CommandKinds /\ claim # None
    BY <1>4, NoneAssumption DEF Claims
  <2>3. PICK s \in DOMAIN mem.executed : /\ mem.executed[s].ok
                                         /\ Kind[mem.executed[s].key] = claim
    BY <2>1 DEF CommandHolds
  <2>4. Ran(claim)
    BY <1>1, <2>2, <2>3 DEF Sound
  <2>5. QED  BY <1>4, <2>4
<1>5. QED  BY <1>3, <1>4

\* So does the end of a turn whose answer is verified.
LEMMA ConcludeKeeps == SessionInv /\ Conclude => SessionInv'
<1> SUFFICES ASSUME SessionInv, Conclude PROVE SessionInv'
  OBVIOUS
<1> DEFINE answer == action.content
           v == Verified(answer, mem.executed, files, mem.baseline)
           cited == Cited(answer.evidence, files)
           result == [stop |-> "answered", claims |-> answer.claims,
                      verified |-> v, cited |-> cited]
           s == [mem EXCEPT !.steps = @ + 1]
<1>1. /\ pc = "act" /\ pc \in Between /\ reply' = None
      /\ UNCHANGED <<toolVars, goal, typed, lost, code>>
      /\ action.action = "answer" /\ Finish(result, s)
  BY DEF Conclude, Between
<1>2. answer \in [claims : SUBSET Claims, evidence : Seq(Evidence)]
  BY <1>1 DEF SessionInv, TurnInv, HasFields
<1>3. v \in BOOLEAN
  BY DEF Verified
<1>c. cited \in SUBSET [path : Paths, by : Writers \union {None}]
  <2>1. files \in [Paths -> Writers \union {None}]
    BY DEF SessionInv, ToolInv, ToolTypeOK
  <2>2. ASSUME NEW i \in DOMAIN answer.evidence,
               answer.evidence[i].kind \in FileKinds,
               answer.evidence[i].path # None
        PROVE  answer.evidence[i].path \in Paths
    <3>1. answer.evidence[i] \in Evidence
      BY <1>2, LenProperties, ElementOfSeq
    <3>2. QED  BY <2>2, <3>1 DEF Evidence, CommandKinds, FileKinds
  <2>3. QED  BY <2>1, <2>2 DEF Cited
<1>4. result \in Outcome
  <2> HIDE DEF cited, v
  <2>1. QED  BY <1>2, <1>3, <1>c DEF Outcome, StopReasons
<1>5. mem = store /\ store \in Rows
  BY <1>1, InHandRows
<1>6. s \in Rows /\ s.recent = store.recent /\ s.rows = store.rows
      /\ s.history = store.history /\ s.executed = store.executed
      /\ s.baseline = store.baseline
  <2>1. mem.steps + 1 \in Nat
    BY <1>5 DEF Rows
  <2>2. QED  BY <1>5, <2>1 DEF Rows
<1>7. VerifiedWasDone'
  <2>1. outcome' = result /\ calls' = calls
    BY <1>1 DEF Finish, toolVars
  <2>2. /\ \A p, who : ChangedBy(p, who)' = ChangedBy(p, who)
        /\ \A kind : Ran(kind)' = Ran(kind)
    BY <2>1 DEF ChangedBy, Ran
  <2>3. ASSUME v, NEW claim \in answer.claims
        PROVE  IF claim \in FileKinds
               THEN \E file \in cited : ChangedBy(file.path, file.by)
               ELSE Ran(claim)
    BY <1>1, <1>2, <2>3, VerifiedClaim
  <2>4. /\ outcome'.verified = v /\ outcome'.claims = answer.claims
        /\ outcome'.cited = cited
    BY <2>1
  <2> HIDE DEF v, cited, answer, result
  <2>5. QED  BY <2>2, <2>3, <2>4 DEF VerifiedWasDone, Ran
<1>8. Len(s.recent) <= Repeats
  BY <1>1, <1>6, InHandRows
<1> HIDE DEF s, result
<1>9. QED  BY <1>1, <1>4, <1>6, <1>7, <1>8, FinishKeeps

\* So does the end of a turn that makes no progress.
LEMMA GiveUpKeeps == SessionInv /\ GiveUp => SessionInv'
<1> SUFFICES ASSUME SessionInv, GiveUp PROVE SessionInv'
  OBVIOUS
<1> DEFINE s == [mem EXCEPT !.recent = Window(Key)]
<1>1. /\ pc = "act" /\ pc \in Between /\ reply' = None
      /\ UNCHANGED <<toolVars, goal, typed, lost, code>>
      /\ action.action = "tool" /\ Finish(Stopped("no_progress"), s)
  BY DEF GiveUp, Between
<1>2. Key \in Keys
  BY <1>1 DEF SessionInv, TurnInv, HasFields, Key
<1>3. Window(Key) \in Seq(Keys) /\ Len(Window(Key)) <= Repeats
  BY <1>1, <1>2, WindowType
<1>4. mem = store /\ store \in Rows
  BY <1>1, InHandRows
<1>5. s \in Rows /\ s.recent = Window(Key) /\ s.rows = store.rows
      /\ s.history = store.history /\ s.executed = store.executed
      /\ s.baseline = store.baseline
  BY <1>3, <1>4 DEF Rows
<1> HIDE DEF s
<1>6. QED  BY <1>1, <1>3, <1>5, StoppedKeeps DEF StopReasons

\* What a sequence holds after one more element was appended.
LEMMA Appended ==
  ASSUME NEW S, NEW q \in Seq(S), NEW x \in S
  PROVE  /\ Len(q) \in Nat /\ DOMAIN q = 1..Len(q)
         /\ \A i \in 1..Len(q) : q[i] \in S
         /\ Append(q, x) \in Seq(S) /\ Len(Append(q, x)) = Len(q) + 1
         /\ DOMAIN Append(q, x) = 1..(Len(q) + 1)
         /\ Append(q, x)[Len(q) + 1] = x
         /\ \A i \in 1..Len(q) : Append(q, x)[i] = q[i]
  BY AppendProperties, LenProperties, ElementOfSeq

\* One row of the steps table, as far as the session has it.
RowType == [call : Nat, key : Keys, open : BOOLEAN]

\* A refused call is told of in the history and recorded as a failure.
LEMMA RefuseKeeps == SessionInv /\ Refuse => SessionInv'
<1> SUFFICES ASSUME SessionInv, Refuse PROVE SessionInv'
  OBVIOUS
<1> DEFINE row  == Len(mem.rows) + 1
           done == [id |-> row, key |-> Key, ok |-> FALSE]
           s == [mem EXCEPT !.rows = Append(@, Row(0, Key, FALSE)),
                            !.executed = Append(@, done),
                            !.history = @ \union {Told(row)},
                            !.blocked = @ \ {Key}, !.steps = @ + 1]
<1>1. /\ pc = "act" /\ pc \in Between /\ reply' = None
      /\ UNCHANGED <<toolVars, goal, typed, lost, outcome, code>>
      /\ action.action = "tool" /\ mem' = s /\ store' = s /\ pc' = "step"
  BY DEF Refuse, Between
<1>2. Key \in Keys
  BY <1>1 DEF SessionInv, TurnInv, HasFields, Key
<1>3. /\ mem = store /\ store \in Rows /\ Closed(mem.rows)
      /\ ToldOf(mem) /\ Sound(mem) /\ Len(mem.recent) <= Repeats
  BY <1>1, InHandRows
<1>4. /\ mem.rows \in Seq(RowType) /\ Row(0, Key, FALSE) \in RowType
      /\ mem.executed \in Seq(Executed)
  BY <1>2, <1>3 DEF Rows, Row, RowType
<1>5. row \in Nat \ {0} /\ done \in Executed
  BY <1>2, <1>4, LenProperties DEF Executed
<1>6. /\ Append(mem.rows, Row(0, Key, FALSE)) \in Seq(RowType)
      /\ Append(mem.executed, done) \in Seq(Executed)
  <2> HIDE DEF done
  <2>1. Append(mem.rows, Row(0, Key, FALSE)) \in Seq(RowType)
    BY <1>4, Appended
  <2>2. Append(mem.executed, done) \in Seq(Executed)
    BY <1>4, <1>5, Appended
  <2>3. QED  BY <2>1, <2>2
<1>7. mem.history \union {Told(row)} \in SUBSET Entry
  BY <1>3, <1>5 DEF Rows, Entry, Told
<1>8. mem.steps + 1 \in Nat /\ mem.blocked \ {Key} \in SUBSET Keys
  BY <1>3 DEF Rows
<1>9. s \in Rows
  <2>1. \A r \in Seq(RowType), e \in Seq(Executed), h \in SUBSET Entry,
           b \in SUBSET Keys, n \in Nat :
          [mem EXCEPT !.rows = r, !.executed = e, !.history = h,
                      !.blocked = b, !.steps = n] \in Rows
    BY <1>3 DEF Rows, RowType
  <2>2. QED  BY <1>6, <1>7, <1>8, <2>1
<1>10. /\ s.rows = Append(mem.rows, Row(0, Key, FALSE))
       /\ s.executed = Append(mem.executed, done)
       /\ s.history = mem.history \union {Told(row)}
       /\ s.recent = mem.recent /\ s.baseline = mem.baseline
  BY <1>3 DEF Rows
<1> HIDE DEF s
<1>11. Closed(s.rows)
  BY <1>3, <1>4, <1>10, Appended DEF Closed, Row
<1>12. ToldOf(s)
  <2> SUFFICES ASSUME NEW r \in DOMAIN s.rows, r # row,
                      ~s.rows[r].open
               PROVE  r \in DOMAIN mem.rows /\ s.rows[r] = mem.rows[r]
    BY <1>3, <1>10 DEF ToldOf
  <2>1. QED  BY <1>4, <1>10, Appended
<1>13. Sound(s)
  <2>1. \A i \in DOMAIN s.executed :
          s.executed[i].ok => /\ i \in DOMAIN mem.executed
                              /\ s.executed[i] = mem.executed[i]
    BY <1>4, <1>5, <1>10, Appended
  <2>2. QED  BY <1>3, <1>10, <2>1 DEF Sound
<1>14. VerifiedWasDone'
  BY <1>1, ToolsUntouched, DoneStays DEF SessionInv
<1>15. QED
  BY <1>1, <1>3, <1>9, <1>10, <1>11, <1>12, <1>13, <1>14, InHandRows,
     SavedKeeps
  DEF Between

\* The row that is about to be opened, and the call it is about.
LEMMA ActKeeps == SessionInv /\ Act => SessionInv'
<1> SUFFICES ASSUME SessionInv, Act PROVE SessionInv'
  OBVIOUS
<1> DEFINE new == Row(Len(calls) + 1, Key, TRUE)
<1>1. /\ pc = "act" /\ pc \in Between /\ reply' = None /\ pc' = "tool"
      /\ UNCHANGED <<goal, typed, lost, outcome, code>>
      /\ action.action = "tool" /\ Invoke(Key)
      /\ mem' = [mem EXCEPT !.rows = Append(@, new), !.recent = Window(Key)]
      /\ store' = [store EXCEPT !.rows = mem'.rows]
  BY DEF Act, Between
<1>2. Key \in Keys
  BY <1>1 DEF SessionInv, TurnInv, HasFields, Key
<1>3. /\ mem = store /\ store \in Rows /\ Closed(mem.rows) /\ goal # None
      /\ ToldOf(mem) /\ Sound(mem) /\ Len(mem.recent) <= Repeats
  BY <1>1, InHandRows
<1>4. /\ ToolInv' /\ Len(calls') = Len(calls) + 1
      /\ calls'[Len(calls')].key = Key
      /\ \A c \in DOMAIN calls : c \in DOMAIN calls' /\ calls'[c] = calls[c]
  BY <1>1, <1>2, InvokeKeeps DEF SessionInv
<1>5. CallsKept
  BY <1>4 DEF CallsKept, Progress
<1>6. Len(calls) \in Nat
  BY CallsAre DEF SessionInv, ToolInv
<1>7. mem.rows \in Seq(RowType) /\ new \in RowType
  BY <1>2, <1>3, <1>6 DEF Rows, Row, RowType
<1>8. Append(mem.rows, new) \in Seq(RowType)
  BY <1>7, Appended
<1>9. Window(Key) \in Seq(Keys) /\ Len(Window(Key)) <= Repeats
  BY <1>1, <1>2, WindowType
<1>10. /\ mem' \in Rows /\ mem'.rows = Append(mem.rows, new)
       /\ mem'.recent = Window(Key) /\ mem'.history = mem.history
       /\ mem'.executed = mem.executed /\ mem'.baseline = mem.baseline
  BY <1>1, <1>3, <1>8, <1>9 DEF Rows, RowType
<1>11. /\ store' \in Rows /\ store'.rows = Append(mem.rows, new)
       /\ store'.recent = mem.recent /\ store'.history = mem.history
       /\ store'.executed = mem.executed /\ store'.baseline = mem.baseline
  BY <1>1, <1>3, <1>8, <1>10 DEF Rows, RowType
<1>12. mem' # None /\ store' # None
  BY <1>10, <1>11, NoneAssumption
<1>13. SessionTypeOK'
  BY <1>1, <1>3, <1>4, <1>10, <1>11
  DEF SessionInv, SessionTypeOK, ToolInv, InTurn
<1>14. TurnInv'
  <2>1. Len(mem'.rows) = Len(mem.rows) + 1 /\ Len(mem.rows) \in Nat
    BY <1>7, <1>10, Appended
  <2>2. mem'.rows[Len(mem'.rows)].key = Key
    BY <1>7, <1>10, <2>1, Appended DEF Row
  <2>3. \A r \in 1..(Len(mem'.rows) - 1) : ~mem'.rows[r].open
    <3> SUFFICES ASSUME NEW r \in 1..Len(mem.rows)
                 PROVE  ~mem'.rows[r].open
      BY <2>1
    <3> HIDE DEF new
    <3>1. r \in DOMAIN mem.rows /\ mem'.rows[r] = mem.rows[r]
      BY <1>7, <1>10, Appended
    <3>2. QED  BY <1>3, <3>1 DEF Closed
  <2>4. Len(mem'.rows) > 0 /\ Len(calls') > 0
    BY <1>4, <1>6, <2>1
  <2>5. mem'.rows[Len(mem'.rows)].key = calls'[Len(calls')].key
    BY <1>4, <2>2
  <2>6. goal' # None /\ pc' = "tool" /\ pc' \notin Between
    BY <1>1, <1>3 DEF Between
  <2>7. QED
    BY <1>10, <1>11, <1>12, <2>3, <2>4, <2>5, <2>6 DEF TurnInv
<1>15. Kept'
  BY <1>1, <1>3, <1>11, <1>12 DEF SessionInv, Kept, Said
<1>16. ToldOf(store)'
  <2> SUFFICES ASSUME NEW r \in DOMAIN store'.rows, ~store'.rows[r].open
               PROVE  /\ r \in DOMAIN mem.rows
                      /\ store'.rows[r] = mem.rows[r]
    BY <1>3, <1>11 DEF ToldOf, Told, Warned
  <2>1. QED  BY <1>7, <1>11, Appended DEF Row
<1>17. Sound(store)'
  BY <1>3, <1>5, <1>11, SoundStays DEF Sound
<1>18. VerifiedWasDone'
  BY <1>1, <1>5, DoneStays DEF SessionInv
<1>19. QED
  BY <1>4, <1>9, <1>10, <1>12, <1>13, <1>14, <1>15, <1>16, <1>17, <1>18
  DEF SessionInv, Untouched

\* A result is stored with the row it belongs to: what is recorded as a
\* success of a command is one of the call in hand.
LEMMA CheckpointKeeps == SessionInv /\ Checkpoint => SessionInv'
<1> SUFFICES ASSUME SessionInv, Checkpoint PROVE SessionInv'
  OBVIOUS
<1> DEFINE row  == Len(mem.rows)
           last == calls[Len(calls)]
           done == [id |-> row, key |-> mem.rows[row].key,
                    ok |-> last.result.kind = "ok"]
           rows == [mem.rows EXCEPT ![row].open = FALSE]
           s == [mem EXCEPT !.rows[row].open = FALSE,
                            !.executed = Append(@, done),
                            !.history = @ \union {Told(row)},
                            !.tool_calls = @ + 1, !.steps = @ + 1]
<1>1. /\ pc = "tool" /\ pc' = "step" /\ last.result # None
      /\ UNCHANGED <<toolVars, goal, typed, lost, reply, outcome, code>>
      /\ mem' = s /\ store' = s
  BY DEF Checkpoint
<1>2. /\ mem \in Rows /\ store # None /\ goal # None
      /\ mem.history = store.history /\ mem.executed = store.executed
      /\ mem.rows = store.rows /\ mem.baseline = store.baseline
      /\ row > 0 /\ Len(calls) > 0 /\ mem.rows[row].key = last.key
      /\ \A r \in 1..(row - 1) : ~mem.rows[r].open
      /\ Len(mem.recent) <= Repeats
  BY <1>1 DEF SessionInv, SessionTypeOK, TurnInv, InTurn
<1>3. ToldOf(mem) /\ Sound(mem)
  BY <1>2 DEF SessionInv, ToldOf, Sound
<1>4. mem.rows \in Seq(RowType) /\ mem.executed \in Seq(Executed)
  BY <1>2 DEF Rows, RowType
<1>5. /\ row \in Nat \ {0} /\ DOMAIN mem.rows = 1..row
      /\ mem.rows[row] \in RowType
  BY <1>2, <1>4, LenProperties, ElementOfSeq
<1>6. done \in Executed
  BY <1>5 DEF Executed, RowType
<1>7. Append(mem.executed, done) \in Seq(Executed)
  <2> HIDE DEF done
  <2>1. QED  BY <1>4, <1>6, Appended
<1>8. rows \in Seq(RowType) /\ DOMAIN rows = 1..row
  <2>1. [mem.rows[row] EXCEPT !.open = FALSE] \in RowType
    BY <1>5 DEF RowType
  <2>2. QED  BY <1>4, <1>5, <2>1, ExceptSeq
<1>9. \A r \in 1..row : /\ ~rows[r].open /\ rows[r].key = mem.rows[r].key
                        /\ r # row => ~mem.rows[r].open
  BY <1>2, <1>5 DEF RowType
<1>10. mem.history \union {Told(row)} \in SUBSET Entry
  BY <1>2, <1>5 DEF Rows, Entry, Told
<1>11. mem.steps + 1 \in Nat /\ mem.tool_calls + 1 \in Nat
  BY <1>2 DEF Rows
<1>12. s \in Rows
  <2>1. s = [mem EXCEPT !.rows = rows,
                        !.executed = Append(@, done),
                        !.history = @ \union {Told(row)},
                        !.tool_calls = @ + 1, !.steps = @ + 1]
    BY <1>2 DEF Rows
  <2> HIDE DEF s, rows, done
  <2>2. QED  BY <1>2, <1>7, <1>8, <1>10, <1>11, <2>1 DEF Rows, RowType
<1>13. /\ s.rows = rows /\ s.executed = Append(mem.executed, done)
       /\ s.history = mem.history \union {Told(row)}
       /\ s.recent = mem.recent /\ s.baseline = mem.baseline
  BY <1>2 DEF Rows
<1>14. Closed(s.rows)
  BY <1>8, <1>9, <1>13 DEF Closed
<1>15. ToldOf(s)
  <2> SUFFICES ASSUME NEW r \in 1..row, r # row,
                      ToolOf[s.rows[r].key] = "run_command"
               PROVE  Told(r) \in s.history \/ Warned(r) \in s.history
    BY <1>8, <1>13 DEF ToldOf
  <2>1. ~mem.rows[r].open /\ ToolOf[mem.rows[r].key] = "run_command"
    BY <1>9, <1>13
  <2>2. QED  BY <1>3, <1>5, <1>13, <2>1 DEF ToldOf
<1>16. Sound(s)
  <2>1. ASSUME done.ok, Kind[done.key] # None PROVE Ran(Kind[done.key])
    <3>1. last.result.kind = "ok" /\ done.key = last.key
      BY <1>2, <2>1
    <3>2. Len(calls) \in DOMAIN calls /\ last \in Call /\ SafeCall(last, Risk)
      BY <1>2, CallsAre DEF SessionInv, ToolInv
    <3>3. last.key \in Keys /\ ToolOf[last.key] = "run_command"
      BY <2>1, <3>1, <3>2, KindAssumption DEF Call
    <3>4. last.result.by = "tool" /\ last.mode \in Modes
      BY <1>1, <3>1, <3>2, <3>3 DEF SafeCall
    <3>5. last.result = By("tool", "ok")
      BY <1>1, <3>1, <3>2, <3>4 DEF Call, Result, By
    <3>6. last.mode # None
      BY <3>4, AbsenceAssumption
    <3>7. QED  BY <3>1, <3>2, <3>5, <3>6 DEF Ran
  <2>2. ASSUME NEW i \in DOMAIN s.executed
        PROVE  \/ s.executed[i] = done
               \/ i \in DOMAIN mem.executed
                  /\ s.executed[i] = mem.executed[i]
    <3> HIDE DEF done, s
    <3>1. QED  BY <1>4, <1>6, <1>13, Appended
  <2> HIDE DEF done, s
  <2>3. QED  BY <1>3, <1>13, <2>1, <2>2 DEF Sound
<1>17. VerifiedWasDone'
  BY <1>1, ToolsUntouched, DoneStays DEF SessionInv
<1> HIDE DEF s
<1>18. /\ reply' \in Replies \union {None} /\ pc' \in Between /\ pc' # "act"
       /\ outcome' \in Outcome \union {None}
       /\ Len(s.recent) <= Repeats /\ store.history \subseteq s.history
  BY <1>1, <1>2, <1>13 DEF SessionInv, SessionTypeOK, Between
<1>19. QED
  BY <1>1, <1>2, <1>12, <1>14, <1>15, <1>16, <1>17, <1>18, SavedKeeps

\* The first turn finds the workspace untouched by the session, and its own
\* files change as soon as it has rows.
LEMMA BeginKeeps == SessionInv /\ Begin => SessionInv'
<1> SUFFICES ASSUME SessionInv, Begin PROVE SessionInv'
  OBVIOUS
<1> DEFINE s == [goal |-> goal, baseline |-> Baseline, history |-> {},
                 rows |-> <<>>, executed |-> <<>>, recent |-> <<>>,
                 blocked |-> {}, tool_calls |-> 0, retries |-> 0, steps |-> 0]
<1>1. /\ pc = "start" /\ store = None /\ pc' = "step"
      /\ mem' = s /\ store' = s /\ calls' = calls /\ setup' = setup
      /\ files' = [p \in Paths |->
                     IF p \in OwnPaths THEN "harness" ELSE files[p]]
      /\ UNCHANGED <<goal, typed, lost, reply, outcome, code>>
  BY DEF Begin
<1>2. /\ goal \in Nat /\ files \in [Paths -> Writers \union {None}]
      /\ \A p \in Paths : files[p] = None
  BY <1>1
  DEF SessionInv, SessionTypeOK, TurnInv, InTurn, ToolInv, ToolTypeOK,
      Untouched
<1>3. s \in Rows
  BY <1>2, EmptySeq DEF Rows, Baseline
<1>4. Closed(s.rows) /\ ToldOf(s)
  BY EmptySeq DEF Closed, ToldOf
<1>5. Sound(s)
  <2>1. DOMAIN s.executed = {}
    OBVIOUS
  <2>2. QED  BY <1>2, <2>1 DEF Sound, Baseline
<1>t. ToolInv' /\ CallsKept
  <2>1. ToolTypeOK'
    BY <1>1, <1>2 DEF SessionInv, ToolInv, ToolTypeOK, Writers
  <2>2. EffectsShown'
    BY <1>1, <1>2 DEF EffectsShown, ChangedBy
  <2>3. QED  BY <1>1, <2>1, <2>2
    DEF SessionInv, ToolInv, Risk, CallsKept, Progress
<1>6. VerifiedWasDone'
  BY <1>1, <1>t, DoneStays DEF SessionInv
<1>7. Len(s.recent) <= Repeats
  BY EmptySeq, SessionBounds
<1> HIDE DEF s
<1>8. /\ goal # None /\ reply' \in Replies \union {None}
      /\ outcome' \in Outcome \union {None} /\ pc' \in Between /\ pc' # "act"
  BY <1>1, <1>2, NoneAssumption DEF SessionInv, SessionTypeOK, Between
<1>9. QED
  BY <1>1, <1>3, <1>4, <1>5, <1>t, <1>6, <1>7, <1>8, StoredKeeps

\* A later one finds what an interrupted turn left open, and tells of every
\* command among it: a command is never repeatable.
LEMMA ResumeKeeps == SessionInv /\ Resume => SessionInv'
<1> SUFFICES ASSUME SessionInv, Resume PROVE SessionInv'
  OBVIOUS
<1> DEFINE rows == [r \in DOMAIN store.rows |->
                      [store.rows[r] EXCEPT !.open = FALSE]]
           blocked == store.blocked
                        \union {store.rows[r].key : r \in UncertainRows}
           history == store.history \union {Warned(r) : r \in UncertainRows}
           s == [store EXCEPT !.rows = rows, !.blocked = blocked,
                              !.history = history]
<1>1. /\ pc = "start" /\ store # None /\ pc' = "step"
      /\ mem' = s /\ store' = s
      /\ UNCHANGED <<toolVars, goal, typed, lost, reply, outcome, code>>
  BY DEF Resume
<1>2. /\ store \in Rows /\ goal # None /\ Len(store.recent) <= Repeats
      /\ ToldOf(store) /\ Sound(store)
  BY <1>1 DEF SessionInv, SessionTypeOK, TurnInv, InTurn
<1>3. /\ store.rows \in Seq(RowType) /\ Len(store.rows) \in Nat
      /\ DOMAIN store.rows = 1..Len(store.rows)
      /\ \A r \in DOMAIN store.rows : store.rows[r] \in RowType
  <2>1. store.rows \in Seq(RowType)
    BY <1>2 DEF Rows, RowType
  <2>2. QED  BY <2>1, LenProperties, ElementOfSeq
<1>4. rows \in Seq(RowType) /\ DOMAIN rows = DOMAIN store.rows
  <2>1. \A r \in 1..Len(store.rows) : rows[r] \in RowType
    BY <1>3 DEF RowType
  <2>2. rows = [r \in 1..Len(store.rows) |-> rows[r]]
    BY <1>3
  <2> HIDE DEF rows
  <2>3. [r \in 1..Len(store.rows) |-> rows[r]] \in Seq(RowType)
    BY <1>3, <2>1
  <2>4. QED  BY <1>3, <2>2, <2>3
<1>5. UncertainRows \subseteq DOMAIN store.rows
  BY DEF UncertainRows, OpenRows
<1>6. blocked \in SUBSET Keys
  BY <1>2, <1>3, <1>5 DEF Rows, RowType
<1>7. history \in SUBSET Entry
  BY <1>2, <1>3, <1>5 DEF Rows, Entry, Warned
<1>8. \A r \in DOMAIN rows : /\ ~rows[r].open
                             /\ rows[r].key = store.rows[r].key
  BY <1>3 DEF RowType
<1> HIDE DEF rows, blocked, history
<1>9. s \in Rows
  BY <1>2, <1>4, <1>6, <1>7 DEF Rows, RowType
<1>10. /\ s.rows = rows /\ s.history = history /\ s.recent = store.recent
       /\ s.executed = store.executed /\ s.baseline = store.baseline
  BY <1>2 DEF Rows
<1> HIDE DEF s
<1>11. Closed(s.rows)
  BY <1>8, <1>10 DEF Closed
<1>12. ToldOf(s)
  <2> SUFFICES ASSUME NEW r \in DOMAIN store.rows,
                      ToolOf[store.rows[r].key] = "run_command"
               PROVE  Told(r) \in history \/ Warned(r) \in history
    BY <1>4, <1>8, <1>10 DEF ToldOf
  <2>1. CASE store.rows[r].open
    BY <2>1 DEF history, UncertainRows, OpenRows, Repeatable
  <2>2. CASE ~store.rows[r].open
    BY <1>2, <2>2 DEF history, ToldOf
  <2>3. QED  BY <2>1, <2>2
<1>13. Sound(s)
  BY <1>2, <1>10 DEF Sound
<1>14. VerifiedWasDone'
  BY <1>1, ToolsUntouched, DoneStays DEF SessionInv
<1>15. /\ store.history \subseteq s.history /\ Len(s.recent) <= Repeats
       /\ reply' \in Replies \union {None}
       /\ outcome' \in Outcome \union {None}
       /\ pc' \in Between /\ pc' # "act"
  BY <1>1, <1>2, <1>10 DEF history, SessionInv, SessionTypeOK, Between
<1>16. QED
  BY <1>1, <1>2, <1>9, <1>11, <1>12, <1>13, <1>14, <1>15, SavedKeeps

----------------------------------------------------------------------------
\* What happens around the turns.

\* A message is the goal, or stored, or counted as lost.
LEMMA TypeKeeps == SessionInv /\ Type => SessionInv'
<1> SUFFICES ASSUME SessionInv, Type PROVE SessionInv'
  OBVIOUS
<1> DEFINE n == typed + 1
           s == [store EXCEPT !.history = @ \union {Said(n)}]
<1>1. /\ pc = "input" /\ pc' = "start" /\ typed' = n /\ typed < MaxMessages
      /\ UNCHANGED <<toolVars, mem, reply, action, outcome, code>>
  BY DEF Type
<1>2. /\ typed \in 0..MaxMessages /\ lost \subseteq 1..typed
      /\ goal \in Nat \union {None} /\ store \in Rows \union {None}
      /\ MaxMessages \in Nat
  BY SessionBounds DEF SessionInv, SessionTypeOK
<1>3. /\ n \in Nat /\ n \in 1..MaxMessages /\ n # None
      /\ 1..n = 1..typed \union {n}
  BY <1>1, <1>2, NoneAssumption
<1>4. ToolInv' /\ ToolTypeOK'
  BY <1>1, ToolsUntouched
<1>u. store' = store \/ store' # None => Untouched'
  BY <1>1 DEF SessionInv, Untouched, toolVars
<1>5. VerifiedWasDone'
  BY <1>1, ToolsUntouched, DoneStays DEF SessionInv
<1>6. CASE goal = None
  <2>1. goal' = n /\ store' = store /\ lost' = lost
    BY <1>6 DEF Type
  <2>2. SessionTypeOK'
    BY <1>1, <1>2, <1>3, <1>4, <2>1 DEF SessionInv, SessionTypeOK, InTurn
  <2>3. TurnInv'
    BY <1>1, <1>3, <2>1 DEF TurnInv, Between
  <2>4. Kept'
    <3>1. \A k \in 1..typed : \/ k \in lost
                              \/ store # None /\ Said(k) \in store.history
      BY <1>2, <1>6, NoneAssumption DEF SessionInv, Kept
    <3>2. QED  BY <1>1, <1>3, <2>1, <3>1 DEF Kept, Said
  <2>5. (store # None => ToldOf(store) /\ Sound(store))'
    BY <1>1, <2>1, ToolsUntouched DEF SessionInv, ToldOf, Sound
  <2>6. (mem # None => Len(mem.recent) <= Repeats)'
    BY <1>1 DEF SessionInv
  <2>7. QED
    BY <1>4, <1>5, <1>u, <2>1, <2>2, <2>3, <2>4, <2>5, <2>6 DEF SessionInv
<1>7. CASE goal # None /\ store = None
  <2>1. goal' = goal /\ store' = store /\ lost' = lost \union {n}
    BY <1>7 DEF Type
  <2>2. SessionTypeOK'
    BY <1>1, <1>2, <1>3, <1>4, <2>1 DEF SessionInv, SessionTypeOK, InTurn
  <2>3. TurnInv'
    BY <1>1, <1>7, <2>1 DEF TurnInv, Between
  <2>4. Kept'
    BY <1>1, <1>3, <2>1 DEF SessionInv, Kept, Said
  <2>5. (store # None => ToldOf(store) /\ Sound(store))'
    BY <1>7, <2>1
  <2>6. (mem # None => Len(mem.recent) <= Repeats)'
    BY <1>1 DEF SessionInv
  <2>7. QED
    BY <1>4, <1>5, <1>u, <2>1, <2>2, <2>3, <2>4, <2>5, <2>6 DEF SessionInv
<1>8. CASE goal # None /\ store # None
  <2>1. goal' = goal /\ store' = s /\ lost' = lost
    BY <1>8 DEF Type, Queued
  <2>2. store.history \union {Said(n)} \in SUBSET Entry
    BY <1>2, <1>3, <1>8 DEF Rows, Entry, Said
  <2>3. /\ s \in Rows /\ s.history = store.history \union {Said(n)}
        /\ s.rows = store.rows /\ s.executed = store.executed
        /\ s.recent = store.recent /\ s.baseline = store.baseline
    BY <1>2, <1>8, <2>2 DEF Rows
  <2> HIDE DEF s
  <2>4. s # None
    BY <2>3, NoneAssumption
  <2>5. SessionTypeOK'
    BY <1>1, <1>2, <1>3, <1>4, <1>8, <2>1, <2>3
    DEF SessionInv, SessionTypeOK, InTurn
  <2>6. TurnInv'
    BY <1>1, <1>8, <2>1 DEF TurnInv, Between
  <2>7. Kept'
    BY <1>1, <1>3, <1>8, <2>1, <2>3, <2>4 DEF SessionInv, Kept, Said
  <2>8. ToldOf(store)' /\ Sound(store)'
    <3>1. ToldOf(s) /\ Sound(s)
      BY <1>8, <2>3 DEF SessionInv, ToldOf, Sound
    <3>2. QED  BY <1>1, <2>1, <3>1, ToolsUntouched DEF ToldOf, Sound
  <2>9. (mem # None => Len(mem.recent) <= Repeats)'
    BY <1>1 DEF SessionInv
  <2>10. QED
    BY <1>4, <1>5, <1>u, <2>1, <2>4, <2>5, <2>6, <2>7, <2>8, <2>9
    DEF SessionInv
<1>9. QED  BY <1>6, <1>7, <1>8

\* Leaving, the end of a turn and of the process store nothing.
LEMMA OutsideSteps ==
  SessionInv /\ (Leave \/ Finished \/ EndTurn \/ Exit \/ Hurry) => SessionInv'
<1> SUFFICES ASSUME SessionInv, Leave \/ Finished \/ EndTurn \/ Exit \/ Hurry
             PROVE  SessionInv'
  OBVIOUS
<1>1. code \in 0..6 \union {None}
  BY DEF SessionInv, SessionTypeOK
<1>2. ASSUME outcome \in Outcome \union {None}
      PROVE  ExitCode \in 0..6
  BY <1>2, NoneAssumption DEF ExitCode, Outcome, StopReasons
<1>3. outcome \in Outcome \union {None}
  BY DEF SessionInv, SessionTypeOK
<1>u. UNCHANGED <<toolVars, store>> => Untouched'
  BY DEF SessionInv, Untouched, toolVars
<1>4. CASE Leave
  BY <1>1, <1>u, <1>4, ToolsUntouched, OutsideKeeps DEF Leave
<1>5. CASE Finished
  BY <1>1, <1>u, <1>5, ToolsUntouched, OutsideKeeps DEF Finished
<1>6. CASE EndTurn
  BY <1>1, <1>2, <1>3, <1>u, <1>6, ToolsUntouched, OutsideKeeps
  DEF EndTurn
<1>7. CASE Exit
  BY <1>1, <1>u, <1>7, ToolsUntouched, OutsideKeeps DEF Exit
<1>8. CASE Hurry
  BY <1>1, <1>u, <1>8, ToolsUntouched, OutsideKeeps DEF Hurry
<1>9. QED  BY <1>4, <1>5, <1>6, <1>7, <1>8

\* A cancelled turn gives up on the calls that have no result; their threads
\* and what they changed stay as they are.
LEMMA CancelKeeps == SessionInv /\ Cancel => SessionInv'
<1> SUFFICES ASSUME SessionInv, Cancel PROVE SessionInv'
  OBVIOUS
<1> DEFINE given == By("cancel", "cancelled")
           after == [c \in DOMAIN calls |->
                       IF calls[c].result = None
                       THEN [calls[c] EXCEPT !.result = given] ELSE calls[c]]
<1>1. /\ calls' = after /\ UNCHANGED <<setup, files, goal, store, typed, lost>>
      /\ pc' = "closing" /\ outcome' = None /\ mem' = None /\ reply' = None
      /\ code' = code
  BY DEF Cancel
<1>2. /\ DOMAIN calls = 1..Len(calls) /\ Len(calls) \in Nat
      /\ \A c \in DOMAIN calls : calls[c] \in Call /\ SafeCall(calls[c], Risk)
  BY CallsAre DEF SessionInv, ToolInv
<1>3. given \in Result /\ given.by # "tool" /\ given.kind # "ok"
  BY DEF By, Result, Kinds
<1>4. ASSUME NEW c \in DOMAIN calls
      PROVE  /\ after[c] \in Call /\ SafeCall(after[c], Risk)
             /\ Progress(calls[c], after[c])
             /\ after[c].landed = calls[c].landed
             /\ after[c].key = calls[c].key
  <2>1. CASE calls[c].result = None
    <3> DEFINE x == [calls[c] EXCEPT !.result = given]
    <3>1. x \in Call /\ SafeCall(x, Risk)
      BY <1>3, <2>1, GivenUpIsSafe DEF SessionInv
    <3>2. /\ Progress(calls[c], x) /\ x.landed = calls[c].landed
          /\ x.key = calls[c].key
      BY <1>2, <2>1 DEF Progress, Call
    <3>3. after[c] = x
      BY <2>1
    <3>4. QED  BY <3>1, <3>2, <3>3
  <2>2. CASE calls[c].result # None
    <3>1. after[c] = calls[c]
      BY <2>2
    <3>2. QED  BY <1>2, <3>1 DEF Progress
  <2>3. QED  BY <2>1, <2>2
<1>5. DOMAIN after = DOMAIN calls
  OBVIOUS
<1>6. after \in Seq(Call)
  <2>1. after = [c \in 1..Len(calls) |-> after[c]]
    BY <1>2
  <2> HIDE DEF after
  <2>2. [c \in 1..Len(calls) |-> after[c]] \in Seq(Call)
    BY <1>2, <1>4
  <2>3. QED  BY <2>1, <2>2
<1> HIDE DEF after
<1>7. ToolInv'
  <2>1. ToolTypeOK'
    BY <1>1, <1>6 DEF SessionInv, ToolInv, ToolTypeOK
  <2>2. (\A c \in DOMAIN calls : SafeCall(calls[c], Risk))'
    BY <1>1, <1>4, <1>5 DEF Risk
  <2>c. \A p, who : ChangedBy(p, who) => ChangedBy(p, who)'
    BY <1>1, <1>4, <1>5 DEF ChangedBy
  <2>3. EffectsShown'
    BY <1>1, <2>c DEF SessionInv, ToolInv, EffectsShown
  <2>4. QED  BY <2>1, <2>2, <2>3 DEF ToolInv
<1>8. CallsKept
  BY <1>1, <1>4, <1>5 DEF CallsKept
<1>9. code' \in 0..6 \union {None}
  BY <1>1 DEF SessionInv, SessionTypeOK
<1>u. Untouched'
  <2> SUFFICES ASSUME store = None
               PROVE  after = <<>> /\ \A p \in Paths : files[p] = None
    BY <1>1 DEF Untouched
  <2>1. calls = <<>> /\ \A p \in Paths : files[p] = None
    BY DEF SessionInv, Untouched
  <2>2. after = <<>>
    BY <1>2, <1>5, <1>6, <2>1, EmptySeq
  <2>3. QED  BY <2>1, <2>2
<1>10. QED  BY <1>1, <1>7, <1>8, <1>9, <1>u, OutsideKeeps

\* A thread of this turn or of an earlier one goes on.
LEMMA ThreadStepKeeps ==
  ASSUME SessionInv, NEW c \in DOMAIN calls, Thread(c)
  PROVE  SessionInv'
<1>1. /\ ToolInv
      /\ ThreadStep(c) \/ ThreadMay(c) \/ RegistryTimeout(c)
      /\ UNCHANGED <<pc, goal, store, mem, typed, lost, reply, action, outcome,
                     code>>
  BY DEF SessionInv, Thread, sessionVars
<1>2. ToolInv' /\ Later
  BY <1>1, ThreadKeeps, ThreadProgress
<1>3. CallsKept
  BY <1>2 DEF Later, CallsKept
<1>4. Len(calls') = Len(calls) /\ Len(calls) \in Nat
  <2>1. calls \in Seq(Call) /\ calls' \in Seq(Call)
    BY <1>1, <1>2 DEF ToolInv, ToolTypeOK
  <2>2. QED  BY <1>2, <2>1, LenProperties DEF Later
<1>5. SessionTypeOK'
  BY <1>1, <1>2 DEF SessionInv, SessionTypeOK, ToolInv
<1>6. TurnInv'
  <2>1. CASE pc = "tool"
    <3>1. Len(calls) \in DOMAIN calls
      BY <1>4, <2>1, CallsAre DEF SessionInv, TurnInv, ToolInv
    <3>2. calls'[Len(calls')].key = calls[Len(calls)].key
      BY <1>2, <1>4, <3>1 DEF Later, Progress
    <3>3. QED  BY <1>1, <1>4, <2>1, <3>2 DEF SessionInv, TurnInv
  <2>2. CASE pc # "tool"
    BY <1>1, <2>2 DEF SessionInv, TurnInv, HasFields, Closed
  <2>3. QED  BY <2>1, <2>2
<1>7. Kept'
  BY <1>1 DEF SessionInv, Kept, Said
<1>8. (store # None => ToldOf(store) /\ Sound(store))'
  BY <1>1, <1>3, SoundStays DEF SessionInv, ToldOf, Sound
<1>9. VerifiedWasDone'
  BY <1>1, <1>3, DoneStays DEF SessionInv
<1>10. (mem # None => Len(mem.recent) <= Repeats)'
  BY <1>1 DEF SessionInv
<1>u. Untouched'
  <2>1. calls # <<>>
    BY EmptySeq
  <2>2. QED  BY <1>1, <2>1 DEF SessionInv, Untouched
<1>11. QED
  BY <1>2, <1>5, <1>6, <1>7, <1>8, <1>9, <1>10, <1>u DEF SessionInv

\* A file edited by hand is one a person changed; the calls are as they were.
LEMMA EditKeeps == SessionInv /\ Edit => SessionInv'
<1> SUFFICES ASSUME SessionInv, Edit PROVE SessionInv'
  OBVIOUS
<1>1. /\ store # None /\ setup' = setup /\ calls' = calls
      /\ UNCHANGED <<pc, goal, store, mem, typed, lost, reply, action, outcome,
                     code>>
  BY DEF Edit, sessionVars
<1>2. PICK p \in Paths : files' = [files EXCEPT ![p] = "person"]
  BY DEF Edit
<1>3. CallsKept
  BY <1>1 DEF CallsKept, Progress
<1>4. ToolInv'
  <2>1. ToolTypeOK'
    BY <1>1, <1>2 DEF SessionInv, ToolInv, ToolTypeOK, Writers
  <2>2. EffectsShown'
    <3>1. /\ \A q, who : ChangedBy(q, who) => ChangedBy(q, who)'
          /\ \A q : ChangedBy(q, "person")'
      BY <1>1 DEF ChangedBy
    <3>2. \A q \in Paths : files'[q] = files[q] \/ files'[q] = "person"
      BY <1>2 DEF SessionInv, ToolInv, ToolTypeOK
    <3>3. QED  BY <3>1, <3>2 DEF SessionInv, ToolInv, EffectsShown
  <2>3. QED  BY <1>1, <2>1, <2>2 DEF SessionInv, ToolInv, Risk
<1>5. SessionTypeOK' /\ Untouched'
  BY <1>1, <1>4 DEF SessionInv, SessionTypeOK, ToolInv, Untouched
<1>6. TurnInv'
  BY <1>1 DEF SessionInv, TurnInv, HasFields, Closed
<1>7. Kept'
  BY <1>1 DEF SessionInv, Kept, Said
<1>8. (store # None => ToldOf(store) /\ Sound(store))'
  BY <1>1, <1>3, SoundStays DEF SessionInv, ToldOf, Sound
<1>9. VerifiedWasDone'
  BY <1>1, <1>3, DoneStays DEF SessionInv
<1>10. (mem # None => Len(mem.recent) <= Repeats)'
  BY <1>1 DEF SessionInv
<1>11. QED
  BY <1>4, <1>5, <1>6, <1>7, <1>8, <1>9, <1>10 DEF SessionInv

----------------------------------------------------------------------------
\* The invariant holds.

\* A session begins with nothing asked, said or done.
LEMMA SessionInit == Init => SessionInv
<1> SUFFICES ASSUME Init PROVE SessionInv
  OBVIOUS
<1>1. ToolInv
  BY ToolInitInv DEF Init
<1>2. SessionTypeOK
  BY <1>1, SessionBounds DEF Init, SessionTypeOK, ToolInv
<1>3. TurnInv /\ Kept /\ VerifiedWasDone
  BY DEF Init, TurnInv, InTurn, Between, Kept, VerifiedWasDone
<1>4. Untouched
  BY DEF Init, ToolInit, Untouched
<1>5. QED  BY <1>1, <1>2, <1>3, <1>4 DEF Init, SessionInv

\* Every step of the person, the loop and the threads keeps it.
LEMMA SessionStep == SessionInv /\ [Next]_vars => SessionInv'
<1> SUFFICES ASSUME SessionInv, [Next]_vars PROVE SessionInv'
  OBVIOUS
<1>1. CASE Person
  BY <1>1, TypeKeeps, CancelKeeps, EditKeeps, OutsideSteps DEF Person
<1>2. CASE Turn
  BY <1>2, BeginKeeps, ResumeKeeps, StepKeeps, FailKeeps, RespondKeeps,
     CorrectKeeps, ConcludeKeeps, RefuseKeeps, GiveUpKeeps, ActKeeps,
     CheckpointKeeps, OutsideSteps
  DEF Turn
<1>3. CASE \E c \in DOMAIN calls : Thread(c)
  BY <1>3, ThreadStepKeeps
<1>4. CASE UNCHANGED vars
  BY <1>4
  DEF vars, SessionInv, SessionTypeOK, ToolInv, ToolTypeOK, EffectsShown,
      Risk, TurnInv, HasFields, Kept, ToldOf, Sound, Ran, Closed,
      VerifiedWasDone, ChangedBy, Untouched, Said, Told, Warned
<1>5. QED  BY <1>1, <1>2, <1>3, <1>4 DEF Next

\* The types of everything the session keeps: the rows it stores and those in
\* hand, the window of recent calls within its bound, what was lost among what
\* was typed, an exit code that exit_code_for can give.
THEOREM SessionTypeCorrect == Spec => []SessionTypeOK
<1>1. SessionInv => SessionTypeOK
  BY DEF SessionInv
<1>2. QED  BY <1>1, SessionInit, SessionStep, PTL DEF Spec

\* No command runs past a gate it has not come through: whatever the line, the
\* approvals and the prompts answered late (shell.py, in its thread).
THEOREM CommandsGated == Spec => []Gated
<1>1. SessionInv => Gated
  BY GatedHolds DEF SessionInv
<1>2. QED  BY <1>1, SessionInit, SessionStep, PTL DEF Spec

\* A command nobody approved is made of names the tables list as read-only, for
\* every line the classifier can be given (classify_command and the gate of
\* run_command together).  The name is what the tables know: not which program
\* it runs, nor a redirection glued to a word.
THEOREM UnaskedAreListed == Spec => []UnaskedIsListed
<1>1. SessionInv => UnaskedIsListed
  BY UnaskedHolds DEF SessionInv
<1>2. QED  BY <1>1, SessionInit, SessionStep, PTL DEF Spec

\* Nothing the person typed is missing from what the model is sent, through
\* any number of turns that were cancelled or failed (_queue_message).
THEOREM MessagesAreKept == Spec => []MessagesKept
<1>1. SessionInv => MessagesKept
  BY DEF SessionInv, MessagesKept, Kept, TurnInv, Between
<1>2. QED  BY <1>1, SessionInit, SessionStep, PTL DEF Spec

\* The model is told of every command before it is asked again, also of those
\* a cancelled turn left open (_recover_orphaned_steps).
THEOREM NothingIsUntold == Spec => []NothingUntold
<1>1. SessionInv => NothingUntold
  BY DEF SessionInv, NothingUntold, ToldOf, TurnInv, Between, Closed
<1>2. QED  BY <1>1, SessionInit, SessionStep, PTL DEF Spec

\* What the verifier lets pass did happen: a command of the claimed kind ran in
\* a call of this session and exited 0, a file cited was changed since the run
\* began - by a call, by a person or by the harness itself (verifier.py).
THEOREM VerifiedDone == Spec => []VerifiedWasDone
<1>1. SessionInv => VerifiedWasDone
  BY DEF SessionInv
<1>2. QED  BY <1>1, SessionInit, SessionStep, PTL DEF Spec

\* An answered call changes nothing more: no step, of its thread or any other,
\* gives it an effect (registry.py, shell.py's killpg).
THEOREM AnsweredOver == Spec => AnsweredMeansOver
<1> DEFINE A == \A c \in DOMAIN calls :
                  /\ calls[c].result # None /\ calls[c].result.by = "tool"
                  /\ calls[c].mode # "unsandboxed"
                  => calls'[c].landed = calls[c].landed
<1>1. SessionInv /\ [Next]_vars => [A]_toolVars
  <2> SUFFICES ASSUME SessionInv, [Next]_vars, NEW c \in DOMAIN calls,
                      calls[c].result # None, calls[c].result.by = "tool",
                      calls[c].mode # "unsandboxed",
                      toolVars' # toolVars
               PROVE  calls'[c].landed = calls[c].landed
    OBVIOUS
  <2>1. calls[c].pc = "gone" /\ calls[c] \in Call
    BY AnsweredIsOver, CallsAre DEF SessionInv, ToolInv
  <2>2. CASE \E d \in DOMAIN calls : Thread(d)
    <3>1. Later
      BY <2>2, ThreadProgress DEF Thread, SessionInv
    <3>2. QED  BY <2>1, <3>1 DEF Later, Progress
  <2>3. CASE Act
    <3>1. Key \in Keys /\ Invoke(Key)
      BY <2>3 DEF Act, SessionInv, TurnInv, HasFields, Key
    <3>2. calls'[c] = calls[c]
      BY <3>1, InvokeKeeps DEF SessionInv
    <3>3. QED  BY <3>2
  <2>4. CASE Cancel
    BY <2>1, <2>4 DEF Cancel
  <2>5. \/ UNCHANGED calls \/ Act \/ Cancel
        \/ \E d \in DOMAIN calls : Thread(d)
    BY DEF Next, Person, Turn, Type, Leave, Hurry, Edit, Begin, Resume, Step,
           Fail, Respond, Correct, Conclude, Refuse, GiveUp, Checkpoint, Finished,
           EndTurn, Exit, vars, toolVars
  <2>6. QED  BY <2>2, <2>3, <2>4, <2>5
<1>2. QED
  BY <1>1, SessionInit, SessionStep, PTL DEF Spec, AnsweredMeansOver

----------------------------------------------------------------------------
\* Reasoning in a reply: Unclosed looks ahead for the end of a block, Outside
\* reads from left to right.

\* K has the text without its closed blocks, from each position on.
Keeps(K, text, X) ==
  /\ K \in [1..(Len(text) + 1) -> Seq(X)]
  /\ K[Len(text) + 1] = <<>>
  /\ \A i \in 1..Len(text) :
       IF text[i].piece = "open" /\ Closers(text, i) # {}
       THEN K[Least(Closers(text, i)) + 1] \in Seq(X)
            /\ K[i] = K[Least(Closers(text, i)) + 1]
       ELSE K[i] = <<text[i]>> \o K[i + 1]

\* The first of some positions is one of them.
LEMMA LeastIs ==
  ASSUME NEW T \in SUBSET Nat, T # {}
  PROVE  Least(T) \in T /\ \A y \in T : Least(T) <= y
<1>1. \E x \in T : \A y \in T : x <= y
  BY LeastNumber
<1>2. QED  BY <1>1 DEF Least

\* A closer comes after what it closes.
LEMMA CloserIs ==
  ASSUME NEW X, NEW text \in Seq(X), NEW i \in 1..Len(text),
         Closers(text, i) # {}
  PROVE  Least(Closers(text, i)) \in (i + 1)..Len(text)
<1>1. Len(text) \in Nat
  BY LenProperties
<1>2. Closers(text, i) \in SUBSET Nat
  BY <1>1 DEF Closers
<1>3. Least(Closers(text, i)) \in Closers(text, i)
  BY <1>2, LeastIs
<1>4. QED  BY <1>3 DEF Closers

\* There is such a function, by recursion from the end of the text.
LEMMA KeepExists ==
  ASSUME NEW X, NEW text \in Seq(X)
  PROVE  \E K :
           K = [i \in 1..(Len(text) + 1) |->
                  IF i > Len(text) THEN <<>>
                  ELSE IF text[i].piece = "open" /\ Closers(text, i) # {}
                       THEN K[Least(Closers(text, i)) + 1]
                       ELSE <<text[i]>> \o K[i + 1]]
<1> DEFINE n == Len(text)
           S == 1..(n + 1)
           V == Seq(X)
           skips(i) == text[i].piece = "open" /\ Closers(text, i) # {}
           next == [i \in S |-> IF i <= n /\ skips(i)
                                THEN Least(Closers(text, i)) + 1 ELSE i + 1]
           size == [i \in S |-> n + 1 - i]
           F == [i \in S |-> [g \in [S -> V] |->
                  IF i > n THEN <<>>
                  ELSE IF skips(i) THEN g[Least(Closers(text, i)) + 1]
                  ELSE <<text[i]>> \o g[i + 1]]]
<1>1. n \in Nat /\ \A i \in 1..n : text[i] \in X
  BY LenProperties, ElementOfSeq
<1>2. \A i \in S : /\ i \in Nat \ {0} /\ size[i] = n + 1 - i
                   /\ (~(i > n) => i \in 1..n /\ i + 1 \in S)
  BY <1>1
<1>3. ASSUME NEW i \in S, ~(i > n), skips(i)
      PROVE  /\ Least(Closers(text, i)) + 1 \in S
             /\ Least(Closers(text, i)) + 1 > i
  <2>1. Least(Closers(text, i)) \in (i + 1)..n
    BY <1>2, <1>3, CloserIs
  <2>2. QED  BY <1>1, <1>2, <2>1
<1> HIDE DEF skips
<1>4. V # {} /\ size \in [S -> Nat]
  <2>1. <<>> \in V
    OBVIOUS
  <2>2. QED  BY <1>1, <2>1
<1>5. \A i \in S : \A g \in [S -> V] :
        (IF i > n THEN <<>>
         ELSE IF skips(i) THEN g[Least(Closers(text, i)) + 1]
         ELSE <<text[i]>> \o g[i + 1]) \in V
  <2> SUFFICES ASSUME NEW i \in S, NEW g \in [S -> V]
               PROVE  (IF i > n THEN <<>>
                       ELSE IF skips(i) THEN g[Least(Closers(text, i)) + 1]
                       ELSE <<text[i]>> \o g[i + 1]) \in V
    OBVIOUS
  <2>1. <<>> \in V
    OBVIOUS
  <2>2. ~(i > n) /\ skips(i) => g[Least(Closers(text, i)) + 1] \in V
    <3> HIDE DEF S, V
    <3>1. QED  BY <1>3
  <2>3. ~(i > n) => <<text[i]>> \o g[i + 1] \in V
    <3>1. ~(i > n) => g[i + 1] \in V /\ <<text[i]>> \in V
      BY <1>1, <1>2
    <3>2. QED  BY <3>1, ConcatProperties
  <2>4. QED  BY <2>1, <2>2, <2>3
<1>6. F \in [S -> [[S -> V] -> V]]
  <2> HIDE DEF S, V, n
  <2>1. QED  BY <1>5, Zenon
<1>7. ASSUME NEW i \in S, NEW g \in [S -> V], NEW h \in [S -> V],
             \A j \in S : size[j] < size[i] => g[j] = h[j]
      PROVE  F[i][g] = F[i][h]
  <2>1. \A j \in S : j > i => g[j] = h[j]
    BY <1>1, <1>2, <1>7
  <2>2. ~(i > n) => g[i + 1] = h[i + 1]
    BY <1>2, <2>1
  <2>3. ~(i > n) /\ skips(i) => g[Least(Closers(text, i)) + 1]
                                  = h[Least(Closers(text, i)) + 1]
    <3> HIDE DEF S
    <3>1. QED  BY <1>3, <2>1
  <2> HIDE DEF S, V, n
  <2>4. QED  BY <2>2, <2>3, Zenon
<1>8. Recursive(F, S, V, size)
  <2> HIDE DEF F, S, V, size
  <2>1. QED  BY <1>4, <1>6, <1>7 DEF Recursive
<1>9. PICK K \in [S -> V] : \A i \in S : K[i] = F[i][K]
  <2> HIDE DEF F, S, V, size
  <2>1. QED  BY <1>8, RecursionTheorem
<1>10. K = [i \in S |-> IF i > n THEN <<>>
                        ELSE IF skips(i) THEN K[Least(Closers(text, i)) + 1]
                        ELSE <<text[i]>> \o K[i + 1]]
  <2> HIDE DEF S, V, n
  <2>1. K = [i \in S |-> K[i]]
    OBVIOUS
  <2>2. \A i \in S : K[i] = IF i > n THEN <<>>
                        ELSE IF skips(i) THEN K[Least(Closers(text, i)) + 1]
                        ELSE <<text[i]>> \o K[i + 1]
    BY <1>9
  <2>3. QED  BY <2>1, <2>2, Zenon
<1>11. QED  BY <1>10 DEF skips

\* And Unclosed is its value for the whole text.
LEMMA UnclosedKeeps ==
  ASSUME NEW X, NEW text \in Seq(X)
  PROVE  \E K : Keeps(K, text, X) /\ Unclosed(text) = K[1]
<1> DEFINE is(K) == K = [i \in 1..(Len(text) + 1) |->
                  IF i > Len(text) THEN <<>>
                  ELSE IF text[i].piece = "open" /\ Closers(text, i) # {}
                       THEN K[Least(Closers(text, i)) + 1]
                       ELSE <<text[i]>> \o K[i + 1]]
           keep == CHOOSE K : is(K)
<1>1. is(keep)
  <2>1. \E K : is(K)
    BY KeepExists
  <2> HIDE DEF is
  <2>2. QED  BY <2>1
<1>2. Unclosed(text) = keep[1]
  BY DEF Unclosed
<1>3. PICK K : K = keep
  OBVIOUS
<1> HIDE DEF keep
<1>4. is(K) /\ Unclosed(text) = K[1]
  BY <1>1, <1>2, <1>3
<1> DEFINE n == Len(text)
           skips(i) == text[i].piece = "open" /\ Closers(text, i) # {}
           T == {m \in Nat : \A i \in 1..(n + 1) :
                               n + 1 - i <= m => K[i] \in Seq(X)}
<1>5. n \in Nat /\ \A i \in 1..n : text[i] \in X
  BY LenProperties, ElementOfSeq
<1>6. \A i \in 1..(n + 1) :
        K[i] = IF i > n THEN <<>>
               ELSE IF skips(i) THEN K[Least(Closers(text, i)) + 1]
               ELSE <<text[i]>> \o K[i + 1]
  BY <1>4
<1> HIDE DEF is
<1>7. \A i \in 1..n : /\ ~(i > n) /\ i \in 1..(n + 1) /\ i + 1 \in 1..(n + 1)
                      /\ i \in Nat
  BY <1>5
<1>8. ASSUME NEW i \in 1..n, skips(i)
      PROVE  /\ Least(Closers(text, i)) + 1 \in 1..(n + 1)
             /\ Least(Closers(text, i)) + 1 > i
  <2>1. Least(Closers(text, i)) \in (i + 1)..n
    BY <1>7, <1>8, CloserIs
  <2>2. QED  BY <1>5, <1>7, <2>1
<1> HIDE DEF skips
<1>9. 0 \in T
  <2>1. \A i \in 1..(n + 1) : n + 1 - i <= 0 => i > n
    BY <1>5
  <2>2. <<>> \in Seq(X)
    OBVIOUS
  <2> HIDE DEF n
  <2>3. QED  BY <1>6, <2>1, <2>2
<1>10. ASSUME NEW m \in T PROVE m + 1 \in T
  <2> SUFFICES ASSUME NEW i \in 1..(n + 1), n + 1 - i <= m + 1
               PROVE  K[i] \in Seq(X)
    OBVIOUS
  <2>1. CASE i > n
    BY <1>6, <2>1
  <2>2. CASE ~(i > n)
    <3>1. i \in 1..n /\ m \in Nat
      BY <1>5, <2>2
    <3>2. \A j \in 1..(n + 1) : j > i => K[j] \in Seq(X)
      <4>1. \A j \in 1..(n + 1) : j > i => n + 1 - j <= m
        BY <1>5, <3>1
      <4>2. QED  BY <4>1
    <3>3. K[i + 1] \in Seq(X)
      BY <1>7, <3>1, <3>2
    <3>4. <<text[i]>> \o K[i + 1] \in Seq(X)
      <4>1. <<text[i]>> \in Seq(X)
        BY <1>5, <3>1
      <4>2. QED  BY <3>3, <4>1, ConcatProperties
    <3>5. skips(i) => K[Least(Closers(text, i)) + 1] \in Seq(X)
      <4> HIDE DEF n
      <4>1. QED  BY <1>8, <3>1, <3>2
    <3>6. QED  BY <1>6, <2>2, <3>4, <3>5
  <2>3. QED  BY <2>1, <2>2
<1> HIDE DEF T
<1>11. T = Nat
  BY <1>9, <1>10, Numbers DEF T
<1>12. \A i \in 1..(n + 1) : K[i] \in Seq(X)
  <2>1. \A i \in 1..(n + 1) : n + 1 - i \in Nat /\ n + 1 - i <= n + 1 - i
    BY <1>5
  <2>2. QED  BY <1>11, <2>1 DEF T
<1>13. K \in [1..(n + 1) -> Seq(X)]
  <2>1. K = [i \in 1..(n + 1) |-> K[i]]
    BY <1>4, Zenon DEF is
  <2>2. QED  BY <1>12, <2>1, Zenon
<1>14. K[n + 1] = <<>>
  <2>1. n + 1 \in 1..(n + 1) /\ n + 1 > n
    BY <1>5
  <2>2. QED  BY <1>6, <2>1
<1>15. \A i \in 1..n : IF skips(i) THEN
               /\ K[Least(Closers(text, i)) + 1] \in Seq(X)
               /\ K[i] = K[Least(Closers(text, i)) + 1]
             ELSE K[i] = <<text[i]>> \o K[i + 1]
  <2> HIDE DEF n
  <2>1. QED  BY <1>6, <1>7, <1>8, <1>12
<1>16. QED  BY <1>4, <1>13, <1>14, <1>15 DEF Keeps, skips

\* The kind of reasoning the reader of text is in after each position, and
\* what was written outside of reasoning up to there.
Reads(W, P, text) ==
  /\ W[0] = None /\ P[0] = <<>>
  /\ \A i \in 1..Len(text) :
       /\ W[i] = IF W[i - 1] = None
                 THEN IF text[i].piece = "open" THEN text[i].tag ELSE None
                 ELSE IF text[i] = Close(W[i - 1]) THEN None ELSE W[i - 1]
       /\ P[i] = IF W[i - 1] = None /\ W[i] = None
                 THEN Append(P[i - 1], text[i]) ELSE P[i - 1]

\* Both can be told piece by piece.
LEMMA ReadExists ==
  ASSUME NEW X, NEW text \in Seq(X)
  PROVE  \E W : W = [i \in 0..Len(text) |->
           IF i = 0 THEN None
           ELSE IF W[i - 1] = None
                THEN IF text[i].piece = "open" THEN text[i].tag ELSE None
           ELSE IF text[i] = Close(W[i - 1]) THEN None ELSE W[i - 1]]
<1> DEFINE n == Len(text)
           V == {None} \union {text[i].tag : i \in 1..n}
           G == [i \in 1..n |-> [x \in V |->
                  IF x = None
                  THEN IF text[i].piece = "open" THEN text[i].tag ELSE None
                  ELSE IF text[i] = Close(x) THEN None ELSE x]]
<1>1. n \in Nat
  BY LenProperties
<1>2. \A i \in 1..n : text[i].tag \in V
  OBVIOUS
<1>3. None \in V
  OBVIOUS
<1> HIDE DEF n, V
<1>4. G \in [1..n -> [V -> V]]
  BY <1>2, <1>3
<1>5. PICK W : Iterates(W, V, None, n, G)
  <2> HIDE DEF G
  <2>1. QED  BY <1>1, <1>3, <1>4, Iterated
<1>6. \A i \in 0..n : i # 0 => i \in 1..n /\ i - 1 \in 0..n
  BY <1>1
<1>7. \A i \in 0..n : W[i] =
           IF i = 0 THEN None
           ELSE IF W[i - 1] = None
                THEN IF text[i].piece = "open" THEN text[i].tag ELSE None
           ELSE IF text[i] = Close(W[i - 1]) THEN None ELSE W[i - 1]
  BY <1>5, <1>6 DEF Iterates
<1>8. W = [i \in 0..n |-> W[i]]
  BY <1>5 DEF Iterates
<1>9. W = [i \in 0..n |->
           IF i = 0 THEN None
           ELSE IF W[i - 1] = None
                THEN IF text[i].piece = "open" THEN text[i].tag ELSE None
           ELSE IF text[i] = Close(W[i - 1]) THEN None ELSE W[i - 1]]
  BY <1>7, <1>8, Zenon
<1>10. QED  BY <1>9 DEF n

\* P is what stands where no reasoning is read.
IsPlain(P, W, text) ==
  P = [i \in 0..Len(text) |->
         IF i = 0 THEN <<>>
         ELSE IF W[i - 1] = None /\ W[i] = None
              THEN Append(P[i - 1], text[i]) ELSE P[i - 1]]

\* There is such a function.
LEMMA PlainExists ==
  ASSUME NEW X, NEW text \in Seq(X), NEW W
  PROVE  \E P : IsPlain(P, W, text)
<1> DEFINE n == Len(text)
           V == Seq(X)
           G == [i \in 1..n |-> [s \in V |->
                  IF W[i - 1] = None /\ W[i] = None
                  THEN Append(s, text[i]) ELSE s]]
<1>1. n \in Nat /\ \A i \in 1..n : text[i] \in X
  BY LenProperties, ElementOfSeq
<1>2. \A i \in 1..n : \A s \in V : Append(s, text[i]) \in V
  BY <1>1, AppendProperties
<1>3. <<>> \in V
  OBVIOUS
<1> HIDE DEF n, V
<1>4. G \in [1..n -> [V -> V]]
  BY <1>2
<1>5. PICK P : Iterates(P, V, <<>>, n, G)
  <2> HIDE DEF G
  <2>1. QED  BY <1>1, <1>3, <1>4, Iterated
<1>6. \A i \in 0..n : i # 0 => i \in 1..n /\ i - 1 \in 0..n
  BY <1>1
<1>7. \A i \in 0..n : P[i] =
           IF i = 0 THEN <<>>
           ELSE IF W[i - 1] = None /\ W[i] = None
                THEN Append(P[i - 1], text[i]) ELSE P[i - 1]
  BY <1>5, <1>6 DEF Iterates
<1>8. P = [i \in 0..n |-> P[i]]
  BY <1>5 DEF Iterates
<1>9. P = [i \in 0..n |->
           IF i = 0 THEN <<>>
           ELSE IF W[i - 1] = None /\ W[i] = None
                THEN Append(P[i - 1], text[i]) ELSE P[i - 1]]
  BY <1>7, <1>8, Zenon
<1>10. QED  BY <1>9 DEF n, IsPlain

\* Outside is what was read at the end of the text.
LEMMA OutsideReads ==
  ASSUME NEW X, NEW text \in Seq(X)
  PROVE  \E W, P : Reads(W, P, text) /\ Outside(text) = P[Len(text)]
<1> DEFINE isW(W) == W = [i \in 0..Len(text) |->
              IF i = 0 THEN None
              ELSE IF W[i - 1] = None
                   THEN IF text[i].piece = "open" THEN text[i].tag ELSE None
              ELSE IF text[i] = Close(W[i - 1]) THEN None ELSE W[i - 1]]
           within == CHOOSE W : isW(W)
           isP(P) == P = [i \in 0..Len(text) |->
              IF i = 0 THEN <<>>
              ELSE IF within[i - 1] = None /\ within[i] = None
                   THEN Append(P[i - 1], text[i]) ELSE P[i - 1]]
           plain == CHOOSE P : isP(P)
<1>1. Outside(text) = plain[Len(text)]
  BY DEF Outside
<1>2. isW(within)
  <2>1. \E W : isW(W)
    BY ReadExists
  <2> HIDE DEF isW
  <2>2. QED  BY <2>1
<1>3. PICK W : W = within
  OBVIOUS
<1> HIDE DEF within
<1>4. isP(plain)
  <2>1. \E P : isP(P)
    <3>1. PICK P : IsPlain(P, W, text)
      BY PlainExists
    <3>2. isP(P)
      BY <3>1, <1>3 DEF IsPlain
    <3>3. QED  BY <3>2
  <2> HIDE DEF isP
  <2>2. QED  BY <2>1
<1>5. PICK P : P = plain
  OBVIOUS
<1> HIDE DEF plain
<1>6. isW(W) /\ isP(P) /\ Outside(text) = P[Len(text)] /\ W = within
  BY <1>1, <1>2, <1>3, <1>4, <1>5
<1>7. Len(text) \in Nat
  BY LenProperties
<1>8. /\ 0 \in 0..Len(text)
      /\ \A i \in 1..Len(text) : i \in 0..Len(text) /\ i # 0
  BY <1>7
<1>9. \A i \in 0..Len(text) : W[i] =
        IF i = 0 THEN None
        ELSE IF W[i - 1] = None
             THEN IF text[i].piece = "open" THEN text[i].tag ELSE None
        ELSE IF text[i] = Close(W[i - 1]) THEN None ELSE W[i - 1]
  BY <1>6, Zenon
<1>10. \A i \in 0..Len(text) : P[i] =
         IF i = 0 THEN <<>>
         ELSE IF W[i - 1] = None /\ W[i] = None
              THEN Append(P[i - 1], text[i]) ELSE P[i - 1]
  <2>1. P = [i \in 0..Len(text) |->
               IF i = 0 THEN <<>>
               ELSE IF W[i - 1] = None /\ W[i] = None
                    THEN Append(P[i - 1], text[i]) ELSE P[i - 1]]
    BY <1>6
  <2> HIDE DEF isW, isP
  <2>2. QED  BY <2>1, Zenon
<1> HIDE DEF isW, isP
<1>11. W[0] = None /\ P[0] = <<>>
  BY <1>8, <1>9, <1>10
<1>12. Reads(W, P, text)
  BY <1>8, <1>9, <1>10, <1>11, Zenon DEF Reads
<1>13. QED  BY <1>6, <1>12

\* k opens a block that no tag up to i closes.
OpenAt(k, i, W, text) ==
  /\ text[k].piece = "open" /\ text[k].tag = W[i]
  /\ \A j \in (k + 1)..i : ~(text[j].piece = "close"
                             /\ text[j].tag = text[k].tag)

\* s opens no reasoning.
NoOpens(s) == \A j \in DOMAIN s : s[j].piece # "open"

\* Up to i, what is read is what is kept; in an open block what is kept goes
\* on where that began.
Agree(i, W, P, K, text, X) ==
  /\ P[i] \in Seq(X) /\ NoOpens(P[i])
  /\ W[i] = None => K[1] = P[i] \o K[i + 1]
  /\ W[i] # None => \E k \in 1..i : OpenAt(k, i, W, text)
                                    /\ K[1] = P[i] \o K[k]

\* r is p and then k.
Joined(r, p, k) == r = p \o k

\* A piece is moved from the beginning of one part to the end of the other.
LEMMA Moved ==
  ASSUME NEW X, NEW p, NEW x, NEW k, NEW l, NEW r,
         p \in Seq(X), x \in X, k \in Seq(X),
         Joined(r, p, l), Joined(l, <<x>>, k)
  PROVE  Joined(r, Append(p, x), k)
<1>1. Append(p, x) = p \o <<x>> /\ <<x>> \in Seq(X)
  BY AppendIsConcat
<1>2. (p \o <<x>>) \o k = p \o (<<x>> \o k)
  BY <1>1, ConcatAssociative
<1>3. QED  BY <1>1, <1>2 DEF Joined

\* A piece that opens nothing can be added.
LEMMA OneMore ==
  ASSUME NEW X, NEW s \in Seq(X), NoOpens(s), NEW x \in X,
         x.piece # "open"
  PROVE  Append(s, x) \in Seq(X) /\ NoOpens(Append(s, x))
<1>1. PICK t \in Seq(X) : t = Append(s, x)
  BY AppendProperties
<1>2. /\ Len(t) = Len(s) + 1 /\ t[Len(s) + 1] = x /\ Len(s) \in Nat
      /\ \A j \in 1..Len(s) : t[j] = s[j]
      /\ DOMAIN t = 1..Len(t) /\ DOMAIN s = 1..Len(s)
  BY <1>1, AppendProperties, LenProperties
<1>3. \A j \in 1..Len(t) : j \in 1..Len(s) \/ j = Len(s) + 1
  BY <1>2
<1>4. NoOpens(t)
  BY <1>2, <1>3 DEF NoOpens
<1>5. QED  BY <1>1, <1>4

\* The tag that ends the reader's block is the first that closes it.
LEMMA FirstCloser ==
  ASSUME NEW X, NEW text \in Seq(X), NEW k \in 1..Len(text),
         NEW m \in (k + 1)..Len(text), text[m].piece = "close",
         text[m].tag = text[k].tag,
         \A j \in (k + 1)..(m - 1) : ~(text[j].piece = "close"
                                       /\ text[j].tag = text[k].tag)
  PROVE  Closers(text, k) # {} /\ Least(Closers(text, k)) = m
<1>1. Len(text) \in Nat
  BY LenProperties
<1>2. Closers(text, k) \in SUBSET Nat /\ m \in Closers(text, k)
  BY <1>1 DEF Closers
<1>3. \A j \in Closers(text, k) : j \in (k + 1)..Len(text) /\ ~(j < m)
  <2>1. \A j \in (k + 1)..Len(text) : j < m => j \in (k + 1)..(m - 1)
    BY <1>1
  <2>2. QED  BY <2>1 DEF Closers
<1>4. PICK l \in Nat : l = Least(Closers(text, k))
  BY <1>2, LeastIs
<1>5. l \in Closers(text, k) /\ \A y \in Closers(text, k) : l <= y
  BY <1>2, <1>4, LeastIs
<1>6. l <= m /\ ~(l < m)
  BY <1>2, <1>3, <1>5
<1>7. l = m
  BY <1>2, <1>6
<1>8. QED  BY <1>2, <1>4, <1>7

\* A closing tag is that of its kind, an opening one has a kind.
WellTagged(text) ==
  \A i \in 1..Len(text) :
    /\ text[i].piece = "close" => text[i] = Close(text[i].tag)
    /\ text[i].piece = "open" => text[i].tag # None

\* One piece further they still agree.
LEMMA AgreeNext ==
  ASSUME NEW X, NEW text \in Seq(X), NEW W, NEW P, NEW K,
         Keeps(K, text, X), Reads(W, P, text),
         WellTagged(text),
         NEW i \in Nat, NEW m \in 1..Len(text), m = i + 1,
         Agree(i, W, P, K, text, X)
  PROVE  Agree(m, W, P, K, text, X)
<1>1. /\ Len(text) \in Nat /\ text[m] \in X /\ m - 1 = i
      /\ <<text[m]>> \in Seq(X)
  <2>1. Len(text) \in Nat /\ text[m] \in X /\ m - 1 = i
    BY LenProperties, ElementOfSeq
  <2>2. QED  BY <2>1
<1>2. /\ W[m] = IF W[i] = None
                THEN IF text[m].piece = "open" THEN text[m].tag ELSE None
                ELSE IF text[m] = Close(W[i]) THEN None ELSE W[i]
      /\ P[m] = IF W[i] = None /\ W[m] = None
                THEN Append(P[i], text[m]) ELSE P[i]
  BY <1>1 DEF Reads
<1>3. K[m] \in Seq(X) /\ K[m + 1] \in Seq(X)
  <2>1. m \in 1..(Len(text) + 1) /\ m + 1 \in 1..(Len(text) + 1)
    BY <1>1
  <2>2. QED  BY <2>1 DEF Keeps
<1>4. P[i] \in Seq(X) /\ NoOpens(P[i])
  BY DEF Agree
<1>5. CASE W[i] = None /\ text[m].piece = "open"
  <2>1. W[m] = text[m].tag /\ W[m] # None /\ P[m] = P[i]
    BY <1>2, <1>5 DEF WellTagged
  <2>2. OpenAt(m, m, W, text)
    BY <1>5, <2>1 DEF OpenAt
  <2>3. K[1] = P[m] \o K[m]
    BY <1>5, <2>1 DEF Agree
  <2>4. m \in 1..m
    OBVIOUS
  <2>5. QED  BY <1>4, <2>1, <2>2, <2>3, <2>4 DEF Agree
<1>6. CASE W[i] = None /\ text[m].piece # "open"
  <2>1. W[m] = None /\ P[m] = Append(P[i], text[m])
    BY <1>2, <1>6
  <2>2. P[m] \in Seq(X) /\ NoOpens(P[m])
    BY <1>1, <1>4, <1>6, <2>1, OneMore
  <2>3. K[m] = <<text[m]>> \o K[m + 1]
    BY <1>6 DEF Keeps
  <2>4. Joined(K[1], P[i], K[m]) /\ Joined(K[m], <<text[m]>>, K[m + 1])
    BY <1>6, <2>3 DEF Agree, Joined
  <2>5. Joined(K[1], Append(P[i], text[m]), K[m + 1])
    BY <1>1, <1>3, <1>4, <2>4, Moved, Zenon
  <2>7. K[1] = P[m] \o K[m + 1]
    BY <2>1, <2>5 DEF Joined
  <2>8. QED  BY <2>1, <2>2, <2>7 DEF Agree
<1>7. CASE W[i] # None
  <2>1. PICK k \in 1..i : OpenAt(k, i, W, text) /\ K[1] = P[i] \o K[k]
    BY <1>7 DEF Agree
  <2>2. P[m] = P[i] /\ k \in 1..Len(text) /\ m \in (k + 1)..Len(text)
        /\ k \in 1..m /\ m \in 1..m
    BY <1>1, <1>2, <1>7
  <2>3. CASE text[m] = Close(W[i])
    <3>1. W[m] = None
      BY <1>2, <1>7, <2>3
    <3>2. text[m].piece = "close" /\ text[m].tag = text[k].tag
      BY <2>1, <2>3 DEF Close, OpenAt
    <3>3. Closers(text, k) # {} /\ Least(Closers(text, k)) = m
      BY <1>1, <2>1, <2>2, <3>2, FirstCloser DEF OpenAt
    <3>4. K[k] = K[m + 1]
      BY <2>1, <2>2, <3>3 DEF Keeps, OpenAt
    <3>5. QED  BY <1>4, <2>1, <2>2, <3>1, <3>4 DEF Agree
  <2>4. CASE text[m] # Close(W[i])
    <3>1. W[m] = W[i]
      BY <1>2, <1>7, <2>4
    <3>2. ~(text[m].piece = "close" /\ text[m].tag = text[k].tag)
      BY <2>1, <2>4 DEF OpenAt, WellTagged
    <3>3. \A j \in (k + 1)..m : j \in (k + 1)..i \/ j = m
      BY <2>2
    <3>4. OpenAt(k, m, W, text)
      BY <2>1, <3>1, <3>2, <3>3 DEF OpenAt
    <3>5. QED  BY <1>4, <1>7, <2>1, <2>2, <3>1, <3>4 DEF Agree
  <2>5. QED  BY <2>3, <2>4
<1>8. QED  BY <1>5, <1>6, <1>7

\* Without an opening tag nothing more is cut off, with one everything from
\* the first on.
CutAtOpen(rest) ==
  LET opens == {i \in DOMAIN rest : rest[i].piece = "open"}
  IN IF opens = {} THEN rest ELSE SubSeq(rest, 1, Least(opens) - 1)

\* What precedes the first opening tag is left.
LEMMA CutOff ==
  ASSUME NEW X, NEW s \in Seq(X), NoOpens(s), NEW x \in X, x.piece = "open",
         NEW t \in Seq(X)
  PROVE  CutAtOpen(s \o (<<x>> \o t)) = s
<1>0. PICK rest : rest = s \o (<<x>> \o t)
  OBVIOUS
<1> DEFINE opens == {i \in DOMAIN rest : rest[i].piece = "open"}
           n == Len(s)
<1>1. PICK u \in Seq(X) : u = <<x>> \o t
  <2>1. <<x>> \in Seq(X)
    OBVIOUS
  <2>2. QED  BY <2>1, ConcatProperties
<1>2. Len(u) \in Nat \ {0} /\ u[1] = x
  <2>1. <<x>> \in Seq(X) /\ Len(<<x>>) = 1 /\ <<x>>[1] = x /\ Len(t) \in Nat
    BY LenProperties
  <2>2. /\ Len(u) = Len(<<x>>) + Len(t)
        /\ \A i \in 1..(Len(<<x>>) + Len(t)) :
             u[i] = IF i <= Len(<<x>>) THEN <<x>>[i] ELSE t[i - Len(<<x>>)]
    BY <1>1, <2>1, ConcatProperties
  <2>3. QED  BY <2>1, <2>2
<1>3. /\ rest \in Seq(X) /\ Len(rest) = n + Len(u)
      /\ \A i \in 1..(n + Len(u)) :
           rest[i] = IF i <= n THEN s[i] ELSE u[i - n]
  BY <1>0, <1>1, ConcatProperties
<1>4. n \in Nat /\ DOMAIN s = 1..n /\ DOMAIN rest = 1..Len(rest)
  BY <1>3, LenProperties
<1>5. n + 1 \in opens
  <2>1. n + 1 \in 1..(n + Len(u)) /\ ~(n + 1 <= n) /\ n + 1 - n = 1
    BY <1>2, <1>4
  <2>2. rest[n + 1] = x
    BY <1>2, <1>3, <2>1
  <2>3. QED  BY <1>3, <1>4, <2>1, <2>2
<1>6. \A i \in opens : i \in Nat /\ n + 1 <= i
  <2> SUFFICES ASSUME NEW i \in opens, ~(n + 1 <= i) PROVE FALSE
    BY <1>2, <1>3, <1>4
  <2>1. i \in 1..(n + Len(u)) /\ rest[i].piece = "open"
    BY <1>3, <1>4
  <2>2. i <= n /\ i \in 1..n
    BY <1>4, <2>1
  <2>3. rest[i] = s[i]
    BY <1>3, <2>1, <2>2
  <2>4. QED  BY <1>4, <2>1, <2>2, <2>3 DEF NoOpens
<1>7. PICK l \in Nat : l = Least(opens)
  <2>1. opens \in SUBSET Nat
    BY <1>6
  <2> HIDE DEF opens
  <2>2. QED  BY <1>5, <2>1, LeastIs
<1>8. l \in opens /\ l <= n + 1
  <2>1. opens \in SUBSET Nat
    BY <1>6
  <2> HIDE DEF opens
  <2>2. QED  BY <1>5, <1>7, <2>1, LeastIs
<1>9. l - 1 = n
  <2>1. n + 1 <= l
    BY <1>6, <1>8
  <2> HIDE DEF opens, n
  <2>2. QED  BY <1>4, <1>8, <2>1
<1>10. SubSeq(rest, 1, n) = s
  <2>1. \A i \in 1..n : rest[i] = s[i] /\ rest[i] \in X
    <3>1. \A i \in 1..n : i \in 1..(n + Len(u)) /\ i <= n
      BY <1>2, <1>4
    <3>2. \A i \in 1..n : s[i] \in X
      BY ElementOfSeq
    <3>3. QED  BY <1>3, <3>1, <3>2
  <2>2. PICK v : v = SubSeq(rest, 1, n)
    OBVIOUS
  <2>3. /\ v \in Seq(X) /\ Len(v) = IF 1 <= n THEN n - 1 + 1 ELSE 0
        /\ \A i \in 1..(n - 1 + 1) : v[i] = rest[1 + i - 1]
    BY <1>4, <2>1, <2>2, SubSeqProperties
  <2>4. Len(v) = n /\ \A i \in 1..n : v[i] = s[i]
    BY <1>4, <2>1, <2>3
  <2>5. QED  BY <2>2, <2>3, <2>4, SeqEqual
<1>11. QED  BY <1>0, <1>5, <1>7, <1>9, <1>10 DEF CutAtOpen

\* strip_reasoning_markup leaves what a reader finds outside of reasoning.
LEMMA StrippedIsOutside ==
  ASSUME NEW text \in Replies
  PROVE  Stripped(text) = Outside(text) /\ \E X : Outside(text) \in Seq(X)
<1> DEFINE n == Len(text)
<1>1. PICK X : text \in Seq(X)
  BY PiecesAssumption
<1>2. n \in Nat /\ DOMAIN text = 1..n
  BY <1>1, LenProperties
<1>w. WellTagged(text)
  BY <1>2, PiecesAssumption DEF WellTagged
<1>3. PICK K : Keeps(K, text, X) /\ Unclosed(text) = K[1]
  BY <1>1, UnclosedKeeps
<1>4. PICK W, P : Reads(W, P, text) /\ Outside(text) = P[n]
  BY <1>1, OutsideReads
<1> DEFINE T == {i \in Nat : i <= n => Agree(i, W, P, K, text, X)}
<1>5. 0 \in T
  <2>1. P[0] = <<>> /\ W[0] = None /\ 1 \in 1..(n + 1)
    BY <1>2, <1>4 DEF Reads
  <2>2. K[1] \in Seq(X) /\ <<>> \in Seq(X)
    BY <1>3, <2>1 DEF Keeps
  <2>3. K[1] = P[0] \o K[1]
    BY <2>1, <2>2, ConcatEmptySeq
  <2>4. NoOpens(<<>>)
    BY DEF NoOpens
  <2>5. Agree(0, W, P, K, text, X)
    <3>1. 0 + 1 = 1
      OBVIOUS
    <3>2. P[0] \in Seq(X) /\ NoOpens(P[0]) /\ K[1] = P[0] \o K[0 + 1]
      BY <2>1, <2>2, <2>3, <2>4, <3>1
    <3> HIDE DEF T
    <3>3. QED  BY <2>1, <3>2, Zenon DEF Agree
  <2>6. QED  BY <2>5
<1>6. ASSUME NEW i \in T PROVE i + 1 \in T
  <2> SUFFICES ASSUME i + 1 <= n PROVE Agree(i + 1, W, P, K, text, X)
    OBVIOUS
  <2>1. i \in Nat /\ i <= n /\ i + 1 \in 1..n
    BY <1>2
  <2>2. Agree(i, W, P, K, text, X)
    BY <2>1
  <2>3. PICK m \in 1..n : m = i + 1
    BY <2>1
  <2>4. Agree(m, W, P, K, text, X)
    BY <1>1, <1>3, <1>4, <1>w, <2>1, <2>2, <2>3, AgreeNext
  <2>5. QED  BY <2>3, <2>4
<1> HIDE DEF T
<1>7. T = Nat
  BY <1>5, <1>6, Numbers DEF T
<1>8. Agree(n, W, P, K, text, X)
  BY <1>2, <1>7 DEF T
<1>9. P[n] \in Seq(X) /\ NoOpens(P[n])
  BY <1>8 DEF Agree
<1>10. ASSUME W[n] = None PROVE Stripped(text) = Outside(text)
  <2>1. K[1] = P[n]
    <3>1. K[1] = P[n] \o K[n + 1] /\ K[n + 1] = <<>>
      BY <1>3, <1>8, <1>10 DEF Agree, Keeps
    <3>2. QED  BY <1>9, <3>1, ConcatEmptySeq
  <2>2. {i \in DOMAIN P[n] : P[n][i].piece = "open"} = {}
    BY <1>9 DEF NoOpens
  <2>3. QED  BY <1>3, <1>4, <2>1, <2>2 DEF Stripped
<1>11. ASSUME W[n] # None PROVE Stripped(text) = Outside(text)
  <2>1. PICK k \in 1..n : OpenAt(k, n, W, text) /\ K[1] = P[n] \o K[k]
    BY <1>8, <1>11 DEF Agree
  <2>2. Closers(text, k) = {}
    BY <2>1 DEF Closers, OpenAt
  <2>3. K[k] = <<text[k]>> \o K[k + 1]
    BY <1>3, <2>2 DEF Keeps
  <2>4. text[k] \in X /\ text[k].piece = "open" /\ K[k + 1] \in Seq(X)
    <3>1. k + 1 \in 1..(n + 1)
      BY <1>2
    <3>2. text[k] \in X
      BY <1>1, ElementOfSeq
    <3>3. QED  BY <1>3, <2>1, <3>1, <3>2 DEF Keeps, OpenAt
  <2>5. PICK rest : rest = K[1]
    OBVIOUS
  <2>6. rest = P[n] \o (<<text[k]>> \o K[k + 1])
    BY <2>1, <2>3, <2>5
  <2>7. CutAtOpen(rest) = P[n]
    <3>1. PICK s \in Seq(X), x \in X, t \in Seq(X) :
            s = P[n] /\ x = text[k] /\ t = K[k + 1]
      BY <1>9, <2>4
    <3>2. NoOpens(s) /\ x.piece = "open" /\ rest = s \o (<<x>> \o t)
      BY <1>9, <2>4, <2>6, <3>1
    <3> HIDE DEF n
    <3>3. CutAtOpen(s \o (<<x>> \o t)) = s
      BY <3>2, CutOff
    <3>4. QED  BY <3>1, <3>2, <3>3
  <2>8. QED  BY <1>3, <1>4, <2>5, <2>7 DEF Stripped, CutAtOpen
<1>12. Outside(text) \in Seq(X)
  BY <1>4, <1>9
<1>13. QED  BY <1>10, <1>11, <1>12

\* What a reply is decoded to is the value of a piece outside of reasoning.
LEMMA ActedOutside ==
  ASSUME NEW r \in Replies
  PROVE  /\ Parse(r).action # "error" =>
              \E i \in DOMAIN Outside(r) : Payload(Outside(r)[i]) = Parse(r)
         /\ ParseNative(r, <<>>).action = "answer" => Outside(r) # <<>>
<1>1. PICK X, content :
        content = Stripped(r) /\ content = Outside(r) /\ content \in Seq(X)
  BY StrippedIsOutside
<1> DEFINE objects == {i \in DOMAIN content : Payload(content[i]) # None}
           acting  == {i \in objects : Payload(content[i]).action # None}
           found   == IF acting # {} THEN acting ELSE objects
<1>2. Parse(r).action # "error" => \E i \in DOMAIN content :
                                     Payload(content[i]) = Parse(r)
  <2> SUFFICES ASSUME Parse(r).action # "error"
               PROVE  \E i \in DOMAIN content : Payload(content[i]) = Parse(r)
    OBVIOUS
  <2>1. /\ Extracted(content) # None
        /\ Parse(r) = Validated(Extracted(content))
    BY <1>1 DEF Parse, ParseError
  <2>2. Parse(r) = Extracted(content)
    <3>1. PICK o : o = Extracted(content)
      OBVIOUS
    <3>2. Validated(o).action # "error"
      BY <2>1, <3>1
    <3>3. None # "answer" /\ None # "tool"
      BY NoneAssumption
    <3>4. Validated(o) = o
      <4>1. CASE o.action = "answer"
        BY <3>2, <3>3, <4>1 DEF Validated, ParseError
      <4>2. CASE o.action = "tool"
        BY <3>2, <3>3, <4>2 DEF Validated, ParseError
      <4>3. CASE o.action \notin {"answer", "tool"}
        BY <3>2, <4>3 DEF Validated, ParseError
      <4>4. QED  BY <4>1, <4>2, <4>3
    <3>5. QED  BY <2>1, <3>1, <3>4
  <2>3. objects # {} /\ Extracted(content) = Payload(content[Least(found)])
    BY <2>1 DEF Extracted
  <2>4. found \in SUBSET DOMAIN content /\ found # {}
    BY <2>3
  <2>5. DOMAIN content \subseteq Nat
    BY <1>1, LenProperties
  <2> HIDE DEF found
  <2>6. Least(found) \in DOMAIN content
    BY <2>4, <2>5, LeastIs
  <2>7. QED  BY <2>2, <2>3, <2>6
<1>3. ParseNative(r, <<>>).action = "answer" => content # <<>>
  <2>1. ASSUME content = <<>> PROVE ParseNative(r, <<>>).action = "error"
    BY <1>1, <2>1 DEF ParseNative, ParseError
  <2>2. QED  BY <2>1
<1> HIDE DEF objects, acting, found
<1>4. QED  BY <1>1, <1>2, <1>3

\* The action in hand is what the reply was decoded to.
Decoded == reply # None => \E r \in Replies : reply = r /\ action = Parse(r)

\* How the session was set up, on which the tools registered depend, does not
\* change.
LEMMA SetupStays == [Next]_vars => setup' = setup
<1> SUFFICES ASSUME [Next]_vars PROVE setup' = setup
  OBVIOUS
<1>1. CASE Act
  BY <1>1 DEF Act, Invoke
<1>2. CASE \E c \in DOMAIN calls : Thread(c)
  BY <1>2
  DEF Thread, ThreadStep, ThreadMay, RegistryTimeout, Gate, Network, Launch,
      CommandEnds, Terminate, Work, Land, StrayEnds, Answer
<1>3. UNCHANGED setup \/ Act \/ \E c \in DOMAIN calls : Thread(c)
  BY DEF Next, Person, Turn, Type, Leave, Cancel, Hurry, Edit, Begin, Resume,
         Step, Fail, Respond, Correct, Conclude, Refuse, GiveUp, Checkpoint,
         Finished, EndTurn, Exit, toolVars, vars
<1>4. QED  BY <1>1, <1>2, <1>3

\* So a reply is decoded the same way all the time.
LEMMA DecodingStays ==
  ASSUME setup' = setup, NEW r
  PROVE  Parse(r)' = Parse(r)
<1>1. \A o : Validated(o)' = Validated(o)
  BY DEF Validated, Registered
<1>2. QED  BY <1>1 DEF Parse

\* No step but the model's answer puts another in its place.
LEMMA DecodedStep == Decoded /\ [Next]_vars => Decoded'
<1> SUFFICES ASSUME Decoded, [Next]_vars PROVE Decoded'
  OBVIOUS
<1>0. \A r : Parse(r)' = Parse(r)
  BY SetupStays, DecodingStays
<1>1. CASE Respond
  BY <1>0, <1>1 DEF Respond, Decoded
<1>2. CASE UNCHANGED <<reply, action>> \/ reply' = None
  BY <1>0, <1>2 DEF Decoded
<1>3. Respond \/ UNCHANGED <<reply, action>> \/ reply' = None
  BY DEF Next, Person, Turn, Type, Leave, Cancel, Hurry, Edit, Begin, Resume,
         Step, Fail, Correct, Conclude, Refuse, GiveUp, Act, Checkpoint, Finished,
         EndTurn, Exit, Thread, sessionVars, vars
<1>4. QED  BY <1>1, <1>2, <1>3

\* Nothing the model wrote in reasoning is acted on or shown: for every nesting
\* of blocks, closed or not, what strip_reasoning_markup leaves is what a
\* reader finds outside of them, and the action is the value of a piece of it.
THEOREM ReasoningIsNotActed == Spec => []ReasoningNotActed
<1>1. Init => Decoded
  BY DEF Init, Decoded
<1>2. Decoded => ReasoningNotActed
  BY StrippedIsOutside, ActedOutside DEF Decoded, ReasoningNotActed
<1>3. QED  BY <1>1, <1>2, DecodedStep, PTL DEF Spec
=============================================================================
