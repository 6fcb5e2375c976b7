----------------------------- MODULE MCSession -----------------------------
(***************************************************************************)
(* ChatSession for TLC: a test command, a command that edits, a file tool  *)
(* and the retrieval tool; a model that writes each action plainly and     *)
(* with the formatting slips the codec is there for.                       *)
(***************************************************************************)
EXTENDS ChatSession

CONSTANTS run_tests, write_note, look_up, main_py, database

MCKeys     == {run_tests, write_note, look_up}
MCToolOf   == [k \in MCKeys |-> CASE k = run_tests  -> "run_command"
                                  [] k = write_note -> "write_file"
                                  [] k = look_up    -> "retrieve_facts"]
MCWritesTo == [k \in MCKeys |-> IF k = look_up THEN None ELSE main_py]
MCKind     == [k \in MCKeys |-> IF k = run_tests THEN "test" ELSE None]

MCSetup(confirm, network, sandbox, read_only, line, long) ==
  [command |-> IF confirm = "person" THEN "chat" ELSE "run",
   confirm |-> confirm, network |-> network, sandbox |-> sandbox,
   read_only |-> read_only, line |-> line, long |-> long]

At(depth, words) == [depth |-> depth, unquoted |-> TRUE, words |-> words]
Plain(parts)     == [text |-> "plain", parts |-> parts]

Reads      == Plain(<<At(0, <<"assign", "wrapper", "option", "read">>),
                      At(1, <<"namesake", "glued">>)>>)
TooNested  == Plain(<<At(0, <<"read">>), At(1, <<"read">>),
                      At(2, <<"other">>)>>)
Redirects  == Plain(<<At(0, <<"read", "file">>)>>)
Privileged == Plain(<<At(0, <<"privilege", "option", "number", "read">>)>>)
Leaves     == Plain(<<At(0, <<"read">>), At(0, <<"read", "outside">>)>>)
Unquoted   == Plain(<<[At(0, <<>>) EXCEPT !.unquoted = FALSE]>>)

\* The verdict on a part, compared with what the part is, for all parts of up
\* to four words: what is allowed is listed, and what would run a denied
\* command is denied.
ASSUME PartRiskReference ==
  \A n \in 0..4 : \A words \in [1..n -> Words] :
    /\ PartRisk(At(0, words)) = "allow" => OnlyListed(At(0, words))
    /\ \A i \in 1..n :
         /\ words[i] = "denied"
         /\ \A j \in 1..(i - 1) : words[j] \in PrefixLike
         => PartRisk(At(0, words)) = "deny"

MCSetups == {MCSetup("person", "allowed", TRUE, FALSE, Redirects, FALSE),
             MCSetup("person", "isolated", FALSE, FALSE, Reads, TRUE),
             MCSetup("standing", "isolated", FALSE, FALSE, Unquoted, FALSE),
             MCSetup("person", "isolated", TRUE, TRUE, Reads, FALSE),
             MCSetup("none", "allowed", FALSE, FALSE, Reads, FALSE),
             MCSetup("none", "isolated", TRUE, FALSE, TooNested, FALSE),
             MCSetup("standing", "allowed", TRUE, FALSE, Leaves, FALSE),
             MCSetup("standing", "allowed", TRUE, FALSE, Privileged, TRUE)}

Fields(act, content, tool, arguments) ==
  Object([action |-> act, content |-> content, tool |-> tool,
          arguments |-> arguments])

Asking(k) == Fields("tool", None, MCToolOf[k], k)
Saying(claims, evidence) ==
  Fields("answer", [claims |-> claims, evidence |-> evidence], None, None)

Nothing  == Saying({}, <<>>)
Tests    == Saying({"test"}, <<[kind |-> "file", path |-> None],
                               [kind |-> "test", step |-> 1]>>)
Written  == Saying({"file"}, <<[kind |-> "file", path |-> None],
                               [kind |-> "file", path |-> main_py]>>)

Recorded == Saying({"test", "file"}, <<[kind |-> "test", step |-> 2],
                                       [kind |-> "file", path |-> database]>>)

MCReplies ==
  {<<Asking(k)>> : k \in MCKeys} \union
  {<<Tests>>, <<Written>>, <<Recorded>>,
   <<Prose, Array(<<Nothing.fields>>)>>,
   <<Open("think"), Asking(write_note), Close("reasoning"), Asking(run_tests),
     Close("think"), Fields(None, None, None, None), Nothing>>,
   <<Open("think"), Asking(write_note)>>,
   <<Prose, Broken, Array(<<Nothing.fields, Nothing.fields>>)>>,
   <<Fields("tool", None, "rm", None)>>}
=============================================================================
