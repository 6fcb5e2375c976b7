------------------------------ MODULE Protocol ------------------------------
(***************************************************************************)
(* The action protocol (harness/protocol/): from what the model wrote to   *)
(* the action the loop performs, for the constrained JSON codec and for    *)
(* native tool calls.                                                      *)
(*                                                                         *)
(* A response is a sequence of pieces: reasoning tags, prose, JSON values. *)
(* A tag is a record [tag, open], a JSON value [json, of]: an object with  *)
(* the fields of an action, an array of them, or text that does not parse. *)
(*                                                                         *)
(* Abstracted: characters (bracket matching, repairs of quotes and commas: *)
(* a value that can be repaired is one that parses), the wording of the    *)
(* reasons, the JSON Schema sent to the server for sampling.               *)
(***************************************************************************)
EXTENDS Naturals, Sequences

CONSTANTS
  ToolNames,   \* names of the registered tools
  Absent       \* a field that is missing

Prose == [piece |-> "prose"]
Open(tag)    == [piece |-> "open", tag |-> tag]
Close(tag)   == [piece |-> "close", tag |-> tag]
Object(o)    == [piece |-> "object", fields |-> o]
Array(os)    == [piece |-> "array", items |-> os]
Broken       == [piece |-> "broken"]

ParseError(why) == [action |-> "error", why |-> why]

\* Defect: any closing tag ends a block, whichever tag opened it.
AnyClose(text, i) == {j \in (i + 1)..Len(text) : text[j].piece = "close"}

\* _CLOSED_THINK: the tags that can close the block opened at i.
Closers(text, i) ==
  {j \in (i + 1)..Len(text) : text[j].piece = "close"
                              /\ text[j].tag = text[i].tag}

Least(S) == CHOOSE x \in S : \A y \in S : x <= y

\* The text without its closed blocks, from position i on: each ends at the
\* first closing tag of its own kind.
Unclosed(text) ==
  LET keep[i \in 1..(Len(text) + 1)] ==
        IF i > Len(text) THEN <<>>
        ELSE IF text[i].piece = "open" /\ Closers(text, i) # {}
             THEN keep[Least(Closers(text, i)) + 1]
             ELSE <<text[i]>> \o keep[i + 1]
  IN keep[1]

\* strip_reasoning_markup: after that, an opening tag that is left starts
\* reasoning the generation did not finish.
Stripped(text) ==
  LET rest == Unclosed(text)
      opens == {i \in DOMAIN rest : rest[i].piece = "open"}
  IN IF opens = {} THEN rest ELSE SubSeq(rest, 1, Least(opens) - 1)

\* The value of a candidate span; an array of one object stands for it.
Payload(piece) ==
  IF piece.piece = "object" THEN piece.fields
  ELSE IF piece.piece = "array" /\ Len(piece.items) = 1 THEN piece.items[1]
  ELSE Absent

\* _extract_payload: the first object with an "action", or else the first.
Extracted(text) ==
  LET objects == {i \in DOMAIN text : Payload(text[i]) # Absent}
      acting  == {i \in objects : Payload(text[i]).action # Absent}
  IN IF objects = {} THEN Absent
     ELSE Payload(text[Least(IF acting # {} THEN acting ELSE objects)])

\* ActionValidator: the fields of an object as a ToolAction, an AnswerAction
\* or the reason it is neither.  "arguments" may be missing, or an object in
\* a string; anything else is refused.
Validated(o) ==
  CASE o.action = Absent -> ParseError("no action field")
    [] o.action = "answer" ->
         IF o.content = Absent THEN ParseError("no content") ELSE o
    [] o.action = "tool" ->
         IF o.tool = Absent THEN ParseError("no tool field")
         ELSE IF o.tool \notin ToolNames THEN ParseError("unknown tool")
         ELSE IF o.arguments = "malformed" THEN ParseError("arguments") ELSE o
    [] OTHER -> ParseError("unknown action")

\* ConstrainedJsonCodec.parse
Parse(text) ==
  LET content == Stripped(text)
      payload == Extracted(content)
  IN IF content = <<>> THEN ParseError("empty")
     ELSE IF payload = Absent THEN ParseError("no object")
     ELSE Validated(payload)

\* NativeToolCallCodec.parse: the first structured call, whatever the text;
\* without one, any text at all is the answer.
ParseNative(text, tool_calls) ==
  IF tool_calls # <<>>
  THEN IF tool_calls[1].tool = Absent THEN ParseError("empty tool name")
       ELSE tool_calls[1]
  ELSE IF Stripped(text) # <<>>
       THEN [action |-> "answer", content |-> Stripped(text)]
  ELSE ParseError("empty")
=============================================================================
