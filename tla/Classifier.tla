----------------------------- MODULE Classifier -----------------------------
(***************************************************************************)
(* The command classifier (harness/security/classifier.py, shellsplit.py): *)
(* the risk class of a command line.  Pure operators, no state.            *)
(*                                                                         *)
(* A line is the sequence of its parts that are not blank, in the order    *)
(* split_segments finds them: the segments between separators, then the    *)
(* bodies of their substitutions, each with the depth it was found at.  A  *)
(* part is a sequence of words, and a word is what the classifier takes it *)
(* for.                                                                    *)
(*                                                                         *)
(* Abstracted: quoting and where segments begin, the tables of command     *)
(* names, the resolution of paths (a word is outside the workspace or it   *)
(* is not), the reason that comes with a verdict.                          *)
(***************************************************************************)
EXTENDS Naturals, Sequences

CONSTANT MaxDepth   \* substitutions nested deeper are not read

ASSUME DepthAssumption == MaxDepth \in Nat

\* Words that may stand before a command: assignments, wrappers, options and
\* numbers.  `privilege' is sudo or doas.
Wrapping   == {"wrapper", "privilege"}
PrefixLike == Wrapping \union {"assign", "option", "number"}

\* `read': a command the tables list as read-only, used without the flags
\* that make it write; `namesake': a program named by a path that ends like
\* one of these, say ./cat, of which only the last part is looked up;
\* `denied': one that a deny rule is about; `other': any other command or
\* operand.  `outside': an operand outside the workspace.  `file' and
\* `device': where output is redirected to, if that matters and the
\* redirection begins a word; `glued': an operand with a redirection within
\* it, say hi>main.py, which _REDIRECT_RE does not match.  (Of one within a
\* word of another class the classifier sees as little.)
Words == PrefixLike \union {"read", "namesake", "denied", "other", "outside",
                            "file", "device", "glued"}

\* _ALLOW_PREFIXES, by the basename.
ListedNames == {"read", "namesake"}

\* unquoted: the part could be tokenised.
Part == [depth : Nat, unquoted : BOOLEAN, words : Seq(Words)]

\* text: what the classifier tells from the line before it splits it.
Line == [text : {"blank", "denied", "plain"}, parts : Seq(Part)]

Risks == {"allow", "confirm", "deny"}

Worst(risks) == IF "deny" \in risks THEN "deny"
                ELSE IF "confirm" \in risks THEN "confirm" ELSE "allow"

Has(words, classes) == \E i \in DOMAIN words : words[i] \in classes

\* Where a command could begin: an option may or may not take the next word.
CommandStarts(words) ==
  LET start[i \in DOMAIN words] ==
        \/ i = 1
        \/ i > 1 /\ words[i - 1] \in PrefixLike /\ start[i - 1]
        \/ i > 2 /\ words[i - 2] = "option" /\ start[i - 2]
  IN {i \in DOMAIN words : start[i]}

\* _head: the words before the command, assignments and wrappers, the latter
\* with their options and numbers.
Prefixes(words) ==
  {i \in DOMAIN words :
     \A j \in 1..i : /\ words[j] \in PrefixLike
                     /\ words[j] \in {"option", "number"}
                          => \E k \in 1..(j - 1) : words[k] \in Wrapping}

\* _confirm_or_allow, on what is left.
ConfirmOrAllow(words) ==
  IF \E i \in DOMAIN words : words[i] \in ListedNames
                              /\ 1..(i - 1) = Prefixes(words)
  THEN "allow" ELSE "confirm"

\* What adds to the verdict on the command itself: operands outside the
\* workspace, only looked at when it is allowed; privilege; a redirection.
Modified(verdict, words) ==
  IF verdict = "allow" /\ \E i \in DOMAIN words \ {1} : words[i] = "outside"
  THEN "deny"
  ELSE IF \/ \E i \in Prefixes(words) : words[i] = "privilege"
          \/ Has(words, {"file"})
  THEN "confirm" ELSE verdict

\* _classify_segment
PartRisk(part) ==
  IF ~part.unquoted THEN "confirm"
  ELSE IF \/ \E i \in CommandStarts(part.words) : part.words[i] = "denied"
          \/ Has(part.words, {"device"})
  THEN "deny"
  ELSE Modified(ConfirmOrAllow(part.words), part.words)

\* split_segments reads down to a depth; what is deeper leaves a mark.
Read(parts)    == {i \in DOMAIN parts : parts[i].depth <= MaxDepth}
TooDeep(parts) == Read(parts) # DOMAIN parts

\* Defect: what was not read is left out of the verdict.
ClassifyWhatWasRead(line) ==
  IF line.text = "denied" THEN "deny"
  ELSE IF Read(line.parts) = {} THEN "confirm"
  ELSE Worst({PartRisk(line.parts[i]) : i \in Read(line.parts)})

\* classify_command: the worst of the parts, unless some were not read.
Classify(line) ==
  IF line.text = "denied" THEN "deny"
  ELSE IF line.text = "blank" \/ line.parts = <<>> \/ TooDeep(line.parts)
  THEN "confirm"
  ELSE Worst({PartRisk(line.parts[i]) : i \in DOMAIN line.parts})

-----------------------------------------------------------------------------
\* A part that is what the tables list: a command by the name of a read-only
\* one, behind nothing that raises its privilege, with no operand outside and
\* no redirection to a file that begins a word.
OnlyListed(part) ==
  /\ part.unquoted
  /\ \E i \in DOMAIN part.words :
       /\ part.words[i] \in ListedNames
       /\ \A j \in 1..(i - 1) : part.words[j] \in PrefixLike \ {"privilege"}
       /\ \A j \in i..Len(part.words) : part.words[j] \notin
                                         {"outside", "file", "device"}
=============================================================================
