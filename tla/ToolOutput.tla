----------------------------- MODULE ToolOutput -----------------------------
(***************************************************************************)
(* The view of a tool's output that enters the context                     *)
(* (harness/tools/compression.py).  Pure operators, no state.              *)
(*                                                                         *)
(* A text is a sequence of lines.  What a line says is abstracted to its   *)
(* size in bytes and the pattern it matches; `hides' is 0 for a line of    *)
(* the output and, for an elision marker, the number of lines it stands    *)
(* for.  A text that was cut inside a line is one line of class "cut".     *)
(***************************************************************************)
EXTENDS Naturals, Sequences, SequencesExt, FiniteSetsExt

CONSTANTS
  MaxLines, MaxBytes,        \* limits of a view
  StderrLines, StderrBytes,  \* limits of its stderr part
  LeastStdout,               \* stdout has these bytes whatever the rest takes
  LineBytes                  \* a longer line is clipped

ASSUME ViewLimits == /\ {MaxLines, StderrLines, LineBytes} \subseteq Nat
                     /\ {MaxBytes, StderrBytes, LeastStdout}
                          \subseteq Nat \ {0}

Line(bytes, class) == [size |-> bytes, class |-> class, hides |-> 0]
Elision(n)         == [size |-> 25, class |-> "plain", hides |-> n]

Classes == {"plain", "error", "path", "banner", "keep", "cut"}
Texts   == Seq([size : Nat, class : Classes, hides : Nat])

\* Bytes of a text, newlines included.
TextBytes[text \in Texts] ==
  IF text = <<>> THEN 0 ELSE Head(text).size + 1 + TextBytes[Tail(text)]

Clipped(line) == IF line.size <= LineBytes
                 THEN line
                 ELSE [line EXCEPT !.size = LineBytes + 20]

Indexes(text, Test(_)) == SelectSeq([i \in DOMAIN text |-> i], Test)

Positions(text, classes) == Indexes(text, LAMBDA i : text[i].class \in classes)

\* The elements of s at the given positions; each at its first occurrence.
At(s, positions) == [k \in DOMAIN positions |-> s[positions[k]]]
FirstOf(s) ==
  At(s, Indexes(s, LAMBDA i : \A j \in 1..(i - 1) : s[j] # s[i]))

\* A pytest run from its first failure banner on.
FromBanner(text, banner) ==
  Indexes(text, LAMBDA i : banner # 0 /\ i >= banner)

\* What this kind of output must not lose, most important first.
KindKeepers(text, kind) ==
  CASE kind = "pytest" ->
         Reverse(FromBanner(text, SelectInSeq(text, LAMBDA line :
                                                line.class = "banner")))
           \o Reverse(Positions(text, {"keep"}))
    [] kind \in {"diff", "grep"} -> Positions(text, {"keep"})
    [] OTHER -> <<>>

Portion(lines, parts) == IF lines < 2 * parts THEN 1 ELSE lines \div parts

Upto(s, n) == SubSeq(s, 1, IF Len(s) < n THEN Len(s) ELSE n)

\* The lines to keep, in descending priority: the last lines, what the kind
\* keeps, the first lines, errors and paths from the bottom up.
Selected(text, maxLines, kind) ==
  Upto(FirstOf(Indexes(text, LAMBDA i : i + Portion(maxLines, 2) > Len(text))
                 \o KindKeepers(text, kind)
                 \o Indexes(text, LAMBDA i : i <= Portion(maxLines, 3))
                 \o Reverse(Positions(text, {"error"}))
                 \o Reverse(Positions(text, {"path"}))),
       maxLines)

\* The lines left out that end at i, for a gap that does.
Gap(kept, i) == Cardinality({j \in 1..i : (j..i) \intersect kept = {}})

\* Defect: nothing tells of the lines dropped after the last one kept.
RenderedUpToLast(text, kept) ==
  FlattenSeq([i \in DOMAIN text |->
    CASE i \in kept -> <<Clipped(text[i])>>
      [] i \notin kept /\ i + 1 \in kept -> <<Elision(Gap(kept, i))>>
      [] OTHER -> <<>>])

\* The kept lines in their order, every gap replaced by a marker.
Rendered(text, kept) ==
  FlattenSeq([i \in DOMAIN text |->
    CASE i \in kept -> <<Clipped(text[i])>>
      [] i \notin kept /\ (i + 1 \in kept \/ i = Len(text))
           -> <<Elision(Gap(kept, i))>>
      [] OTHER -> <<>>])

Request == [text : Texts, lines : Nat, bytes : Nat,
            kind : {"generic", "pytest", "diff", "grep"}]

View(text, order, n) == Rendered(text, ToSet(SubSeq(order, 1, n)))

\* The lowest priorities are dropped until the view fits.
Fitting(text, order, bytes) ==
  Max({1} \union {n \in DOMAIN order :
                    TextBytes[View(text, order, n)] <= bytes})

\* A view of one line that does not fit either is cut.
Cut(text, bytes) == IF TextBytes[text] <= bytes THEN text
                    ELSE <<Line(bytes - 1, "cut")>>

Best(text, order, bytes) ==
  Cut(View(text, order, Fitting(text, order, bytes)), bytes)

CompressOutput[r \in Request] ==
  IF Len(r.text) <= r.lines /\ TextBytes[r.text] <= r.bytes
  THEN r.text
  ELSE Best(r.text, Selected(r.text, r.lines, r.kind), r.bytes)

\* What a command printed; the size of its command line.
Output == [command : Nat, stdout : Texts, stderr : Texts,
           kind : {"generic", "pytest", "diff", "grep"}]

Compressed(text, lines, bytes, kind) ==
  CompressOutput[[text |-> text, lines |-> lines, bytes |-> bytes,
                  kind |-> kind]]

Remaining(used) == IF used + LeastStdout > MaxBytes THEN LeastStdout
                   ELSE MaxBytes - used

\* The part of a view that shows stdout, under what precedes it.
WithStdout(above, output) ==
  above \o <<Line(14, "plain")>>
        \o (IF output.stdout = <<>> THEN <<Line(7, "plain")>>
            ELSE Compressed(output.stdout, MaxLines,
                            Remaining(TextBytes[above]), output.kind))

\* The view of a command: the command and its exit code, stderr with limits
\* of its own, then stdout with what is left.
CompressCommandOutput[output \in Output] ==
  WithStdout(<<Line(output.command + 2, "plain"), Line(12, "plain")>>
               \o (IF output.stderr = <<>> THEN <<>>
                   ELSE <<Line(14, "plain")>>
                          \o Compressed(output.stderr, StderrLines,
                                        StderrBytes, output.kind)),
             output)

-----------------------------------------------------------------------------
\* Lines of the output a text accounts for, shown or told to be left out.
AccountedFor[text \in Texts] ==
  IF text = <<>> THEN 0
  ELSE (IF Head(text).hides = 0 THEN 1 ELSE Head(text).hides)
         + AccountedFor[Tail(text)]
=============================================================================
