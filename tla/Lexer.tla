-------------------------------- MODULE Lexer -------------------------------
(***************************************************************************)
(* The text of a line, as the three scanners of internal/syntax read it:   *)
(* scan.go looks for comments and counts parentheses, both outside double  *)
(* quotes; token.go takes a signature apart, and knows no quotes; splitRow *)
(* of parse.go takes a row apart at its pipes, and knows none either.      *)
(***************************************************************************)
EXTENDS Integers, SequencesExt

CONSTANT Words    (* names the parser only compares, each one rune here *)

ASSUME WordsAssumption == Words \cap {" ", "tab"} = {}

Small == <<"a", "b", "c", "d", "e", "f", "g", "h", "i", "j", "k", "l", "m",
           "n", "o", "p", "q", "r", "s", "t", "u", "v", "w", "x", "y", "z">>
Capital == <<"A", "B", "C", "D", "E", "F", "G", "H", "I", "J", "K", "L", "M",
             "N", "O", "P", "Q", "R", "S", "T", "U", "V", "W", "X", "Y", "Z">>
Figures == {"0", "1", "2", "3", "4", "5", "6", "7", "8", "9"}
Blanks == {" ", "tab"}

----------------------------------------------------------------------------
(* stripComment and parenDelta: where the text is inside double quotes.    *)
(* The state before each rune is "out", "in" or, after a backslash, "esc". *)
After(state, c) ==
  CASE state = "esc" -> "in"
    [] state = "in" -> (IF c = "\\" THEN "esc" ELSE IF c = "\"" THEN "out" ELSE "in")
    [] state = "out" -> (IF c = "\"" THEN "in" ELSE "out")
QuotedNever(s) == [i \in 1 .. Len(s) + 1 |-> "out"]
Quoted(s) ==
  LET upTo[i \in 0 .. Len(s)] ==
        IF i = 0 THEN <<"out">>
        ELSE LET before == upTo[i - 1] IN Append(before, After(before[i], s[i]))
  IN upTo[Len(s)]

StripComment(s) ==
  LET quoted == Quoted(s)
      marks == {i \in DOMAIN s : s[i] = "#" /\ quoted[i] = "out"}
  IN SubSeq(s, 1, Min(marks \cup {Len(s) + 1}) - 1)

ParenDelta(s) ==
  LET quoted == Quoted(s)
      Seen(c) == Cardinality({i \in DOMAIN s : s[i] = c /\ quoted[i] = "out"})
  IN Seen("(") - Seen(")")

(* Indent, and strings.TrimRight. *)
Solid(s) == {i \in DOMAIN s : s[i] \notin Blanks}
Indent(s) == Min(Solid(s) \cup {Len(s) + 1}) - 1
TrimRight(s) == SubSeq(s, 1, Max(Solid(s) \cup {0}))

----------------------------------------------------------------------------
(* tokenize.  Offsets count from 0. *)

IdentStart == {"_"} \cup Range(Small) \cup Range(Capital) \cup Words
IdentPart == IdentStart \cup Figures

KindOf(s, i) ==
  CASE s[i] \in {"(", ")", ":", ","} -> s[i]
    [] s[i] = "-" /\ i < Len(s) /\ s[i + 1] = ">" -> "->"
    [] s[i] \in IdentStart -> "ident"
    [] s[i] \in Figures -> "number"
    [] OTHER -> "unknown"

(* The run of runes from i that belong to its token. *)
Ends(s, i, part) == {j \in i + 1 .. Len(s) : s[j] \notin part} \cup {Len(s) + 1}
TokenLength(s, i) ==
  CASE KindOf(s, i) = "->" -> 2
    [] KindOf(s, i) = "ident" -> Min(Ends(s, i, IdentPart)) - i
    [] KindOf(s, i) = "number" -> Min(Ends(s, i, Figures)) - i
    [] OTHER -> 1

Token(s, i) ==
  [kind |-> KindOf(s, i), text |-> SubSeq(s, i, i + TokenLength(s, i) - 1),
   off |-> i - 1, len |-> TokenLength(s, i)]
Tokens(s) ==
  LET from[i \in 1 .. Len(s) + 1] ==
        IF i > Len(s) THEN <<>>
        ELSE IF s[i] \in Blanks THEN from[i + 1]
        ELSE <<Token(s, i)>> \o from[i + TokenLength(s, i)]
  IN from[1]

----------------------------------------------------------------------------
(* splitRow: what stands between two pipes, trimmed; an empty cell is the  *)
(* blank after its pipe.                                                   *)
Pipes(s) ==
  LET upTo[i \in 0 .. Len(s)] ==
        IF i = 0 THEN <<>> ELSE IF s[i] = "|" THEN Append(upTo[i - 1], i) ELSE upTo[i - 1]
  IN upTo[Len(s)]

Cell(s, i, j) ==
  LET raw == SubSeq(s, i + 1, j - 1)
      text == TrimRight(SubSeq(raw, Indent(raw) + 1, Len(raw)))
  IN IF text = <<>> THEN [text |-> text, off |-> i, len |-> 1]
     ELSE [text |-> text, off |-> i + Indent(raw), len |-> Len(text)]
Cells(s) == [k \in 1 .. Len(Pipes(s)) - 1 |-> Cell(s, Pipes(s)[k], Pipes(s)[k + 1])]
=============================================================================
