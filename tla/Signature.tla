------------------------------ MODULE Signature -----------------------------
(***************************************************************************)
(* From the text of a file to the heads of its declarations and the cells  *)
(* of its rows: scanLines joins the lines (Scan), tokenize takes a         *)
(* signature apart and parseSignature (internal/syntax/parse.go) reads it, *)
(* splitRow takes a row apart; each keeps spans for the diagnostics that   *)
(* are about it.  Which lines are tried, and what the sections are, is     *)
(* Syntax's part.                                                          *)
(***************************************************************************)
EXTENDS Scan, Source, TypeNames

(* The files: their lines, and what was meant by each logical line, where  *)
(* the file was written for something.  (Scan's Files are not used here.)  *)
CONSTANT Inputs

ASSUME InputsAssumption == \A inp \in Inputs : inp.lines \in Seq(Seq(STRING))

VARIABLES
  input,   (* the file *)
  read     (* what was made of each logical line, in order *)

sigVars == <<scanVars, input, read>>

lines == input.lines

(* What the scanner sees of a line, for Scan. *)
Content(s) == TrimRight(StripComment(SubSeq(s, Indent(s) + 1, Len(s))))
HeadOf(s) ==
  IF s # <<>> /\ s[1] = "|" THEN "row"
  ELSE IF s # <<>> /\ s[1] \in {"frozen", "live"} THEN "decl" ELSE "text"
Measure(s) ==
  LET content == Content(s)
  IN [indent |-> Indent(s), len |-> Len(content), delta |-> ParenDelta(content),
      head |-> HeadOf(content), pipes |-> Cardinality({i \in DOMAIN content : content[i] = "|"}),
      body |-> FALSE, fault |-> "none"]
Measured(ls) ==
  LET upTo[k \in 0 .. Len(ls)] == IF k = 0 THEN <<>> ELSE Append(upTo[k - 1], Measure(LineText(ls, k)))
  IN upTo[Len(ls)]

(* The text of a logical line, and its spans (spanAt and span). *)
Text(l) ==
  [i \in DOMAIN l.text |->
    IF l.text[i] = Gap THEN " " ELSE LineText(lines, l.text[i][1])[l.text[i][2]]]

Within(p, at, len) ==
  Sub(lines, LineSpan(lines, p.line), p.col - 1 + at, Max({1, Min({len, p.len - at})}))
SpanOf(l, off, len) ==
  LET first == Min(Holding(l, off))
  IN IF Holding(l, off) = {} THEN LineSpan(lines, l.line)
     ELSE Within(l.pieces[first], off - l.pieces[first].start, len)
WholeSpan(l) == Sub(lines, LineSpan(lines, l.line), l.indent, Max({1, Len(l.text)}))
TokenSpan(l, t) == SpanOf(l, t.off, t.len)

(* A diagnostic: what it points at, the text it is about (none, if it is   *)
(* about the line), the name it proposes.                                  *)
Told(code, span, about) == [code |-> code, span |-> span, about |-> about, suggests |-> NoName]
Here(code, l, t) == Told(code, TokenSpan(l, t), t.text)
Whole(code, l) == Told(code, WholeSpan(l), <<>>)

----------------------------------------------------------------------------
(* parseType. *)

At(toks, i) == IF i <= Len(toks) THEN toks[i].kind ELSE "end"

NoReading(diag) == [ok |-> FALSE, diags |-> <<diag>>, next |-> 0]

(* The matching parenthesis of one at i. *)
Closing(toks, i) ==
  {j \in i .. Len(toks) :
    Cardinality({k \in i .. j : toks[k].kind = "("}) = Cardinality({k \in i .. j : toks[k].kind = ")"})}

(* The texts between two tokens but for the commas, joined by commas. *)
Arguments(toks, i, j) ==
  LET upTo[k \in i .. j - 1] ==
        IF k = i THEN <<>>
        ELSE IF toks[k].kind = "," THEN upTo[k - 1]
        ELSE upTo[k - 1] \o (IF upTo[k - 1] = <<>> THEN <<>> ELSE <<",">>) \o toks[k].text
  IN upTo[j - 1]

Resolved(name, types, span, next) ==
  [ok |-> TRUE, name |-> name, span |-> span, next |-> next,
   type |-> IF types = {} THEN Invalid ELSE CHOOSE t \in types : TRUE,
   diags |-> IF types # {} THEN <<>>
             ELSE <<[Told("E0015", span, name) EXCEPT !.suggests = Suggest(name)]>>]

(* decimal(...) up to token j, its closing parenthesis. *)
DecimalText(toks, i, j) == DecimalWord \o <<"(">> \o Arguments(toks, i + 1, j) \o <<")">>
Parametrised(toks, i, j, l) ==
  Resolved(DecimalText(toks, i, j), Named(DecimalText(toks, i, j)),
           JoinSpans(TokenSpan(l, toks[i]), TokenSpan(l, toks[j])), j + 1)

ParseType(toks, i, l) ==
  LET ends == Closing(toks, i + 1)
  IN IF At(toks, i) = "end" THEN NoReading(Whole("E0013", l))
     ELSE IF At(toks, i) # "ident" THEN NoReading(Here("E0013", l, toks[i]))
     ELSE IF toks[i].text # DecimalWord \/ At(toks, i + 1) # "("
          THEN Resolved(toks[i].text, Named(toks[i].text), TokenSpan(l, toks[i]), i + 1)
     ELSE IF ends = {} THEN NoReading(Here("E0014", l, toks[i]))
     ELSE Parametrised(toks, i, Min(ends), l)

----------------------------------------------------------------------------
(* parseSignature. *)

Given(toks, i, l, type) ==
  [name |-> toks[i].text, span |-> TokenSpan(l, toks[i]),
   type |-> type.type, typeName |-> type.name, typeSpan |-> type.span]

(* The parameters from token i on; the comma after one is optional. *)
AfterComma(toks, i) == IF At(toks, i) = "," THEN i + 1 ELSE i
FirstParam(toks, i, l, type, rest) ==
  IF ~type.ok THEN type
  ELSE IF ~rest.ok THEN [rest EXCEPT !.diags = type.diags \o @]
  ELSE [rest EXCEPT !.diags = type.diags \o @, !.params = <<Given(toks, i, l, type)>> \o @]
Params(toks, i, l) ==
  LET from[k \in 1 .. Len(toks) + 1] ==
        IF At(toks, k) \in {"end", ")"} THEN [ok |-> TRUE, params |-> <<>>, diags |-> <<>>, next |-> k]
        ELSE IF At(toks, k) # "ident" THEN NoReading(Here("E0006", l, toks[k]))
        ELSE IF At(toks, k + 1) # ":" THEN NoReading(Here("E0007", l, toks[k]))
        ELSE LET type == ParseType(toks, k + 2, l)
             IN FirstParam(toks, k, l, type, from[AfterComma(toks, type.next)])
  IN from[i]

NoFn == [mode |-> "none"]
Failed(diags) == [fn |-> NoFn, diags |-> diags, cells |-> <<>>]

(* What stands behind the signature, and takes no part in it. *)
TrailingKept(toks, i, l) == <<>>
Trailing(toks, i, l) == IF At(toks, i) = "end" THEN <<>> ELSE <<Here("E0012", l, toks[i])>>

(* After the parameters: `)`, `->`, the result and its type. *)
Complete(toks, i, l, fn, diags, type) ==
  IF ~type.ok THEN Failed(diags \o type.diags)
  ELSE [fn |-> [fn EXCEPT !.result = Given(toks, i, l, type)],
        diags |-> diags \o type.diags \o Trailing(toks, type.next, l), cells |-> <<>>]
ParseResult(toks, i, l, fn, diags) ==
  IF At(toks, i) # ")" THEN Failed(Append(diags, Whole("E0008", l)))
  ELSE IF At(toks, i + 1) # "->" THEN Failed(Append(diags, Whole("E0009", l)))
  ELSE IF At(toks, i + 2) # "ident" THEN Failed(Append(diags, Whole("E0010", l)))
  ELSE IF At(toks, i + 3) # ":" THEN Failed(Append(diags, Here("E0011", l, toks[i + 2])))
  ELSE Complete(toks, i + 2, l, fn, diags, ParseType(toks, i + 4, l))

Accepted(toks, l, mode, ps) ==
  IF ~ps.ok THEN Failed(ps.diags)
  ELSE ParseResult(toks, ps.next, l,
         [mode |-> mode, name |-> toks[3].text, span |-> TokenSpan(l, toks[3]),
          params |-> ps.params, result |-> <<>>], ps.diags)
ParseTokens(toks, l, mode) ==
  IF Len(toks) < 3 THEN Failed(<<Whole("E0003", l)>>)
  ELSE IF At(toks, 3) # "ident" THEN Failed(<<Here("E0004", l, toks[3])>>)
  ELSE IF At(toks, 4) # "(" THEN Failed(<<Here("E0005", l, toks[3])>>)
  ELSE Accepted(toks, l, mode, Params(toks, 5, l))
ParseSignature(l, mode) == ParseTokens(Tokens(Text(l)), l, mode)

(* declMode: `frozen fn` and `live fn`, alone or before a blank. *)
Modes(s) == {mode \in {"frozen", "live"} : Take(s, 4) = <<mode, " ", "fn">> \/ Take(s, 4) = <<mode, " ", "fn", " ">>}

----------------------------------------------------------------------------
SignatureInit ==
  /\ input \in Inputs /\ file = Measured(input.lines)
  /\ Unscanned
  /\ read = <<>>

Scanning == ScanNext /\ UNCHANGED <<input, read>>

Upcoming == out[Len(read) + 1]
Reading == Scanned /\ Len(read) < Len(out)
Made(result) == read' = Append(read, result) /\ UNCHANGED <<scanVars, input>>

ReadHead ==
  /\ Reading /\ Upcoming.indent = 0 /\ Modes(Text(Upcoming)) # {}
  /\ \E mode \in Modes(Text(Upcoming)) : Made(ParseSignature(Upcoming, mode))

NotAHead ==
  /\ Reading /\ Upcoming.indent = 0 /\ Modes(Text(Upcoming)) = {}
  /\ Made(Failed(<<Whole("E0002", Upcoming)>>))

SplitRow ==
  /\ Reading /\ Upcoming.indent > 0 /\ Text(Upcoming)[1] = "|"
  /\ LET cells == Cells(Text(Upcoming))
     IN Made([fn |-> NoFn, diags |-> <<>>,
              cells |-> [k \in DOMAIN cells |->
                [text |-> cells[k].text, span |-> SpanOf(Upcoming, cells[k].off, cells[k].len)]]])

OtherLine ==
  /\ Reading /\ Upcoming.indent > 0 /\ Text(Upcoming)[1] # "|"
  /\ Made(Failed(<<>>))

AllRead == Scanned /\ Len(read) = Len(out) /\ UNCHANGED sigVars

SignatureNext == Scanning \/ ReadHead \/ NotAHead \/ SplitRow \/ OtherLine \/ AllRead
SignatureSpec == SignatureInit /\ [][SignatureNext]_sigVars

----------------------------------------------------------------------------
(* Properties. *)

(* A result without its spans. *)
Plainly(given) == [name |-> given.name, type |-> given.type]
Brief(r) ==
  [fn |-> IF r.fn = NoFn THEN NoFn
          ELSE [mode |-> r.fn.mode, name |-> r.fn.name, result |-> Plainly(r.fn.result),
                params |-> [p \in DOMAIN r.fn.params |-> Plainly(r.fn.params[p])]],
   cells |-> [k \in DOMAIN r.cells |-> r.cells[k].text]]

(* What was written is what is read, whatever its layout: the blanks and   *)
(* line breaks in a signature ("a multi-line signature is parsed as one    *)
(* thing", scan.go:21), the comments and what they quote, a `#` or a       *)
(* parenthesis in a cell's text; each declaration and row by itself.       *)
WrittenIsRead ==
  Scanned /\ input.meant # <<>> =>
    /\ Len(out) = Len(input.meant)
    /\ \A k \in DOMAIN read : Brief(read[k]) = input.meant[k] /\ read[k].diags = <<>>

(* Nothing in a line that is accepted is passed over: all of a signature   *)
(* but its commas is in the declaration, all of a row up to its last pipe  *)
(* is in the cells.                                                        *)
Sifted(s, skipped) ==
  LET upTo[i \in 0 .. Len(s)] ==
        IF i = 0 THEN <<>> ELSE IF s[i] \in skipped THEN upTo[i - 1] ELSE Append(upTo[i - 1], s[i])
  IN upTo[Len(s)]
Bare(s) == Sifted(s, Blanks \cup {","})
Solidly(s) == Sifted(s, Blanks)
Spelled(given) == given.name \o <<":">> \o given.typeName
SpellingOf(fn) ==
  <<fn.mode, "fn">> \o fn.name \o <<"(">> \o
  FlattenSeq([p \in DOMAIN fn.params |-> Spelled(fn.params[p])]) \o
  <<")", "-", ">">> \o Spelled(fn.result)
UpToLastPipe(s) == SubSeq(s, 1, Max({i \in DOMAIN s : s[i] = "|"}))
AcceptedWhole ==
  \A k \in DOMAIN read :
    LET r == read[k]
        s == Text(out[k])
    IN /\ r.fn # NoFn /\ r.diags = <<>> => Bare(SpellingOf(r.fn)) = Bare(s)
       /\ s[1] = "|" /\ out[k].indent > 0 =>
            Solidly(UpToLastPipe(s)) =
              <<"|">> \o Solidly(FlattenSeq([i \in DOMAIN r.cells |-> Append(r.cells[i].text, "|")]))

(* The carets under a line of the file stand under the text the diagnostic *)
(* is about, whichever line of a joined signature that is on, behind tabs  *)
(* and runes of several bytes; and the byte offset that diagnostics are    *)
(* sorted by is that text's.  About a whole line, they start with it and   *)
(* cover it (and a comment behind it, if the line goes on).  A cell whose  *)
(* text runs on into the next line, for an open parenthesis in it, is      *)
(* underlined as far as its own line goes.                                 *)
Drawn(span) ==
  LET carets == Carets(lines, span)
  IN [i \in 1 .. carets.width |-> LineText(lines, span.start.line)[Len(carets.lead) + i]]
Placed(l, span) ==
  /\ \E p \in DOMAIN l.pieces : l.pieces[p].line = span.start.line
  /\ Len(Carets(lines, span).lead) = span.start.col - 1
  /\ span.start.offset = LineStart(lines, span.start.line) +
       BytesOf(SubSeq(LineText(lines, span.start.line), 1, span.start.col - 1))
Points(l, span, about) ==
  /\ Placed(l, span)
  /\ IF about = <<>> THEN /\ <<span.start.line, span.start.col>> = l.text[1]
                          /\ Carets(lines, span).width >= l.pieces[1].len
     ELSE IF span.end.line # span.start.line THEN Begins(DecimalWord, Drawn(span)) /\ Begins(DecimalWord, about)
     ELSE Bare(Drawn(span)) = Bare(about)
PointsAtCell(l, cell) ==
  /\ Placed(l, cell.span)
  /\ IF cell.text = <<>> THEN Drawn(cell.span)[1] \in Blanks \cup {"|"}
     ELSE /\ Begins(Drawn(cell.span), cell.text)
          /\ \/ Drawn(cell.span) = cell.text
             \/ \E p \in DOMAIN l.pieces :
                  /\ l.pieces[p].line = cell.span.start.line
                  /\ l.pieces[p].col + l.pieces[p].len = cell.span.end.col

(* The spans of a declaration, in the order of its text. *)
SpansOf(fn) ==
  LET of(given) == <<[span |-> given.span, about |-> given.name],
                     [span |-> given.typeSpan, about |-> given.typeName]>>
  IN <<[span |-> fn.span, about |-> fn.name]>> \o
     FlattenSeq([p \in DOMAIN fn.params |-> of(fn.params[p])]) \o of(fn.result)

CaretsPoint ==
  \A k \in DOMAIN read :
    LET r == read[k] IN
    /\ \A i \in DOMAIN r.diags : Points(out[k], r.diags[i].span, r.diags[i].about)
    /\ r.fn # NoFn =>
         LET spans == SpansOf(r.fn) IN
         /\ \A i \in DOMAIN spans : Points(out[k], spans[i].span, spans[i].about)
         /\ \A i \in 1 .. Len(spans) - 1 : spans[i].span.start.offset < spans[i + 1].span.start.offset
    /\ \A i \in DOMAIN r.cells : PointsAtCell(out[k], r.cells[i])

(* The name that is proposed for an unknown one is the closest there is    *)
(* ("the closest built-in name to what the user typed", types.go:114), and *)
(* close: within two edits, or one of the two begins the other.  Distance  *)
(* is told here by what one edit can do.                                   *)
OneEdit(a, b) ==
  \E i \in 0 .. Min({Len(a), Len(b)}) :
    /\ SubSeq(a, 1, i) = SubSeq(b, 1, i)
    /\ \E cut \in {<<1, 1>>, <<1, 0>>, <<0, 1>>} :
         SubSeq(a, i + 1 + cut[1], Len(a)) = SubSeq(b, i + 1 + cut[2], Len(b))
Without(s, i) == SubSeq(s, 1, i - 1) \o SubSeq(s, i + 1, Len(s))
Edited(a, b) ==
  {Without(a, i) : i \in DOMAIN a} \cup
  {SubSeq(a, 1, i - 1) \o <<b[j]>> \o SubSeq(a, i + gone, Len(a)) :
     i \in 1 .. Len(a) + 1, j \in DOMAIN b, gone \in {0, 1}}
TwoEdits(a, b) == \E mid \in Edited(a, b) : OneEdit(mid, b)
Known == {Candidates[i] : i \in DOMAIN Candidates}

SuggestNearest ==
  \A k \in DOMAIN read : \A i \in DOMAIN read[k].diags :
    LET d == read[k].diags[i]
        typed == Lower(d.about)
    IN d.code = "E0015" =>
         IF d.suggests = NoName
         THEN \/ typed \in Known
              \/ \A name \in Known : TwoEdits(typed, name) => Len(typed) <= 2
         ELSE /\ d.suggests \in Known \ {typed}
              /\ \/ TwoEdits(typed, d.suggests)
                 \/ Begins(typed, d.suggests) \/ Begins(d.suggests, typed)
              /\ \A name \in Known :
                   /\ OneEdit(typed, name) => OneEdit(typed, d.suggests)
                   /\ TwoEdits(typed, name) => TwoEdits(typed, d.suggests)
=============================================================================
