------------------------------- MODULE Syntax -------------------------------
(***************************************************************************)
(* syntax.Parse (internal/syntax/parse.go): a file is scanned (Scan), and  *)
(* its logical lines are made into declarations and their sections.  What  *)
(* is kept of the tree is which logical lines each node was made from; of  *)
(* a diagnostic, the logical line it was reported at.                      *)
(*                                                                         *)
(* Lines are numbered from 1 (from 0 in parser.pos).                       *)
(***************************************************************************)
EXTENDS Scan, FiniteSetsExt

VARIABLES
  pos,      (* parser.pos *)
  fn,       (* the declaration whose sections are being read, or NoFn *)
  decls,    (* ast.File.Decls *)
  errors,   (* logical lines at which an error was reported *)
  kept,     (* history: logical lines that went into the tree *)
  tried     (* history: logical lines parseDecl was called on *)

parseVars == <<pos, fn, decls, errors, kept, tried>>
syntaxVars == <<scanVars, parseVars>>

NoFn == [head |-> 0, sections |-> <<>>]
Section(kind, from, to, rows) == [kind |-> kind, from |-> from, to |-> to, rows |-> rows]

----------------------------------------------------------------------------
(* What the parser asks of a logical line. *)

HeadOf(k) == file[out[k].line].head
Indent(k) == out[k].indent

(* What can be wrong with the rest of the line.  parseSignature: nothing,  *)
(* an unknown type or trailing tokens (reported, but kept), or it is no    *)
(* signature; parseProperty: no name (kept); parseScenarioHead: no quoted  *)
(* name.  What joined lines make together is not looked into.              *)
Joins(k) == Len(out[k].pieces) > 1
Faults(k) == IF Joins(k) THEN {"none", "kept", "fatal"} ELSE {file[out[k].line].fault}
Bodies(k) == IF Joins(k) THEN BOOLEAN ELSE {file[out[k].line].body}

(* splitRow: cells are what stands between two pipes, whatever comes after *)
(* the last one.                                                           *)
PiecePipes(k, j) == file[out[k].pieces[j].line].pipes
Cells(k) ==
  LET pipes == MapThenSumSet(LAMBDA j : PiecePipes(k, j), 1 .. Len(out[k].pieces))
  IN IF pipes = 0 THEN 0 ELSE pipes - 1

(* The line on which `for !p.done() && p.cur().Indent > d` stops.          *)
SkipToKeyword(i, d) ==
  IF i > Len(out) THEN i
  ELSE Min({j \in i .. Len(out) + 1 : j = Len(out) + 1 \/ HeadOf(j) # "text"})
SkipTo(i, d) ==
  IF i > Len(out) THEN i
  ELSE Min({j \in i .. Len(out) + 1 : j = Len(out) + 1 \/ Indent(j) <= d})

(* The one on which parseTable's row loop stops. *)
RowUnder(k, d) == k <= Len(out) /\ Indent(k) > d /\ HeadOf(k) = "row"
RowsTo(i, d) ==
  IF i > Len(out) THEN i
  ELSE Min({j \in i .. Len(out) + 1 : j = Len(out) + 1 \/ ~RowUnder(j, d)})

----------------------------------------------------------------------------
(* Parse's loop: declarations, and recovery from what is none. *)

SyntaxInit ==
  /\ ScanInit
  /\ pos = 1 /\ fn = NoFn /\ decls = <<>>
  /\ errors = {} /\ kept = {} /\ tried = {}

AtTop == Scanned /\ fn = NoFn /\ pos <= Len(out)

(* parseDecl reports the line and returns false; Parse calls recover. *)
NotADeclaration ==
  /\ AtTop
  /\ Indent(pos) # 0 \/ HeadOf(pos) # "decl"
  /\ tried' = tried \cup {pos} /\ errors' = errors \cup {pos}
  /\ pos' = SkipTo(pos + 1, 0)
  /\ UNCHANGED <<scanVars, fn, decls, kept>>

(* parseSignature returned nil: parseDecl has already stepped over the     *)
(* line when recover steps again.                                          *)
BadSignature ==
  /\ AtTop /\ Indent(pos) = 0 /\ HeadOf(pos) = "decl"
  /\ "fatal" \in Faults(pos)
  /\ tried' = tried \cup {pos} /\ errors' = errors \cup {pos}
  /\ pos' = SkipTo(pos + 2, 0)
  /\ UNCHANGED <<scanVars, fn, decls, kept>>

OpenDeclarationStays ==
  /\ AtTop /\ Indent(pos) = 0 /\ HeadOf(pos) = "decl"
  /\ \/ "none" \in Faults(pos) /\ UNCHANGED errors
     \/ "kept" \in Faults(pos) /\ errors' = errors \cup {pos}
  /\ tried' = tried \cup {pos} /\ kept' = kept \cup {pos}
  /\ fn' = [head |-> pos, sections |-> <<>>]
  /\ UNCHANGED <<scanVars, pos, decls>>

OpenDeclaration ==
  /\ AtTop /\ Indent(pos) = 0 /\ HeadOf(pos) = "decl"
  /\ \/ "none" \in Faults(pos) /\ UNCHANGED errors
     \/ "kept" \in Faults(pos) /\ errors' = errors \cup {pos}
  /\ tried' = tried \cup {pos} /\ kept' = kept \cup {pos}
  /\ fn' = [head |-> pos, sections |-> <<>>]
  /\ pos' = pos + 1
  /\ UNCHANGED <<scanVars, decls>>

CloseDeclaration ==
  /\ Scanned /\ fn # NoFn
  /\ pos <= Len(out) => Indent(pos) = 0
  /\ decls' = Append(decls, fn) /\ fn' = NoFn
  /\ UNCHANGED <<scanVars, pos, errors, kept, tried>>

----------------------------------------------------------------------------
(* parseSections, one section at a time. *)

AtSection(head) ==
  /\ Scanned /\ fn # NoFn
  /\ pos <= Len(out) /\ Indent(pos) > 0 /\ HeadOf(pos) = head

Keep(section, lines) ==
  /\ fn' = [fn EXCEPT !.sections = Append(@, section)]
  /\ kept' = kept \cup lines

(* parseIntent; an empty block is a warning, not an error. *)
Intent ==
  /\ AtSection("intent")
  /\ pos' = SkipTo(pos + 1, Indent(pos))
  /\ Keep(Section("intent", pos, pos' - 1, {}), pos .. pos' - 1)
  /\ UNCHANGED <<scanVars, decls, errors, tried>>

(* parseProperty; one without a name or a body is reported and kept. *)
Property ==
  /\ AtSection("property")
  /\ pos' = SkipTo(pos + 1, Indent(pos))
  /\ Keep(Section("property", pos, pos' - 1, {}), pos .. pos' - 1)
  /\ \E fault \in Faults(pos), body \in Bodies(pos) :
       errors' = IF fault # "none" \/ (~body /\ pos' = pos + 1)
                 THEN errors \cup {pos} ELSE errors
  /\ UNCHANGED <<scanVars, decls, tried>>

(* A scenario whose name is missing or not quoted: its rows are met next,  *)
(* as rows outside a table.                                                *)
UnnamedScenario ==
  /\ AtSection("scenario") /\ "fatal" \in Faults(pos)
  /\ errors' = errors \cup {pos}
  /\ pos' = pos + 1
  /\ UNCHANGED <<scanVars, fn, decls, kept, tried>>

AtTable == AtSection("examples") \/ (AtSection("scenario") /\ Faults(pos) # {"fatal"})

TableWithoutHeader ==
  /\ AtTable /\ ~RowUnder(pos + 1, Indent(pos))
  /\ errors' = errors \cup {pos}
  /\ pos' = pos + 1
  /\ UNCHANGED <<scanVars, fn, decls, kept, tried>>

(* parseTable.  A row that does not fit the header is reported and left    *)
(* out; a table without a row is reported and left out.                    *)
FittingAll(header, to) == header + 1 .. to - 1
Fitting(header, to) == {k \in header + 1 .. to - 1 : Cells(k) = Cells(header)}

TableAndRows ==
  /\ AtTable /\ RowUnder(pos + 1, Indent(pos))
  /\ pos' = RowsTo(pos + 2, Indent(pos))
  /\ LET rows == Fitting(pos + 1, pos')
         misfits == (pos + 2 .. pos' - 1) \ rows
     IN \/ /\ rows # {}
           /\ Keep(Section("table", pos, pos' - 1, rows), {pos, pos + 1} \cup rows)
           /\ errors' = errors \cup misfits
        \/ /\ rows = {}
           /\ errors' = errors \cup misfits \cup {pos}
           /\ UNCHANGED <<fn, kept>>
  /\ UNCHANGED <<scanVars, decls, tried>>

StrayRowStays ==
  /\ AtSection("row")
  /\ errors' = errors \cup {pos}
  /\ UNCHANGED <<scanVars, pos, fn, decls, kept, tried>>

StrayRow ==
  /\ AtSection("row")
  /\ errors' = errors \cup {pos}
  /\ pos' = pos + 1
  /\ UNCHANGED <<scanVars, fn, decls, kept, tried>>

UnknownSectionQuiet ==
  /\ AtSection("text") \/ AtSection("decl")
  /\ pos' = SkipTo(pos + 1, Indent(pos))
  /\ UNCHANGED <<scanVars, fn, decls, errors, kept, tried>>

UnknownSection ==
  /\ AtSection("text") \/ AtSection("decl")
  /\ errors' = errors \cup {pos}
  /\ pos' = SkipTo(pos + 1, Indent(pos))
  /\ UNCHANGED <<scanVars, fn, decls, kept, tried>>

----------------------------------------------------------------------------
Scanning == ScanNext /\ UNCHANGED parseVars

Sections ==
  \/ Intent \/ Property \/ UnnamedScenario \/ TableWithoutHeader \/ TableAndRows
  \/ StrayRow \/ UnknownSection

Parsing ==
  \/ NotADeclaration \/ BadSignature \/ OpenDeclaration \/ CloseDeclaration
  \/ Sections

Parsed == Scanned /\ fn = NoFn /\ pos > Len(out)
Ended == Parsed /\ UNCHANGED syntaxVars

SyntaxNext == Scanning \/ Parsing \/ Ended
SyntaxSpec == SyntaxInit /\ [][SyntaxNext]_syntaxVars

(* One goroutine, which runs. *)
FairSyntaxSpec == SyntaxSpec /\ WF_syntaxVars(Scanning \/ Parsing)

----------------------------------------------------------------------------
(* Properties. *)

(* The parser's place may be one past the end twice over: after a bad      *)
(* signature on the last line recover steps beyond it (parse.go:45-50).    *)
SyntaxTypeOK ==
  /\ pos \in 1 .. Len(out) + 2
  /\ fn # NoFn => pos <= Len(out) + 1 /\ fn.head \in kept
  /\ errors \cup kept \cup tried \subseteq 1 .. Len(out)
  /\ \A k \in errors \cup kept \cup tried : k < pos

(* Nothing is dropped without a word: a line the parser passed over and    *)
(* did not keep belongs to an unbroken run of such lines that begins with  *)
(* a line an error was reported at.  So a file without errors is kept      *)
(* whole, and no error hides more than what follows it unkept.             *)
DroppedOrReported ==
  \A k \in 1 .. Len(out) : k < pos /\ k \notin kept =>
    \E e \in errors : e <= k /\ \A j \in e .. k : j \notin kept

(* No section crosses into the next declaration: a declaration's sections  *)
(* follow its signature in order, without sharing a line, and every line   *)
(* of theirs is indented.                                                  *)
Nested(d) ==
  /\ Indent(d.head) = 0
  /\ \A s \in 1 .. Len(d.sections) :
       /\ d.sections[s].from > (IF s = 1 THEN d.head ELSE d.sections[s - 1].to)
       /\ d.sections[s].from <= d.sections[s].to
       /\ \A k \in d.sections[s].from .. d.sections[s].to : Indent(k) > 0
SectionsNest ==
  /\ \A d \in 1 .. Len(decls) : Nested(decls[d])
  /\ fn # NoFn => Nested(fn)
  /\ \A d \in 1 .. Len(decls) - 1 : \A s \in 1 .. Len(decls[d].sections) :
       decls[d].sections[s].to < decls[d + 1].head

(* A table that reached the tree has a row, and its rows have the header's *)
(* cells: checkTable indexes the columns by the cells (check.go:157-165).  *)
TablesFit ==
  \A d \in 1 .. Len(decls) : \A s \in 1 .. Len(decls[d].sections) :
    LET t == decls[d].sections[s] IN
    t.kind = "table" => t.rows # {} /\ \A k \in t.rows : Cells(k) = Cells(t.from + 1)

(* Parse returns. *)
ParseEnds == <>Parsed

(* "Skip to the next line at column 0 so one bad declaration does not      *)
(* cascade into every following one" (parse.go:23-24): every line at       *)
(* column 1 that starts a declaration is parsed as one.                    *)
EveryDeclarationTried ==
  Parsed => \A k \in 1 .. Len(out) : Indent(k) = 0 /\ HeadOf(k) = "decl" => k \in tried
=============================================================================
