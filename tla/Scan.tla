-------------------------------- MODULE Scan --------------------------------
(***************************************************************************)
(* scanLines (internal/syntax/scan.go): the physical lines of a .dore file *)
(* become logical lines.  Lines are joined while parentheses are open, so  *)
(* that a signature may span several; every piece of a logical line        *)
(* remembers where it came from, and spanAt maps an offset in the joined   *)
(* text back to the file.                                                  *)
(*                                                                         *)
(* A rune is identified with the place it was read from, <<line, column>>, *)
(* so that a span can be compared with the text it is supposed to cover.   *)
(* A physical line is a record of what the scanner and the parser ask of   *)
(* it:                                                                     *)
(*   indent  leading blanks                                                *)
(*   len     runes left after indentation, comment and trailing blanks     *)
(*   delta   parenDelta: parentheses opened less parentheses closed        *)
(*   head    what the parser sees it start with (see Syntax)               *)
(*   pipes   number of `|`                                                 *)
(*   body    has the section head text after its colon?                    *)
(*   fault   "none", "kept" or "fatal": what is wrong with a head          *)
(***************************************************************************)
EXTENDS Integers, Sequences

CONSTANT Files    (* the files to scan: sequences of physical lines *)

PhysicalLine(l) ==
  /\ l.indent \in Nat /\ l.len \in Nat /\ l.delta \in Int /\ l.pipes \in Nat
  /\ l.body \in BOOLEAN /\ l.fault \in {"none", "kept", "fatal"}
  /\ l.head \in {"decl", "intent", "examples", "scenario", "property", "row", "text"}

ASSUME ScanAssumption ==
  \A f \in Files :
    /\ f = [i \in 1 .. Len(f) |-> f[i]] /\ Len(f) \in Nat
    /\ \A i \in 1 .. Len(f) : PhysicalLine(f[i])

VARIABLES
  file,     (* the physical lines *)
  n,        (* the next one to scan *)
  out,      (* the logical lines so far *)
  cur,      (* the one still open, as its index in out; 0 for nil *)
  depth     (* parentheses open in it *)

scanVars == <<file, n, out, cur, depth>>

Gap == <<0, 0>>   (* the blank put in at a join *)

Body(i) == [c \in 1 .. file[i].len |-> <<i, file[i].indent + c>>]

Piece(start, i) ==
  [start |-> start, len |-> file[i].len, line |-> i, col |-> file[i].indent + 1]

Fresh(i) ==
  [text |-> Body(i), indent |-> file[i].indent, line |-> i, pieces |-> <<Piece(0, i)>>]

(* A joined piece starts after the blank. *)
JoinedLosesPiece(l, i) == [l EXCEPT !.text = @ \o (<<Gap>> \o Body(i))]
JoinedOffByOne(l, i) ==
  [l EXCEPT !.text = @ \o (<<Gap>> \o Body(i)), !.pieces = Append(@, Piece(Len(l.text), i))]
Joined(l, i) ==
  [l EXCEPT !.text = @ \o (<<Gap>> \o Body(i)), !.pieces = Append(@, Piece(Len(l.text) + 1, i))]

(* spanAt: the piece that holds the offset, and no further than its end;   *)
(* an offset in no piece stands for the whole first line.                  *)
Holding(l, off) == {p \in 1 .. Len(l.pieces) :
  l.pieces[p].start <= off /\ off < l.pieces[p].start + l.pieces[p].len}

SpanAt(l, off, want) ==
  IF Holding(l, off) = {}
  THEN [line |-> l.line, col |-> 1, len |-> l.pieces[1].col - 1 + l.pieces[1].len]
  ELSE LET p == l.pieces[CHOOSE q \in Holding(l, off) : \A r \in Holding(l, off) : q <= r]
           room == p.len - (off - p.start)
           got == IF want > room THEN room ELSE want
       IN [line |-> p.line, col |-> p.col + (off - p.start), len |-> IF got < 1 THEN 1 ELSE got]

----------------------------------------------------------------------------
Unscanned == n = 1 /\ out = <<>> /\ cur = 0 /\ depth = 0
ScanInit == file \in Files /\ Unscanned

(* A blank or comment line. *)
Separate ==
  /\ n <= Len(file) /\ file[n].len = 0
  /\ n' = n + 1
  /\ cur' = IF depth = 0 THEN 0 ELSE cur
  /\ UNCHANGED <<file, out, depth>>

(* depth += parenDelta(body), clamped, and what is open afterwards. *)
DepthUnclamped(d) == d
DepthAfter(d) == IF d < 0 THEN 0 ELSE d
Parens(open) ==
  /\ depth' = DepthAfter(depth + file[n].delta)
  /\ cur' = IF depth' = 0 THEN 0 ELSE open

Continue ==
  /\ n <= Len(file) /\ file[n].len > 0
  /\ depth > 0 /\ cur # 0
  /\ out' = [out EXCEPT ![cur] = Joined(@, n)]
  /\ Parens(cur)
  /\ n' = n + 1
  /\ UNCHANGED file

OpenLine ==
  /\ n <= Len(file) /\ file[n].len > 0
  /\ depth <= 0 \/ cur = 0
  /\ out' = Append(out, Fresh(n))
  /\ Parens(Len(out) + 1)
  /\ n' = n + 1
  /\ UNCHANGED file

Scanned == n > Len(file)
ScanNext == Separate \/ Continue \/ OpenLine

----------------------------------------------------------------------------
(* Properties. *)

(* The open line is the last one: `cur` is a pointer into `out`, taken     *)
(* before appends that may move it, and is only written through while it   *)
(* still points at the last element; and the two tests of line 94 agree.   *)
OpenIsLast ==
  /\ n \in 1 .. Len(file) + 1 /\ depth \in Nat
  /\ depth > 0 <=> cur # 0
  /\ cur \in {0, Len(out)}

(* Every line of the file that is not blank is in exactly one logical      *)
(* line, and they are in the order of the file.                            *)
LinesInOrder ==
  /\ \A k \in 1 .. Len(out) :
       /\ out[k].line = out[k].pieces[1].line
       /\ \A j \in 1 .. Len(out[k].pieces) - 1 :
            out[k].pieces[j].line < out[k].pieces[j + 1].line
  /\ \A k \in 1 .. Len(out) - 1 :
       out[k].pieces[Len(out[k].pieces)].line < out[k + 1].line
  /\ \A i \in 1 .. n - 1 : file[i].len > 0 =>
       \E k \in 1 .. Len(out) : \E j \in 1 .. Len(out[k].pieces) : out[k].pieces[j].line = i

(* The runes a diagnostic underlines are the runes it means: whatever      *)
(* offset and length the tokenizer or splitRow passes to spanAt, the span  *)
(* starts at that rune's place in the file and runs along it ("what lets a *)
(* diagnostic about a joined signature still point at the right physical   *)
(* line and column", scan.go:22-23).                                       *)
SpansPoint ==
  \A k \in 1 .. Len(out) : \A off \in 0 .. Len(out[k].text) - 1 :
    \A want \in 0 .. Len(out[k].text) :
      out[k].text[off + 1] # Gap =>
        LET s == SpanAt(out[k], off, want)
        IN \A d \in 0 .. s.len - 1 :
             /\ off + d + 1 <= Len(out[k].text)
             /\ out[k].text[off + d + 1] = <<s.line, s.col + d>>
=============================================================================
