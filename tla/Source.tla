------------------------------- MODULE Source -------------------------------
(***************************************************************************)
(* internal/source: spans of a file, in lines, columns and bytes; and what *)
(* joins them (joinSpans, internal/syntax/parse.go) and draws them         *)
(* (renderLabel, internal/diag/render.go).                                 *)
(*                                                                         *)
(* A file is the sequence of its lines, a line the sequence of its runes.  *)
(* Columns count runes, offsets count bytes.                               *)
(***************************************************************************)
EXTENDS Integers, Sequences, FiniteSetsExt

CONSTANT TwoBytes    (* the runes of two bytes; the others have one *)

BytesOf(s) == Len(s) + Cardinality({i \in DOMAIN s : s[i] \in TwoBytes})

(* New and LineText: a line without its newline and the return before it. *)
LineStart(lines, n) == MapThenSumSet(LAMBDA k : BytesOf(lines[k]) + 1, 1 .. n - 1)
LineText(lines, n) ==
  LET s == lines[n] IN
  IF s # <<>> /\ s[Len(s)] = "return" THEN SubSeq(s, 1, Len(s) - 1) ELSE s

Pos(offset, line, col) == [offset |-> offset, line |-> line, col |-> col]
Span(start, end) == [start |-> start, end |-> end]

LineSpan(lines, n) ==
  LET s == LineText(lines, n)
      at == LineStart(lines, n)
  IN Span(Pos(at, n, 1), Pos(at + BytesOf(s), n, Len(s) + 1))

(* Span.Sub.  What lies beyond the line is left as it is, or has no bytes. *)
SubInRunes(lines, s, off, len) ==
  LET start == Pos(s.start.offset + off, s.start.line, s.start.col + off)
  IN Span(start, Pos(start.offset + len, start.line, start.col + len))
Sub(lines, s, off, len) ==
  LET runes == LineText(lines, s.start.line)
      at == s.start.col - 1 + off
      skipped == BytesOf(SubSeq(runes, s.start.col, at))
      covered == IF at + len <= Len(runes) THEN BytesOf(SubSeq(runes, at + 1, at + len)) ELSE 0
      start == Pos(s.start.offset + skipped, s.start.line, s.start.col + off)
  IN IF at > Len(runes) THEN s
     ELSE Span(start, Pos(start.offset + covered, start.line, start.col + len))

JoinSpans(a, b) == IF b.end.offset < a.start.offset THEN a ELSE Span(a.start, b.end)

(* renderLabel: the blanks before the carets, and how many carets. *)
Carets(lines, span) ==
  LET runes == LineText(lines, span.start.line)
      room == Len(runes) - span.start.col + 1
      wanted == IF span.end.line # span.start.line THEN room ELSE span.end.col - span.start.col
  IN [lead |-> [i \in 1 .. Min({span.start.col - 1, Len(runes)}) |->
                 IF runes[i] = "tab" THEN "tab" ELSE " "],
      width |-> Max({1, Min({wanted, room})})]
=============================================================================
