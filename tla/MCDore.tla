------------------------------- MODULE MCDore -------------------------------
(* Instances of Dore: files that are valid, with and without a word, that  *)
(* have errors, that cannot be read, that freeze nothing.                  *)
EXTENDS Dore

Frozen(k) == [mode |-> "frozen", rows |-> k]
Live(k) == [mode |-> "live", rows |-> k]
Source(parse, check, decls) ==
  [dore |-> TRUE, readable |-> TRUE, parse |-> parse, check |-> check, decls |-> decls]
Says(name, offset, severity, by) ==
  [name |-> name, offset |-> offset, severity |-> severity, code |-> by]

Valid == Source(<<>>, <<>>, <<Frozen(2), Live(1), Frozen(1)>>)
(* An empty intent of a live function, which is not gated. *)
Wordy ==
  Source(<<Says(3, 40, "warning", "W0001")>>, <<Says(3, 60, "note", "N0001")>>, <<Live(1)>>)
(* A function with an unknown type, whose table's columns are two          *)
(* strangers: that one is missing is told last, and of the first of them.  *)
(* An empty intent below it is told before them all.                       *)
Wrong ==
  Source(<<Says(2, 7, "error", "E0015"), Says(2, 80, "warning", "W0001")>>,
         <<Says(2, 30, "error", "E0105"), Says(2, 35, "error", "E0105"), Says(2, 30, "error", "E0106")>>,
         <<Frozen(2), Live(0)>>)
NoRows == Source(<<>>, <<Says(1, 10, "error", "E0101")>>, <<Frozen(0), Frozen(1)>>)

MCSources ==
  {Valid, Wordy, Wrong, NoRows, Source(<<>>, <<>>, <<>>),
   [Valid EXCEPT !.readable = FALSE], [Valid EXCEPT !.dore = FALSE]}
=============================================================================
