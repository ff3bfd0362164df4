-------------------------------- MODULE Diag --------------------------------
(***************************************************************************)
(* internal/diag: the bag that gathers diagnostics, the order they are     *)
(* told in, and what is said at the end.  A bag is a sequence; of a        *)
(* diagnostic, the name of the file and the byte offset its primary span   *)
(* starts at, its severity and its code.  Names are told apart and ordered *)
(* by a number.                                                            *)
(***************************************************************************)
EXTENDS Integers, FiniteSets, SequencesExt

Severity == {"error", "warning", "note"}
Diagnostics == [name : Nat, offset : Nat, severity : Severity, code : STRING]

Merge(bag, other) == bag \o other

(* Items: a stable sort.  The diagnostic at i stands before the one at j   *)
(* if it is less, or else not more and was reported earlier.               *)
Less(a, b) == a.name < b.name \/ (a.name = b.name /\ a.offset < b.offset)
BeforeUnstable(bag, i, j) ==
  Less(bag[i], bag[j]) \/ (i > j /\ ~Less(bag[j], bag[i]))
Before(bag, i, j) ==
  Less(bag[i], bag[j]) \/ (i < j /\ ~Less(bag[j], bag[i]))
Rank(bag, j) == Cardinality({i \in DOMAIN bag : Before(bag, i, j)}) + 1
From(bag, k) == CHOOSE j \in DOMAIN bag : Rank(bag, j) = k
Items(bag) == [k \in DOMAIN bag |-> bag[From(bag, k)]]

Count(bag, severity) == Cardinality({i \in DOMAIN bag : bag[i].severity = severity})
HasErrors(bag) == Count(bag, "error") > 0

(* RenderAll's last line, if there is one. *)
NoTally == [kind |-> "none"]
Tally(bag) ==
  LET errors == Count(bag, "error")
      warnings == Count(bag, "warning")
  IN IF errors > 0 THEN [kind |-> "failed", errors |-> errors, warnings |-> warnings]
     ELSE IF warnings > 0 THEN [kind |-> "ok", warnings |-> warnings]
     ELSE NoTally
=============================================================================
