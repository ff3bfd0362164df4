------------------------------ MODULE MCAssay -------------------------------
(* Instances of Assay: functions of two rows in one table and in two, and  *)
(* the ones runFn refuses.                                                 *)
EXTENDS Assay

CONSTANTS v1, e1, bad

MCValue == {v1}
MCError == {e1}

Table(rs) == [hasOutput |-> TRUE, marshals |-> TRUE, rows |-> rs]
OneTable == <<Table(<<Returns(v1), Raises(e1)>>)>>
TwoTables == <<Table(<<Returns(v1)>>), Table(<<Returns(v1)>>)>>
Refused ==
  {<<>>, <<Table(<<>>)>>,
   <<[Table(<<Returns(v1)>>) EXCEPT !.hasOutput = FALSE]>>,
   <<[Table(<<Returns(v1)>>) EXCEPT !.marshals = FALSE]>>}

MCFns == {OneTable, TwoTables} \cup Refused
MCLine == HarnessLine

(* What the implementation prints: text, the zero record, a complaint      *)
(* without a message, and the records that the rows ask for.  Of these one *)
(* is always of a row that the function at hand does not have.             *)
Loud ==
  {Text, Object, Hushed, Says(<<1, 1>>, Returns(v1)),
   Says(<<1, 2>>, Raises(e1)), Says(<<2, 1>>, Returns(v1))}
=============================================================================
