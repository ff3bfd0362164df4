------------------------------ MODULE MCSyntax ------------------------------
(* Instances of Scan and Syntax: all files of a few physical lines, drawn  *)
(* from the kinds of line that matter to each question.                    *)
EXTENDS Syntax

Line(indent, len, delta, head, pipes) ==
  [indent |-> indent, len |-> len, delta |-> delta, head |-> head, pipes |-> pipes,
   body |-> TRUE, fault |-> "none"]

Blank == Line(0, 0, 0, "text", 0)
Decl == Line(0, 2, 0, "decl", 0)
OpenDecl == [Line(0, 2, 1, "decl", 0) EXCEPT !.fault = "fatal"]
BadDecl == [Decl EXCEPT !.fault = "fatal"]
OddDecl == [Decl EXCEPT !.fault = "kept"]
Prose(indent, delta) == Line(indent, 1, delta, "text", 0)
Intents == {[Line(1, 1, 0, "intent", 0) EXCEPT !.body = b] : b \in BOOLEAN}
Examples == Line(1, 1, 0, "examples", 0)
Scenario == Line(1, 1, 0, "scenario", 0)
Unnamed == [Scenario EXCEPT !.fault = "fatal"]
Properties == {[Line(1, 1, 0, "property", 0) EXCEPT !.body = b, !.fault = f] :
                 b \in BOOLEAN, f \in {"none", "kept"}}
Row(indent, pipes, delta) == Line(indent, 1, delta, "row", pipes)

FilesOf(lines, most) == UNION {[1 .. k -> lines] : k \in 0 .. most}

(* Every shape of joining: lines of one and two runes, opening or closing. *)
ScanLines ==
  {Blank} \cup {Line(i, len, d, "text", 0) : i \in 0 .. 1, len \in 1 .. 2, d \in -1 .. 2}
ScanFiles == FilesOf(ScanLines, 3)

(* A declaration, and what may follow it. *)
TreeLines ==
  {Decl, BadDecl, OddDecl, Prose(0, 0), Prose(2, 0), Unnamed, Scenario, Examples,
   Row(1, 2, 0), Row(2, 2, 0), Row(2, 3, 0)} \cup Intents \cup Properties
After(first, lines, most) == {<<first>> \o rest : rest \in FilesOf(lines, most)}
TreeFiles == FilesOf(TreeLines, 2) \cup After(Decl, TreeLines, 3)

(* Files whose lines join. *)
OpenProperty == [Line(1, 1, 1, "property", 0) EXCEPT !.body = FALSE]
OpenScenario == [Line(1, 1, 1, "scenario", 0) EXCEPT !.fault = "fatal"]
JoinLines == {OpenDecl, Decl, Examples, Row(2, 2, 0), Row(2, 2, 1), Prose(2, 1), Prose(1, -1)}
JoinFiles ==
  After(OpenDecl, JoinLines, 3) \cup After(Decl, JoinLines, 4)
    \cup After(Decl, JoinLines \cup {OpenProperty, OpenScenario}, 3)

MCFiles == ScanFiles \cup TreeFiles \cup JoinFiles
=============================================================================
