------------------------------- MODULE Assay --------------------------------
(***************************************************************************)
(* assay.runFn (internal/assay/assay.go): one function's touchstone rows   *)
(* are rendered into a harness, the harness is written beside the          *)
(* implementation and run by crucible.Run, and what it reported on stdout  *)
(* is judged against the rows.  The child of Crucible is here the Python   *)
(* harness of internal/backend/python, calling code Dore did not write.    *)
(*                                                                         *)
(* A returned value is identified with the value its canonical text        *)
(* denotes; Unparsable stands for a text types.Parse rejects.  Tables and  *)
(* rows are numbered from 1 (from 0 in the code).                          *)
(*                                                                         *)
(* The implementation shares stdout with the harness and may write to it   *)
(* at any time: while it is imported, in a row's call, at exit.  runFn     *)
(* takes every line that decodes, whoever wrote it; the history variable   *)
(* printed says which lines the implementation wrote itself.               *)
(***************************************************************************)
EXTENDS Crucible, FiniteSetsExt

CONSTANTS
  Value,          (* values a row can expect and the code can return       *)
  Error,          (* names of exceptions a row can expect                  *)
  Unparsable,     (* a returned text that is no value of the row's type    *)
  Fns,            (* the functions to choose from: sequences of tables     *)
  Noise,          (* what the implementation itself may print              *)
  KeepHarness     (* Options.KeepHarness                                   *)

VARIABLES
  tables,         (* the function's tables                                 *)
  pc,             (* where runFn is                                        *)
  file,           (* is the harness file on disk?                          *)
  harness,        (* the child's progress: "start", "rows" or "over"       *)
  ran,            (* history: what the implementation did on each row      *)
  printed,        (* history: the lines of written it printed itself       *)
  result          (* the FnResult                                          *)

assayVars == <<tables, pc, file, harness, ran, printed, result>>
allVars == <<crucibleVars, assayVars>>

Returns(v) == [how |-> "returned", what |-> v]
Raises(e) == [how |-> "raised", what |-> e]

(* A cell of the output column: a value, or !Error. *)
Expectation == {Returns(v) : v \in Value} \cup {Raises(e) : e \in Error}

(* What a row's call can do short of never returning: return a value (or   *)
(* one whose text does not parse), return what _canon cannot represent,    *)
(* raise an Exception, or leave through SystemExit or another exception    *)
(* that _run does not catch.                                               *)
NotRun == [how |-> "not run", what |-> ""]
Unrepresentable == [how |-> "failed", what |-> ""]
Leaves == [how |-> "left", what |-> ""]
Outcome == Expectation \cup {Returns(Unparsable), Unrepresentable, Leaves}

Keys(ts) == UNION {{<<t, r>> : r \in DOMAIN ts[t].rows} : t \in DOMAIN ts}
Expected(k) == tables[k[1]].rows[k[2]]
Precedes(j, k) == j[1] < k[1] \/ (j[1] = k[1] /\ j[2] < k[2])

----------------------------------------------------------------------------
(* Lines of the harness's stdout, as encoding/json sees them. *)

RecordKeyForgetsTable(k) == <<1, k[2]>>
RecordKey(k) == k

(* An object whose table is not negative is a record, of whatever row it   *)
(* names; one whose table is negative is a complaint, empty or not.        *)
Says(k, o) == [kind |-> "row", key |-> k, out |-> o]
NoKey == <<0, 0>>
Missing == [kind |-> "missing", key |-> NoKey, out |-> NotRun]
Hushed == [kind |-> "hushed", key |-> NoKey, out |-> NotRun]

(* A line that does not decode. *)
Text == [kind |-> "text", key |-> NoKey, out |-> NotRun]

(* An object with none of backend.Result's keys, or null, is the zero      *)
(* Result: the first row of the first table, and an empty value.           *)
Object == Says(<<1, 1>>, Returns(Unparsable))

(* What _run writes. *)
Record(k, o) == Says(RecordKey(k), o)

(* Every line runFn can meet: a record names a row of the function or none *)
(* (NoKey), and carries anything a record can carry.                       *)
HarnessLine ==
  {Says(k, o) : k \in UNION {Keys(ts) : ts \in Fns} \cup {NoKey}, o \in Outcome \ {Leaves}}
    \cup {Missing, Hushed, Text, Object}

ASSUME AssayAssumption ==
  /\ Unparsable \notin Value
  /\ HarnessLine \subseteq Line
  /\ Noise \subseteq HarnessLine
  /\ KeepHarness \in BOOLEAN
  /\ \A ts \in Fns : \A t \in DOMAIN ts :
       /\ ts[t].hasOutput \in BOOLEAN /\ ts[t].marshals \in BOOLEAN
       /\ \A r \in DOMAIN ts[t].rows : ts[t].rows[r] \in Expectation

----------------------------------------------------------------------------
(* The verdict. *)

(* types.Equal: the same value, or the same exception.  A float within the *)
(* cell's tolerance counts as the cell's value, and NaN as no value of it. *)
Agrees(expected, actual) == expected = actual

RowResult(passed, problem, actual) ==
  [passed |-> passed, problem |-> problem, actual |-> actual]
FnResult(problem, rows) == [problem |-> problem, rows |-> rows]
Failed(problem) == FnResult(problem, <<>>)
None == FnResult("none yet", <<>>)

Passed(fn) == fn.problem = "" /\ \A k \in DOMAIN fn.rows : fn.rows[k].passed

(* byKey: of the lines that name a row, the last one read wins. *)
LinesFor(k) == {i \in 1 .. Len(stdout) : stdout[i].kind = "row" /\ stdout[i].key = k}
Rows == {i \in 1 .. Len(stdout) : stdout[i].kind = "row"}

(* harnessProblem: the last complaint's message, which may be empty. *)
Complaints == {i \in 1 .. Len(stdout) : stdout[i].kind \in {"missing", "hushed"}}
SaysMissing == Complaints # {} /\ stdout[Max(Complaints)].kind = "missing"

Never == IF res.timedOut THEN "timed out before this row ran" ELSE "never reported"

JudgeRowUnreportedPasses(k) ==
  IF LinesFor(k) = {}
  THEN RowResult(~res.timedOut, Never, NotRun)
  ELSE LET got == stdout[Max(LinesFor(k))].out IN
       IF got = Unrepresentable THEN RowResult(FALSE, "failed", NotRun)
       ELSE IF got = Returns(Unparsable) THEN RowResult(FALSE, "not a valid value", NotRun)
       ELSE RowResult(Agrees(Expected(k), got), "", got)

JudgeRowUncompared(k) ==
  IF LinesFor(k) = {}
  THEN RowResult(FALSE, Never, NotRun)
  ELSE LET got == stdout[Max(LinesFor(k))].out IN
       IF got = Unrepresentable THEN RowResult(FALSE, "failed", NotRun)
       ELSE IF got = Returns(Unparsable) THEN RowResult(FALSE, "not a valid value", NotRun)
       ELSE RowResult(TRUE, "", got)

JudgeRow(k) ==
  IF LinesFor(k) = {}
  THEN RowResult(FALSE, Never, NotRun)
  ELSE LET got == stdout[Max(LinesFor(k))].out IN
       IF got = Unrepresentable THEN RowResult(FALSE, "failed", NotRun)
       ELSE IF got = Returns(Unparsable) THEN RowResult(FALSE, "not a valid value", NotRun)
       ELSE RowResult(Agrees(Expected(k), got), "", got)

Judgement ==
  IF res.kind = "error" THEN Failed("could not run")
  ELSE IF SaysMissing THEN Failed("not defined")
  ELSE IF Rows = {} THEN
    Failed(IF res.timedOut THEN "timed out without reporting a row" ELSE "the harness failed")
  ELSE FnResult("", [k \in Keys(tables) |-> JudgeRow(k)])

----------------------------------------------------------------------------
(* runFn. *)

AssayInit ==
  /\ Idle
  /\ tables \in Fns
  /\ pc = "prepare" /\ file = FALSE /\ harness = "start"
  /\ ran = [k \in Keys(tables) |-> NotRun] /\ printed = {}
  /\ result = None

(* The checks made before anything is written, and the harness text. *)
RefusalTakesEmpty ==
  IF \E t \in DOMAIN tables : ~tables[t].hasOutput THEN "table has no output column"
  ELSE IF \E t \in DOMAIN tables : ~tables[t].marshals /\ tables[t].rows # <<>>
  THEN "no harness" ELSE ""

Refusal ==
  IF \E t \in DOMAIN tables : ~tables[t].hasOutput THEN "table has no output column"
  ELSE IF Keys(tables) = {} THEN "no rows to assay"
  ELSE IF \E t \in DOMAIN tables : ~tables[t].marshals /\ tables[t].rows # <<>>
  THEN "no harness" ELSE ""

Prepare ==
  /\ pc = "prepare"
  /\ \/ Refusal = "" /\ pc' = "write" /\ UNCHANGED result
     \/ Refusal # "" /\ pc' = "done" /\ result' = Failed(Refusal)
  /\ UNCHANGED <<crucibleVars, tables, file, harness, ran, printed>>

WriteHarness ==
  /\ pc = "write"
  /\ file' = TRUE /\ pc' = "run"
  /\ UNCHANGED <<crucibleVars, tables, harness, ran, printed, result>>

(* os.WriteFile creates the file before it writes it, and the deferred     *)
(* removal is registered only once it has succeeded.                       *)
WriteFails ==
  /\ pc = "write"
  /\ file' \in BOOLEAN /\ pc' = "done"
  /\ result' = Failed("writing harness")
  /\ UNCHANGED <<crucibleVars, tables, harness, ran, printed>>

Judge ==
  /\ pc = "run" /\ res # Pending
  /\ result' = Judgement
  /\ pc' = "remove"
  /\ UNCHANGED <<crucibleVars, tables, file, harness, ran, printed>>

(* The deferred os.Remove, on every return after the file was written. *)
RemoveAlwaysKeeps ==
  /\ pc = "remove"
  /\ pc' = "done"
  /\ UNCHANGED <<crucibleVars, tables, file, harness, ran, printed, result>>

Remove ==
  /\ pc = "remove"
  /\ file' = KeepHarness /\ pc' = "done"
  /\ UNCHANGED <<crucibleVars, tables, harness, ran, printed, result>>

----------------------------------------------------------------------------
(* The harness, which is Crucible's child.  None of its steps is its own   *)
(* to refuse: the implementation decides.                                  *)

parentOnly == <<tables, pc, file, result>>

(* `import impl`, which may raise, and getattr(impl, fn, None). *)
Import ==
  /\ proc = "running" /\ harness = "start"
  /\ harness' \in {"rows", "over"}
  /\ UNCHANGED <<crucibleVars, parentOnly, ran, printed>>

(* The harness says so, on a line of its own or behind text without a      *)
(* newline that the import printed.                                        *)
FunctionMissing ==
  /\ harness = "start" /\ harness' = "over"
  /\ Write(Missing) \/ (Text \in Noise /\ Write(Text))
  /\ UNCHANGED <<parentOnly, ran, printed>>

AtRow(k) ==
  /\ harness = "rows" /\ ran[k] = NotRun
  /\ \A j \in Keys(tables) : Precedes(j, k) => ran[j] # NotRun

(* _run(k): the call ends and _emit writes its record. *)
RunRow(k, o) ==
  /\ AtRow(k) /\ o # Leaves
  /\ ran' = [ran EXCEPT ![k] = o]
  /\ Write(Record(k, o))
  /\ UNCHANGED <<parentOnly, harness, printed>>

(* The same, after the implementation printed text without a newline: the  *)
(* record shares a line with it and the line is not JSON.                  *)
RunRowGlued(k, o) ==
  /\ AtRow(k) /\ o # Leaves /\ Text \in Noise
  /\ ran' = [ran EXCEPT ![k] = o]
  /\ Write(Text)
  /\ UNCHANGED <<parentOnly, harness, printed>>

(* The call leaves through an exception _run does not catch. *)
RowLeaves(k) ==
  /\ proc = "running" /\ AtRow(k)
  /\ ran' = [ran EXCEPT ![k] = Leaves]
  /\ harness' = "over"
  /\ UNCHANGED <<crucibleVars, parentOnly, printed>>

(* The implementation prints a line: in its import, in a call, at exit. *)
Noisy ==
  /\ \E line \in Noise : Write(line)
  /\ printed' = printed \cup {Len(written')}
  /\ UNCHANGED <<parentOnly, harness, ran>>

HarnessStep ==
  \/ Import \/ FunctionMissing \/ Noisy
  \/ \E k \in Keys(tables) :
       \/ RowLeaves(k)
       \/ \E o \in Outcome : RunRow(k, o) \/ RunRowGlued(k, o)

(* What the interpreter and the system do without the program's asking. *)
ProcessStep ==
  /\ \/ \E n \in 1 .. Len(pybuf) : Flush(n)
     \/ Exit \/ Crash \/ Daemonize \/ DescendantEnds
  /\ UNCHANGED assayVars

ParentStep == pc = "run" /\ Parent /\ UNCHANGED assayVars
Deadline == pc = "run" /\ Expire /\ UNCHANGED assayVars

RunFn == Prepare \/ WriteHarness \/ WriteFails \/ ParentStep \/ Judge \/ Remove
Done == pc = "done" /\ ~descendant /\ UNCHANGED allVars

AssayNext == RunFn \/ Deadline \/ HarnessStep \/ ProcessStep \/ Done
AssaySpec == AssayInit /\ [][AssayNext]_allVars

(* runFn, os/exec's goroutines and the clock go on; nothing obliges the    *)
(* implementation to.                                                      *)
FairAssaySpec ==
  /\ AssaySpec
  /\ WF_allVars(Prepare \/ WriteHarness \/ Judge \/ Remove)
  /\ WF_allVars(ParentStep /\ (Launch \/ Return))
  /\ WF_allVars(ParentStep /\ Drain) /\ WF_allVars(ParentStep /\ Kill)
  /\ WF_allVars(Deadline)

----------------------------------------------------------------------------
(* Properties. *)

RowResults ==
  [passed : BOOLEAN,
   problem : {"", "failed", "not a valid value", "never reported", "timed out before this row ran"},
   actual : Outcome \cup {NotRun}]

(* Types, and what each stage of runFn may assume of the others. *)
AssayTypeOK ==
  /\ TypeOK
  /\ tables \in Fns
  /\ pc \in {"prepare", "write", "run", "remove", "done"}
  /\ file \in BOOLEAN
  /\ harness \in {"start", "rows", "over"}
  /\ ran \in [Keys(tables) -> Outcome \cup {NotRun}]
  /\ printed \subseteq 1 .. Len(written) /\ \A i \in printed : written[i] \in Noise
  /\ \/ result.problem = "" /\ result.rows \in [Keys(tables) -> RowResults]
     \/ result.problem # "" /\ result.rows = <<>>
  /\ pc \in {"prepare", "write", "run"} => result = None
  /\ pc \in {"write", "run"} => Keys(tables) # {}

(* A record in the stream, wherever it is, is one that the implementation  *)
(* printed itself, or of a row that ran and did what the record says.      *)
RecordsAreTrue ==
  \A i \in 1 .. Len(written) :
    written[i].kind = "row" =>
      \/ i \in printed
      \/ \E k \in Keys(tables) : ran[k] # NotRun /\ written[i].key = k /\ written[i].out = ran[k]

(* The implementation itself printed a record of row k that carries o. *)
Printed(k, o) == \E i \in printed : written[i] = Says(k, o)

(* The gate: a green verdict means of every row of the function that it    *)
(* ran and did what the specification says, unless the implementation      *)
(* itself printed the very record of that row that the specification asks  *)
(* for.  Nothing else it prints, no way it dies and no moment at which the *)
(* deadline falls makes a function green.                                  *)
GreenIsEarned ==
  Passed(result) =>
    /\ Keys(tables) # {}
    /\ \A k \in Keys(tables) : Agrees(Expected(k), ran[k]) \/ Printed(k, Expected(k))

(* What assay.go:3-5 says of the whole package: nothing a model wrote can  *)
(* influence the verdict.  A green function's rows ran and agreed.         *)
VerdictUninfluenced ==
  Passed(result) => \A k \in Keys(tables) : Agrees(Expected(k), ran[k])

(* What a row is said to have produced is what the code produced on it, or *)
(* what it printed in the harness's name about that very row; and a row is *)
(* said to have passed only with something produced.                       *)
ActualIsReal ==
  \A k \in DOMAIN result.rows :
    LET actual == result.rows[k].actual IN
    /\ actual # NotRun => actual = ran[k] \/ Printed(k, actual)
    /\ result.rows[k].passed => actual # NotRun

(* No false red and no false green: when the whole output arrived, the     *)
(* implementation printed only lines that do not decode and none of them   *)
(* ran into a line of the harness, each row's verdict is what it did.      *)
QuietRunJudgedExactly ==
  (result.problem = "" /\ lost = <<>> /\ discarded = <<>>
     /\ \A i \in 1 .. Len(written) : written[i].kind = "text" <=> i \in printed)
  => \A k \in Keys(tables) : result.rows[k].passed <=> ran[k] = Expected(k)

(* The harness does not outlive the run, whatever became of the child.     *)
HarnessRemoved ==
  pc = "done" /\ result.problem # "writing harness" => file = (KeepHarness /\ res # Pending)

(* runFn returns, though the implementation may hang or flood. *)
FnEnds == <>(pc = "done")

(* runFn keeps the promise of Gate: a row the implementation printed the   *)
(* wanted record of is a row it claims, if it did not run and agree.       *)
GateVerdict == IF pc # "done" THEN "pending" ELSE IF Passed(result) THEN "green" ELSE "red"
GateOutcome ==
  [k \in Keys(tables) |-> IF Agrees(Expected(k), ran[k]) THEN "agrees"
                          ELSE IF Printed(k, Expected(k)) THEN "claimed"
                          ELSE IF ran[k] = NotRun THEN "unknown" ELSE "disagrees"]
TheGate == INSTANCE Gate WITH outcome <- GateOutcome, verdict <- GateVerdict
ImplementsGate == TheGate!Spec
=============================================================================
