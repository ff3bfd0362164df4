# The Doré compiler in TLA+

Doré is a specification language whose compiler refuses: a `.dore` file
declares functions, says what each returns on a table of rows (its
*touchstone*), and `dore assay` runs an implementation on every row and lets
it through only if all of them agree. This directory holds the models of that
pipeline, the configurations TLC checks them with, and proofs that TLAPS
checks. Paths below are relative to `src/` of the repository.

## 1. The system

```
 dore check f.dore ...            dore assay f.dore --impl x.py
        |                                   |
        v                                   v
   cmd/dore  ---- syntax.Parse ----> check.File ----> assay.Run
   (Dore, Diag)    |         |       (Check,           | per frozen function
                scan.go   parse.go    Literals)        v
              (Scan,      (Syntax,                   runFn --- harness file --+
               Lexer)     Signature,               (Assay, Harness, Rows)     |
                   |       TypeNames)                  |              the directory
                   v                                   v              (Workspace)
              source.Span                         crucible.Run                |
               (Source)                            (Crucible) --- python3 <---+
```

| component | state it keeps | operations | talks to | what makes it correct |
|---|---|---|---|---|
| `internal/crucible` | the child, the capped buffer, the context's deadline | `Run`, `capped.Write`, the kill and the reaping inside os/exec | the child through a pipe; the caller through `Result` | the buffer is a prefix of what was written; nothing changes once `Run` has returned; the deadline ends the run |
| `internal/assay` (`runFn`) | slots, `byKey`, the harness file, `FnResult` | list rows, write, run, parse lines, judge, remove | crucible, backend, the directory | green only if every row ran and agreed (which holds but for records the implementation prints itself); no false red on an undisturbed run; the file does not outlive the run |
| `internal/assay` (report) | `Report.Fns` | `Passed`, `Counts`, `Render` | cmd/dore | the last line and the exit code agree with the results |
| `internal/backend/python` | none (text of a program) | `Harness`, `rowArgs`, `Marshal`; in the child `_run`, `_canon`, `_emit` | the implementation, stdout | each row is called with what its own cells mean, in signature order, and its record says what happened |
| the implementation's directory | one harness file per function name | create, write, run, remove | every invocation of `dore assay` there | an invocation runs its own harness; nothing is left behind |
| `internal/syntax` scan | `out`, `cur`, `depth` | `scanLines`, `spanAt`, `stripComment`, `parenDelta` | parse | lines in order, joined only under open parentheses, every rune traceable to its place |
| `internal/syntax` tokens | none | `tokenize` | parseSignature | nothing skipped but blanks; each token where it stands |
| `internal/syntax` parse | `pos`, the tree, the bag | `Parse`, `recover`, `parseDecl`, `parseSignature`, one parser per section, `splitRow` | check | nothing dropped without a diagnostic, sections stay inside their declaration, rows fit their header, it ends |
| `internal/check` | `seen`, column bindings, cell values, the bag | `File`, `checkFn`, `checkParams`, `checkTable`, `checkProperties` | syntax's tree, which it fills in | refuses exactly what cannot be verified |
| `internal/types` | none | `Named`, `Suggest`, `Parse`, `Value.String`, `Equal` | parse, check, assay | a literal is read as written or refused; equal means equal; a suggestion is the nearest name |
| `internal/diag` | the bag | `Add`, `Merge`, `Items`, `HasErrors`, `Count`, `RenderAll` | all | errors fail a build, notes and warnings do not; all is told, in order |
| `internal/source` | files, the byte offsets of their lines | `New`, `LineText`, `LineSpan`, `Sub` | syntax, diag | a caret stands under what it is about |
| `internal/ast` | the tree | — | all | — (data only) |
| `cmd/dore` | bag, counts, report | `run`, `runCheck`, `runAssay` | all of the above, CI | the exit code's contract |

The README of the repository also names generation, a cache with hallmarks, a
live runtime, property checking, hold-out rows and a language server. There is
no code for them, hence no model.

**Hard behaviours.** Only four places have more than one actor: os/exec's
goroutine, the timer and the child inside `crucible.Run`; the harness and the
implementation, which share one stdout and one process; invocations that share
a directory; and a user or CI that interrupts one of them. Everything else is
sequential Go over data written by a person, where the risk lies in long
legal inputs: lines that join, blocks that end by indentation, an index that
two passes must agree on, and values that cross from a text to Go, to Python and
back. `PROJECT.json` lists each hazard at its line.

## 2. Modules

| module | models | state and actions |
|---|---|---|
| `Crucible` | `crucible.Run` and what surrounds it | `proc`, `descendant`, `expired`, `res`; output as it moves from the program (`written`) through the interpreter (`pybuf`) and the `pipe` into the capped buffer (`stdout`), or gets `discarded` or `lost`. Actions of `Run` (`Start`, `StartFails`, `StartTooLate`, `Return`), of os/exec (`Copy`, `Kill`), of the clock (`Expire`) and of the child (`Write`, `Flush`, `Exit`, `Crash`, `Daemonize`) |
| `Gate` | nothing in the code: the promise of an assay | rows are observed, or claimed by the code under test, which has then itself printed the record that is asked for; a verdict is decided once, green only if every row agreed or was claimed |
| `Assay` | `runFn` with the Python harness as Crucible's child (EXTENDS `Crucible`) | `pc` walks through `Prepare`, `WriteHarness`/`WriteFails`, the run, `Judge`, `Remove`; the harness imports, finds the function or not, and calls row after row (`RunRow`, `RunRowGlued`, `RowLeaves`), and the implementation prints what it likes whenever the process runs (`Noisy`). Two history variables that `runFn` cannot see: `ran`, what really happened on each row, and `printed`, which lines of `written` the implementation wrote itself |
| `Scan` | `scanLines`, `spanAt` | one action per branch of the loop: `Separate`, `Continue`, `OpenLine` |
| `Syntax` | `Parse` (EXTENDS `Scan`: scanning is finished first, as in `Parse`) | one action per turn of `Parse`'s loop and of `parseSections`' loop, each a whole section parser |
| `Source` | `source.File` and `Span`, and the carets `renderLabel` draws | operators: lines, bytes before a place, `LineSpan`, `Sub`, `Carets` |
| `Lexer` | `stripComment`, `parenDelta`, `tokenize` | operators on sequences of runes |
| `TypeNames` | `types.Named`, `Suggest`, `editDistance` | operators; the distance as rows of a table, built one from the two before |
| `Signature` | a file from its runes on: `scanLines` on texts, `parseSignature`, `parseType`, `splitRow` (EXTENDS `Scan`, `Source`, `Lexer`, `TypeNames`) | scanning as in `Scan`, with each line's length, indentation and parentheses computed by `Lexer`; then one logical line a step: `ReadHead`, `NotAHead`, `SplitRow`, `OtherLine` |
| `Literals` | `types.Parse`, `parseScaled`, `checkWidth`, `splitTolerance`, `Value.String`, `Equal` | operators, characters to values and back |
| `Check` | `check.File` (EXTENDS `Literals`) | one declaration per step; what it reports, the bindings and the values it writes |
| `Harness` | `runAssay` → `assay.Run` → the first half of `runFn` and `rowArgs` (EXTENDS `Check`) | after a check without errors, each frozen function is planned: refused, or its calls |
| `Rows` | `Marshal`, the harness reading what it wrote, `_canon` and `runFn`'s reading of that (EXTENDS `Harness`) | `CallRow` with any answer of an implementation, `CallFails`, `HarnessUnreadable`, `HarnessEnds` with the verdicts |
| `Workspace` | the harness files of a directory | any number of invocations, each `Open`, `Write`/`WriteFails`, `Run`, `CleanUp`, and `Killed` at any point |
| `Diag` | the bag: `Merge`, `Items`, `HasErrors`, `Count`, `RenderAll`'s last line | operators on sequences of diagnostics |
| `Dore` | `cmd/dore` and the report's summary (EXTENDS `Diag`) | the arguments refused, files in turn, errors gathered and told, functions assayed, exit |
| `MC*` | — | the instances TLC checks |
| `*Proofs` | — | theorems and proofs |

Beside each action or operator that a mutation replaces stands its faulty form
(`KeptDropsWholeChunk`, `CleanUpNever`, ...): a bug one could make in that code,
which the property must catch. They are used by nothing else.

**How the models meet.** `Assay` extends `Crucible` and adds no step to its
parent side, so what is proved of `Crucible` carries over. `Assay` takes for
granted what `Harness` shows of checked files, and `Check` takes for granted
what `Syntax` proves of parsed ones (`TablesFit`: a table has a row, and rows
have the header's width). `Signature` runs `Scan`'s own actions on the lines of
a text, so what `ScanProofs` shows of them holds there; it makes the `len`,
`indent` and `delta` that `Syntax` takes as given, and the outcomes of
`parseSignature` that are `fault` there. `Rows` makes of two values what `Assay`
calls agreeing, for a child that is not disturbed; `Assay` disturbs it and does
not look into values. `Dore` takes any result `Assay` can give. In `Workspace`
the question is only *whose* harness was run; what Python makes of it is
`Assay`'s.

**Abstractions.** An output line is one element; a line cut in two by the cap
or a lost flush is one that did not arrive, since `runFn` skips what it cannot
decode. In `Assay` a returned value is the value its canonical text denotes, or
`Unparsable`. In `Syntax` a physical source line is a record of the eight facts
the scanner and the parser ask of it; a rune is identified with the place it
stands. Where characters matter (`Literals`, `Rows`, `Signature`) a text is a
sequence of them, each a string; dates are names, of which some are of the year
0, and a float has `FloatPlaces` decimal places, no exponent, and is a number,
infinite or NaN. An implementation may print any line `runFn` can meet
(`HarnessLine`: text, a record of any row or of none, a complaint with a message
or without), at import, in a call or at exit; one that tampers with the
harness's functions or its stdout is, to `runFn`, one that prints what comes out.
What a descendant of it prints is left out. For joined signatures, properties and scenarios `Syntax`
allows every outcome of the inner parser.

## 3. What TLC checks

Deadlock is checked in every run; every module has an explicit final
stuttering action (`Returned`, `Done`, `Ended`, `Stopped`, `Exited`), so a
deadlock would be a state in which the code is stuck.

| run | asks | instance |
|---|---|---|
| `crucible` | is the captured output a prefix, whatever interleaves, and does `Run` return? | 2 kinds of line, 4 written, cap 2, pipe of 2, a descendant that may hold the pipe |
| `assay` | is a green verdict earned or printed, a red one not invented, the file removed? does `runFn` implement `Gate`, and return? | functions of one or two tables and the four that are refused; a value, an error; printed text, the zero record, an empty complaint, and the records three rows ask for, one of them always of a row the function lacks; a limit of 0, which means the default of 2, and 3 lines written |
| `syntax` | do joined lines keep order and place, is anything dropped silently, does anything leak, does `Parse` return? | all files of up to three lines of lengths 1–2, indents 0–1, parentheses −1..2; of up to two lines, and up to three after a declaration, of 16 kinds of line; of up to four lines after a declaration with unbalanced parentheses |
| `harness` | does the check refuse exactly the unverifiable and take numbers as written? is each row called with what its cells mean, and green exactly on the answers it asks for? | every signature of up to two parameters against every header of up to three columns; every two types against every form of two cells; three declarations whose names may clash; as texts of each numeric type everything of up to four characters (ten types and six alphabets in all); one function per result type against every answer, and one per argument type |
| `signature` | is what is accepted what was written, does every caret point, is a suggestion the nearest name? | one declaration in every layout with two gaps changed (comments, tabs, line breaks, carriage returns); with each token missing, doubled or replaced, on one line and on several; a result by every name within one edit of a type's; every row text of up to four characters, on one line and, behind an open parenthesis, over line breaks |
| `workspace` | does an invocation that meets no other run its own harness, and who leaves one behind? | three invocations in one place, one elsewhere that keeps its harness; overlapping or not, killed anywhere |
| `dore` | do the exit code, the diagnostics and the last line tell the truth, in order? | up to three of seven files: valid, live only, empty, two with errors, unreadable, wrongly named |

The rest are the `violation` runs of section 4.

*Why the bounds are enough.* The cap, the pipe and the buffer are each smaller
than what is written, so every way of straddling them occurs; a second table
and a second row are what an index can confuse; joining is decided by the
depth alone, which three lines take through every transition, and a section
ends on the first line that is not deeper, so a declaration, a section, its
lines and a follower are all it can meet. A third overlapping invocation is
needed for a file that is removed and created again while another holds it open.
Names in `harness` are as many as there are roles for a column. `I32Bits` and
`I64Bits` are 4 and 6 there, so that texts of four characters cross both limits
on both sides; the code's arithmetic on them is the same at any width, but that
the two differ. Four characters hold a sign, a point, a digit before and one
after it, and, added by hand, are the longer texts at the precision, the scale
and between −1 and 1. Two decimal places of a float tell the inside, the edge
and the outside of a tolerance apart. In `signature` the constants of the
widths are those of the code and no number is read. What holds for every size
is proved (section 5).

**Fairness.** `FairSpec` of `Crucible` asks that `Run`'s goroutine, os/exec's
copying goroutine and its killer each go on when they can, and that time
passes: the Go scheduler and the timer give that. Nothing is asked of the child
(which may hang, flood or spin) nor of its descendants: `RunReturns` supposes
that none holds the pipe for ever, and without that it is false
(`crucible_hard`); `assay` has no descendants.
`FairAssaySpec` adds that `runFn` itself goes on. `FairSyntaxSpec` asks that
the one goroutine of the parser runs.

## 4. Where the code and its comments part

Each is a `violation` run: the property is the sentence of the comment, and TLC
shows the code doing otherwise.

| run | the comment says | what the code does |
|---|---|---|
| `crucible_hard` | "a hard deadline" | only the child is killed; a descendant that holds its stdout holds `Run` |
| `assay_printed` | "nothing a model wrote can influence the verdict" | `runFn` takes every line of the shared stdout that decodes (assay.go:204-212), so an implementation that prints the records its rows ask for is green, though no row ran |
| `syntax_recover` | one bad declaration does not cascade | after a bad signature without a body the next declaration is skipped |
| `values_float` | "Every row runs even after one fails" | a float input is written with `strconv.FormatFloat(f, 'r', ...)`, which gives `%r`: the harness does not parse, no row is called |
| `workspace_race` | actual values "come from running the code" | two assays of one function in one directory share a file, and one can be judged by the other's implementation |

Other things the models show, where a property of a passing run has to make
room for them:

* `TimedOut` is read from the context after the child has been reaped, so a
  child that ended by itself may be said to have timed out (`Return`).
* Records of rows that completed before a hang are in Python's buffer, which
  dies with it; they are reported as rows that never ran (`lost`; assay.go:234).
* A row that leaves by an exception that is no `Exception` ends the harness, and
  the rows after it never run (`RowLeaves`; python.go:122).
* What `assay_printed` shows is the whole of the exception: a function is green
  without its rows having agreed only where the implementation printed, of each
  row that did not, a line that decodes to the very record asked for
  (`GreenIsEarned`), and a row's Actual is what it did or what was printed of it
  (`ActualIsReal`). Nobody need mean it: a log line in JSON with a key `row`,
  `outcome`, `error` or `repr` is a record too. An object with none of these keys, or `null`, is the zero
  `Result`, which turns the first row red (`Object`); one with a negative table
  fails the function, or, with no message, takes back an earlier failure
  (`Missing`, `Hushed`). Where nothing printed decodes or runs into a record,
  the verdict is exact (`QuietRunJudgedExactly`).
* An unbalanced parenthesis in prose or in a cell joins the lines below it, a
  declaration among them, without a diagnostic (`Continue`; scan.go:94).
* A parameter or result named `note` is accepted by the check and can never be
  run (`NamesNote` in `CleanRuns`).
* A `str` is emitted without quotes (python.go:108-109) and read by `types.Parse`
  as a quoted literal, so a row of a text result is red whatever rightly comes
  back: no function with such a result can pass (`Misread` in `CorrectIsGreen`).
* A `Decimal` that is equal to the expected one is red when Python writes it
  with an exponent or with more places than the type has (`Misread`). A `str`
  counts for the literal it spells, of whatever type (`GreenMeansEqual`).
* A row with a date of the year 0000 raises outside the guarded call and ends
  the harness (`Uncallable`). A text that is no UTF-8 is replaced on its way
  through JSON (`ArgsDenote`).
* `-+5`, a lone `.` and a tolerance that is infinite or no number are literals
  (`Legal`; `Near`).
* `Suggest` has no answer for `Int` or `Bool`, whose distance to a name is zero
  (`SuggestNearest`, first case). It may name `decimal`, which alone is no type.
* Commas between parameters and in `decimal(...)` are optional, and more of them
  are taken (`Bare` in `AcceptedWhole` compares the texts without them); what
  follows the last pipe of a row is dropped (`UpToLastPipe`).
* The span of a whole joined line covers the comment of its first line, and its
  end has the offset of its start (`Points`).
* `dore check` drops the errors gathered so far when a later file cannot be
  read (`CheckUnreadable`; the last clause of `CheckExitTells`).
* `dore assay` does not show the warnings of a specification without errors. A
  file that freezes nothing is assayed with exit code 0 and the warning that
  nothing was assayed; one whose functions all have a problem ends with that
  warning and exit code 1 (`AssayExitTells`).

## 5. What is proved

TLAPS checks these for every value of the constants.

* **AssayProofs**, of `Crucible` — `TypeCorrect`, `StreamConserved`,
  `CaptureCorrect`, `ResultFinal`. `CaptureIsPrefix` is not inductive: that the buffer is a
  prefix of what was written says nothing about what is still in the pipe. The
  invariant is `Conserved`: `written` is, in order, `stdout`, `discarded`,
  `pipe`, `pybuf` and `lost` end to end; lines are discarded only when the
  buffer is full; and the stages a line passes are empty at the times the child
  cannot fill them. Sequence facts (`\o`, `SubSeq`) are lemmas of their own.
* **AssayProofs**, of `Assay` — `AssayTypeCorrect`, `RecordsTrue`, `GateSound`,
  `ActualTrue`, `FileRemoved`, `QuietExact`, `GateRefined`. The chain of the
  first four: a record is written with the row it is of, or by the
  implementation itself, of which `printed` keeps the place (`RecordsAreTrue`);
  the buffer holds only lines that were written (`Conserved`); so what `Judge`
  finds under a row's key is what the row did or what was printed of it
  (`Sourced`), and neither is ever taken back (`HistoryGrows`). Nothing is
  assumed of what is printed but that it is one of the lines `runFn` can meet.
  `FileRemoved` needs `Phases`, which says of each value of `pc`
  what has been written, run and removed by then. `QuietExact` is the converse
  of soundness: nothing lost, discarded, forged or run into means that every row of
  `ran` has its record in `stdout`, so that the row's verdict is what it did.
  `GateRefined` is the safety half of `ImplementsGate`: each step of `Assay` is a
  step of `Gate` under the mapping, or leaves its variables alone: a row's call
  observes it, a printed record of what it expects claims it, `runFn`'s return
  decides.
* **ScanProofs** — what every step of the scanner keeps, whoever runs it
  (`Syntax`, on lines given by their lengths, or `Signature`, on texts). For
  spans the invariant ties each piece to the runes it covers: piece `p` of a line
  covers the offsets from its start, the gaps between pieces are one blank
  (`ScanInv`). For the order of lines it adds that every piece's line lies before
  `n`, the next to be read (`Ordered`).
* **SyntaxProofs** — `ParserTypeCorrect`, `PointerCurrent`, `SpansCorrect`,
  `LinesOrdered`, `NothingDropped`, `TreeNested`, `TablesIndexable`: all the
  safety properties of `syntax`. Those of lines rest on `ScanProofs`. For dropped
  lines the induction is over the parser's steps: each step keeps what it
  passes, or reports the first line it does not keep. For the tree (`Tree`) it
  adds that everything read stands before `pos` (`Rooted`), which is what makes a
  new section follow the ones before; the lines a section takes are indented
  because the loops stop at the first that is not (`SkippedDeeper`,
  `RowsDeeper`).
* **SignatureProofs** — `SuggestsNearest`: the name that is proposed for an
  unknown type is the closest there is. `SuggestNearest` says *close* by what one
  edit can do and not by a table, so that the proof has to show that
  `editDistance` computes it. Three facts on the table of two texts carry that.
  An entry is at most one more than any of the three it is made from, so two
  edits, wherever they are made, come out as at most two (`OneWithin`, `TwoWithin`). An entry
  that is not zero has a way back, along runes the texts share, to the last edit
  (`Backwards`), so an entry of one or two *is* an edit, or two (`TurnBack`,
  `LastEdit`). And an entry is zero only if the texts are one (`NoEditsSame`). The threshold, the
  beginnings and the order of the candidates then decide as the property says.
  That every diagnostic with a proposal was made from its text is an induction
  along the parser, token by token from the last to the first (`TypeRead`,
  `ParamsKnown`, `Sensible`), and the invariant of the file is `SigInv`: the
  scanner's, and that all that was read has sensible diagnostics.

  `AcceptsWhole`: what is accepted is accepted whole. The lexer goes from the
  end of a line to its beginning, and at every rune the tokens found so far
  account for what is left (`Laid`, by `LaidBlank` and `LaidToken`): between two
  of them stand blanks only, so that a line without its blanks and commas is its
  tokens one behind the other (`RestToken`). Each part of the parser then takes
  from that rest what it spells: a type its name, or `decimal` and its arguments
  up to the parenthesis that closes it (`TypeWhole`, `ArgumentsLeft`), a
  parameter its name, a colon and its type (`GivenWhole`), the parameters each
  theirs, whatever the commas (`ParamsWhole`), the result what is behind `->`
  (`ResultWhole`), and without `E0012` nothing is left (`NotTheEnd`). For rows,
  the pipes are found in the order of the text, the first at its beginning
  (`PipesOfRow`), and from each to the next stand a cell and blanks
  (`CellClosed`); with `RowWhole` they add up to the row. The invariant,
  `WholeInv`, adds to `SigInv` that no line of the scanner's is empty, that
  nothing is read before the scan has ended, and that every line read was kept
  (`Keeps`).
* **CaretsProofs** — `CaretsAim`: every caret stands under what it is about, and
  every span of a signature and of a row over its own text. There are three ways
  to say where something is, and the proof goes from one to the next. A token is
  at an offset in the text of its logical line (`Laid`, of `SignatureProofs`).
  Between two pieces of a joined line stands a blank: a token, which has none,
  stands in one piece (`TokenStands`), and the caret of a cell ends with
  the piece its text begins in, if not with the text (`PartDrawn`); the piece
  says line and column. The bytes before
  a line add up whatever the order they are added in (`WeightIs`), so that
  a later column, and a later line, lies at a later byte (`WhereRises`,
  `WhereLater`), and the carets under a part of a line are as wide as the part (`CaretsAre`).
  Along the parser each part then *shows* its spans (`Shows`): they aim, they
  begin at tokens, and the tokens of the next part come later, which is why the
  spans of a declaration are in the order of its text. Of a blank cell the caret
  may be at a join, where there is no rune of the file: then the whole line
  is underlined, from a blank of its indentation (`GapAims`). The
  invariant, `ShownInv`, is `WholeInv` with what `ScanProofs` shows of
  pieces (`AllBuilt`, `Ordered`) and with every line read being as the property
  says (`Shown`).
* **LiteralsProofs** — `WrittenBack`: `Parse` undoes `String` on every value
  that `Parse` yields, of every type, signs, points, escapes, tolerances and
  raises included; and the lemmas on literals, and on sums, that `RowsProofs` and
  `SignatureProofs` rest on.
  Numerals, quoting and powers of ten are recursive functions. The library's
  induction theorems take an operator as a parameter and cannot be used, so
  induction is stated of sets (`NatSetInduction`, `StrongSetInduction`), and
  `Recursion` shows once, of functions that are first-order data (a rank, a
  predecessor, a step), that what a recursive definition asks for exists: then
  it satisfies its equation, and an induction says what it comes to.
* **RowsProofs**, of `Harness` — of the check and of planning:
  * `CleanFilesRun`, `RowsByName`. While the check runs, a declaration without an
    error is one whose tables bind every name of the signature once (`Clean`);
    from that the plan is computed.
  * `RefusesForCause`. That nothing is refused without cause needs the exact
    content of the bag: the invariant `BagExact` says which diagnostics it owes
    each declaration passed (`Owed`), no more and no fewer. The rest is that the
    code's loops over repeated, unknown and missing names decide what
    `Sound` says with cardinalities: names are distinct if and only if their set
    is as large as their sequence is long.
  * `CanonicalTexts`, `NumeralsExact`. The invariant is `FilledInv`: a
    declaration has its columns and values as `Bind` and `CellValue` give
    them, or was not looked into and is blank. The first is then `WrittenBack`.
    For the second, `Said` adds up what each digit counts, in any order, and
    the readers take digits from the left: a sum over a finite set is shown not
    to depend on the element taken first (`SumAny`, of `LiteralsProofs`), and the sum over the first
    `j` digits is what has been read of them, times a power of ten
    (`DigitsSum`). `DigitsAre` and `NumericIs` say where the digits stand in a
    text that `strings.Cut` has taken apart; `NumeralLength` that a number has at
    most `p` digits if and only if it is below ten to the `p`.
* **RowsProofs**, of `Rows` — of what a harness is given and answers:
  * `RowsKeepHarness`: `RowsSpec` implements `HarnessSpec`, so that the theorems
    above hold while harnesses run.
  * `ArgumentsDenote`. The invariant `RowsInv`: every call is of a planned row,
    and a planned row's arguments are what `Marshal` makes of cells that were
    read as values of their parameters' types.
  * `GreenIsEqual`, `RightIsGreen`. The invariant `JudgedInv` adds that a planned
    row expects what a cell was read as, that every call's verdict is a
    judgement of its answer, and that an ended harness has the verdicts of its
    calls and has left a row out only at an answer it could not read or call.
    The lemmas behind: what `_canon` writes of an answer is read, by the parser
    of the expected type, as that answer or not at all (`CanonFaithful`), so a
    row that passes was answered with what it expects (`JudgedGreen`); and a right
    answer that is not one of the misread kinds of section 4 passes
    (`RightPasses`).
* **DoreProofs**, of `Dore` — `ExitCodeTells`, `EverythingTold`, `AssayTells`. `Items` sorts:
  diagnostics have different ranks, so their ranks are their places and the sort
  loses, repeats and swaps none. The bag of several files is a fold; what its recursive function comes to is an induction as in `LiteralsProofs`.
  The rows shown in red are in bijection with those counted as failed. The
  invariant `DoreInv` says what each stage of the command has gathered.
* **DoreProofs**, of `Workspace` — `LastOneCleansUp`, for any number of invocations: the
  invariant names, for each file present, somebody who is still to remove it or
  never will. `AloneRunsItsOwn`: of an invocation that meets no other, the file
  in its place is its own and not one removed since; two that are busy in one
  place have met.

The assumptions are the modules' `ASSUME`s, which TLC evaluates: shapes of the
inputs, caps that are numbers, `Unparsable` not a value. What they ask of values:
cells are sequences of strings; the words that are runes of their own are not
blanks; no date is also a sign, a digit or a truth
value; answers are Python values of the shapes `IsAnswer` lists. What the
theorems on values inherit from the model is that no float is *read* with an
exponent, which `strconv.ParseFloat` would take: a Decimal that Python writes
with one is, in a float's column, refused by the model and read by the code, as
the number it is.

**Only model-checked:** the liveness properties (`RunReturns`, `FnEnds`,
`ParseEnds`) and the liveness that `ImplementsGate` includes: temporal proofs
with fairness are out of the prover's reach. And one property of
`Signature`: `WrittenIsRead` compares with what each input of the instance was
written for, which is a constant and for other inputs could be anything.
Every other property that a passing
run checks is a theorem.

## 6. Not modelled

* Colour, layout and wording: `report.go` below the summary, the frame and
  labels of `diag/render.go`, `describe` of a token, `usage`. They have no state
  and no property that a model would say better than the code.
* stderr of the child and its exit code, which only choose a message; the
  environment handed to Python.
* Labels of scenarios and the text of properties, which nothing reads yet.
* The suggestions of `check`, which only add a line of help, with the distance
  `TypeNames` has.
* A float's exponent and more than `FloatPlaces` places, and the calendar: the
  model trusts `strconv.ParseFloat` and `time.Parse`.

## 7. Plan

Done: Crucible, Assay with Gate, Scan and Syntax, Check and Harness, Workspace,
Dore; values (Literals, Rows); lexing and signatures (Source, Lexer, TypeNames,
Signature); the order of diagnostics (Diag); and the proofs of section 5. Left:

1. **Joined lines** — the outcome of `parseSignature` on a joined line is any in
   `Syntax`, and computed in `Signature`; a refinement from the one to the other
   would tie the two.
2. **Violations** — `EveryRowCalled` under the conditions that make it true.
