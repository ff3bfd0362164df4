-------------------------------- MODULE Dore --------------------------------
(***************************************************************************)
(* The command (cmd/dore/main.go): `dore check` reads its files one after  *)
(* the other into one bag of diagnostics; `dore assay` refuses a file with *)
(* errors and otherwise assays its frozen functions in turn.  Both tell    *)
(* the user with a report and CI with an exit code.                        *)
(*                                                                         *)
(* Of a source file, whether it can be read, what the parser and the check *)
(* report of it, each in its order (Syntax and Check say what), and its    *)
(* declarations; of one assayed function, any result runFn can give (Assay *)
(* says which).                                                            *)
(***************************************************************************)
EXTENDS Diag

CONSTANTS
  Sources,    (* the files there are *)
  MaxPaths    (* bound: how many of them a command names *)

Reported(s) == Merge(s.parse, s.check)

(* A file without errors has a row for every frozen function: E0101, and   *)
(* TablesFit of Syntax.                                                    *)
ASSUME DoreAssumption ==
  /\ MaxPaths \in Nat
  /\ \A s \in Sources :
       /\ s.dore \in BOOLEAN /\ s.readable \in BOOLEAN
       /\ s.parse \in Seq(Diagnostics) /\ s.check \in Seq(Diagnostics)
       /\ s.decls \in Seq([mode : {"frozen", "live"}, rows : Nat])
       /\ ~HasErrors(Reported(s)) =>
            \A d \in DOMAIN s.decls : s.decls[d].mode = "frozen" => s.decls[d].rows > 0

VARIABLES
  cmd,       (* the arguments: verb, flags, paths and --impl *)
  at,        (* "args", "check", "assay", "fns" or "exited" *)
  turn,      (* the path of a check, the declaration of an assay, to take next *)
  bag,       (* the diagnostics gathered *)
  counts,    (* runCheck's frozen, live and rows *)
  fns,       (* assay.Report.Fns *)
  told,      (* the diagnostics rendered *)
  shown,     (* what the report of an assay shows in red: functions and rows *)
  tally,     (* the last line under the diagnostics *)
  summary,   (* the last line of the report *)
  code       (* the exit code *)

progress == <<turn, bag, counts, fns>>
doreVars == <<cmd, at, progress, told, shown, tally, summary, code>>

OK == 0
Diags == 1
Usage == 2

Silent == [kind |-> "none"]
Paths == UNION {[1 .. n -> Sources] : n \in 0 .. MaxPaths}
Commands ==
  [verb : {"check", "assay", "help", "other"}, flags : BOOLEAN, paths : Paths,
   impl : {"none", "missing", "py", "other"}]

DoreInit ==
  /\ cmd \in Commands /\ at = "args" /\ turn = 1 /\ bag = <<>>
  /\ counts = [frozen |-> 0, live |-> 0, rows |-> 0] /\ fns = <<>>
  /\ told = <<>> /\ shown = {} /\ tally = NoTally /\ summary = Silent /\ code = OK

Exit(c, line) ==
  /\ at' = "exited" /\ code' = c /\ summary' = line
  /\ UNCHANGED <<cmd, progress>>
Quietly == UNCHANGED <<told, shown, tally>>

(* RenderAll. *)
Render(diags) == told' = Items(diags) /\ tally' = Tally(diags) /\ UNCHANGED shown

Continue(where) ==
  /\ at' = where
  /\ UNCHANGED <<cmd, code, summary, told, shown, tally>>

Taken == cmd.paths[turn]
Loads(s) == s.dore /\ s.readable

----------------------------------------------------------------------------
(* run, and what runCheck and runAssay ask of their arguments first. *)

BadArguments ==
  \/ cmd.verb = "other"
  \/ cmd.verb \in {"check", "assay"} /\ ~cmd.flags
  \/ cmd.verb = "check" /\ Len(cmd.paths) = 0
  \/ cmd.verb = "assay" /\ (Len(cmd.paths) # 1 \/ cmd.impl \in {"none", "missing"})

Refuse == at = "args" /\ BadArguments /\ Exit(Usage, Silent) /\ Quietly

Help == at = "args" /\ cmd.verb = "help" /\ Exit(OK, Silent) /\ Quietly

Begin ==
  /\ at = "args" /\ ~BadArguments /\ cmd.verb \in {"check", "assay"}
  /\ Continue(cmd.verb) /\ UNCHANGED progress

----------------------------------------------------------------------------
(* runCheck. *)

Of(decls, mode) == Cardinality({d \in DOMAIN decls : decls[d].mode = mode})
RowsOf(decls) ==
  LET sum[n \in 0 .. Len(decls)] == IF n = 0 THEN 0 ELSE sum[n - 1] + decls[n].rows
  IN sum[Len(decls)]

(* A file that cannot be read ends the run where it stands. *)
CheckUnreadable ==
  /\ at = "check" /\ turn <= Len(cmd.paths) /\ ~Loads(Taken)
  /\ Exit(Usage, Silent) /\ Quietly

CheckFileForgets ==
  /\ at = "check" /\ turn <= Len(cmd.paths) /\ Loads(Taken)
  /\ bag' = Reported(Taken)
  /\ counts' = [frozen |-> counts.frozen + Of(Taken.decls, "frozen"),
                live   |-> counts.live + Of(Taken.decls, "live"),
                rows   |-> counts.rows + RowsOf(Taken.decls)]
  /\ turn' = turn + 1
  /\ Continue("check") /\ UNCHANGED fns

CheckFile ==
  /\ at = "check" /\ turn <= Len(cmd.paths) /\ Loads(Taken)
  /\ bag' = Merge(bag, Reported(Taken))
  /\ counts' = [frozen |-> counts.frozen + Of(Taken.decls, "frozen"),
                live   |-> counts.live + Of(Taken.decls, "live"),
                rows   |-> counts.rows + RowsOf(Taken.decls)]
  /\ turn' = turn + 1
  /\ Continue("check") /\ UNCHANGED fns

CheckReport ==
  /\ at = "check" /\ turn > Len(cmd.paths)
  /\ Render(bag)
  /\ IF HasErrors(bag) THEN Exit(Diags, Silent)
                       ELSE Exit(OK, [kind |-> "ok", counts |-> counts])

----------------------------------------------------------------------------
(* runAssay and assay.Run. *)

SpecFile == cmd.paths[1]
Invalid == HasErrors(Reported(SpecFile))

AssayUnreadable == at = "assay" /\ ~Loads(SpecFile) /\ Exit(Usage, Silent) /\ Quietly

AssayInvalid ==
  /\ at = "assay" /\ Loads(SpecFile) /\ Invalid
  /\ Exit(Diags, Silent) /\ Render(Reported(SpecFile))

NoBackend ==
  /\ at = "assay" /\ Loads(SpecFile) /\ ~Invalid /\ cmd.impl = "other"
  /\ Exit(Usage, Silent) /\ Quietly

AssayBegin ==
  /\ at = "assay" /\ Loads(SpecFile) /\ ~Invalid /\ cmd.impl = "py"
  /\ Continue("fns") /\ UNCHANGED progress

SkipLive ==
  /\ at = "fns" /\ turn <= Len(SpecFile.decls) /\ SpecFile.decls[turn].mode = "live"
  /\ turn' = turn + 1
  /\ Continue("fns") /\ UNCHANGED <<bag, counts, fns>>

(* runFn: a problem and no rows, or a verdict on every row, which failed   *)
(* by its value or by a problem of its own.                                *)
FnResults(d) ==
  {[problem |-> TRUE, rows |-> <<>>]} \cup
  {[problem |-> FALSE, rows |-> rows] : rows \in [1 .. d.rows -> {"passed", "differs", "problem"}]}

AssayFn ==
  /\ at = "fns" /\ turn <= Len(SpecFile.decls) /\ SpecFile.decls[turn].mode = "frozen"
  /\ \E r \in FnResults(SpecFile.decls[turn]) : fns' = Append(fns, r)
  /\ turn' = turn + 1
  /\ Continue("fns") /\ UNCHANGED <<bag, counts>>

(* FnResult.Passed and Counts, Report.Passed and Counts: a row is counted  *)
(* as a function's number and its own.                                     *)
RowsWhere(results) ==
  UNION {{i} \X {k \in DOMAIN fns[i].rows : fns[i].rows[k] \in results} : i \in DOMAIN fns}
PassedRows == Cardinality(RowsWhere({"passed"}))
TotalRows == Cardinality(RowsWhere({"passed", "differs", "problem"}))
PassedOf(r) == Cardinality({i \in DOMAIN r.rows : r.rows[i] = "passed"})
FnPassedRowsOnly(r) == PassedOf(r) = Len(r.rows)
FnPassed(r) == ~r.problem /\ PassedOf(r) = Len(r.rows)
Passed == \A i \in DOMAIN fns : FnPassed(fns[i])

(* renderFn and renderRow: of each function its problem, or its rows that  *)
(* did not pass.                                                           *)
RenderFn(i) ==
  IF fns[i].problem THEN {[fn |-> i, row |-> 0, why |-> "problem"]}
  ELSE {[fn |-> i, row |-> k, why |-> fns[i].rows[k]] :
         k \in {k \in DOMAIN fns[i].rows : fns[i].rows[k] # "passed"}}

(* Renderer.Render's last line. *)
LastLine ==
  IF Passed /\ TotalRows > 0
  THEN [kind |-> "ok", passed |-> PassedRows, total |-> TotalRows, fns |-> Len(fns)]
  ELSE IF TotalRows = 0 THEN [kind |-> "nothing"]
  ELSE [kind |-> "failed", failed |-> TotalRows - PassedRows, total |-> TotalRows]

AssayReport ==
  /\ at = "fns" /\ turn > Len(SpecFile.decls)
  /\ Exit(IF Passed THEN OK ELSE Diags, LastLine)
  /\ shown' = UNION {RenderFn(i) : i \in DOMAIN fns} /\ UNCHANGED <<told, tally>>

----------------------------------------------------------------------------
Exited == at = "exited" /\ UNCHANGED doreVars

DoreNext ==
  \/ Refuse \/ Help \/ Begin
  \/ CheckUnreadable \/ CheckFile \/ CheckReport
  \/ AssayUnreadable \/ AssayInvalid \/ NoBackend \/ AssayBegin
  \/ SkipLive \/ AssayFn \/ AssayReport
  \/ Exited

DoreSpec == DoreInit /\ [][DoreNext]_doreVars

----------------------------------------------------------------------------
(* Properties. *)

ErrorsOf(diags) == {d \in Range(diags) : d.severity = "error"}
Named == Range(cmd.paths)

(* The contract with CI (main.go:43-49).  0 from a check: every file was   *)
(* read and none has an error.  1: every file was read, and all their      *)
(* errors were told.  2: nothing was.                                      *)
CheckExitTells ==
  at = "exited" /\ cmd.verb = "check" =>
    /\ code = OK => \A s \in Named : Loads(s) /\ ErrorsOf(Reported(s)) = {}
    /\ code = Diags => /\ \A s \in Named : Loads(s)
                       /\ ErrorsOf(told) # {}
                       /\ ErrorsOf(told) = UNION {ErrorsOf(Reported(s)) : s \in Named}
    /\ code = Usage => told = <<>> /\ tally = NoTally /\ summary = Silent

AllReported == FlattenSeq([i \in DOMAIN cmd.paths |-> Reported(cmd.paths[i])])
SamePlace(d, e) == d.name = e.name /\ d.offset = e.offset
AboutIt(diags, k) == Cardinality({j \in 1 .. k : SamePlace(diags[j], diags[k])})
Many(diags, severity) == Cardinality({i \in DOMAIN diags : diags[i].severity = severity})

(* A check tells everything it was told, once for each time it was told,   *)
(* in source order whatever order the files, the parser and the check      *)
(* reported it in (diag.go:92); what is about one place stays in the order *)
(* it was reported.  What it says at the end has the right numbers, and    *)
(* says "failed" exactly when the exit code does.                          *)
ToldInOrder ==
  at = "exited" /\ cmd.verb = "check" /\ code # Usage =>
    /\ Len(told) = Len(AllReported)
    /\ \A k \in DOMAIN told : \E i \in DOMAIN AllReported :
         told[k] = AllReported[i] /\ AboutIt(told, k) = AboutIt(AllReported, i)
    /\ \A i \in 2 .. Len(told) :
         /\ told[i - 1].name <= told[i].name
         /\ told[i - 1].name = told[i].name => told[i - 1].offset <= told[i].offset
    /\ tally.kind = "failed" <=> code = Diags
    /\ tally.kind = "failed" => tally.errors = Many(AllReported, "error")
    /\ tally.kind # "none" => tally.warnings = Many(AllReported, "warning")
    /\ tally.kind = "none" => Many(AllReported, "error") + Many(AllReported, "warning") = 0

FrozenDecls == {d \in DOMAIN SpecFile.decls : SpecFile.decls[d].mode = "frozen"}

(* An assay is green when the specification is valid and every frozen      *)
(* function of it passed every row; and only then, but for a file that     *)
(* freezes nothing, does it say so.  When it is not, the report shows what *)
(* failed, and nothing that did not.                                       *)
AssayExitTells ==
  at = "exited" /\ cmd.verb = "assay" =>
    /\ code = OK =>
         /\ Loads(SpecFile) /\ ErrorsOf(Reported(SpecFile)) = {} /\ cmd.impl = "py"
         /\ Len(fns) = Cardinality(FrozenDecls)
         /\ \A i \in DOMAIN fns : ~fns[i].problem /\ Range(fns[i].rows) = {"passed"}
    /\ summary.kind = "ok" <=> code = OK /\ FrozenDecls # {}
    /\ code = Diags <=> ErrorsOf(told) # {} \/ shown # {}
    /\ summary.kind = "failed" =>
         summary.failed = Cardinality({line \in shown : line.row > 0})
=============================================================================
