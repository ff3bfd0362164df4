------------------------------ MODULE Harness -------------------------------
(***************************************************************************)
(* From a checked file to the calls of its harnesses: runAssay goes on     *)
(* only when the check found no error (cmd/dore/main.go), assay.Run takes  *)
(* the frozen functions in turn, runFn lists a function's rows, and the    *)
(* Python backend marshals each one's arguments (python.go).               *)
(*                                                                         *)
(* It is what Assay takes for granted of a function: what its rows expect, *)
(* and that nothing is refused before a process starts.                    *)
(***************************************************************************)
EXTENDS Check

VARIABLES
  turn,     (* the declaration to prepare next *)
  plans     (* for each declaration, what runFn made of it *)

harnessVars == <<checkVars, turn, plans>>

NoPlan == [problem |-> "not assayed", rows |-> <<>>]
Refuse(problem) == [problem |-> problem, rows |-> <<>>]
Row(args, expected) == [args |-> args, expected |-> expected]

----------------------------------------------------------------------------
Table(d, t) == decls[d].tables[t]
Slots(d) ==
  UNION {{t} \X DOMAIN Table(d, t).rows : t \in DOMAIN decls[d].tables}

(* The output column of a table, the last if there were several. *)
Outputs(d, t) == {i \in DOMAIN columns[d][t] : columns[d][t][i].kind = "output"}
Expected(d, t, r) == values[d][t][r][Max(Outputs(d, t))]

(* rowArgs: the cells under input columns, by name, in the order the       *)
(* signature declares.                                                     *)
Inputs(d, t, n) ==
  {i \in DOMAIN columns[d][t] : columns[d][t][i].kind = "input" /\ Table(d, t).columns[i] = n}
Unmarshalable(d, t, r) ==
  \E i \in DOMAIN columns[d][t] :
    columns[d][t][i].kind = "input" /\ values[d][t][r][i] = NoValue
NoCell(d, t) == \E n \in ParamSet(decls[d]) : Inputs(d, t, n) = {}

ArgsAsWritten(d, t, r) ==
  LET ins == {i \in DOMAIN columns[d][t] : columns[d][t][i].kind = "input"}
  IN [p \in DOMAIN decls[d].params |->
       values[d][t][r][CHOOSE i \in ins : Cardinality({j \in ins : j <= i}) = p]]

Args(d, t, r) ==
  [p \in DOMAIN decls[d].params |->
    values[d][t][r][Max(Inputs(d, t, decls[d].params[p].name))]]

(* The part of runFn before it writes the harness. *)
Plan(d) ==
  IF \E t \in DOMAIN decls[d].tables : Outputs(d, t) = {} THEN Refuse("table has no output column")
  ELSE IF Slots(d) = {} THEN Refuse("no rows to assay")
  ELSE IF \E s \in Slots(d) : Unmarshalable(d, s[1], s[2]) THEN Refuse("unsupported type")
  ELSE IF \E s \in Slots(d) : NoCell(d, s[1]) THEN Refuse("no cell for input")
  ELSE [problem |-> "",
        rows |-> [s \in Slots(d) |-> Row(Args(d, s[1], s[2]), Expected(d, s[1], s[2]))]]

----------------------------------------------------------------------------
HarnessInit ==
  /\ CheckInit
  /\ turn = 1 /\ plans = [d \in DOMAIN decls |-> NoPlan]

Checking == CheckNext /\ UNCHANGED <<turn, plans>>

Assaying == Checked /\ ~HasErrors /\ turn <= Len(decls)

SkipLive ==
  /\ Assaying /\ decls[turn].mode = "live"
  /\ turn' = turn + 1
  /\ UNCHANGED <<checkVars, plans>>

PlanFn ==
  /\ Assaying /\ decls[turn].mode = "frozen"
  /\ plans' = [plans EXCEPT ![turn] = Plan(turn)]
  /\ turn' = turn + 1
  /\ UNCHANGED checkVars

Stopped ==
  /\ Checked /\ (HasErrors \/ turn > Len(decls))
  /\ UNCHANGED harnessVars

HarnessNext == Checking \/ SkipLive \/ PlanFn \/ Stopped
HarnessSpec == HarnessInit /\ [][HarnessNext]_harnessVars

----------------------------------------------------------------------------
(* Properties. *)

(* `note` is reserved: a column of that name is never bound. *)
NamesNote(f) == "note" \in ParamSet(f) \cup {f.result.name}

(* What the check accepts can be run: no function it passed is refused     *)
(* before its rows run, but for one that names an input or its result      *)
(* "note".                                                                 *)
CleanRuns ==
  \A d \in DOMAIN decls :
    d < turn /\ decls[d].mode = "frozen" /\ ~NamesNote(decls[d]) => plans[d].problem = ""

(* Every row is called with its own cells, each read as the parameter its  *)
(* header names, in the order of the signature whatever that of the        *)
(* columns, and is compared with the cell under the result's name, which   *)
(* has a tolerance if it is a float that is returned.                      *)
RowByName(f, t, r, row) ==
  \A i \in DOMAIN t.columns :
    /\ \A p \in DOMAIN f.params :
         f.params[p].name = t.columns[i] =>
           row.args[p] = Parse(t.rows[r][i], f.params[p].type, FALSE)
    /\ t.columns[i] = f.result.name =>
         /\ row.expected = Parse(t.rows[r][i], f.result.type, TRUE)
         /\ f.result.type.kind = "float" => row.expected.tol # NoFloat \/ IsRaise(row.expected)
RowsCallByName ==
  \A d \in DOMAIN decls : \A s \in DOMAIN plans[d].rows :
    RowByName(decls[d], Table(d, s[1]), s[2], plans[d].rows[s])
=============================================================================
