------------------------------- MODULE Check --------------------------------
(***************************************************************************)
(* check.File (internal/check/check.go): each declaration of a parsed file *)
(* is checked in turn, which fills in what each table column is bound to   *)
(* and the value of each cell.  Of a diagnostic, its code and the          *)
(* declaration it is about are kept; a cell is its literal's text.         *)
(***************************************************************************)
EXTENDS Literals, FiniteSets

CONSTANT Files    (* the parsed files, each a sequence of declarations *)

(* What syntax.Parse puts in an ast.File: a table has a row, and its rows  *)
(* are as wide as its header (TablesFit of Syntax).                        *)
WellFormedTable(t) ==
  /\ t.columns \in Seq(STRING)
  /\ Len(t.rows) \in Nat \ {0} /\ DOMAIN t.rows = 1 .. Len(t.rows)
  /\ \A r \in DOMAIN t.rows : DOMAIN t.rows[r] = DOMAIN t.columns
  /\ \A r \in DOMAIN t.rows : \A i \in DOMAIN t.columns : t.rows[r][i] \in Seq(STRING)

WellFormedFn(f) ==
  /\ f.name \in STRING /\ f.mode \in {"frozen", "live"}
  /\ f.result \in [name : STRING, type : Type]
  /\ f.params \in Seq([name : STRING, type : Type])
  /\ f.properties \in Seq(STRING)
  /\ Len(f.tables) \in Nat /\ DOMAIN f.tables = 1 .. Len(f.tables)
  /\ \A t \in DOMAIN f.tables : WellFormedTable(f.tables[t])

ASSUME CheckAssumption ==
  \A file \in Files :
    /\ Len(file) \in Nat /\ DOMAIN file = 1 .. Len(file)
    /\ \A d \in DOMAIN file : WellFormedFn(file[d])

VARIABLES
  decls,     (* ast.File.Decls, without what check.File fills in *)
  next,      (* the declaration to check next *)
  bag,       (* the diagnostics: [code, decl] *)
  columns,   (* ast.Column.Kind and Type, for each column of each table *)
  values     (* ast.Cell.Value, for each cell of each row of each table *)

checkVars == <<decls, next, bag, columns, values>>

Unresolved == [kind |-> "unresolved", type |-> Invalid]
Diagnostic(code, d) == [code |-> code, decl |-> d]
When(code, reported) == IF reported THEN {code} ELSE {}

----------------------------------------------------------------------------
(* The signature: checkParams, and the type poisoned by parseType. *)

Repeats(names, i) == \E j \in 1 .. i - 1 : names[j] = names[i]

ParamNames(f) == [i \in DOMAIN f.params |-> f.params[i].name]
ParamSet(f) == {f.params[i].name : i \in DOMAIN f.params}

ShadowsResult(f, i) == ~Repeats(ParamNames(f), i) /\ f.params[i].name = f.result.name

ParamCodes(f) ==
  When("E0102", \E i \in DOMAIN f.params : Repeats(ParamNames(f), i)) \cup
  When("E0103", \E i \in DOMAIN f.params : ShadowsResult(f, i))

UnknownType(f) ==
  f.result.type = Invalid \/ \E i \in DOMAIN f.params : f.params[i].type = Invalid

----------------------------------------------------------------------------
(* checkTable. *)

(* byName: of parameters that share a name, the last one's type. *)
TypeOfParam(f, n) ==
  f.params[CHOOSE i \in DOMAIN f.params :
             /\ f.params[i].name = n
             /\ \A j \in DOMAIN f.params : f.params[j].name = n => j <= i].type

(* What a column binds to; one whose name has been met binds to nothing. *)
Bind(f, t, i) ==
  LET n == t.columns[i] IN
  IF Repeats(t.columns, i) THEN Unresolved
  ELSE IF n = "note" THEN [kind |-> "note", type |-> Invalid]
  ELSE IF n = f.result.name THEN [kind |-> "output", type |-> f.result.type]
  ELSE IF n \in ParamSet(f) THEN [kind |-> "input", type |-> TypeOfParam(f, n)]
  ELSE Unresolved

MissingInputs(f, t) == ParamSet(f) \ {t.columns[i] : i \in DOMAIN t.columns}
Missing(f, t) == (ParamSet(f) \cup {f.result.name}) \ {t.columns[i] : i \in DOMAIN t.columns}

Parses(cell, type, expected) == Parse(cell, type, expected) # NoValue

(* A cell is parsed when its column is bound to a known type; one that is  *)
(* refused keeps the zero value.                                           *)
Typed(b) == b.kind \in {"input", "output"} /\ b.type # Invalid
Refused(f, t, r, i) ==
  LET b == Bind(f, t, i)
  IN Typed(b) /\ ~Parses(t.rows[r][i], b.type, b.kind = "output")
CellValue(f, t, r, i) ==
  LET b == Bind(f, t, i)
  IN IF Typed(b) THEN Parse(t.rows[r][i], b.type, b.kind = "output") ELSE NoValue

TableCodes(f, t) ==
  When("E0104", \E i \in DOMAIN t.columns : Repeats(t.columns, i)) \cup
  When("E0105", \E i \in DOMAIN t.columns :
                  ~Repeats(t.columns, i) /\ Bind(f, t, i).kind = "unresolved") \cup
  When("E0106", Missing(f, t) # {}) \cup
  When("E0107", \E r \in DOMAIN t.rows : \E i \in DOMAIN t.columns : Refused(f, t, r, i))

----------------------------------------------------------------------------
(* checkFn, checkProperties, and File's loop. *)

PropertyRepeats(f, i) == f.properties[i] # "" /\ Repeats(f.properties, i)

FnCodes(f) ==
  ParamCodes(f) \cup
  When("E0101", f.mode = "frozen" /\ Len(f.tables) = 0) \cup
  When("N0001", f.mode = "live" /\ Len(f.tables) > 0) \cup
  When("E0108", \E i \in DOMAIN f.properties : PropertyRepeats(f, i)) \cup
  UNION {TableCodes(f, f.tables[t]) : t \in DOMAIN f.tables}

(* What syntax.Parse hands over: no column is bound, no cell has a value,  *)
(* and an unknown type has been reported.                                  *)
CheckInit ==
  /\ decls \in Files /\ next = 1
  /\ bag = {Diagnostic("E0015", d) : d \in {e \in DOMAIN decls : UnknownType(decls[e])}}
  /\ columns = [d \in DOMAIN decls |-> [t \in DOMAIN decls[d].tables |->
                 [i \in DOMAIN decls[d].tables[t].columns |-> Unresolved]]]
  /\ values = [d \in DOMAIN decls |-> [t \in DOMAIN decls[d].tables |->
                [r \in DOMAIN decls[d].tables[t].rows |->
                  [i \in DOMAIN decls[d].tables[t].columns |-> NoValue]]]]

RedeclaresLast(d) == d > 1 /\ decls[d - 1].name = decls[d].name
Redeclares(d) == \E e \in 1 .. d - 1 : decls[e].name = decls[d].name

Checked == next > Len(decls)

(* A redeclaration is reported, and not looked into. *)
Redeclared ==
  /\ ~Checked /\ Redeclares(next)
  /\ bag' = bag \cup {Diagnostic("E0100", next)}
  /\ next' = next + 1
  /\ UNCHANGED <<decls, columns, values>>

CheckFn ==
  /\ ~Checked /\ ~Redeclares(next)
  /\ LET f == decls[next] IN
       /\ bag' = bag \cup {Diagnostic(c, next) : c \in FnCodes(f)}
       /\ columns' = [columns EXCEPT ![next] = [t \in DOMAIN f.tables |->
                       [i \in DOMAIN f.tables[t].columns |-> Bind(f, f.tables[t], i)]]]
       /\ values' = [values EXCEPT ![next] = [t \in DOMAIN f.tables |->
                      [r \in DOMAIN f.tables[t].rows |->
                        [i \in DOMAIN f.tables[t].columns |-> CellValue(f, f.tables[t], r, i)]]]]
  /\ next' = next + 1
  /\ UNCHANGED decls

(* diag.Bag.HasErrors: a note fails nothing. *)
HasErrors == \E x \in bag : x.code # "N0001"

CheckNext == Redeclared \/ CheckFn

----------------------------------------------------------------------------
(* Properties. *)

(* What a text says, digit by digit: after a sign, digits with at most one *)
(* point.  The digit at i counts 10^(scale + its distance to the point).   *)
SignLength(s) ==
  IF SubSeq(s, 1, Min({2, Len(s)})) = <<"-", "+">> THEN 2
  ELSE IF HasPrefix(s, "-") \/ HasPrefix(s, "+") THEN 1 ELSE 0
DigitPlaces(s) == {i \in DOMAIN s : IsDigit(s[i])}
PointPlaces(s) == {i \in DOMAIN s : s[i] = "."}
PointAt(s) == Min(PointPlaces(s) \cup {Len(s) + 1})
Places(s) == Len(s) - Min({PointAt(s), Len(s)})
Weight(s, i, scale) == IF i < PointAt(s) THEN scale + PointAt(s) - 1 - i ELSE scale - (i - PointAt(s))
Said(s, scale) ==
  LET size == MapThenSumSet(LAMBDA i : DigitValue(s[i]) * PowerOfTen(Weight(s, i, scale)), DigitPlaces(s))
  IN IF HasPrefix(s, "-") THEN -size ELSE size
Numeric(s) ==
  /\ SignLength(s) < Len(s) /\ Cardinality(PointPlaces(s)) <= 1
  /\ DOMAIN s = 1 .. SignLength(s) \cup DigitPlaces(s) \cup PointPlaces(s)

(* Which numerals a type has.  Two signs, and a point without digits       *)
(* before or after it, are read as well.                                   *)
Legal(s, type) ==
  /\ Numeric(s)
  /\ type.kind \in Integral => PointPlaces(s) = {} /\ SignLength(s) < 2
  /\ type.kind = "i32" => Said(s, 0) \in -(2 ^ (I32Bits - 1)) .. 2 ^ (I32Bits - 1) - 1
  /\ type.kind = "i64" => Said(s, 0) \in -(2 ^ (I64Bits - 1)) .. 2 ^ (I64Bits - 1) - 1
  /\ type.kind \in Scaled => Places(s) <= type.scale /\ (DigitPlaces(s) # {} \/ type.scale > 0)
  /\ type.kind = "decimal" => Magnitude(Said(s, type.scale)) < PowerOfTen(type.precision)

(* A number is taken exactly as written or refused, never rounded, cut or  *)
(* wrapped ("silently rounding a spec's own literal would make the         *)
(* touchstone lie", value.go:205-206): the numerals of an exact type are   *)
(* those it can hold, and stand for what their digits say.                 *)
LiteralsExact ==
  \A d \in 1 .. next - 1 : \A t \in DOMAIN columns[d] : \A i \in DOMAIN columns[d][t] :
    LET b == columns[d][t][i] IN
    Typed(b) /\ b.type.kind \in Integral \cup Scaled =>
      \A r \in DOMAIN values[d][t] :
        LET s == Trim(decls[d].tables[t].rows[r][i])
            v == values[d][t][r][i]
        IN /\ v # NoValue <=> Legal(s, b.type) \/ (IsRaise(v) /\ b.kind = "output")
           /\ v # NoValue /\ ~IsRaise(v) =>
                v.int = Said(s, IF b.type.kind \in Scaled THEN b.type.scale ELSE 0)

(* The canonical form of a value ("what the spec hash sees", value.go:     *)
(* 29-30) is a literal of its type that stands for that value and no       *)
(* other: two cells that differ in value differ in it.                     *)
CanonicalText ==
  \A d \in 1 .. next - 1 : \A t \in DOMAIN columns[d] : \A i \in DOMAIN columns[d][t] :
    LET b == columns[d][t][i] IN
    \A r \in DOMAIN values[d][t] :
      LET v == values[d][t][r][i]
      IN v # NoValue => Parse(String(v), b.type, b.kind = "output") = v

(* What a table must be for its rows to be run, whatever finds it out: its *)
(* columns but for notes are exactly the signature's names, each once, and *)
(* every cell is a literal of its column's type.                           *)
Usable(f, t) ==
  LET named == {i \in DOMAIN t.columns : t.columns[i] # "note"}
      names == ParamSet(f) \cup {f.result.name}
  IN /\ Cardinality(DOMAIN t.columns) = Cardinality({t.columns[i] : i \in DOMAIN t.columns})
     /\ {t.columns[i] : i \in named} = names \ {"note"}
     /\ "note" \in names => named # DOMAIN t.columns
     /\ \A r \in DOMAIN t.rows : \A i \in named :
          \/ t.columns[i] = f.result.name /\ Parses(t.rows[r][i], f.result.type, TRUE)
          \/ \E p \in DOMAIN f.params : /\ f.params[p].name = t.columns[i]
                                        /\ Parses(t.rows[r][i], f.params[p].type, FALSE)

(* The check refuses a function when, and only when, it is not one that    *)
(* can be verified: names that clash, a frozen function without a table,   *)
(* an unusable table.  Nothing is refused for what another function of the *)
(* file says, its name apart.                                              *)
Sound(f) ==
  /\ Cardinality(ParamSet(f) \cup {f.result.name}) = Len(f.params) + 1
  /\ ~UnknownType(f)
  /\ f.mode = "frozen" => Len(f.tables) > 0
  /\ \A i, j \in DOMAIN f.properties : f.properties[i] = f.properties[j] => i = j \/ f.properties[i] = ""
  /\ \A t \in DOMAIN f.tables : Usable(f, f.tables[t])

RefusedForCause ==
  \A d \in 1 .. next - 1 :
    (\A x \in bag : x.decl = d => x.code = "N0001") <=>
      Sound(decls[d]) /\ \A e \in 1 .. d - 1 : decls[e].name # decls[d].name
=============================================================================
