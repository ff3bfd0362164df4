----------------------------- MODULE RowsProofs -----------------------------
(***************************************************************************)
(* Proofs about Harness and about Rows, which extends it, for every file,  *)
(* whatever the order of its columns.  First the generated file: what      *)
(* check.File accepts is what can be verified, assay.runFn can run it and  *)
(* runs it by name; a cell is taken as what its digits say, and its value  *)
(* is written as the literal it is read from.  Then its rows, for every    *)
(* answer and every way the harness may write it: the call of a row means  *)
(* what its cells mean, and the row is green for an answer that is what it *)
(* expects and, but for answers that are misread, for no other.            *)
(***************************************************************************)
EXTENDS Rows, LiteralsProofs

(* The errors of a declaration, as the code adds them to the bag. *)
Clean(f) == FnCodes(f) \subseteq {"N0001"} /\ ~UnknownType(f)

Unrepeated(names) == \A i \in DOMAIN names : ~Repeats(names, i)

(* What a set of diagnostics without errors says of each check. *)
LEMMA WhenClean ==
  ASSUME NEW code, NEW reported \in BOOLEAN, code # "N0001", When(code, reported) \subseteq {"N0001"}
  PROVE  ~reported
BY DEF When

(* Of a clean table, its header and its cells. *)
LEMMA CleanTable ==
  ASSUME NEW f, NEW t, TableCodes(f, t) \subseteq {"N0001"}
  PROVE  /\ Unrepeated(t.columns)
         /\ \A i \in DOMAIN t.columns : Bind(f, t, i).kind # "unresolved"
         /\ ParamSet(f) \cup {f.result.name} \subseteq {t.columns[i] : i \in DOMAIN t.columns}
         /\ \A r \in DOMAIN t.rows : \A i \in DOMAIN t.columns : ~Refused(f, t, r, i)
<1> DEFINE dup == \E i \in DOMAIN t.columns : Repeats(t.columns, i)
           loose == \E i \in DOMAIN t.columns :
                      ~Repeats(t.columns, i) /\ Bind(f, t, i).kind = "unresolved"
           lacking == Missing(f, t) # {}
           refused == \E r \in DOMAIN t.rows : \E i \in DOMAIN t.columns : Refused(f, t, r, i)
<1>1. /\ When("E0104", dup) \subseteq {"N0001"} /\ When("E0105", loose) \subseteq {"N0001"}
      /\ When("E0106", lacking) \subseteq {"N0001"} /\ When("E0107", refused) \subseteq {"N0001"}
  BY DEF TableCodes
<1>2. dup \in BOOLEAN /\ loose \in BOOLEAN /\ lacking \in BOOLEAN /\ refused \in BOOLEAN
  OBVIOUS
<1> HIDE DEF dup, loose, lacking, refused
<1>3. ~dup
  BY <1>1, <1>2, WhenClean
<1>4. ~loose
  BY <1>1, <1>2, WhenClean
<1>5. ~lacking
  BY <1>1, <1>2, WhenClean
<1>6. ~refused
  BY <1>1, <1>2, WhenClean
<1>7. Unrepeated(t.columns)
  BY <1>3 DEF dup, Unrepeated
<1>8. \A i \in DOMAIN t.columns : Bind(f, t, i).kind # "unresolved"
  BY <1>4, <1>7 DEF loose, Unrepeated
<1>9. ParamSet(f) \cup {f.result.name} \subseteq {t.columns[i] : i \in DOMAIN t.columns}
  BY <1>5 DEF lacking, Missing
<1>10. \A r \in DOMAIN t.rows : \A i \in DOMAIN t.columns : ~Refused(f, t, r, i)
  BY <1>6 DEF refused
<1> QED BY <1>7, <1>8, <1>9, <1>10

(* Of a clean declaration, its signature. *)
LEMMA CleanSignature ==
  ASSUME NEW f, FnCodes(f) \subseteq {"N0001"}
  PROVE  /\ Unrepeated(ParamNames(f))
         /\ \A i \in DOMAIN f.params : f.params[i].name # f.result.name
         /\ f.mode = "frozen" => Len(f.tables) # 0
         /\ \A t \in DOMAIN f.tables : TableCodes(f, f.tables[t]) \subseteq {"N0001"}
<1> DEFINE dup == \E i \in DOMAIN f.params : Repeats(ParamNames(f), i)
           shadow == \E i \in DOMAIN f.params : ShadowsResult(f, i)
           bare == f.mode = "frozen" /\ Len(f.tables) = 0
<1>1. /\ When("E0102", dup) \subseteq {"N0001"} /\ When("E0103", shadow) \subseteq {"N0001"}
      /\ When("E0101", bare) \subseteq {"N0001"}
      /\ UNION {TableCodes(f, f.tables[t]) : t \in DOMAIN f.tables} \subseteq {"N0001"}
  BY DEF FnCodes, ParamCodes
<1>2. dup \in BOOLEAN /\ shadow \in BOOLEAN /\ bare \in BOOLEAN
  OBVIOUS
<1>3. \A t \in DOMAIN f.tables : TableCodes(f, f.tables[t]) \subseteq {"N0001"}
  BY <1>1
<1> HIDE DEF dup, shadow, bare
<1>4. ~dup
  BY <1>1, <1>2, WhenClean
<1>5. ~shadow
  BY <1>1, <1>2, WhenClean
<1>6. ~bare
  BY <1>1, <1>2, WhenClean
<1>7. Unrepeated(ParamNames(f))
  BY <1>4 DEF dup, Unrepeated, ParamNames
<1>8. \A i \in DOMAIN f.params : f.params[i].name # f.result.name
  BY <1>4, <1>5 DEF dup, shadow, ShadowsResult
<1> QED BY <1>3, <1>6, <1>7, <1>8 DEF bare

(* Names none of which repeats an earlier one are distinct. *)
LEMMA Distinct ==
  ASSUME NEW n \in Nat, NEW names, DOMAIN names = 1 .. n, Unrepeated(names)
  PROVE  \A i, j \in DOMAIN names : names[i] = names[j] => i = j
BY DEF Unrepeated, Repeats

(* The greatest of one number is it. *)
LEMMA MaxOfOne ==
  ASSUME NEW i \in Nat PROVE Max({i}) = i
BY DEF Max

----------------------------------------------------------------------------
(* What check.File leaves in the tree of a declaration it looked into. *)
BoundColumns(f) ==
  [t \in DOMAIN f.tables |->
    [i \in DOMAIN f.tables[t].columns |-> Bind(f, f.tables[t], i)]]
BoundValues(f) ==
  [t \in DOMAIN f.tables |->
    [r \in DOMAIN f.tables[t].rows |->
      [i \in DOMAIN f.tables[t].columns |-> CellValue(f, f.tables[t], r, i)]]]
BoundAs(d) ==
  columns[d] = BoundColumns(decls[d]) /\ values[d] = BoundValues(decls[d])

(* A parameter of a clean declaration has a known type. *)
LEMMA ParamTyped ==
  ASSUME NEW f, WellFormedFn(f), Clean(f), NEW n \in ParamSet(f)
  PROVE  /\ TypeOfParam(f, n) # Invalid
         /\ \A p \in DOMAIN f.params : f.params[p].name = n => TypeOfParam(f, n) = f.params[p].type
<1>1. /\ DOMAIN f.params = 1 .. Len(f.params) /\ Len(f.params) \in Nat
      /\ Unrepeated(ParamNames(f)) /\ DOMAIN ParamNames(f) = DOMAIN f.params
  <2>1. f.params \in Seq([name : STRING, type : Type])
    BY DEF WellFormedFn
  <2>2. \A S : f.params \in Seq(S) => DOMAIN f.params = 1 .. Len(f.params) /\ Len(f.params) \in Nat
    OBVIOUS
  <2>3. Unrepeated(ParamNames(f))
    BY CleanSignature DEF Clean
  <2> QED BY <2>1, <2>2, <2>3 DEF ParamNames
<1>2. \A i, j \in DOMAIN f.params : f.params[i].name = f.params[j].name => i = j
  BY <1>1, Distinct DEF ParamNames
<1>3. PICK i \in DOMAIN f.params : f.params[i].name = n
  BY DEF ParamSet
<1>4. \A j \in DOMAIN f.params : f.params[j].name = n => j <= i
  BY <1>1, <1>2, <1>3
<1> DEFINE k == CHOOSE j \in DOMAIN f.params :
                  /\ f.params[j].name = n
                  /\ \A m \in DOMAIN f.params : f.params[m].name = n => m <= j
<1>5. k \in DOMAIN f.params
  BY <1>3, <1>4
<1>6. f.params[k].type # Invalid
  BY <1>5 DEF Clean, UnknownType
<1>7. f.params[k].name = n
  BY <1>3, <1>4
<1> HIDE DEF k
<1>8. \A p \in DOMAIN f.params : f.params[p].name = n => p = k
  BY <1>2, <1>5, <1>7
<1>9. TypeOfParam(f, n) = f.params[k].type
  BY DEF TypeOfParam, k
<1> QED BY <1>6, <1>8, <1>9

(* The value of a cell is that of its text in the column's type. *)
IsParsed(f, T, r, i) ==
  LET b == Bind(f, T, i) IN
  /\ CellValue(f, T, r, i) = Parse(T.rows[r][i], b.type, b.kind = "output")
  /\ CellValue(f, T, r, i) # NoValue

(* The columns of a clean table: one for the result, one for each input,   *)
(* whose cells have been parsed.                                           *)
LEMMA CleanColumns ==
  ASSUME NEW f, WellFormedFn(f), Clean(f), ~NamesNote(f), NEW t \in DOMAIN f.tables
  PROVE  LET T == f.tables[t] IN
         /\ DOMAIN T.columns \subseteq Nat
         /\ \A i, j \in DOMAIN T.columns : T.columns[i] = T.columns[j] => i = j
         /\ \A n \in ParamSet(f) \cup {f.result.name} : \E i \in DOMAIN T.columns : T.columns[i] = n
         /\ f.result.name \notin ParamSet(f)
         /\ \A i \in DOMAIN T.columns :
              /\ Bind(f, T, i).kind = "output" <=> T.columns[i] = f.result.name
              /\ Bind(f, T, i).kind = "input" <=> T.columns[i] \in ParamSet(f)
              /\ T.columns[i] = f.result.name => Bind(f, T, i).type = f.result.type
              /\ \A p \in DOMAIN f.params :
                   f.params[p].name = T.columns[i] => Bind(f, T, i).type = f.params[p].type
              /\ \A r \in DOMAIN T.rows :
                   T.columns[i] \in ParamSet(f) \cup {f.result.name} => IsParsed(f, T, r, i)
<1> DEFINE T == f.tables[t]
<1>1. WellFormedTable(T) /\ TableCodes(f, T) \subseteq {"N0001"}
  BY CleanSignature DEF Clean, WellFormedFn
<1>2. DOMAIN T.columns = 1 .. Len(T.columns) /\ Len(T.columns) \in Nat
  BY <1>1 DEF WellFormedTable
<1>3. /\ Unrepeated(T.columns)
      /\ ParamSet(f) \cup {f.result.name} \subseteq {T.columns[i] : i \in DOMAIN T.columns}
      /\ \A r \in DOMAIN T.rows : \A i \in DOMAIN T.columns : ~Refused(f, T, r, i)
  BY <1>1, CleanTable
<1>4. f.result.name \notin ParamSet(f)
  BY CleanSignature DEF Clean, ParamSet
<1> HIDE DEF T
<1>5. \A i, j \in DOMAIN T.columns : T.columns[i] = T.columns[j] => i = j
  BY <1>2, <1>3, Distinct
<1>6. \A n \in ParamSet(f) \cup {f.result.name} : \E i \in DOMAIN T.columns : T.columns[i] = n
  BY <1>3
<1>7. ASSUME NEW i \in DOMAIN T.columns
      PROVE  /\ Bind(f, T, i).kind = "output" <=> T.columns[i] = f.result.name
             /\ Bind(f, T, i).kind = "input" <=> T.columns[i] \in ParamSet(f)
             /\ T.columns[i] \in ParamSet(f) \cup {f.result.name} => Typed(Bind(f, T, i))
             /\ T.columns[i] = f.result.name => Bind(f, T, i).type = f.result.type
             /\ \A p \in DOMAIN f.params :
                  f.params[p].name = T.columns[i] => Bind(f, T, i).type = f.params[p].type
  <2>1. ~Repeats(T.columns, i)
    BY <1>3 DEF Unrepeated
  <2>2. CASE T.columns[i] = f.result.name
    <3>1. T.columns[i] # "note"
      BY <2>2 DEF NamesNote
    <3>2. Bind(f, T, i) = [kind |-> "output", type |-> f.result.type]
      BY <2>1, <2>2, <3>1 DEF Bind
    <3>3. f.result.type # Invalid
      BY DEF Clean, UnknownType
    <3>4. \A p \in DOMAIN f.params : f.params[p].name # T.columns[i]
      BY <1>4, <2>2 DEF ParamSet
    <3> QED BY <1>4, <2>2, <3>2, <3>3, <3>4 DEF Typed
  <2>3. CASE T.columns[i] # f.result.name /\ T.columns[i] \in ParamSet(f)
    <3>1. T.columns[i] # "note"
      BY <2>3 DEF NamesNote
    <3>2. Bind(f, T, i) = [kind |-> "input", type |-> TypeOfParam(f, T.columns[i])]
      BY <2>1, <2>3, <3>1 DEF Bind
    <3>3. /\ TypeOfParam(f, T.columns[i]) # Invalid
          /\ \A p \in DOMAIN f.params :
               f.params[p].name = T.columns[i] => TypeOfParam(f, T.columns[i]) = f.params[p].type
      BY <2>3, ParamTyped
    <3> QED BY <2>3, <3>2, <3>3 DEF Typed
  <2>4. CASE T.columns[i] # f.result.name /\ T.columns[i] \notin ParamSet(f)
    <3>1. Bind(f, T, i).kind \in {"note", "unresolved"}
      BY <2>1, <2>4 DEF Bind, Unresolved
    <3>2. \A p \in DOMAIN f.params : f.params[p].name # T.columns[i]
      BY <2>4 DEF ParamSet
    <3> QED BY <2>4, <3>1, <3>2
  <2> QED BY <2>2, <2>3, <2>4
<1>8. ASSUME NEW i \in DOMAIN T.columns, NEW r \in DOMAIN T.rows,
             T.columns[i] \in ParamSet(f) \cup {f.result.name}
      PROVE  IsParsed(f, T, r, i)
  <2>1. Typed(Bind(f, T, i)) /\ ~Refused(f, T, r, i)
    BY <1>3, <1>7, <1>8
  <2> QED BY <2>1 DEF IsParsed, CellValue, Refused, Parses
<1> QED BY <1>2, <1>4, <1>5, <1>6, <1>7, <1>8 DEF T

(* Each table of a clean declaration: which columns runFn and rowArgs find. *)
LEMMA FoundColumns ==
  ASSUME NEW d \in DOMAIN decls, WellFormedFn(decls[d]), Clean(decls[d]), ~NamesNote(decls[d]),
         BoundAs(d), NEW t \in DOMAIN decls[d].tables
  PROVE  LET T == decls[d].tables[t] IN
         /\ Outputs(d, t) # {}
         /\ \A i \in DOMAIN T.columns :
              /\ T.columns[i] = decls[d].result.name => Outputs(d, t) = {i}
              /\ T.columns[i] \in ParamSet(decls[d]) => Inputs(d, t, T.columns[i]) = {i}
         /\ ~NoCell(d, t)
         /\ \A r \in DOMAIN T.rows : ~Unmarshalable(d, t, r)
<1> DEFINE f == decls[d]
           T == f.tables[t]
           Cols == columns[d][t]
<1>1. Cols = [i \in DOMAIN T.columns |-> Bind(f, T, i)]
  BY DEF BoundAs, BoundColumns, BoundValues
<1>2. \A r \in DOMAIN T.rows : \A i \in DOMAIN T.columns : values[d][t][r][i] = CellValue(f, T, r, i)
  BY DEF BoundAs, BoundColumns, BoundValues
<1>3. /\ \A i, j \in DOMAIN T.columns : T.columns[i] = T.columns[j] => i = j
      /\ \A n \in ParamSet(f) \cup {f.result.name} : \E i \in DOMAIN T.columns : T.columns[i] = n
      /\ \A i \in DOMAIN T.columns :
           /\ Bind(f, T, i).kind = "output" <=> T.columns[i] = f.result.name
           /\ Bind(f, T, i).kind = "input" <=> T.columns[i] \in ParamSet(f)
           /\ \A r \in DOMAIN T.rows :
                T.columns[i] \in ParamSet(f) \cup {f.result.name} => CellValue(f, T, r, i) # NoValue
  BY CleanColumns DEF IsParsed
<1>4. Outputs(d, t) = {i \in DOMAIN T.columns : T.columns[i] = f.result.name}
  <2>1. Outputs(d, t) = {i \in DOMAIN Cols : Cols[i].kind = "output"}
    BY DEF Outputs
  <2> HIDE DEF T, f, Cols
  <2> QED BY <1>1, <1>3, <2>1
<1>5. \A n : Inputs(d, t, n) =
              {i \in DOMAIN T.columns : T.columns[i] \in ParamSet(f) /\ T.columns[i] = n}
  <2>1. \A n : Inputs(d, t, n) = {i \in DOMAIN Cols : Cols[i].kind = "input" /\ T.columns[i] = n}
    BY DEF Inputs, Table
  <2> HIDE DEF T, f, Cols
  <2> QED BY <1>1, <1>3, <2>1
<1>6. \A r \in DOMAIN T.rows : ~Unmarshalable(d, t, r)
  <2>1. \A r : Unmarshalable(d, t, r) <=>
          \E i \in DOMAIN Cols : Cols[i].kind = "input" /\ values[d][t][r][i] = NoValue
    BY DEF Unmarshalable
  <2> HIDE DEF T, f, Cols
  <2> QED BY <1>1, <1>2, <1>3, <2>1
<1>7. NoCell(d, t) <=> \E n \in ParamSet(f) : Inputs(d, t, n) = {}
  BY DEF NoCell
<1> HIDE DEF T, f, Cols
<1>8. Outputs(d, t) # {} /\ ~NoCell(d, t)
  BY <1>3, <1>4, <1>5, <1>7
<1>9. \A i \in DOMAIN T.columns :
        /\ T.columns[i] = f.result.name => Outputs(d, t) = {i}
        /\ T.columns[i] \in ParamSet(f) => Inputs(d, t, T.columns[i]) = {i}
  BY <1>3, <1>4, <1>5
<1> QED BY <1>6, <1>8, <1>9 DEF T, f

(* A float that is expected has a tolerance: there is none to fall back on. *)
LEMMA ToleranceRead ==
  ASSUME NEW s, NEW t \in AsTolerance(s)
  PROVE  t # NoFloat
BY DEF AsTolerance, AsFloat, NaN, Inf, Finite, NoFloat

LEMMA ExpectedTolerance ==
  ASSUME NEW text, NEW type, type.kind = "float", Parse(text, type, TRUE) # NoValue
  PROVE  Parse(text, type, TRUE).tol # NoFloat \/ IsRaise(Parse(text, type, TRUE))
<1> DEFINE v == Parse(text, type, TRUE)
           s == Trim(text)
<1>1. v \in Values(text, type, TRUE)
  BY DEF Parse
<1>2. v \in Raise(s, type, TRUE) \/ v \in Read(s, type, TRUE)
  BY <1>1 DEF Values
<1>3. CASE v \in Raise(s, type, TRUE)
  <2>1. v = [Zero(type) EXCEPT !.raises = Trim(Tail(s))] /\ Trim(Tail(s)) # <<>>
    BY <1>3 DEF Raise
  <2> QED BY <2>1 DEF Zero, IsRaise
<1>4. CASE v \in Read(s, type, TRUE)
  <2>1. Read(s, type, TRUE) = UNION {FloatValue(s, type, f, TRUE) : f \in AsFloat(Trim(Cut(s, "~").before))}
    BY DEF Read, Integral, Scaled
  <2>2. PICK f : v \in FloatValue(s, type, f, TRUE)
    BY <1>4, <2>1
  <2>3. PICK t \in AsTolerance(Trim(Cut(s, "~").after)) : v = [Zero(type) EXCEPT !.float = f, !.tol = t]
    BY <2>2 DEF FloatValue
  <2>4. v.tol = t
    BY <2>3 DEF Zero
  <2> QED BY <2>3, <2>4, ToleranceRead
<1> QED BY <1>2, <1>3, <1>4

(* The arguments and the expectation of a row, once bound. *)
LEMMA BoundRow ==
  ASSUME NEW d \in DOMAIN decls, WellFormedFn(decls[d]), Clean(decls[d]), ~NamesNote(decls[d]),
         BoundAs(d), NEW t \in DOMAIN decls[d].tables, NEW r \in DOMAIN decls[d].tables[t].rows
  PROVE  RowByName(decls[d], decls[d].tables[t], r, Row(Args(d, t, r), Expected(d, t, r)))
<1> DEFINE f == decls[d]
           T == f.tables[t]
           row == Row(Args(d, t, r), Expected(d, t, r))
<1>1. /\ DOMAIN T.columns \subseteq Nat
      /\ \A i \in DOMAIN T.columns :
           /\ Bind(f, T, i).kind = "output" <=> T.columns[i] = f.result.name
           /\ Bind(f, T, i).kind = "input" <=> T.columns[i] \in ParamSet(f)
           /\ T.columns[i] = f.result.name => Bind(f, T, i).type = f.result.type
           /\ \A p \in DOMAIN f.params :
                f.params[p].name = T.columns[i] => Bind(f, T, i).type = f.params[p].type
           /\ T.columns[i] \in ParamSet(f) \cup {f.result.name} => IsParsed(f, T, r, i)
  BY CleanColumns
<1>2. \A i \in DOMAIN T.columns : values[d][t][r][i] = CellValue(f, T, r, i)
  BY DEF BoundAs, BoundColumns, BoundValues
<1>3. \A i \in DOMAIN T.columns :
        /\ T.columns[i] = f.result.name => Outputs(d, t) = {i}
        /\ T.columns[i] \in ParamSet(f) => Inputs(d, t, T.columns[i]) = {i}
  BY FoundColumns
<1>4. row.args = Args(d, t, r) /\ row.expected = Expected(d, t, r)
  BY DEF Row
<1>5. \A p \in DOMAIN f.params :
        Args(d, t, r)[p] = values[d][t][r][Max(Inputs(d, t, f.params[p].name))]
  BY DEF Args
<1>6. Expected(d, t, r) = values[d][t][r][Max(Outputs(d, t))]
  BY DEF Expected
<1>7. \A p \in DOMAIN f.params : f.params[p].name \in ParamSet(f)
  BY DEF ParamSet
<1> HIDE DEF T, f, row
<1>8. ASSUME NEW i \in DOMAIN T.columns, NEW p \in DOMAIN f.params, f.params[p].name = T.columns[i]
      PROVE  row.args[p] = Parse(T.rows[r][i], f.params[p].type, FALSE)
  <2>1. Inputs(d, t, f.params[p].name) = {i} /\ i \in Nat
    BY <1>1, <1>3, <1>7, <1>8
  <2>2. Max({i}) = i
    BY <2>1, MaxOfOne
  <2>3. Args(d, t, r)[p] = values[d][t][r][i]
    BY <1>5, <2>1, <2>2
  <2>4. values[d][t][r][i] = Parse(T.rows[r][i], f.params[p].type, FALSE)
    <3>1. /\ IsParsed(f, T, r, i) /\ Bind(f, T, i).kind = "input"
          /\ Bind(f, T, i).type = f.params[p].type
      BY <1>1, <1>7, <1>8
    <3> QED BY <1>2, <3>1 DEF IsParsed
  <2> QED BY <1>4, <2>3, <2>4
<1>9. ASSUME NEW i \in DOMAIN T.columns, T.columns[i] = f.result.name
       PROVE  /\ row.expected = Parse(T.rows[r][i], f.result.type, TRUE)
              /\ f.result.type.kind = "float" => row.expected.tol # NoFloat \/ IsRaise(row.expected)
  <2>1. Outputs(d, t) = {i} /\ i \in Nat
    BY <1>1, <1>3, <1>9
  <2>2. Max({i}) = i
    BY <2>1, MaxOfOne
  <2>3. Expected(d, t, r) = values[d][t][r][i]
    BY <1>6, <2>1, <2>2
  <2>4. /\ values[d][t][r][i] = Parse(T.rows[r][i], f.result.type, TRUE)
        /\ Parse(T.rows[r][i], f.result.type, TRUE) # NoValue
    <3>1. /\ IsParsed(f, T, r, i) /\ Bind(f, T, i).kind = "output"
          /\ Bind(f, T, i).type = f.result.type
      BY <1>1, <1>9
    <3> QED BY <1>2, <3>1 DEF IsParsed
  <2> QED BY <1>4, <2>3, <2>4, ExpectedTolerance
<1> QED BY <1>8, <1>9 DEF RowByName, T, f, row

(* A function that names an input or its result "note" never gets to run. *)
LEMMA NoteRefused ==
  ASSUME NEW d \in DOMAIN decls, WellFormedFn(decls[d]), BoundAs(d), NamesNote(decls[d])
  PROVE  Plan(d).problem # ""
<1> DEFINE f == decls[d]
<1>1. \A t \in DOMAIN f.tables : \A i \in DOMAIN f.tables[t].columns :
        f.tables[t].columns[i] = "note" =>
          Bind(f, f.tables[t], i).kind \notin {"input", "output"}
  BY DEF Bind, Unresolved
<1>2. \A t \in DOMAIN f.tables :
        columns[d][t] = [i \in DOMAIN f.tables[t].columns |-> Bind(f, f.tables[t], i)]
  BY DEF BoundAs, BoundColumns, BoundValues
<1>3. CASE "note" \in ParamSet(f)
  <2>1. ASSUME NEW t \in DOMAIN f.tables PROVE NoCell(d, t)
    <3>1. Inputs(d, t, "note") =
            {i \in DOMAIN columns[d][t] : columns[d][t][i].kind = "input" /\ f.tables[t].columns[i] = "note"}
      BY DEF Inputs, Table
    <3>2. /\ DOMAIN columns[d][t] = DOMAIN f.tables[t].columns
          /\ \A i \in DOMAIN f.tables[t].columns : columns[d][t][i] = Bind(f, f.tables[t], i)
      BY <1>2, <2>1
    <3> HIDE DEF f
    <3>3. Inputs(d, t, "note") = {}
      BY <1>1, <2>1, <3>1, <3>2
    <3> QED BY <1>3, <3>3 DEF NoCell, f
  <2>2. \A s \in Slots(d) : s[1] \in DOMAIN f.tables
    BY DEF Slots
  <2>3. Slots(d) # {} => \E s \in Slots(d) : NoCell(d, s[1])
    BY <2>1, <2>2
  <2> QED BY <2>3 DEF Plan, Refuse
<1>4. CASE "note" = f.result.name
  <2>1. ASSUME NEW t \in DOMAIN f.tables PROVE Outputs(d, t) = {}
    <3>1. ASSUME NEW i \in DOMAIN f.tables[t].columns
          PROVE  Bind(f, f.tables[t], i).kind # "output"
      <4>1. f.tables[t].columns[i] # f.result.name => Bind(f, f.tables[t], i).kind # "output"
        BY DEF Bind, Unresolved
      <4> QED BY <1>1, <1>4, <4>1
    <3>2. Outputs(d, t) = {i \in DOMAIN columns[d][t] : columns[d][t][i].kind = "output"}
      BY DEF Outputs
    <3>3. /\ DOMAIN columns[d][t] = DOMAIN f.tables[t].columns
          /\ \A i \in DOMAIN f.tables[t].columns : columns[d][t][i] = Bind(f, f.tables[t], i)
      BY <1>2, <2>1
    <3> HIDE DEF f
    <3> QED BY <3>1, <3>2, <3>3
  <2>2. CASE DOMAIN f.tables = {}
    <3>1. Slots(d) = {}
      BY <2>2 DEF Slots
    <3> QED BY <3>1 DEF Plan, Refuse
  <2>3. CASE DOMAIN f.tables # {}
    <3>1. \E t \in DOMAIN f.tables : Outputs(d, t) = {}
      BY <2>1, <2>3
    <3> QED BY <3>1 DEF Plan, Refuse
  <2> QED BY <2>2, <2>3
<1> QED BY <1>3, <1>4 DEF NamesNote

(* Nothing stands in an empty sequence of rows. *)
LEMMA NoRows == \A x : x = <<>> => DOMAIN x = {}
OBVIOUS

(* The fields of a plan. *)
LEMMA PlanFields ==
  \A r : [problem |-> "", rows |-> r].problem = "" /\ [problem |-> "", rows |-> r].rows = r
OBVIOUS

(* What runFn makes of a clean, bound declaration. *)
LEMMA PlanSound ==
  ASSUME NEW d \in DOMAIN decls, WellFormedFn(decls[d]), Clean(decls[d]), BoundAs(d),
         decls[d].mode = "frozen"
  PROVE  /\ ~NamesNote(decls[d]) => Plan(d).problem = ""
         /\ \A s \in DOMAIN Plan(d).rows :
              RowByName(decls[d], decls[d].tables[s[1]], s[2], Plan(d).rows[s])
<1> DEFINE f == decls[d]
           rows == [s \in Slots(d) |-> Row(Args(d, s[1], s[2]), Expected(d, s[1], s[2]))]
<1>1. \A s \in Slots(d) : s[1] \in DOMAIN f.tables /\ s[2] \in DOMAIN f.tables[s[1]].rows
  BY DEF Slots, Table
<1>2. Plan(d).problem # "" => Plan(d).rows = <<>>
  BY Zenon DEF Plan, Refuse
<1>3. Plan(d).problem = "" => Plan(d).rows = rows
  <2>1. \/ Plan(d) = Refuse("table has no output column") \/ Plan(d) = Refuse("no rows to assay")
        \/ Plan(d) = Refuse("unsupported type") \/ Plan(d) = Refuse("no cell for input")
        \/ Plan(d) = [problem |-> "", rows |-> rows]
    BY Zenon DEF Plan
  <2>2. /\ Refuse("table has no output column").problem # ""
        /\ Refuse("no rows to assay").problem # ""
        /\ Refuse("unsupported type").problem # "" /\ Refuse("no cell for input").problem # ""
    BY DEF Refuse
  <2> HIDE DEF rows
  <2> QED BY <2>1, <2>2, PlanFields, Zenon
<1>4. ASSUME ~NamesNote(f) PROVE Plan(d).problem = ""
  <2>1. \A t \in DOMAIN f.tables :
          /\ Outputs(d, t) # {} /\ ~NoCell(d, t)
          /\ \A r \in DOMAIN f.tables[t].rows : ~Unmarshalable(d, t, r)
    BY <1>4, FoundColumns
  <2>2. 1 \in DOMAIN f.tables /\ 1 \in DOMAIN f.tables[1].rows
    <3>1. Len(f.tables) # 0 /\ Len(f.tables) \in Nat /\ DOMAIN f.tables = 1 .. Len(f.tables)
      BY CleanSignature DEF Clean, WellFormedFn
    <3>2. 1 \in DOMAIN f.tables
      BY <3>1
    <3>3. WellFormedTable(f.tables[1])
      BY <3>2 DEF WellFormedFn
    <3> QED BY <3>2, <3>3 DEF WellFormedTable
  <2>3. <<1, 1>> \in Slots(d)
    BY <2>2 DEF Slots, Table
  <2> HIDE DEF f
  <2>4. ~\E t \in DOMAIN f.tables : Outputs(d, t) = {}
    BY <2>1
  <2>5. ~\E s \in Slots(d) : Unmarshalable(d, s[1], s[2])
    BY <1>1, <2>1
  <2>6. ~\E s \in Slots(d) : NoCell(d, s[1])
    BY <1>1, <2>1
  <2>7. Plan(d) = [problem |-> "", rows |-> rows]
    BY <2>3, <2>4, <2>5, <2>6 DEF Plan, f
  <2> HIDE DEF rows
  <2> QED BY <2>7, PlanFields, Zenon
<1>5. CASE NamesNote(f)
  <2>1. Plan(d).problem # ""
    BY <1>5, NoteRefused
  <2>2. DOMAIN Plan(d).rows = {}
    BY <1>2, <2>1, NoRows
  <2> QED BY <1>5, <2>2
<1>6. CASE ~NamesNote(f)
  <2>1. Plan(d).rows = rows
    BY <1>3, <1>4, <1>6
  <2>2. ASSUME NEW s \in Slots(d)
        PROVE  RowByName(f, f.tables[s[1]], s[2], rows[s])
    <3>1. RowByName(f, f.tables[s[1]], s[2], Row(Args(d, s[1], s[2]), Expected(d, s[1], s[2])))
      BY <1>1, <1>6, <2>2, BoundRow
    <3> QED BY <2>2, <3>1
  <2>3. DOMAIN rows = Slots(d)
    OBVIOUS
  <2> HIDE DEF rows, f
  <2> QED BY <1>4, <1>6, <2>1, <2>2, <2>3 DEF f
<1> QED BY <1>5, <1>6

----------------------------------------------------------------------------
(* The inductive invariant: every diagnostic the check owes a declaration  *)
(* it has passed is in the bag, and one that owes none is bound; no        *)
(* function is prepared until the check has ended without an error.        *)
Diagnosed(d) ==
  \/ Diagnostic("E0100", d) \in bag
  \/ BoundAs(d) /\ \A c \in FnCodes(decls[d]) : Diagnostic(c, d) \in bag

HarnessInv ==
  /\ decls \in Files /\ next \in Nat \ {0} /\ turn \in Nat \ {0}
  /\ DOMAIN columns = DOMAIN decls /\ DOMAIN values = DOMAIN decls
  /\ DOMAIN plans = DOMAIN decls
  /\ \A d \in DOMAIN decls : UnknownType(decls[d]) => Diagnostic("E0015", d) \in bag
  /\ \A d \in DOMAIN decls : d < next => Diagnosed(d)
  /\ turn > 1 => Checked
  /\ CleanRuns /\ RowsCallByName

(* The file is a sequence. *)
LEMMA DeclsDomain ==
  ASSUME decls \in Files
  PROVE  /\ Len(decls) \in Nat /\ DOMAIN decls = 1 .. Len(decls)
         /\ \A d \in DOMAIN decls : WellFormedFn(decls[d])
BY CheckAssumption

(* A file whose check found no error has only clean, bound declarations. *)
LEMMA CleanWhenChecked ==
  ASSUME HarnessInv, Checked, ~HasErrors, NEW d \in DOMAIN decls
  PROVE  Clean(decls[d]) /\ BoundAs(d) /\ WellFormedFn(decls[d])
<1>1. d < next /\ WellFormedFn(decls[d])
  BY DeclsDomain DEF HarnessInv, Checked
<1>2. \A c : Diagnostic(c, d) \in bag => c = "N0001"
  BY DEF HasErrors, Diagnostic
<1>3. BoundAs(d) /\ \A c \in FnCodes(decls[d]) : Diagnostic(c, d) \in bag
  BY <1>1, <1>2 DEF HarnessInv, Diagnosed
<1>4. ~UnknownType(decls[d])
  BY <1>2 DEF HarnessInv
<1> QED BY <1>1, <1>2, <1>3, <1>4 DEF Clean

(* A step of the check keeps the invariant. *)
LEMMA CheckStep ==
  ASSUME HarnessInv, Checking
  PROVE  HarnessInv'
<1>1. /\ ~Checked /\ turn = 1 /\ turn' = turn /\ plans' = plans /\ decls' = decls
      /\ next' = next + 1 /\ next \in DOMAIN decls
  BY DeclsDomain DEF HarnessInv, Checking, CheckNext, Redeclared, CheckFn, Checked
<1>2. bag \subseteq bag' /\ DOMAIN columns' = DOMAIN decls /\ DOMAIN values' = DOMAIN decls
  BY DEF HarnessInv, Checking, CheckNext, Redeclared, CheckFn
<1>3. \A d \in DOMAIN decls : d # next => columns'[d] = columns[d] /\ values'[d] = values[d]
  BY DEF HarnessInv, Checking, CheckNext, Redeclared, CheckFn
<1>4. ASSUME NEW d \in DOMAIN decls, d < next PROVE Diagnosed(d)'
  <2>1. Diagnosed(d) /\ d # next
    BY <1>4 DEF HarnessInv
  <2>2. BoundAs(d) => BoundAs(d)'
    BY <1>1, <1>3, <1>4, <2>1 DEF BoundAs
  <2> QED BY <1>1, <1>2, <2>1, <2>2 DEF Diagnosed
<1>5. ASSUME NEW d \in DOMAIN decls, d = next PROVE Diagnosed(d)'
  <2>1. CASE Redeclared
    <3>1. Diagnostic("E0100", d) \in bag'
      BY <1>5, <2>1 DEF Redeclared
    <3> QED BY <3>1 DEF Diagnosed
  <2>2. CASE CheckFn
    <3>1. \A c \in FnCodes(decls[d]) : Diagnostic(c, d) \in bag'
      BY <1>5, <2>2 DEF CheckFn
    <3>2. BoundAs(d)'
      <4>1. /\ columns' = [columns EXCEPT ![d] = BoundColumns(decls[d])]
            /\ values' = [values EXCEPT ![d] = BoundValues(decls[d])]
        BY <1>5, <2>2 DEF CheckFn, BoundColumns, BoundValues
      <4>2. d \in DOMAIN columns /\ d \in DOMAIN values
        BY <1>5 DEF HarnessInv
      <4> QED BY <1>1, <4>1, <4>2 DEF BoundAs
    <3> QED BY <1>1, <3>1, <3>2 DEF Diagnosed
  <2> QED BY <2>1, <2>2 DEF Checking, CheckNext
<1>6. \A d \in DOMAIN decls : d < next' => Diagnosed(d)'
  <2>1. \A d \in DOMAIN decls : d < next' => d < next \/ d = next
    BY <1>1, DeclsDomain DEF HarnessInv
  <2> QED BY <1>4, <1>5, <2>1
<1>7. CleanRuns' /\ RowsCallByName'
  <2>1. CleanRuns /\ RowsCallByName
    BY DEF HarnessInv
  <2>2. CleanRuns'
    BY <1>1, <2>1, Zenon DEF CleanRuns
  <2>3. RowsCallByName'
    BY <1>1, <2>1, Zenon DEF RowsCallByName, Table
  <2> QED BY <2>2, <2>3
<1> QED BY <1>1, <1>2, <1>6, <1>7 DEF HarnessInv

(* A step of assay.Run keeps the invariant. *)
LEMMA PlanStep ==
  ASSUME HarnessInv, SkipLive \/ PlanFn
  PROVE  HarnessInv'
<1>1. /\ Checked /\ ~HasErrors /\ turn \in DOMAIN decls /\ turn' = turn + 1
      /\ UNCHANGED checkVars /\ turn \in Nat \ {0}
  BY DeclsDomain DEF HarnessInv, SkipLive, PlanFn, Assaying
<1>2. /\ decls' = decls /\ next' = next /\ bag' = bag /\ columns' = columns /\ values' = values
  BY <1>1 DEF checkVars
<1>3. /\ \A d \in DOMAIN decls : UnknownType(decls[d]) => Diagnostic("E0015", d) \in bag'
      /\ \A d \in DOMAIN decls : d < next => Diagnosed(d)'
      /\ Checked'
  BY <1>1, <1>2 DEF HarnessInv, Diagnosed, BoundAs, Checked
<1>4. CASE SkipLive
  <2>1. plans' = plans /\ decls[turn].mode # "frozen"
    BY <1>4 DEF SkipLive
  <2>2. RowsCallByName'
    <3>1. RowsCallByName
      BY DEF HarnessInv
    <3> QED BY <1>2, <2>1, <3>1, Zenon DEF RowsCallByName, Table
  <2>3. CleanRuns'
    <3>1. CleanRuns
      BY DEF HarnessInv
    <3>2. \A d \in DOMAIN decls : d < turn' => d < turn \/ d = turn
      BY <1>1, DeclsDomain DEF HarnessInv
    <3> QED BY <1>2, <2>1, <3>1, <3>2, Zenon DEF CleanRuns
  <2> QED BY <1>1, <1>2, <1>3, <2>1, <2>2, <2>3 DEF HarnessInv
<1>5. CASE PlanFn
  <2>1. /\ decls[turn].mode = "frozen"
        /\ \A d \in DOMAIN decls : plans'[d] = IF d = turn THEN Plan(turn) ELSE plans[d]
        /\ DOMAIN plans' = DOMAIN decls
    BY <1>5 DEF PlanFn, HarnessInv
  <2>2. /\ ~NamesNote(decls[turn]) => Plan(turn).problem = ""
        /\ \A s \in DOMAIN Plan(turn).rows :
             RowByName(decls[turn], decls[turn].tables[s[1]], s[2], Plan(turn).rows[s])
    BY <1>1, <2>1, CleanWhenChecked, PlanSound
  <2>3. RowsCallByName => \A d \in DOMAIN decls : \A s \in DOMAIN plans[d].rows :
             RowByName(decls[d], decls[d].tables[s[1]], s[2], plans[d].rows[s])
    BY DEF RowsCallByName, Table
  <2>4. \A d \in DOMAIN decls : \A s \in DOMAIN plans'[d].rows :
             RowByName(decls[d], decls[d].tables[s[1]], s[2], plans'[d].rows[s])
    BY <2>1, <2>2, <2>3 DEF HarnessInv
  <2>5. RowsCallByName'
    BY <1>2, <2>4 DEF RowsCallByName, Table
  <2>6. CleanRuns'
    <3>1. ASSUME NEW d \in DOMAIN decls, d < turn', decls[d].mode = "frozen", ~NamesNote(decls[d])
          PROVE  plans'[d].problem = ""
      <4>1. CASE d = turn
        BY <2>1, <2>2, <3>1, <4>1
      <4>2. CASE d # turn
        <5>1. d < turn
          BY <1>1, <3>1, <4>2, DeclsDomain DEF HarnessInv
        <5> QED BY <2>1, <3>1, <4>2, <5>1 DEF HarnessInv, CleanRuns
      <4> QED BY <4>1, <4>2
    <3> QED BY <1>2, <3>1 DEF CleanRuns
  <2> QED BY <1>1, <1>2, <1>3, <2>1, <2>5, <2>6 DEF HarnessInv
<1> QED BY <1>4, <1>5

(* Before the check, nothing is bound and nothing is prepared. *)
LEMMA HarnessStart == HarnessInit => HarnessInv
<1> SUFFICES ASSUME HarnessInit PROVE HarnessInv
  OBVIOUS
<1>1. decls \in Files /\ next = 1 /\ turn = 1 /\ plans = [d \in DOMAIN decls |-> NoPlan]
  BY DEF HarnessInit, CheckInit
<1>2. \A d \in DOMAIN decls : d \in Nat \ {0}
  BY <1>1, DeclsDomain
<1>3. \A d \in DOMAIN decls : UnknownType(decls[d]) => Diagnostic("E0015", d) \in bag
  BY DEF HarnessInit, CheckInit
<1>4. DOMAIN columns = DOMAIN decls /\ DOMAIN values = DOMAIN decls
  BY DEF HarnessInit, CheckInit
<1>5. CleanRuns
  <2>1. \A d \in DOMAIN decls : ~(d < turn)
    BY <1>1, <1>2
  <2> QED BY <2>1, Zenon DEF CleanRuns
<1>6. RowsCallByName
  <2>1. \A d \in DOMAIN decls : plans[d].rows = <<>>
    BY <1>1 DEF NoPlan
  <2>2. \A d \in DOMAIN decls : DOMAIN plans[d].rows = {}
    BY <2>1, NoRows
  <2> QED BY <2>2 DEF RowsCallByName
<1> QED BY <1>1, <1>2, <1>3, <1>4, <1>5, <1>6 DEF HarnessInv

LEMMA HarnessStep ==
  ASSUME HarnessInv, [HarnessNext]_harnessVars
  PROVE  HarnessInv'
<1>1. CASE UNCHANGED harnessVars
  <2>1. /\ decls' = decls /\ next' = next /\ bag' = bag /\ columns' = columns
        /\ values' = values /\ turn' = turn /\ plans' = plans
    BY <1>1 DEF harnessVars, checkVars
  <2>2. \A d : Diagnosed(d)' <=> Diagnosed(d)
    BY <2>1, Zenon DEF Diagnosed, BoundAs
  <2>3. (CleanRuns' <=> CleanRuns) /\ (RowsCallByName' <=> RowsCallByName)
    BY <2>1, Zenon DEF CleanRuns, RowsCallByName, Table
  <2> QED BY <2>1, <2>2, <2>3 DEF HarnessInv, Checked
<1> QED BY <1>1, CheckStep, PlanStep DEF HarnessNext, Stopped

(* The invariant holds of every run.                                       *)
LEMMA HarnessInductive == HarnessSpec => []HarnessInv
<1>1. HarnessInit => HarnessInv
  BY HarnessStart
<1>2. HarnessInv /\ [HarnessNext]_harnessVars => HarnessInv'
  BY HarnessStep
<1> QED BY <1>1, <1>2, PTL DEF HarnessSpec

(* A file the check passes can be assayed: every frozen function of it     *)
(* runs, unless it names something "note".                                 *)
THEOREM CleanFilesRun == HarnessSpec => []CleanRuns
<1>1. HarnessInv => CleanRuns
  BY DEF HarnessInv
<1> QED BY <1>1, HarnessInductive, PTL

(* Every row runFn plans is called with its own cells in the order of the  *)
(* signature, and compared with its own expectation.                       *)
THEOREM RowsByName == HarnessSpec => []RowsCallByName
<1>1. HarnessInv => RowsCallByName
  BY DEF HarnessInv
<1> QED BY <1>1, HarnessInductive, PTL

----------------------------------------------------------------------------
(* The code's rules against the requirement they stand for. *)

(* Diagnostics without errors, the other way round. *)
LEMMA CleanWhen ==
  ASSUME NEW code, NEW reported \in BOOLEAN, ~reported
  PROVE  When(code, reported) \subseteq {"N0001"}
BY DEF When

(* A signature without clashes has as many names as it has places. *)
LEMMA NamesCounted ==
  ASSUME NEW f, WellFormedFn(f)
  PROVE  Cardinality(ParamSet(f) \cup {f.result.name}) = Len(f.params) + 1 <=>
           /\ Unrepeated(ParamNames(f))
           /\ \A i \in DOMAIN f.params : f.params[i].name # f.result.name
<1> DEFINE n == Len(f.params)
           names == ParamSet(f) \cup {f.result.name}
           g == [i \in 1 .. n + 1 |-> IF i <= n THEN f.params[i].name ELSE f.result.name]
<1>1. n \in Nat /\ DOMAIN f.params = 1 .. n
  <2>1. f.params \in Seq([name : STRING, type : Type])
    BY DEF WellFormedFn
  <2>2. \A S : f.params \in Seq(S) => DOMAIN f.params = 1 .. Len(f.params) /\ Len(f.params) \in Nat
    OBVIOUS
  <2> QED BY <2>1, <2>2
<1> HIDE DEF n
<1>2. \A i \in 1 .. n : ParamNames(f)[i] = f.params[i].name /\ g[i] = f.params[i].name
  BY <1>1 DEF ParamNames
<1>3. g[n + 1] = f.result.name
  BY <1>1
<1>4. \A i \in 1 .. n + 1 : i \in 1 .. n \/ i = n + 1
  BY <1>1
<1>5. names = {f.params[i].name : i \in 1 .. n} \cup {f.result.name}
  BY <1>1 DEF ParamSet
<1>6. DOMAIN g = 1 .. n + 1
  OBVIOUS
<1>7. g \in Surjection(1 .. n + 1, names)
  <2>1. g \in [1 .. n + 1 -> names]
    BY <1>1, <1>5
  <2>2. ASSUME NEW x \in names PROVE \E i \in 1 .. n + 1 : g[i] = x
    BY <1>1, <1>2, <1>3, <1>5
  <2> HIDE DEF g, names
  <2> QED BY <2>1, <2>2 DEF Surjection
<1> HIDE DEF g, names
<1>8. IsFiniteSet(1 .. n + 1) /\ Cardinality(1 .. n + 1) = n + 1
  BY <1>1, FS_Interval
<1>9. Cardinality(names) = n + 1 <=> g \in Injection(1 .. n + 1, names)
  BY <1>7, <1>8, FS_Surjection
<1>10. g \in Injection(1 .. n + 1, names) <=> \A i, j \in 1 .. n + 1 : g[i] = g[j] => i = j
  BY <1>6, <1>7 DEF Injection, Surjection, IsInjective
<1>11. DOMAIN ParamNames(f) = 1 .. n
  BY <1>1 DEF ParamNames
<1>12. ASSUME Unrepeated(ParamNames(f)), \A i \in DOMAIN f.params : f.params[i].name # f.result.name,
              NEW i \in 1 .. n + 1, NEW j \in 1 .. n + 1, g[i] = g[j]
       PROVE  i = j
  <2>1. \A k, l \in 1 .. n : ParamNames(f)[k] = ParamNames(f)[l] => k = l
    BY <1>1, <1>11, <1>12, Distinct
  <2>2. CASE i \in 1 .. n /\ j \in 1 .. n
    BY <1>2, <1>12, <2>1, <2>2
  <2>3. CASE i = n + 1 /\ j \in 1 .. n
    BY <1>1, <1>2, <1>3, <1>12, <2>3
  <2>4. CASE i \in 1 .. n /\ j = n + 1
    BY <1>1, <1>2, <1>3, <1>12, <2>4
  <2> QED BY <1>4, <2>2, <2>3, <2>4
<1>13. ASSUME \A i, j \in 1 .. n + 1 : g[i] = g[j] => i = j
       PROVE  /\ Unrepeated(ParamNames(f))
              /\ \A i \in DOMAIN f.params : f.params[i].name # f.result.name
  <2>1. ASSUME NEW i \in 1 .. n, NEW j \in 1 .. i - 1 PROVE ParamNames(f)[j] # ParamNames(f)[i]
    <3>1. j \in 1 .. n /\ j \in 1 .. n + 1 /\ i \in 1 .. n + 1 /\ j # i
      BY <1>1
    <3> QED BY <1>2, <1>13, <3>1
  <2>2. Unrepeated(ParamNames(f))
    BY <1>11, <2>1 DEF Unrepeated, Repeats
  <2>3. ASSUME NEW i \in 1 .. n PROVE f.params[i].name # f.result.name
    <3>1. i \in 1 .. n + 1 /\ n + 1 \in 1 .. n + 1 /\ i # n + 1
      BY <1>1
    <3> QED BY <1>2, <1>3, <1>13, <3>1
  <2> QED BY <1>1, <2>2, <2>3
<1>14. Cardinality(names) = n + 1 <=>
         /\ Unrepeated(ParamNames(f))
         /\ \A i \in DOMAIN f.params : f.params[i].name # f.result.name
  BY <1>9, <1>10, <1>12, <1>13
<1> QED BY <1>14 DEF n, names

(* Columns none of which repeats are as many as their names. *)
LEMMA ColumnsCounted ==
  ASSUME NEW t, WellFormedTable(t)
  PROVE  Cardinality(DOMAIN t.columns) = Cardinality({t.columns[i] : i \in DOMAIN t.columns}) <=>
           Unrepeated(t.columns)
<1> DEFINE n == Len(t.columns)
           D == DOMAIN t.columns
           names == {t.columns[i] : i \in D}
<1>1. n \in Nat /\ D = 1 .. n
  <2>1. t.columns \in Seq(STRING)
    BY DEF WellFormedTable
  <2> QED BY <2>1
<1>2. t.columns \in Surjection(D, names)
  <2>1. t.columns = [i \in D |-> t.columns[i]]
    BY DEF WellFormedTable
  <2>2. t.columns \in [D -> names]
    BY <2>1
  <2> QED BY <2>2 DEF Surjection
<1>3. IsFiniteSet(D)
  BY <1>1, FS_Interval
<1>4. D = DOMAIN t.columns
  OBVIOUS
<1> HIDE DEF n, D, names
<1>5. Cardinality(names) = Cardinality(D) <=> t.columns \in Injection(D, names)
  BY <1>2, <1>3, FS_Surjection
<1>6. t.columns \in Injection(D, names) <=> \A i, j \in D : t.columns[i] = t.columns[j] => i = j
  BY <1>2, <1>4 DEF Injection, Surjection, IsInjective
<1>7. ASSUME Unrepeated(t.columns) PROVE \A i, j \in D : t.columns[i] = t.columns[j] => i = j
  BY <1>1, <1>4, <1>7, Distinct
<1>8. ASSUME \A i, j \in D : t.columns[i] = t.columns[j] => i = j PROVE Unrepeated(t.columns)
  <2>1. ASSUME NEW i \in D, NEW j \in 1 .. i - 1 PROVE t.columns[j] # t.columns[i]
    <3>1. j \in D /\ j # i
      BY <1>1
    <3> QED BY <1>8, <3>1
  <2> QED BY <1>4, <2>1 DEF Unrepeated, Repeats
<1>9. Cardinality(D) = Cardinality(names) <=> Unrepeated(t.columns)
  BY <1>5, <1>6, <1>7, <1>8
<1> QED BY <1>9 DEF D, names

(* Whether a cell is refused, once its column is bound. *)
LEMMA RefusedAs ==
  ASSUME NEW f, NEW t, NEW r, NEW i, NEW type, type # Invalid
  PROVE  /\ Bind(f, t, i) = [kind |-> "output", type |-> type] =>
              (Refused(f, t, r, i) <=> ~Parses(t.rows[r][i], type, TRUE))
         /\ Bind(f, t, i) = [kind |-> "input", type |-> type] =>
              (Refused(f, t, r, i) <=> ~Parses(t.rows[r][i], type, FALSE))
<1> DEFINE b == Bind(f, t, i)
<1>1. Refused(f, t, r, i) <=> Typed(b) /\ ~Parses(t.rows[r][i], b.type, b.kind = "output")
  BY DEF Refused
<1>2. ASSUME b = [kind |-> "output", type |-> type]
      PROVE  b.kind = "output" /\ b.type = type /\ Typed(b)
  BY <1>2 DEF Typed
<1>3. ASSUME b = [kind |-> "input", type |-> type]
      PROVE  b.kind # "output" /\ b.type = type /\ Typed(b)
  BY <1>3 DEF Typed
<1> HIDE DEF b
<1>4. ASSUME b.kind = "output", b.type = type
      PROVE  Parses(t.rows[r][i], b.type, b.kind = "output") <=> Parses(t.rows[r][i], type, TRUE)
  BY <1>4
<1>5. ASSUME b.kind # "output", b.type = type
      PROVE  Parses(t.rows[r][i], b.type, b.kind = "output") <=> Parses(t.rows[r][i], type, FALSE)
  BY <1>5
<1>6. ASSUME b = [kind |-> "output", type |-> type]
      PROVE  Refused(f, t, r, i) <=> ~Parses(t.rows[r][i], type, TRUE)
  BY <1>1, <1>2, <1>4, <1>6
<1>7. ASSUME b = [kind |-> "input", type |-> type]
      PROVE  Refused(f, t, r, i) <=> ~Parses(t.rows[r][i], type, FALSE)
  BY <1>1, <1>3, <1>5, <1>7
<1> QED BY <1>6, <1>7 DEF b

(* A table is clean exactly when it can be used, under a signature without *)
(* clashes or unknown types.                                               *)
LEMMA CleanIsUsable ==
  ASSUME NEW f, WellFormedFn(f), ~UnknownType(f), Unrepeated(ParamNames(f)),
         \A i \in DOMAIN f.params : f.params[i].name # f.result.name,
         NEW k \in DOMAIN f.tables
  PROVE  TableCodes(f, f.tables[k]) \subseteq {"N0001"} <=> Usable(f, f.tables[k])
<1> DEFINE t == f.tables[k]
           D == DOMAIN t.columns
           C == {t.columns[i] : i \in D}
           names == ParamSet(f) \cup {f.result.name}
           named == {i \in D : t.columns[i] # "note"}
           Cells == \A r \in DOMAIN t.rows : \A i \in named :
                      \/ t.columns[i] = f.result.name /\ Parses(t.rows[r][i], f.result.type, TRUE)
                      \/ \E p \in DOMAIN f.params : /\ f.params[p].name = t.columns[i]
                                                    /\ Parses(t.rows[r][i], f.params[p].type, FALSE)
           Bound == \A i \in D : t.columns[i] \in names \cup {"note"}
           Whole == \A r \in DOMAIN t.rows : \A i \in D : ~Refused(f, t, r, i)
<1>1. WellFormedTable(t)
  BY DEF WellFormedFn
<1>2. ASSUME NEW p \in DOMAIN f.params
      PROVE  TypeOfParam(f, f.params[p].name) = f.params[p].type
  <2>1. /\ DOMAIN f.params = 1 .. Len(f.params) /\ Len(f.params) \in Nat
    <3>1. f.params \in Seq([name : STRING, type : Type])
      BY DEF WellFormedFn
    <3>2. \A S : f.params \in Seq(S) => DOMAIN f.params = 1 .. Len(f.params) /\ Len(f.params) \in Nat
      OBVIOUS
    <3> QED BY <3>1, <3>2
  <2>2. DOMAIN ParamNames(f) = 1 .. Len(f.params)
    BY <2>1 DEF ParamNames
  <2>3. \A i, j \in DOMAIN f.params : f.params[i].name = f.params[j].name => i = j
    BY <2>1, <2>2, Distinct DEF ParamNames
  <2> DEFINE c == CHOOSE i \in DOMAIN f.params :
                    /\ f.params[i].name = f.params[p].name
                    /\ \A j \in DOMAIN f.params : f.params[j].name = f.params[p].name => j <= i
  <2>4. \A j \in DOMAIN f.params : f.params[j].name = f.params[p].name => j <= p
    BY <2>1, <2>3
  <2>5. c = p
    BY <2>3, <2>4
  <2> HIDE DEF c
  <2>6. TypeOfParam(f, f.params[p].name) = f.params[c].type
    BY DEF TypeOfParam, c
  <2> QED BY <2>5, <2>6
<1>3. \A p \in DOMAIN f.params : f.params[p].type # Invalid
  BY DEF UnknownType
<1>4. f.result.type # Invalid
  BY DEF UnknownType
<1>5. \A n : n \in ParamSet(f) <=> \E p \in DOMAIN f.params : f.params[p].name = n
  BY DEF ParamSet
<1>6. f.result.name \notin ParamSet(f)
  BY <1>5
<1>7. Usable(f, t) <=>
        /\ Unrepeated(t.columns)
        /\ {t.columns[i] : i \in named} = names \ {"note"}
        /\ "note" \in names => named # D
        /\ Cells
  <2>1. Usable(f, t) <=>
          /\ Cardinality(DOMAIN t.columns) = Cardinality({t.columns[i] : i \in DOMAIN t.columns})
          /\ {t.columns[i] : i \in named} = names \ {"note"}
          /\ "note" \in names => named # D
          /\ Cells
    BY Zenon DEF Usable
  <2> HIDE DEF t, named, names, Cells, D
  <2> QED BY <1>1, <2>1, ColumnsCounted
<1> HIDE DEF t
<1>8. ASSUME Unrepeated(t.columns), NEW i \in D
      PROVE  /\ Bind(f, t, i).kind = "unresolved" <=> t.columns[i] \notin names \cup {"note"}
             /\ t.columns[i] = "note" => ~Typed(Bind(f, t, i))
             /\ t.columns[i] # "note" /\ t.columns[i] = f.result.name =>
                  Bind(f, t, i) = [kind |-> "output", type |-> f.result.type]
             /\ \A p \in DOMAIN f.params : t.columns[i] # "note" /\ t.columns[i] = f.params[p].name =>
                  Bind(f, t, i) = [kind |-> "input", type |-> f.params[p].type]
  <2>1. ~Repeats(t.columns, i)
    BY <1>8 DEF Unrepeated
  <2>2. CASE t.columns[i] = "note"
    <3>1. Bind(f, t, i) = [kind |-> "note", type |-> Invalid]
      BY <2>1, <2>2 DEF Bind
    <3> QED BY <2>2, <3>1 DEF Typed
  <2>3. CASE t.columns[i] # "note" /\ t.columns[i] = f.result.name
    <3>1. Bind(f, t, i) = [kind |-> "output", type |-> f.result.type]
      BY <2>1, <2>3 DEF Bind
    <3> QED BY <1>5, <1>6, <2>3, <3>1
  <2>4. CASE t.columns[i] # "note" /\ t.columns[i] # f.result.name /\ t.columns[i] \in ParamSet(f)
    <3>1. Bind(f, t, i) = [kind |-> "input", type |-> TypeOfParam(f, t.columns[i])]
      BY <2>1, <2>4 DEF Bind
    <3> QED BY <1>2, <2>4, <3>1
  <2>5. CASE t.columns[i] # "note" /\ t.columns[i] # f.result.name /\ t.columns[i] \notin ParamSet(f)
    <3>1. Bind(f, t, i) = Unresolved
      BY <2>1, <2>5 DEF Bind
    <3> QED BY <1>5, <2>5, <3>1 DEF Unresolved
  <2> QED BY <2>2, <2>3, <2>4, <2>5
<1>9. ASSUME TableCodes(f, t) \subseteq {"N0001"} PROVE Usable(f, t)
  <2>1. /\ Unrepeated(t.columns)
        /\ \A i \in D : Bind(f, t, i).kind # "unresolved"
        /\ names \subseteq C
        /\ Whole
    BY <1>9, CleanTable
  <2>2. Bound
    BY <1>8, <2>1
  <2>3. {t.columns[i] : i \in named} = names \ {"note"}
    <3>1. {t.columns[i] : i \in named} \subseteq names \ {"note"}
      BY <2>2
    <3>2. ASSUME NEW n \in names \ {"note"} PROVE \E i \in named : t.columns[i] = n
      BY <2>1
    <3> HIDE DEF names, named
    <3> QED BY <3>1, <3>2
  <2>4. "note" \in names => named # D
    BY <2>1
  <2>5. ASSUME NEW r \in DOMAIN t.rows, NEW i \in named
        PROVE  \/ t.columns[i] = f.result.name /\ Parses(t.rows[r][i], f.result.type, TRUE)
               \/ \E p \in DOMAIN f.params : /\ f.params[p].name = t.columns[i]
                                             /\ Parses(t.rows[r][i], f.params[p].type, FALSE)
    <3>1. i \in D /\ t.columns[i] # "note" /\ t.columns[i] \in names /\ ~Refused(f, t, r, i)
      BY <2>1, <2>2
    <3>2. CASE t.columns[i] = f.result.name
      <4>1. Bind(f, t, i) = [kind |-> "output", type |-> f.result.type]
        BY <1>8, <2>1, <3>1, <3>2
      <4> QED BY <1>4, <3>1, <3>2, <4>1, RefusedAs
    <3>3. CASE t.columns[i] # f.result.name
      <4>1. PICK p \in DOMAIN f.params : f.params[p].name = t.columns[i]
        BY <1>5, <3>1, <3>3
      <4>2. Bind(f, t, i) = [kind |-> "input", type |-> f.params[p].type]
        BY <1>8, <2>1, <3>1, <4>1
      <4>3. Parses(t.rows[r][i], f.params[p].type, FALSE)
        BY <1>3, <3>1, <4>2, RefusedAs
      <4> QED BY <4>1, <4>3
    <3> QED BY <3>2, <3>3
  <2>6. Cells
    BY <2>5
  <2> HIDE DEF Cells, named, names
  <2> QED BY <1>7, <2>1, <2>3, <2>4, <2>6
<1>10. ASSUME Usable(f, t) PROVE TableCodes(f, t) \subseteq {"N0001"}
  <2>1. Unrepeated(t.columns) /\ Cells
    BY <1>7, <1>10
  <2>2. {t.columns[i] : i \in named} = names \ {"note"} /\ ("note" \in names => named # D)
    BY <1>7, <1>10
  <2>3. Bound
    <3>1. \A i \in named : t.columns[i] \in names
      BY <2>2
    <3> QED BY <3>1
  <2>4. names \subseteq C
    <3>1. \A n \in names \ {"note"} : \E i \in named : t.columns[i] = n
      <4> HIDE DEF names, named
      <4> QED BY <2>2
    <3>2. "note" \in names => \E i \in D : t.columns[i] = "note"
      BY <2>2
    <3>3. ASSUME NEW n \in names PROVE \E i \in D : t.columns[i] = n
      BY <3>1, <3>2
    <3> HIDE DEF names
    <3> QED BY <3>3
  <2>5. ASSUME NEW r \in DOMAIN t.rows, NEW i \in D PROVE ~Refused(f, t, r, i)
    <3>1. CASE t.columns[i] = "note"
      BY <1>8, <2>1, <3>1 DEF Refused
    <3>2. CASE t.columns[i] # "note" /\ t.columns[i] = f.result.name
      <4>1. Parses(t.rows[r][i], f.result.type, TRUE)
        BY <1>5, <1>6, <2>1, <3>2
      <4>2. Bind(f, t, i) = [kind |-> "output", type |-> f.result.type]
        BY <1>8, <2>1, <3>2
      <4> QED BY <1>4, <4>1, <4>2, RefusedAs
    <3>3. CASE t.columns[i] # "note" /\ t.columns[i] # f.result.name
      <4>1. PICK p \in DOMAIN f.params : /\ f.params[p].name = t.columns[i]
                                         /\ Parses(t.rows[r][i], f.params[p].type, FALSE)
        BY <2>1, <3>3
      <4>2. Bind(f, t, i) = [kind |-> "input", type |-> f.params[p].type]
        BY <1>8, <2>1, <3>3, <4>1
      <4> QED BY <1>3, <4>1, <4>2, RefusedAs
    <3> QED BY <3>1, <3>2, <3>3
  <2>6. ~ \E i \in DOMAIN t.columns : Repeats(t.columns, i)
    BY <2>1 DEF Unrepeated
  <2>7. ~ \E i \in DOMAIN t.columns : ~Repeats(t.columns, i) /\ Bind(f, t, i).kind = "unresolved"
    BY <1>8, <2>1, <2>3
  <2>8. Missing(f, t) = {}
    BY <2>4 DEF Missing
  <2>9. ~ \E r \in DOMAIN t.rows : \E i \in DOMAIN t.columns : Refused(f, t, r, i)
    BY <2>5
  <2> QED BY <2>6, <2>7, <2>8, <2>9, CleanWhen DEF TableCodes
<1>11. TableCodes(f, t) \subseteq {"N0001"} <=> Usable(f, t)
  BY <1>9, <1>10
<1> QED BY <1>11 DEF t

(* The code's rules and the requirement agree: a declaration owes no error *)
(* exactly when it is sound.                                               *)
LEMMA CleanIsSound ==
  ASSUME NEW f, WellFormedFn(f)
  PROVE  Clean(f) <=> Sound(f)
<1> DEFINE Alone == /\ Unrepeated(ParamNames(f))
                    /\ \A i \in DOMAIN f.params : f.params[i].name # f.result.name
           Apart == \A i, j \in DOMAIN f.properties :
                      f.properties[i] = f.properties[j] => i = j \/ f.properties[i] = ""
           Tabled == f.mode = "frozen" => Len(f.tables) > 0
           AllUsable == \A t \in DOMAIN f.tables : Usable(f, f.tables[t])
           AllClean == \A t \in DOMAIN f.tables : TableCodes(f, f.tables[t]) \subseteq {"N0001"}
           Prop == \E i \in DOMAIN f.properties : PropertyRepeats(f, i)
<1>1. Sound(f) <=> Alone /\ ~UnknownType(f) /\ Tabled /\ Apart /\ AllUsable
  BY NamesCounted, Zenon DEF Sound
<1>2. Apart <=> ~Prop
  <2>1. DOMAIN f.properties = 1 .. Len(f.properties) /\ Len(f.properties) \in Nat
    <3>1. f.properties \in Seq(STRING)
      BY DEF WellFormedFn
    <3> QED BY <3>1
  <2>2. Prop <=> \E i \in DOMAIN f.properties : f.properties[i] # "" /\
                   \E j \in 1 .. i - 1 : f.properties[j] = f.properties[i]
    BY DEF PropertyRepeats, Repeats
  <2>3. \A i \in DOMAIN f.properties : \A j \in 1 .. i - 1 : j \in DOMAIN f.properties /\ i # j
    BY <2>1
  <2>4. \A i, j \in DOMAIN f.properties : i = j \/ i \in 1 .. j - 1 \/ j \in 1 .. i - 1
    BY <2>1
  <2> HIDE DEF Prop
  <2> QED BY <2>2, <2>3, <2>4
<1>3. Alone /\ ~UnknownType(f) => (AllClean <=> AllUsable)
  BY CleanIsUsable
<1>4. Tabled <=> ~(f.mode = "frozen" /\ Len(f.tables) = 0)
  BY DEF WellFormedFn
<1>5. ASSUME FnCodes(f) \subseteq {"N0001"} PROVE Alone /\ Tabled /\ ~Prop /\ AllClean
  <2>1. Alone /\ Tabled /\ AllClean
    BY <1>4, <1>5, CleanSignature
  <2>2. When("E0108", Prop) \subseteq {"N0001"} /\ Prop \in BOOLEAN
    BY <1>5 DEF FnCodes
  <2> HIDE DEF Prop
  <2>3. ~Prop
    BY <2>2, WhenClean
  <2> QED BY <2>1, <2>3
<1>6. ASSUME Alone, Tabled, ~Prop, AllClean PROVE FnCodes(f) \subseteq {"N0001"}
  <2>1. ~ \E i \in DOMAIN f.params : Repeats(ParamNames(f), i)
    BY <1>6 DEF Unrepeated, ParamNames
  <2>2. ~ \E i \in DOMAIN f.params : ShadowsResult(f, i)
    BY <1>6 DEF ShadowsResult
  <2>3. ~(f.mode = "frozen" /\ Len(f.tables) = 0)
    BY <1>4, <1>6
  <2>4. ParamCodes(f) \subseteq {"N0001"}
    BY <2>1, <2>2, CleanWhen DEF ParamCodes
  <2>5. When("E0101", f.mode = "frozen" /\ Len(f.tables) = 0) \subseteq {"N0001"}
    BY <2>3, CleanWhen
  <2>6. When("N0001", f.mode = "live" /\ Len(f.tables) > 0) \subseteq {"N0001"}
    BY DEF When
  <2>7. When("E0108", Prop) \subseteq {"N0001"}
    BY <1>6, CleanWhen
  <2>8. UNION {TableCodes(f, f.tables[t]) : t \in DOMAIN f.tables} \subseteq {"N0001"}
    BY <1>6
  <2> QED BY <2>4, <2>5, <2>6, <2>7, <2>8 DEF FnCodes
<1> HIDE DEF Alone, Apart, Tabled, AllUsable, AllClean, Prop
<1> QED BY <1>1, <1>2, <1>3, <1>5, <1>6 DEF Clean

----------------------------------------------------------------------------
(* What is in the bag, exactly: of each declaration an unknown type, and   *)
(* once the check has passed it what the check owes it.                    *)
Owed(d) ==
  When("E0015", UnknownType(decls[d])) \cup
  (IF d >= next THEN {} ELSE IF Redeclares(d) THEN {"E0100"} ELSE FnCodes(decls[d]))
BagExact ==
  /\ decls \in Files /\ next \in 1 .. Len(decls) + 1
  /\ \A x : x \in bag <=> \E d \in DOMAIN decls : \E c \in Owed(d) : x = Diagnostic(c, d)

(* The fields of a diagnostic. *)
LEMMA DiagnosticFields ==
  \A c, d : Diagnostic(c, d).code = c /\ Diagnostic(c, d).decl = d
BY DEF Diagnostic

(* A step of the check adds what it owes the next declaration. *)
LEMMA ExactStep ==
  ASSUME BagExact, CheckNext
  PROVE  BagExact'
<1>1. /\ next \in DOMAIN decls /\ next' = next + 1 /\ decls' = decls /\ next \in Nat \ {0}
      /\ DOMAIN decls = 1 .. Len(decls) /\ Len(decls) \in Nat
  BY DeclsDomain DEF BagExact, CheckNext, Redeclared, CheckFn, Checked
<1> DEFINE new == IF Redeclares(next) THEN {"E0100"} ELSE FnCodes(decls[next])
<1>2. bag' = bag \cup {Diagnostic(c, next) : c \in new}
  BY DEF CheckNext, Redeclared, CheckFn
<1>3. decls' = decls
  BY <1>1
<1>4. ASSUME NEW d \in DOMAIN decls, d # next PROVE Owed(d)' = Owed(d)
  <2>1. (d >= next') <=> (d >= next)
    BY <1>1, <1>4
  <2>2. Owed(d)' = When("E0015", UnknownType(decls[d])) \cup
                   (IF d >= next' THEN {} ELSE IF Redeclares(d) THEN {"E0100"} ELSE FnCodes(decls[d]))
    BY <1>3, Zenon DEF Owed, Redeclares
  <2>3. CASE d >= next
    BY <2>1, <2>2, <2>3 DEF Owed
  <2>4. CASE ~(d >= next)
    BY <2>1, <2>2, <2>4 DEF Owed
  <2> QED BY <2>3, <2>4
<1>5. ASSUME NEW d \in DOMAIN decls, d = next PROVE Owed(d)' = Owed(d) \cup new
  <2>1. d >= next /\ ~(d >= next')
    BY <1>1, <1>5
  <2>2. Owed(d) = When("E0015", UnknownType(decls[d]))
    BY <2>1 DEF Owed
  <2>3. Owed(d)' = When("E0015", UnknownType(decls[d])) \cup
                   (IF d >= next' THEN {} ELSE IF Redeclares(d) THEN {"E0100"} ELSE FnCodes(decls[d]))
    BY <1>3, Zenon DEF Owed, Redeclares
  <2>4. new = IF Redeclares(d) THEN {"E0100"} ELSE FnCodes(decls[d])
    BY <1>5
  <2> HIDE DEF new
  <2> QED BY <2>1, <2>2, <2>3, <2>4
<1>6. ASSUME NEW x
      PROVE  x \in bag' <=> \E d \in DOMAIN decls : \E c \in Owed(d)' : x = Diagnostic(c, d)
  <2>1. x \in bag <=> \E d \in DOMAIN decls : \E c \in Owed(d) : x = Diagnostic(c, d)
    BY DEF BagExact
  <2>2. x \in bag' <=> x \in bag \/ \E c \in new : x = Diagnostic(c, next)
    BY <1>2
  <2> HIDE DEF new
  <2> QED BY <1>1, <1>4, <1>5, <2>1, <2>2
<1> QED BY <1>1, <1>6 DEF BagExact

(* The check refuses a declaration exactly when it is not sound. *)
LEMMA ExactRefuses ==
  ASSUME BagExact
  PROVE  RefusedForCause
<1> SUFFICES ASSUME NEW d \in 1 .. next - 1
             PROVE  (\A x \in bag : x.decl = d => x.code = "N0001") <=>
                      Sound(decls[d]) /\ \A e \in 1 .. d - 1 : decls[e].name # decls[d].name
  BY DEF RefusedForCause
<1>1. /\ d \in DOMAIN decls /\ WellFormedFn(decls[d]) /\ ~(d >= next)
      /\ DOMAIN decls = 1 .. Len(decls) /\ Len(decls) \in Nat
  BY DeclsDomain DEF BagExact
<1> DEFINE f == decls[d]
<1>2. (\A x \in bag : x.decl = d => x.code = "N0001") <=> Owed(d) \subseteq {"N0001"}
  <2>1. ASSUME \A x \in bag : x.decl = d => x.code = "N0001", NEW c \in Owed(d)
        PROVE  c = "N0001"
    <3>1. Diagnostic(c, d) \in bag
      BY <1>1, <2>1 DEF BagExact
    <3> QED BY <2>1, <3>1, DiagnosticFields
  <2>2. ASSUME Owed(d) \subseteq {"N0001"}, NEW x \in bag, x.decl = d
        PROVE  x.code = "N0001"
    <3>1. PICK e \in DOMAIN decls : \E c \in Owed(e) : x = Diagnostic(c, e)
      BY <2>2 DEF BagExact
    <3>2. PICK c \in Owed(e) : x = Diagnostic(c, e)
      BY <3>1
    <3> QED BY <2>2, <3>2, DiagnosticFields
  <2> QED BY <2>1, <2>2
<1>3. Owed(d) \subseteq {"N0001"} <=> ~UnknownType(f) /\ ~Redeclares(d) /\ FnCodes(f) \subseteq {"N0001"}
  <2>1. Owed(d) = When("E0015", UnknownType(f)) \cup (IF Redeclares(d) THEN {"E0100"} ELSE FnCodes(f))
    BY <1>1 DEF Owed
  <2>2. When("E0015", UnknownType(f)) \subseteq {"N0001"} <=> ~UnknownType(f)
    <3>1. UnknownType(f) \in BOOLEAN
      BY DEF UnknownType
    <3> QED BY <3>1, WhenClean, CleanWhen
  <2> HIDE DEF f
  <2> QED BY <2>1, <2>2
<1>4. Owed(d) \subseteq {"N0001"} <=> Clean(f) /\ ~Redeclares(d)
  BY <1>3 DEF Clean
<1>5. Clean(f) <=> Sound(f)
  BY <1>1, CleanIsSound
<1>6. Redeclares(d) <=> \E e \in 1 .. d - 1 : decls[e].name = decls[d].name
  BY DEF Redeclares
<1> QED BY <1>2, <1>4, <1>5, <1>6

(* Before the check, only unknown types are in the bag. *)
LEMMA ExactStart == CheckInit => BagExact
<1> SUFFICES ASSUME CheckInit PROVE BagExact
  OBVIOUS
<1>1. decls \in Files /\ next = 1 /\ DOMAIN decls = 1 .. Len(decls) /\ Len(decls) \in Nat
  BY DeclsDomain DEF CheckInit
<1>2. \A d \in DOMAIN decls : Owed(d) = When("E0015", UnknownType(decls[d]))
  <2>1. \A d \in DOMAIN decls : d >= next
    BY <1>1
  <2> QED BY <2>1 DEF Owed
<1>3. bag = {Diagnostic("E0015", d) : d \in {e \in DOMAIN decls : UnknownType(decls[e])}}
  BY DEF CheckInit
<1>4. ASSUME NEW x
      PROVE  x \in bag <=> \E d \in DOMAIN decls : \E c \in Owed(d) : x = Diagnostic(c, d)
  BY <1>2, <1>3 DEF When
<1> QED BY <1>1, <1>4 DEF BagExact

(* check.File refuses a declaration when, and only when, it cannot be      *)
(* verified, for every file.                                               *)
THEOREM RefusesForCause == HarnessSpec => []RefusedForCause
<1>1. HarnessInit => BagExact
  BY ExactStart DEF HarnessInit
<1>2. BagExact /\ [HarnessNext]_harnessVars => BagExact'
  <2> SUFFICES ASSUME BagExact, [HarnessNext]_harnessVars PROVE BagExact'
    OBVIOUS
  <2>1. CASE Checking
    BY <2>1, ExactStep DEF Checking
  <2>2. CASE UNCHANGED checkVars
    <3>1. decls' = decls /\ next' = next /\ bag' = bag
      BY <2>2 DEF checkVars
    <3>2. \A d : Owed(d)' = Owed(d)
      BY <3>1 DEF Owed, Redeclares
    <3> QED BY <3>1, <3>2 DEF BagExact
  <2> QED BY <2>1, <2>2 DEF HarnessNext, SkipLive, PlanFn, Stopped, harnessVars
<1> QED BY <1>1, <1>2, ExactRefuses, PTL DEF HarnessSpec

----------------------------------------------------------------------------
(* The canonical form: what a cell holds is written as it is read.         *)
(* What the parser leaves of a declaration's tables, until they are checked. *)
BlankColumns(f) ==
  [t \in DOMAIN f.tables |-> [i \in DOMAIN f.tables[t].columns |-> Unresolved]]
BlankValues(f) ==
  [t \in DOMAIN f.tables |->
    [r \in DOMAIN f.tables[t].rows |-> [i \in DOMAIN f.tables[t].columns |-> NoValue]]]
(* What was checked is bound; what was not looked into is blank. *)
Filled(d) ==
  BoundAs(d) \/ (columns[d] = BlankColumns(decls[d]) /\ values[d] = BlankValues(decls[d]))

(* Of every declaration, whatever errors it has. *)
FilledInv ==
  /\ decls \in Files /\ next \in 1 .. Len(decls) + 1
  /\ DOMAIN columns = DOMAIN decls /\ DOMAIN values = DOMAIN decls
  /\ \A d \in DOMAIN decls : Filled(d)

(* The parser leaves all blank. *)
LEMMA FilledStart == CheckInit => FilledInv
<1> SUFFICES ASSUME CheckInit PROVE FilledInv
  OBVIOUS
<1>1. decls \in Files /\ next = 1
  BY DEF CheckInit
<1>2. /\ columns = [d \in DOMAIN decls |-> BlankColumns(decls[d])]
      /\ values = [d \in DOMAIN decls |-> BlankValues(decls[d])]
  BY Zenon DEF CheckInit, BlankColumns, BlankValues
<1>3. next \in 1 .. Len(decls) + 1
  BY <1>1, DeclsDomain
<1> QED BY <1>1, <1>2, <1>3 DEF FilledInv, Filled

(* A step of the check binds one declaration or none. *)
LEMMA FilledStep ==
  ASSUME FilledInv, [CheckNext]_checkVars
  PROVE  FilledInv'
<1>1. CASE UNCHANGED checkVars
  <2>1. decls' = decls /\ next' = next /\ columns' = columns /\ values' = values
    BY <1>1 DEF checkVars
  <2>2. \A d : Filled(d)' <=> Filled(d)
    BY <2>1, Zenon DEF Filled, BoundAs
  <2> QED BY <2>1, <2>2 DEF FilledInv
<1>2. ASSUME CheckNext PROVE /\ decls' = decls /\ next' = next + 1 /\ next \in DOMAIN decls
                             /\ next' \in 1 .. Len(decls) + 1
  BY <1>2, DeclsDomain, SMTT(30) DEF FilledInv, CheckNext, Redeclared, CheckFn, Checked
<1>3. CASE Redeclared
  <2>1. decls' = decls /\ columns' = columns /\ values' = values
    BY <1>3 DEF Redeclared
  <2>2. \A d : Filled(d)' <=> Filled(d)
    BY <2>1, Zenon DEF Filled, BoundAs
  <2> QED BY <1>2, <1>3, <2>1, <2>2 DEF FilledInv, CheckNext
<1>4. CASE CheckFn
  <2>1. /\ columns' = [columns EXCEPT ![next] = BoundColumns(decls[next])]
        /\ values' = [values EXCEPT ![next] = BoundValues(decls[next])]
    BY <1>4 DEF CheckFn, BoundColumns, BoundValues
  <2>2. decls' = decls /\ next \in DOMAIN decls
    BY <1>2, <1>4 DEF CheckNext
  <2>3. ASSUME NEW d \in DOMAIN decls PROVE Filled(d)'
    <3>1. CASE d = next
      BY <2>1, <2>2, <3>1 DEF FilledInv, Filled, BoundAs
    <3>2. CASE d # next
      <4>1. columns'[d] = columns[d] /\ values'[d] = values[d]
        BY <2>1, <3>2 DEF FilledInv
      <4>2. Filled(d)
        BY <2>3 DEF FilledInv
      <4> QED BY <2>2, <4>1, <4>2 DEF Filled, BoundAs
    <3> QED BY <3>1, <3>2
  <2>4. DOMAIN columns' = DOMAIN decls /\ DOMAIN values' = DOMAIN decls
    BY <2>1 DEF FilledInv
  <2> QED BY <1>2, <1>4, <2>2, <2>3, <2>4 DEF FilledInv, CheckNext
<1> QED BY <1>1, <1>3, <1>4 DEF CheckNext

(* The type of a name several parameters have is one of theirs. *)
LEMMA ParamLast ==
  ASSUME NEW f, WellFormedFn(f), NEW n \in ParamSet(f)
  PROVE  \E p \in DOMAIN f.params : TypeOfParam(f, n) = f.params[p].type
<1> DEFINE S == {p \in DOMAIN f.params : f.params[p].name = n}
<1>1. DOMAIN f.params = 1 .. Len(f.params) /\ Len(f.params) \in Nat
  <2>1. \A U : f.params \in Seq(U) => DOMAIN f.params = 1 .. Len(f.params) /\ Len(f.params) \in Nat
    OBVIOUS
  <2> QED BY <2>1 DEF WellFormedFn
<1>2. S \in SUBSET (1 .. Len(f.params)) /\ S # {}
  BY <1>1 DEF ParamSet
<1>3. PICK m \in S : \A j \in S : j <= m
  <2> HIDE DEF S
  <2> QED BY <1>1, <1>2, LeastGreatest
<1> DEFINE last == CHOOSE k \in DOMAIN f.params :
                     /\ f.params[k].name = n
                     /\ \A j \in DOMAIN f.params : f.params[j].name = n => j <= k
<1>4. last \in DOMAIN f.params
  BY <1>3
<1>5. TypeOfParam(f, n) = f.params[last].type
  BY DEF TypeOfParam
<1> QED BY <1>4, <1>5

(* A column of a known type has one of the language's. *)
LEMMA BoundType ==
  ASSUME NEW f, WellFormedFn(f), NEW T, NEW i \in DOMAIN T.columns, Typed(Bind(f, T, i))
  PROVE  Bind(f, T, i).type \in Type
<1>1. f.result.type \in Type /\ \A p \in DOMAIN f.params : f.params[p].type \in Type
  <2>1. f.result \in [name : STRING, type : Type] /\ f.params \in Seq([name : STRING, type : Type])
    BY DEF WellFormedFn
  <2>2. \A S : f.params \in Seq(S) => \A k \in DOMAIN f.params : f.params[k] \in S
    OBVIOUS
  <2>3. \A p \in DOMAIN f.params : f.params[p] \in [name : STRING, type : Type]
    BY <2>1, <2>2
  <2> QED BY <2>1, <2>3
<1> DEFINE n == T.columns[i]
<1>2. \/ Bind(f, T, i) = [kind |-> "output", type |-> f.result.type]
      \/ n \in ParamSet(f) /\ Bind(f, T, i) = [kind |-> "input", type |-> TypeOfParam(f, n)]
  BY DEF Typed, Bind, Unresolved
<1>3. CASE Bind(f, T, i) = [kind |-> "output", type |-> f.result.type]
  BY <1>1, <1>3
<1>4. CASE n \in ParamSet(f) /\ Bind(f, T, i) = [kind |-> "input", type |-> TypeOfParam(f, n)]
  <2> HIDE DEF n
  <2>1. TypeOfParam(f, n) \in Type
    BY <1>1, <1>4, ParamLast
  <2> QED BY <1>4, <2>1
<1> QED BY <1>2, <1>3, <1>4

(* Of a cell: what it was read as, if it was read, is written as it is read. *)
LEMMA CellBack ==
  ASSUME NEW f, WellFormedFn(f), NEW t \in DOMAIN f.tables,
         NEW r \in DOMAIN f.tables[t].rows, NEW i \in DOMAIN f.tables[t].columns,
         CellValue(f, f.tables[t], r, i) # NoValue
  PROVE  LET b == Bind(f, f.tables[t], i)
             v == CellValue(f, f.tables[t], r, i)
         IN Parse(String(v), b.type, b.kind = "output") = v
<1> DEFINE T == f.tables[t]
           b == Bind(f, T, i)
           v == CellValue(f, T, r, i)
           text == T.rows[r][i]
           expected == b.kind = "output"
<1>1. Typed(b) /\ Parse(text, b.type, expected) = v /\ v # NoValue
  BY DEF CellValue
<1>2. b.type \in Type
  BY <1>1, BoundType
<1>3. text \in Seq(STRING)
  BY DEF WellFormedFn, WellFormedTable
<1> DEFINE C == STRING \cup WrittenChars
<1>4. WrittenChars \subseteq C /\ STRING \subseteq C
  OBVIOUS
<1> HIDE DEF C
<1>5. text \in Seq(C)
  BY <1>3, <1>4, SeqMonotonic
<1>6. FloatPlaces \in Nat
  BY LiteralsAssumption
<1> HIDE DEF b, v, text, expected
<1>7. Parse(String(v), b.type, expected) = v
  BY <1>1, <1>2, <1>4, <1>5, <1>6, WrittenBack
<1> QED BY <1>7 DEF b, v, expected

(* So every cell that has a value has one that is read back. *)
LEMMA FilledCanonical ==
  ASSUME FilledInv
  PROVE  CanonicalText
<1> SUFFICES ASSUME NEW d \in 1 .. next - 1, NEW t \in DOMAIN columns[d],
                    NEW i \in DOMAIN columns[d][t], NEW r \in DOMAIN values[d][t],
                    values[d][t][r][i] # NoValue
             PROVE  Parse(String(values[d][t][r][i]), columns[d][t][i].type,
                          columns[d][t][i].kind = "output") = values[d][t][r][i]
  BY DEF CanonicalText
<1> DEFINE f == decls[d]
<1>1. d \in DOMAIN decls /\ WellFormedFn(f) /\ Filled(d)
  BY DeclsDomain DEF FilledInv
<1> HIDE DEF f
<1>2. CASE columns[d] = BlankColumns(f) /\ values[d] = BlankValues(f)
  <2>1. t \in DOMAIN f.tables /\ i \in DOMAIN f.tables[t].columns /\ r \in DOMAIN f.tables[t].rows
    BY <1>2 DEF BlankColumns, BlankValues
  <2>2. values[d][t][r][i] = NoValue
    BY <1>2, <2>1 DEF BlankValues
  <2> QED BY <2>2
<1>3. CASE columns[d] = BoundColumns(f) /\ values[d] = BoundValues(f)
  <2>1. t \in DOMAIN f.tables /\ i \in DOMAIN f.tables[t].columns /\ r \in DOMAIN f.tables[t].rows
    BY <1>3 DEF BoundColumns, BoundValues
  <2>2. values[d][t][r][i] = CellValue(f, f.tables[t], r, i)
    BY <1>3, <2>1 DEF BoundValues
  <2>3. columns[d][t][i] = Bind(f, f.tables[t], i)
    BY <1>3, <2>1 DEF BoundColumns
  <2> QED BY <1>1, <2>1, <2>2, <2>3, CellBack
<1> QED BY <1>1, <1>2, <1>3 DEF Filled, BoundAs, f

(* What a cell was read as is written, for the canonical form, as a        *)
(* literal that is read as the same value: of every type, in an input and  *)
(* in an expectation.                                                      *)
THEOREM CanonicalTexts == HarnessSpec => []CanonicalText
<1>1. HarnessInit => FilledInv
  BY FilledStart DEF HarnessInit
<1>2. FilledInv /\ [HarnessNext]_harnessVars => FilledInv'
  <2>1. [HarnessNext]_harnessVars => [CheckNext]_checkVars
    BY DEF HarnessNext, Checking, SkipLive, PlanFn, Stopped, harnessVars
  <2> QED BY <2>1, FilledStep
<1>3. FilledInv => CanonicalText
  BY FilledCanonical
<1> QED BY <1>1, <1>2, <1>3, PTL DEF HarnessSpec

----------------------------------------------------------------------------
(* A text as its signs, its digits and its point: as Numeric and Said have it, *)
(* and as strings.Cut and the readers of Literals have it.                 *)
(* What is behind the signs of a text. *)
Behind(s) == SubSeq(s, SignLength(s) + 1, Len(s))

(* Two texts with the same characters are one. *)
LEMMA SameTexts ==
  ASSUME NEW C, NEW s \in Seq(C), NEW t \in Seq(C), Len(s) = Len(t), \A i \in 1 .. Len(s) : s[i] = t[i]
  PROVE  s = t
OBVIOUS

(* strings.HasPrefix on two characters, as SignLength has it. *)
LEMMA MinTwo ==
  ASSUME NEW n \in Nat
  PROVE  Min({2, n}) = IF n < 2 THEN n ELSE 2
<1>1. CASE n < 2
  <2>1. n \in {2, n} /\ {2, n} \in SUBSET Int /\ \A i \in {2, n} : n <= i
    BY <1>1
  <2>2. Min({2, n}) = n
    BY <2>1, MinIs
  <2> QED BY <1>1, <2>2
<1>2. CASE ~ (n < 2)
  <2>1. 2 \in {2, n} /\ {2, n} \in SUBSET Int /\ \A i \in {2, n} : 2 <= i
    BY <1>2
  <2>2. Min({2, n}) = 2
    BY <2>1, MinIs
  <2> QED BY <1>2, <2>2
<1> QED BY <1>1, <1>2

(* The text -+ by its characters; *)
LEMMA PairIs ==
  ASSUME NEW C, NEW t \in Seq(C)
  PROVE  t = <<"-", "+">> <=> Len(t) = 2 /\ t[1] = "-" /\ t[2] = "+"
<1>1. ASSUME Len(t) = 2, t[1] = "-", t[2] = "+" PROVE t = <<"-", "+">>
  <2>1. t = <<t[1], t[2]>>
    BY <1>1
  <2> QED BY <1>1, <2>1
<1> QED BY <1>1

(* of a text that begins with it. *)
LEMMA TwoSigns ==
  ASSUME NEW C, NEW s \in Seq(C)
  PROVE  SubSeq(s, 1, Min({2, Len(s)})) = <<"-", "+">> <=> Len(s) >= 2 /\ s[1] = "-" /\ s[2] = "+"
<1> DEFINE m == IF Len(s) < 2 THEN Len(s) ELSE 2
           t == SubSeq(s, 1, m)
<1>1. Len(s) \in Nat /\ m \in 0 .. Len(s) /\ (m = 2 <=> Len(s) >= 2)
  BY SMTT(30)
<1>2. SubSeq(s, 1, Min({2, Len(s)})) = t
  BY <1>1, MinTwo
<1> HIDE DEF m
<1>3. t \in Seq(C) /\ Len(t) = m
  BY <1>1, SplitAt
<1>4. m = 2 => t[1] = s[1] /\ t[2] = s[2]
  BY <1>1
<1> HIDE DEF t
<1>5. t = <<"-", "+">> <=> Len(t) = 2 /\ t[1] = "-" /\ t[2] = "+"
  BY <1>3, PairIs
<1> QED BY <1>1, <1>2, <1>3, <1>4, <1>5

(* The signs before a numeral are at most two, of which the first decides. *)
LEMMA Signs ==
  ASSUME NEW C, NEW s \in Seq(C)
  PROVE  /\ SignLength(s) \in 0 .. 2 /\ SignLength(s) <= Len(s)
         /\ \A i \in 1 .. SignLength(s) : s[i] \in {"-", "+"}
         /\ SignLength(s) = 2 <=> (Len(s) >= 2 /\ s[1] = "-" /\ s[2] = "+")
         /\ SignLength(s) = 0 <=> ~ HasPrefix(s, "-") /\ ~ HasPrefix(s, "+")
<1>1. SignLength(s) = IF Len(s) >= 2 /\ s[1] = "-" /\ s[2] = "+" THEN 2
                      ELSE IF HasPrefix(s, "-") \/ HasPrefix(s, "+") THEN 1 ELSE 0
  BY TwoSigns DEF SignLength
<1>2. \A c : HasPrefix(s, c) <=> Len(s) > 0 /\ s[1] = c
  BY NotEmpty DEF HasPrefix
<1>3. Len(s) \in Nat
  OBVIOUS
<1>4. CASE Len(s) >= 2 /\ s[1] = "-" /\ s[2] = "+"
  <2>1. \A i \in 1 .. 2 : i = 1 \/ i = 2
    OBVIOUS
  <2> QED BY <1>1, <1>2, <1>3, <1>4, <2>1
<1>5. CASE ~ (Len(s) >= 2 /\ s[1] = "-" /\ s[2] = "+")
  <2>1. \A i \in 1 .. 1 : i = 1
    OBVIOUS
  <2> QED BY <1>1, <1>2, <1>3, <1>5, <2>1
<1> QED BY <1>4, <1>5

(* The text behind the signs, character by character. *)
LEMMA BehindSigns ==
  ASSUME NEW C, NEW s \in Seq(C)
  PROVE  /\ Behind(s) \in Seq(C) /\ Len(Behind(s)) = Len(s) - SignLength(s)
         /\ DOMAIN Behind(s) = 1 .. Len(s) - SignLength(s)
         /\ \A j \in 1 .. Len(s) - SignLength(s) : Behind(s)[j] = s[SignLength(s) + j]
<1> DEFINE k == SignLength(s)
<1>1. k \in Nat /\ k <= Len(s) /\ Len(s) \in Nat
  BY Signs
<1> HIDE DEF k
<1>2. SubSeq(s, k + 1, Len(s)) \in Seq(C) /\ Len(SubSeq(s, k + 1, Len(s))) = Len(s) - k
  BY <1>1, SplitAt
<1>3. \A j \in 1 .. Len(s) - k : SubSeq(s, k + 1, Len(s))[j] = s[k + j]
  BY <1>1
<1> QED BY <1>2, <1>3 DEF Behind, k

(* The text behind its first character. *)
LEMMA TailOf ==
  ASSUME NEW C, NEW s \in Seq(C), Len(s) > 0
  PROVE  Tail(s) \in Seq(C) /\ Len(Tail(s)) = Len(s) - 1 /\ \A j \in 1 .. Len(s) - 1 : Tail(s)[j] = s[j + 1]
OBVIOUS

(* The readers take the signs off. *)
LEMMA SignsTaken ==
  ASSUME NEW C, NEW s \in Seq(C)
  PROVE  /\ TrimPrefix(TrimPrefix(s, "-"), "+") = Behind(s)
         /\ SignLength(s) < 2 => Unsigned(s) = Behind(s)
         /\ SignLength(s) = 2 => ~ AllDigits(Unsigned(s))
<1> DEFINE k == SignLength(s)
<1>1. /\ k \in 0 .. 2 /\ k <= Len(s) /\ Len(s) \in Nat
      /\ k = 2 <=> (Len(s) >= 2 /\ s[1] = "-" /\ s[2] = "+")
      /\ k = 0 <=> ~ HasPrefix(s, "-") /\ ~ HasPrefix(s, "+")
      /\ \A i \in 1 .. k : s[i] \in {"-", "+"}
  BY Signs
<1>2. /\ Behind(s) \in Seq(C) /\ Len(Behind(s)) = Len(s) - k
      /\ \A j \in 1 .. Len(s) - k : Behind(s)[j] = s[k + j]
  BY BehindSigns
<1>3. \A t \in Seq(C) : \A c : HasPrefix(t, c) <=> Len(t) > 0 /\ t[1] = c
  BY NotEmpty DEF HasPrefix
<1> HIDE DEF k
<1>4. CASE k = 0
  <2>1. Behind(s) = s
    BY <1>1, <1>2, <1>4, SameTexts
  <2> QED BY <1>1, <1>4, <2>1 DEF TrimPrefix, Unsigned, k
<1>5. CASE k = 1
  <2>1. Len(s) > 0 /\ s[1] \in {"-", "+"}
    BY <1>1, <1>5
  <2>2. Tail(s) = Behind(s)
    BY <1>1, <1>2, <1>5, <2>1, TailOf, SameTexts
  <2>3. HasPrefix(s, "-") => ~ HasPrefix(Tail(s), "+")
    <3> SUFFICES ASSUME HasPrefix(s, "-"), HasPrefix(Tail(s), "+") PROVE FALSE
      OBVIOUS
    <3>1. Tail(s) \in Seq(C) /\ Len(Tail(s)) = Len(s) - 1 /\ \A j \in 1 .. Len(s) - 1 : Tail(s)[j] = s[j + 1]
      BY <2>1, TailOf
    <3>2. s[1] = "-" /\ Len(Tail(s)) > 0 /\ Tail(s)[1] = "+"
      BY <1>3, <3>1
    <3>3. Len(s) >= 2 /\ s[2] = "+"
      BY <1>1, <3>1, <3>2
    <3> QED BY <1>1, <1>5, <3>2, <3>3
  <2>4. HasPrefix(s, "-") \/ HasPrefix(s, "+")
    BY <1>3, <2>1
  <2> QED BY <1>5, <2>2, <2>3, <2>4 DEF TrimPrefix, Unsigned, k
<1>6. CASE k = 2
  <2>1. HasPrefix(s, "-") /\ Len(s) > 0 /\ Len(s) >= 2 /\ s[2] = "+"
    BY <1>1, <1>3, <1>6
  <2>2. Tail(s) \in Seq(C) /\ Len(Tail(s)) = Len(s) - 1 /\ \A j \in 1 .. Len(s) - 1 : Tail(s)[j] = s[j + 1]
    BY <2>1, TailOf
  <2>3. Len(Tail(s)) > 0 /\ Tail(s)[1] = "+"
    BY <1>1, <2>1, <2>2
  <2>4. HasPrefix(Tail(s), "+")
    BY <1>3, <2>2, <2>3
  <2>5. Tail(Tail(s)) = Behind(s)
    <3> DEFINE t == Tail(s)
    <3> HIDE DEF t
    <3>1. Tail(t) \in Seq(C) /\ Len(Tail(t)) = Len(t) - 1 /\ \A j \in 1 .. Len(t) - 1 : Tail(t)[j] = t[j + 1]
      BY <2>2, <2>3, TailOf DEF t
    <3>2. Len(Tail(t)) = Len(s) - 2 /\ \A j \in 1 .. Len(s) - 2 : Tail(t)[j] = s[j + 2]
      BY <1>1, <2>1, <2>2, <3>1 DEF t
    <3> QED BY <1>1, <1>2, <1>6, <3>1, <3>2, SameTexts DEF t
  <2>6. ~ IsDigit("+")
    BY FigureValue, FigureChars
  <2>7. ~ AllDigits(Tail(s))
    <3>1. 1 \in DOMAIN Tail(s)
      BY <2>2, <2>3
    <3> QED BY <2>3, <2>6, <3>1 DEF AllDigits
  <2> QED BY <1>6, <2>1, <2>4, <2>5, <2>7 DEF TrimPrefix, Unsigned, k
<1> QED BY <1>1, <1>4, <1>5, <1>6

(* strings.Cut, character by character. *)
LEMMA CutPlaces ==
  ASSUME NEW C, NEW t \in Seq(C), NEW c
  PROVE  LET cut == Cut(t, c)
             m == Len(cut.before)
             l == Len(cut.after)
         IN /\ cut.before \in Seq(C) /\ cut.after \in Seq(C) /\ cut.found \in BOOLEAN
            /\ \A j \in 1 .. m : t[j] = cut.before[j] /\ t[j] # c
            /\ ~cut.found => Len(t) = m /\ l = 0
            /\ cut.found => Len(t) = m + 1 + l /\ t[m + 1] = c /\ \A j \in 1 .. l : t[m + 1 + j] = cut.after[j]
<1> DEFINE at == {i \in DOMAIN t : t[i] = c}
           cut == Cut(t, c)
           p == Min(at)
<1>1. Len(t) \in Nat /\ DOMAIN t = 1 .. Len(t)
  OBVIOUS
<1>2. cut = IF at = {} THEN [before |-> t, after |-> <<>>, found |-> FALSE]
            ELSE [before |-> SubSeq(t, 1, p - 1), after |-> SubSeq(t, p + 1, Len(t)), found |-> TRUE]
  BY DEF Cut
<1>3. CASE at = {}
  <2>1. cut.before = t /\ cut.after = <<>> /\ cut.found = FALSE
    BY <1>2, <1>3
  <2>2. \A j \in 1 .. Len(t) : t[j] # c
    BY <1>1, <1>3
  <2>3. <<>> \in Seq(C) /\ Len(<<>>) = 0
    OBVIOUS
  <2> HIDE DEF at, cut
  <2> QED BY <2>1, <2>2, <2>3 DEF cut
<1>4. CASE at # {}
  <2>1. p \in at /\ \A i \in at : p <= i
    <3>1. at \in SUBSET (1 .. Len(t))
      BY <1>1
    <3> HIDE DEF at
    <3> QED BY <1>1, <1>4, <3>1, LeastGreatest
  <2>2. p \in 1 .. Len(t) /\ t[p] = c /\ \A i \in 1 .. p - 1 : t[i] # c
    <3> HIDE DEF p
    <3>1. p \in 1 .. Len(t) /\ t[p] = c
      BY <1>1, <2>1
    <3>2. ASSUME NEW i \in 1 .. p - 1, t[i] = c PROVE FALSE
      <4>1. i \in at /\ i < p
        BY <1>1, <3>1, <3>2
      <4> HIDE DEF at
      <4> QED BY <2>1, <3>1, <3>2, <4>1
    <3> QED BY <3>1, <3>2
  <2>3. cut.before = SubSeq(t, 1, p - 1) /\ cut.after = SubSeq(t, p + 1, Len(t)) /\ cut.found = TRUE
    <3> HIDE DEF at, p, cut
    <3> QED BY <1>2, <1>4
  <2> HIDE DEF at, p, cut
  <2>4. p - 1 \in 0 .. Len(t) /\ p \in 0 .. Len(t)
    BY <1>1, <2>2
  <2>5. SubSeq(t, 1, p - 1) \in Seq(C) /\ Len(SubSeq(t, 1, p - 1)) = p - 1
    BY <2>4, SplitAt
  <2>6. SubSeq(t, p + 1, Len(t)) \in Seq(C) /\ Len(SubSeq(t, p + 1, Len(t))) = Len(t) - p
    BY <2>4, SplitAt
  <2>7. \A j \in 1 .. p - 1 : SubSeq(t, 1, p - 1)[j] = t[j]
    <3> DEFINE q == p - 1
    <3>1. q \in 0 .. Len(t)
      BY <2>4
    <3> HIDE DEF q
    <3>2. \A j \in 1 .. q : SubSeq(t, 1, q)[j] = t[j]
      BY <1>1, <3>1
    <3> QED BY <3>2 DEF q
  <2>8. \A j \in 1 .. Len(t) - p : SubSeq(t, p + 1, Len(t))[j] = t[p + j]
    <3> DEFINE q == p
    <3>1. q \in 0 .. Len(t)
      BY <2>4
    <3> HIDE DEF q
    <3>2. \A j \in 1 .. Len(t) - q : SubSeq(t, q + 1, Len(t))[j] = t[q + j]
      BY <1>1, <3>1
    <3> QED BY <3>2 DEF q
  <2>9. (p - 1) + 1 = p /\ Len(t) = (p - 1) + 1 + (Len(t) - p)
    BY <1>1, <2>2
  <2> DEFINE a == SubSeq(t, 1, p - 1)
             b == SubSeq(t, p + 1, Len(t))
  <2>10. a \in Seq(C) /\ b \in Seq(C) /\ Len(a) + 1 = p /\ Len(t) = Len(a) + 1 + Len(b)
         /\ (\A j \in 1 .. Len(a) : t[j] = a[j] /\ t[j] # c)
         /\ (\A j \in 1 .. Len(b) : t[p + j] = b[j])
    BY <2>2, <2>5, <2>6, <2>7, <2>8, <2>9
  <2>11. cut.before = a /\ cut.after = b /\ cut.found = TRUE
    BY <2>3
  <2> HIDE DEF a, b
  <2>12. t[Len(a) + 1] = c /\ \A j \in 1 .. Len(b) : t[Len(a) + 1 + j] = b[j]
    BY <2>2, <2>10
  <2> QED BY <2>10, <2>11, <2>12 DEF cut
<1> QED BY <1>3, <1>4

(* The digits of a literal before its point and behind it. *)
Whole(s) == Cut(Behind(s), ".").before
Fraction(s) == Cut(Behind(s), ".").after
Pointed(s) == Cut(Behind(s), ".").found

(* A text as its signs, what is before the point, the point and what is    *)
(* behind it.                                                              *)
LEMMA Parted ==
  ASSUME NEW C, NEW s \in Seq(C)
  PROVE  LET k == SignLength(s)
             m == Len(Whole(s))
             l == Len(Fraction(s))
         IN /\ k \in Nat /\ m \in Nat /\ l \in Nat
            /\ Whole(s) \in Seq(C) /\ Fraction(s) \in Seq(C) /\ Pointed(s) \in BOOLEAN
            /\ Len(s) = k + m + IF Pointed(s) THEN 1 + l ELSE 0
            /\ ~Pointed(s) => l = 0
            /\ \A i \in 1 .. k : s[i] \in {"-", "+"}
            /\ \A j \in 1 .. m : s[k + j] = Whole(s)[j] /\ s[k + j] # "."
            /\ Pointed(s) => s[k + m + 1] = "." /\ \A j \in 1 .. l : s[k + m + 1 + j] = Fraction(s)[j]
<1> DEFINE k == SignLength(s)
           t == Behind(s)
           m == Len(Whole(s))
           l == Len(Fraction(s))
<1>1. k \in Nat /\ k <= Len(s) /\ Len(s) \in Nat /\ \A i \in 1 .. k : s[i] \in {"-", "+"}
  BY Signs
<1>2. t \in Seq(C) /\ Len(t) = Len(s) - k /\ \A j \in 1 .. Len(s) - k : t[j] = s[k + j]
  BY BehindSigns
<1>3. /\ Whole(s) \in Seq(C) /\ Fraction(s) \in Seq(C) /\ Pointed(s) \in BOOLEAN
      /\ \A j \in 1 .. m : t[j] = Whole(s)[j] /\ t[j] # "."
      /\ ~Pointed(s) => Len(t) = m /\ l = 0
      /\ Pointed(s) => Len(t) = m + 1 + l /\ t[m + 1] = "." /\ \A j \in 1 .. l : t[m + 1 + j] = Fraction(s)[j]
  <2> HIDE DEF t
  <2>1. t \in Seq(C)
    BY <1>2
  <2> QED BY <2>1, CutPlaces DEF Whole, Fraction, Pointed, t
<1>4. m \in Nat /\ l \in Nat
  BY <1>3
<1> HIDE DEF k, t, m, l
<1>5. \A j \in 1 .. m : s[k + j] = Whole(s)[j] /\ s[k + j] # "."
  <2>1. m <= Len(s) - k
    BY <1>1, <1>2, <1>3, <1>4
  <2> QED BY <1>1, <1>2, <1>3, <1>4, <2>1, SMTT(30)
<1>6. ASSUME Pointed(s)
      PROVE  s[k + m + 1] = "." /\ \A j \in 1 .. l : s[k + m + 1 + j] = Fraction(s)[j]
  <2>1. Len(s) - k = m + 1 + l
    BY <1>2, <1>3, <1>6
  <2>2. s[k + (m + 1)] = "." /\ k + (m + 1) = k + m + 1
    <3>1. m + 1 \in 1 .. Len(s) - k
      BY <1>1, <1>4, <2>1
    <3>2. t[m + 1] = s[k + (m + 1)]
      BY <1>2, <3>1
    <3>3. t[m + 1] = "."
      BY <1>3, <1>6
    <3> QED BY <1>1, <1>4, <3>2, <3>3
  <2>3. ASSUME NEW j \in 1 .. l PROVE s[k + m + 1 + j] = Fraction(s)[j]
    <3>1. m + 1 + j \in 1 .. Len(s) - k /\ k + (m + 1 + j) = k + m + 1 + j
      BY <1>1, <1>4, <2>1
    <3> QED BY <1>2, <1>3, <1>6, <3>1
  <2> QED BY <2>2, <2>3
<1>7. Len(s) = k + m + IF Pointed(s) THEN 1 + l ELSE 0
  BY <1>1, <1>2, <1>3, <1>4
<1>8. \A i \in 1 .. k : s[i] \in {"-", "+"}
  BY <1>1
<1>9. Whole(s) \in Seq(C) /\ Fraction(s) \in Seq(C) /\ Pointed(s) \in BOOLEAN /\ (~Pointed(s) => l = 0)
  BY <1>3
<1>10. Pointed(s) => s[k + m + 1] = "." /\ \A j \in 1 .. l : s[k + m + 1 + j] = Fraction(s)[j]
  BY <1>6
<1>11. k \in Nat
  BY <1>1
<1> QED BY <1>4, <1>5, <1>7, <1>8, <1>9, <1>10, <1>11, Zenon DEF k, m, l

(* Where the digits of a literal stand: j counts them, the point apart. *)
Place(s, j) == IF j <= Len(Whole(s)) THEN SignLength(s) + j ELSE SignLength(s) + 1 + j

(* A point is neither a sign nor a digit. *)
LEMMA PointsAre ==
  ASSUME NEW C, NEW s \in Seq(C)
  PROVE  /\ ~Pointed(s) => PointPlaces(s) = {}
         /\ Pointed(s) => SignLength(s) + Len(Whole(s)) + 1 \in PointPlaces(s)
         /\ AllDigits(Fraction(s)) /\ Pointed(s) => PointPlaces(s) = {SignLength(s) + Len(Whole(s)) + 1}
<1> DEFINE k == SignLength(s)
           m == Len(Whole(s))
           l == Len(Fraction(s))
<1>1. /\ k \in Nat /\ m \in Nat /\ l \in Nat /\ Fraction(s) \in Seq(C) /\ Pointed(s) \in BOOLEAN
      /\ Len(s) = k + m + IF Pointed(s) THEN 1 + l ELSE 0
      /\ \A i \in 1 .. k : s[i] \in {"-", "+"}
      /\ \A j \in 1 .. m : s[k + j] # "."
      /\ Pointed(s) => s[k + m + 1] = "." /\ \A j \in 1 .. l : s[k + m + 1 + j] = Fraction(s)[j]
  BY Parted
<1>2. Len(s) \in Nat /\ DOMAIN s = 1 .. Len(s) /\ DOMAIN Fraction(s) = 1 .. l
  BY <1>1
<1> HIDE DEF k, m, l
<1>3. \A i \in 1 .. k + m : s[i] # "."
  <2> SUFFICES ASSUME NEW i \in 1 .. k + m PROVE s[i] # "."
    OBVIOUS
  <2>1. CASE i <= k
    BY <1>1, <2>1
  <2>2. CASE i > k
    <3>1. i - k \in 1 .. m /\ k + (i - k) = i
      BY <1>1, <2>2
    <3> QED BY <1>1, <3>1
  <2> QED BY <1>1, <2>1, <2>2
<1>4. PointPlaces(s) = {i \in 1 .. Len(s) : s[i] = "."}
  BY <1>2 DEF PointPlaces
<1>5. ~Pointed(s) => PointPlaces(s) = {}
  <2> SUFFICES ASSUME ~Pointed(s) PROVE PointPlaces(s) = {}
    OBVIOUS
  <2>1. Len(s) = k + m
    BY <1>1
  <2> QED BY <1>3, <1>4, <2>1
<1>6. ASSUME Pointed(s) PROVE k + m + 1 \in PointPlaces(s)
  BY <1>1, <1>2, <1>4, <1>6
<1>7. ASSUME Pointed(s), AllDigits(Fraction(s)) PROVE PointPlaces(s) = {k + m + 1}
  <2>1. \A j \in 1 .. l : Fraction(s)[j] # "."
    BY <1>2, <1>7, FigureValue, FigureChars DEF AllDigits
  <2>2. ASSUME NEW i \in 1 .. Len(s), i > k + m + 1 PROVE s[i] # "."
    <3>1. i - (k + m + 1) \in 1 .. l /\ k + m + 1 + (i - (k + m + 1)) = i
      BY <1>1, <1>7, <2>2
    <3> QED BY <1>1, <1>7, <2>1, <3>1
  <2>3. \A i \in PointPlaces(s) : i = k + m + 1
    BY <1>1, <1>3, <1>4, <2>2
  <2> QED BY <1>6, <1>7, <2>3
<1> QED BY <1>5, <1>6, <1>7 DEF k, m

(* The digits of a literal that has no other character behind its signs. *)
LEMMA DigitsAre ==
  ASSUME NEW C, NEW s \in Seq(C), AllDigits(Whole(s)), AllDigits(Fraction(s))
  PROVE  LET n == Len(Whole(s)) + Len(Fraction(s))
         IN /\ n \in Nat /\ DigitPlaces(s) = {Place(s, j) : j \in 1 .. n}
            /\ \A j \in 1 .. n : s[Place(s, j)] = (Whole(s) \o Fraction(s))[j]
            /\ DOMAIN s = (1 .. SignLength(s)) \cup DigitPlaces(s) \cup PointPlaces(s)
<1> DEFINE k == SignLength(s)
           m == Len(Whole(s))
           l == Len(Fraction(s))
           a == Whole(s)
           b == Fraction(s)
           n == m + l
           P == {Place(s, j) : j \in 1 .. n}
<1>1. /\ k \in Nat /\ m \in Nat /\ l \in Nat /\ a \in Seq(C) /\ b \in Seq(C) /\ Pointed(s) \in BOOLEAN
      /\ Len(s) = k + m + IF Pointed(s) THEN 1 + l ELSE 0
      /\ ~Pointed(s) => l = 0
      /\ \A i \in 1 .. k : s[i] \in {"-", "+"}
      /\ \A j \in 1 .. m : s[k + j] = a[j]
      /\ Pointed(s) => s[k + m + 1] = "." /\ \A j \in 1 .. l : s[k + m + 1 + j] = b[j]
  BY Parted
<1>2. Len(s) \in Nat /\ DOMAIN s = 1 .. Len(s) /\ DOMAIN a = 1 .. m /\ DOMAIN b = 1 .. l
  BY <1>1
<1>3. (\A j \in 1 .. m : IsDigit(a[j])) /\ \A j \in 1 .. l : IsDigit(b[j])
  BY <1>2 DEF AllDigits
<1>4. ~IsDigit("-") /\ ~IsDigit("+") /\ ~IsDigit(".")
  BY FigureValue, FigureChars
<1>5. /\ \A j \in 1 .. m : (a \o b)[j] = a[j]
      /\ \A j \in 1 .. l : (a \o b)[m + j] = b[j]
  BY <1>1
<1>6. (\A j \in 1 .. m : Place(s, j) = k + j) /\ \A j \in m + 1 .. n : Place(s, j) = k + 1 + j
  BY <1>1 DEF Place
<1>7. (~Pointed(s) => PointPlaces(s) = {}) /\ (Pointed(s) => PointPlaces(s) = {k + m + 1})
  BY PointsAre
<1> HIDE DEF k, m, l, a, b
<1>8. \A j \in 1 .. n : s[Place(s, j)] = (a \o b)[j] /\ Place(s, j) \in 1 .. Len(s) /\ IsDigit(s[Place(s, j)])
  <2> TAKE j \in 1 .. n
  <2>1. CASE j <= m
    <3>1. j \in 1 .. m /\ Place(s, j) = k + j /\ k + j \in 1 .. Len(s)
      BY <1>1, <1>6, <2>1
    <3> QED BY <1>1, <1>3, <1>5, <3>1
  <2>2. CASE j > m
    <3>1. j - m \in 1 .. l /\ m + (j - m) = j /\ k + m + 1 + (j - m) = k + 1 + j /\ Pointed(s)
      BY <1>1, <2>2
    <3>2. Place(s, j) = k + 1 + j /\ k + 1 + j \in 1 .. Len(s)
      BY <1>1, <1>6, <2>2, <3>1
    <3>3. s[k + 1 + j] = b[j - m] /\ (a \o b)[j] = b[j - m]
      BY <1>1, <1>5, <3>1
    <3> QED BY <1>3, <3>1, <3>2, <3>3
  <2>3. j <= m \/ j > m
    BY <1>1
  <2> QED BY <2>1, <2>2, <2>3, Zenon
<1>9. \A i \in 1 .. Len(s) : i \in 1 .. k \/ i \in P \/ (Pointed(s) /\ i = k + m + 1)
  <2> TAKE i \in 1 .. Len(s)
  <2>1. CASE i <= k
    BY <1>1, <2>1
  <2>2. CASE i > k /\ i <= k + m
    <3>1. i - k \in 1 .. n /\ Place(s, i - k) = i
      BY <1>1, <1>6, <2>2
    <3> QED BY <3>1
  <2>3. CASE i = k + m + 1
    BY <1>1, <2>3
  <2>4. CASE i > k + m + 1
    <3>1. i - k - 1 \in m + 1 .. n /\ k + 1 + (i - k - 1) = i
      BY <1>1, <2>4
    <3>2. i - k - 1 \in 1 .. n /\ Place(s, i - k - 1) = i
      BY <1>1, <1>6, <3>1
    <3> QED BY <3>2
  <2> QED BY <1>1, <2>1, <2>2, <2>3, <2>4
<1>10. DigitPlaces(s) = {i \in 1 .. Len(s) : IsDigit(s[i])}
  BY <1>2 DEF DigitPlaces
<1>11. \A i \in P : i \in DigitPlaces(s)
  BY <1>8, <1>10
<1>12. \A i \in DigitPlaces(s) : i \in P
  <2> TAKE i \in DigitPlaces(s)
  <2>1. i \in 1 .. Len(s) /\ IsDigit(s[i])
    BY <1>10
  <2>2. i \notin 1 .. k
    BY <1>1, <1>4, <2>1
  <2>3. ~(Pointed(s) /\ i = k + m + 1)
    BY <1>1, <1>4, <2>1
  <2> HIDE DEF P
  <2> QED BY <1>9, <2>1, <2>2, <2>3
<1> HIDE DEF P
<1>13. DigitPlaces(s) = P
  BY <1>11, <1>12
<1>14. DOMAIN s = (1 .. k) \cup DigitPlaces(s) \cup PointPlaces(s)
  <2>1. \A i \in 1 .. Len(s) : i \in (1 .. k) \cup P \cup PointPlaces(s)
    BY <1>7, <1>9
  <2>2. \A i \in 1 .. k : i \in 1 .. Len(s)
    BY <1>1
  <2>3. PointPlaces(s) \subseteq 1 .. Len(s) /\ DigitPlaces(s) \subseteq 1 .. Len(s)
    BY <1>2 DEF PointPlaces, DigitPlaces
  <2> QED BY <1>2, <1>13, <2>1, <2>2, <2>3
<1>15. n \in Nat
  BY <1>1
<1> QED BY <1>8, <1>13, <1>14, <1>15 DEF P, k, m, l, a, b

(* Numeric, from what strings.Cut makes of the text. *)
LEMMA NumericIs ==
  ASSUME NEW C, NEW s \in Seq(C)
  PROVE  Numeric(s) <=> Behind(s) # <<>> /\ AllDigits(Whole(s)) /\ AllDigits(Fraction(s))
<1> DEFINE k == SignLength(s)
           m == Len(Whole(s))
           l == Len(Fraction(s))
<1>1. /\ k \in Nat /\ m \in Nat /\ l \in Nat /\ Whole(s) \in Seq(C) /\ Fraction(s) \in Seq(C)
      /\ Pointed(s) \in BOOLEAN
      /\ Len(s) = k + m + IF Pointed(s) THEN 1 + l ELSE 0
      /\ ~Pointed(s) => l = 0
      /\ \A i \in 1 .. k : s[i] \in {"-", "+"}
      /\ \A j \in 1 .. m : s[k + j] = Whole(s)[j] /\ s[k + j] # "."
      /\ Pointed(s) => s[k + m + 1] = "." /\ \A j \in 1 .. l : s[k + m + 1 + j] = Fraction(s)[j]
  BY Parted
<1>2. Len(s) \in Nat /\ DOMAIN s = 1 .. Len(s) /\ DOMAIN Whole(s) = 1 .. m /\ DOMAIN Fraction(s) = 1 .. l
  BY <1>1
<1>3. Behind(s) # <<>> <=> k < Len(s)
  BY <1>1, <1>2, BehindSigns
<1>4. PointPlaces(s) \subseteq 1 .. Len(s)
  BY <1>2 DEF PointPlaces
<1>5. (~Pointed(s) => PointPlaces(s) = {}) /\ (Pointed(s) => k + m + 1 \in PointPlaces(s))
  BY PointsAre
<1>6. Numeric(s) <=> /\ k < Len(s) /\ Cardinality(PointPlaces(s)) <= 1
                     /\ DOMAIN s = (1 .. k) \cup DigitPlaces(s) \cup PointPlaces(s)
  BY DEF Numeric
<1> HIDE DEF k, m, l
<1>7. ASSUME k < Len(s), AllDigits(Whole(s)), AllDigits(Fraction(s)) PROVE Numeric(s)
  <2>1. DOMAIN s = (1 .. k) \cup DigitPlaces(s) \cup PointPlaces(s)
    BY <1>7, DigitsAre DEF k
  <2>2. PointPlaces(s) = {} \/ PointPlaces(s) = {k + m + 1}
    BY <1>1, <1>7, PointsAre DEF k, m
  <2>3. Cardinality(PointPlaces(s)) <= 1
    <3>1. Cardinality({}) = 0 /\ Cardinality({k + m + 1}) = 1
      BY FS_EmptySet, FS_Singleton
    <3>2. Cardinality(PointPlaces(s)) = 0 \/ Cardinality(PointPlaces(s)) = 1
      BY <2>2, <3>1, Zenon
    <3> QED BY <3>2
  <2> QED BY <1>6, <1>7, <2>1, <2>3
<1>8. ASSUME Numeric(s) PROVE AllDigits(Whole(s)) /\ AllDigits(Fraction(s))
  <2>1. \A i \in 1 .. Len(s) : i > k /\ s[i] # "." => IsDigit(s[i])
    <3> TAKE i \in 1 .. Len(s)
    <3> HAVE i > k /\ s[i] # "."
    <3>1. i \notin 1 .. k /\ i \notin PointPlaces(s)
      BY <1>1 DEF PointPlaces
    <3>2. i \in DigitPlaces(s)
      BY <1>2, <1>6, <1>8, <3>1
    <3> QED BY <3>2 DEF DigitPlaces
  <2>2. \A j \in 1 .. m : IsDigit(Whole(s)[j])
    <3> TAKE j \in 1 .. m
    <3>1. k + j \in 1 .. Len(s) /\ k + j > k
      BY <1>1
    <3> QED BY <1>1, <2>1, <3>1
  <2>3. \A i, j \in PointPlaces(s) : i = j
    <3>1. IsFiniteSet(PointPlaces(s))
      <4>1. IsFiniteSet(1 .. Len(s))
        BY <1>2, FS_Interval
      <4> QED BY <1>4, <4>1, FS_Subset
    <3>2. SUFFICES ASSUME NEW i \in PointPlaces(s), NEW j \in PointPlaces(s), i # j PROVE FALSE
      OBVIOUS
    <3>3. Cardinality({i, j}) = 2
      <4>1. IsFiniteSet({i}) /\ Cardinality({i}) = 1
        BY FS_Singleton
      <4>2. Cardinality({i} \cup {j}) = Cardinality({i}) + 1
        BY <3>2, <4>1, FS_AddElement
      <4>3. Cardinality({i} \cup {j}) = 2
        <5> DEFINE one == Cardinality({i})
                   two == Cardinality({i} \cup {j})
        <5>1. one = 1 /\ two = one + 1
          BY <4>1, <4>2
        <5> HIDE DEF one, two
        <5>2. two = 2
          BY <5>1
        <5> QED BY <5>2 DEF two
      <4>4. {i, j} = {i} \cup {j}
        OBVIOUS
      <4> QED BY <4>3, <4>4, Zenon
    <3>4. Cardinality({i, j}) <= Cardinality(PointPlaces(s)) /\ Cardinality(PointPlaces(s)) \in Nat
      <4>1. {i, j} \subseteq PointPlaces(s)
        BY <3>2
      <4> QED BY <3>1, <4>1, FS_Subset, FS_CardinalityType
    <3> QED BY <1>6, <1>8, <3>3, <3>4
  <2>4. \A j \in 1 .. l : IsDigit(Fraction(s)[j])
    <3> TAKE j \in 1 .. l
    <3>1. Pointed(s)
      BY <1>1
    <3>2. k + m + 1 + j \in 1 .. Len(s) /\ k + m + 1 + j > k /\ k + m + 1 + j # k + m + 1
      BY <1>1, <3>1
    <3>3. s[k + m + 1 + j] # "."
      <4> SUFFICES ASSUME s[k + m + 1 + j] = "." PROVE FALSE
        OBVIOUS
      <4>1. k + m + 1 + j \in PointPlaces(s)
        BY <1>2, <3>2 DEF PointPlaces
      <4> QED BY <1>5, <2>3, <3>1, <3>2, <4>1
    <3> QED BY <1>1, <2>1, <3>1, <3>2, <3>3
  <2> QED BY <1>2, <2>2, <2>4 DEF AllDigits
<1> QED BY <1>3, <1>6, <1>7, <1>8

----------------------------------------------------------------------------
(* What the digits of a text say: the sum of what each counts is the number *)
(* that is read.                                                           *)
(* What the digit at i counts, and the sums of that over the places. *)
Term(s, scale, i) == DigitValue(s[i]) * PowerOfTen(Weight(s, i, scale))
(* The sum over any of those places: the recursive function that Said applies. *)
Totals(s, scale) ==
  LET iter[T \in SUBSET DigitPlaces(s)] ==
        IF T = {} THEN 0
        ELSE LET x == CHOOSE x \in T : TRUE IN Term(s, scale, x) + iter[T \ {x}]
  IN iter

(* Said is that sum over all the places of digits, with the sign. *)
LEMMA SaidIs ==
  \A s, scale : Said(s, scale) =
    IF HasPrefix(s, "-") THEN -(Totals(s, scale)[DigitPlaces(s)]) ELSE Totals(s, scale)[DigitPlaces(s)]
BY Zenon DEF Said, MapThenSumSet, MapThenFoldSet, Totals, Term

(* What the recursive function of that sum is defined by, *)
Totalled(s, scale, f) ==
  f = [T \in SUBSET DigitPlaces(s) |->
         IF T = {} THEN 0
         ELSE LET x == CHOOSE x \in T : TRUE IN Term(s, scale, x) + f[T \ {x}]]

Terms(s, scale) == [i \in DigitPlaces(s) |-> Term(s, scale, i)]

(* which is that it sums the terms, *)
LEMMA SumsTotalled ==
  ASSUME NEW s, NEW scale, NEW f, Sums(f, Terms(s, scale))
  PROVE  Totalled(s, scale, f)
<1> DEFINE D == DigitPlaces(s)
           g == Terms(s, scale)
<1>1. DOMAIN g = D /\ \A i \in D : g[i] = Term(s, scale, i)
  BY DEF Terms
<1> HIDE DEF g, D
<1>2. f = [T \in SUBSET D |-> IF T = {} THEN 0 ELSE g[Some(T)] + f[T \ {Some(T)}]]
  BY <1>1, Zenon DEF Sums, g
<1>3. \A T \in SUBSET D : T # {} => Some(T) \in D
  BY DEF Some
<1>4. \A T \in SUBSET D : (IF T = {} THEN 0 ELSE g[Some(T)] + f[T \ {Some(T)}])
                        = (IF T = {} THEN 0 ELSE Term(s, scale, Some(T)) + f[T \ {Some(T)}])
  BY <1>1, <1>3, Zenon
<1>5. f = [T \in SUBSET D |-> IF T = {} THEN 0 ELSE Term(s, scale, Some(T)) + f[T \ {Some(T)}]]
  BY <1>2, <1>4, Zenon
<1> QED BY <1>5, Zenon DEF Totalled, Some, D

(* and the other way round. *)
LEMMA TotalledSums ==
  ASSUME NEW s, NEW scale, NEW f, Totalled(s, scale, f)
  PROVE  Sums(f, Terms(s, scale))
<1> DEFINE D == DigitPlaces(s)
           g == Terms(s, scale)
<1>1. DOMAIN g = D /\ \A i \in D : g[i] = Term(s, scale, i)
  BY DEF Terms
<1> HIDE DEF g, D
<1>2. f = [T \in SUBSET D |-> IF T = {} THEN 0 ELSE Term(s, scale, Some(T)) + f[T \ {Some(T)}]]
  BY Zenon DEF Totalled, Some, D
<1>3. \A T \in SUBSET D : T # {} => Some(T) \in D
  BY DEF Some
<1>4. \A T \in SUBSET D : (IF T = {} THEN 0 ELSE g[Some(T)] + f[T \ {Some(T)}])
                        = (IF T = {} THEN 0 ELSE Term(s, scale, Some(T)) + f[T \ {Some(T)}])
  BY <1>1, <1>3, Zenon
<1>5. f = [T \in SUBSET D |-> IF T = {} THEN 0 ELSE g[Some(T)] + f[T \ {Some(T)}]]
  BY <1>2, <1>4, Zenon
<1> QED BY <1>1, <1>5, Zenon DEF Sums, g

(* So it does, as there is such a sum. *)
LEMMA TotalsSum ==
  ASSUME NEW s, NEW scale, IsFiniteSet(DigitPlaces(s)),
         \A i \in DigitPlaces(s) : Term(s, scale, i) \in Int
  PROVE  Sums(Totals(s, scale), Terms(s, scale))
<1>1. Terms(s, scale) \in [DigitPlaces(s) -> Int]
  BY DEF Terms
<1>2. PICK f : Sums(f, Terms(s, scale))
  BY <1>1, SumExists
<1>3. Totalled(s, scale, f)
  BY <1>2, SumsTotalled
<1>4. Totalled(s, scale, Totals(s, scale))
  BY <1>3, Zenon DEF Totalled, Totals
<1> QED BY <1>4, TotalledSums

(* The point is behind the whole digits, or where it would be. *)
LEMMA PointIs ==
  ASSUME NEW C, NEW s \in Seq(C), AllDigits(Fraction(s))
  PROVE  PointAt(s) = SignLength(s) + Len(Whole(s)) + 1 /\ Places(s) = Len(Fraction(s))
<1> DEFINE k == SignLength(s)
           m == Len(Whole(s))
           l == Len(Fraction(s))
           z == Len(s)
<1>1. /\ k \in Nat /\ m \in Nat /\ l \in Nat /\ Pointed(s) \in BOOLEAN
      /\ z = k + m + IF Pointed(s) THEN 1 + l ELSE 0
      /\ ~Pointed(s) => l = 0
  BY Parted
<1>2. (~Pointed(s) => PointPlaces(s) = {}) /\ (Pointed(s) => PointPlaces(s) = {k + m + 1})
  BY PointsAre
<1>3. PointAt(s) = Min(PointPlaces(s) \cup {z + 1}) /\ Places(s) = z - Min({PointAt(s), z})
  BY DEF PointAt, Places
<1> HIDE DEF k, m, l, z
<1>4. CASE Pointed(s)
  <2>1. PointPlaces(s) \cup {z + 1} = {k + m + 1, z + 1}
    BY <1>2, <1>4
  <2>2. k + m + 1 \in Int /\ z + 1 \in Int /\ k + m + 1 <= z + 1 /\ z \in Int /\ k + m + 1 <= z
    BY <1>1, <1>4
  <2>3. PointAt(s) = k + m + 1
    BY <1>3, <2>1, <2>2, MinOf
  <2>4. Min({k + m + 1, z}) = k + m + 1
    BY <2>2, MinOf
  <2>5. Places(s) = z - (k + m + 1)
    BY <1>3, <2>3, <2>4
  <2>6. z - (k + m + 1) = l
    BY <1>1, <1>4
  <2> QED BY <2>3, <2>5, <2>6 DEF k, m, l
<1>5. CASE ~Pointed(s)
  <2>1. PointPlaces(s) \cup {z + 1} = {z + 1, z + 1}
    BY <1>2, <1>5
  <2>2. z \in Int /\ z + 1 \in Int /\ z <= z + 1 /\ z + 1 <= z + 1 /\ z + 1 = k + m + 1 /\ l = 0 /\ z - z = 0
    BY <1>1, <1>5
  <2>3. PointAt(s) = z + 1
    BY <1>3, <2>1, <2>2, MinOf
  <2>4. {z + 1, z} = {z, z + 1}
    OBVIOUS
  <2>5. Min({z + 1, z}) = z
    BY <2>2, <2>4, MinOf
  <2>6. Places(s) = z - z
    BY <1>3, <2>3, <2>5
  <2> QED BY <2>2, <2>3, <2>6 DEF k, m, l
<1> QED BY <1>1, <1>4, <1>5

(* The digit j counts ten to the digits behind it, and to scale.           *)
LEMMA WeightIs ==
  ASSUME NEW C, NEW s \in Seq(C), AllDigits(Fraction(s)), NEW scale \in Nat,
         NEW j, j \in 1 .. Len(Whole(s)) + Len(Fraction(s))
  PROVE  Weight(s, Place(s, j), scale) = scale + Len(Whole(s)) - j
<1> DEFINE k == SignLength(s)
           m == Len(Whole(s))
           l == Len(Fraction(s))
           p == PointAt(s)
<1>1. k \in Nat /\ m \in Nat /\ l \in Nat
  BY Parted
<1>2. p = k + m + 1
  BY PointIs
<1>3. Place(s, j) = IF j <= m THEN k + j ELSE k + 1 + j
  BY DEF Place
<1>4. \A i : Weight(s, i, scale) = IF i < p THEN scale + p - 1 - i ELSE scale - (i - p)
  BY DEF Weight
<1>5. j \in 1 .. m + l
  OBVIOUS
<1> HIDE DEF k, m, l, p
<1> QED BY <1>1, <1>2, <1>3, <1>4, <1>5 DEF m

(* The first j digits of a literal: their places. *)
First(s, j) == {Place(s, i) : i \in 1 .. j}

(* One digit more is one place more. *)
Nexts(s, j) == Place(s, j + 1) \in First(s, j + 1) /\ First(s, j + 1) \ {Place(s, j + 1)} = First(s, j)

LEMMA FirstNext ==
  ASSUME NEW C, NEW s \in Seq(C)
  PROVE  \A j \in Nat : Nexts(s, j)
<1> TAKE j \in Nat
<1> DEFINE k == SignLength(s)
           m == Len(Whole(s))
<1>1. k \in Nat /\ m \in Nat
  BY Parted
<1>2. \A i : Place(s, i) = IF i <= m THEN k + i ELSE k + 1 + i
  BY DEF Place
<1> HIDE DEF k, m
<1>3. \A i \in 1 .. j : Place(s, i) # Place(s, j + 1)
  BY <1>1, <1>2
<1>5. \A i : i \in 1 .. j + 1 <=> i \in 1 .. j \/ i = j + 1
  OBVIOUS
<1>6. First(s, j + 1) = First(s, j) \cup {Place(s, j + 1)}
  <2>1. \A x : (\E i \in 1 .. j + 1 : x = Place(s, i)) <=> (\E i \in 1 .. j : x = Place(s, i)) \/ x = Place(s, j + 1)
    BY <1>5, Zenon
  <2>2. \A x, y : x \in First(s, y) <=> \E i \in 1 .. y : x = Place(s, i)
    BY DEF First
  <2>3. \A x : x \in First(s, j + 1) <=> x \in First(s, j) \/ x = Place(s, j + 1)
    BY <2>1, <2>2, Zenon
  <2> QED BY <2>3
<1>7. Place(s, j + 1) \notin First(s, j)
  BY <1>3 DEF First
<1> QED BY <1>6, <1>7 DEF Nexts

(* A digit behind a number, both counted by a power of ten. *)
LEMMA TenShift ==
  ASSUME NEW d \in Nat, NEW r \in Nat, NEW p \in Nat
  PROVE  d * p + r * (10 * p) = (10 * r + d) * p
OBVIOUS

(* The sum of what the digits of a literal count is their number.          *)
LEMMA DigitsSum ==
  ASSUME NEW C, NEW s \in Seq(C), AllDigits(Whole(s)), AllDigits(Fraction(s)),
         NEW scale \in Nat, Len(Fraction(s)) <= scale
  PROVE  LET digits == Whole(s) \o Fraction(s)
         IN /\ digits \in Seq(Figure) /\ Number(digits) \in Nat
            /\ Totals(s, scale)[DigitPlaces(s)] = Number(digits) * PowerOfTen(scale - Len(Fraction(s)))
<1> DEFINE m == Len(Whole(s))
           l == Len(Fraction(s))
           n == m + l
           ab == Whole(s) \o Fraction(s)
           D == DigitPlaces(s)
           f == Totals(s, scale)
           R == ReadUpTo(ab)
<1>1. m \in Nat /\ l \in Nat /\ Whole(s) \in Seq(C) /\ Fraction(s) \in Seq(C) /\ l <= scale
  BY Parted
<1>2. ab \in Seq(Figure) /\ Len(ab) = n
  <2>1. Whole(s) \in Seq(Figure) /\ Fraction(s) \in Seq(Figure)
    BY <1>1, DigitsSeq
  <2> QED BY <2>1
<1>3. n \in Nat /\ D = {Place(s, j) : j \in 1 .. n} /\ \A j \in 1 .. n : s[Place(s, j)] = ab[j]
  BY DigitsAre
<1>4. \A j \in 1 .. n : Weight(s, Place(s, j), scale) = scale + m - j
  <2> TAKE j \in 1 .. n
  <2> QED BY WeightIs
<1>5. /\ Number(ab) = R[n] /\ R[0] = 0 /\ \A j \in 0 .. n : R[j] \in Nat
      /\ \A j \in 1 .. n : R[j] = 10 * R[j - 1] + DigitValue(ab[j])
  <2> HIDE DEF ab, n
  <2>1. /\ Number(ab) = ReadUpTo(ab)[Len(ab)] /\ ReadUpTo(ab) \in [0 .. Len(ab) -> Nat]
        /\ ReadUpTo(ab)[0] = 0
        /\ \A k \in 1 .. Len(ab) : ReadUpTo(ab)[k] = 10 * ReadUpTo(ab)[k - 1] + DigitValue(ab[k])
    BY <1>2, NumberRead
  <2> QED BY <1>2, <2>1
<1>6. \A j \in 1 .. n : DigitValue(ab[j]) \in Nat
  <2> HIDE DEF ab, n
  <2>1. \A j \in 1 .. n : ab[j] \in Figure
    BY <1>2
  <2>2. \A c \in Figure : DigitValue(c) \in Nat
    BY FigureValue
  <2> QED BY <2>1, <2>2
<1>7. \A j \in 1 .. n : Term(s, scale, Place(s, j)) = DigitValue(ab[j]) * PowerOfTen(scale + m - j)
  BY <1>3, <1>4, Zenon DEF Term
<1> HIDE DEF m, l, n, ab, D, f, R
<1>8. \A j \in 0 .. n : scale + m - j \in Nat
  BY <1>1 DEF n
<1>9a. \A j \in 0 .. n : PowerOfTen(scale + m - j) \in Nat
  <2>1. \A k \in Nat : PowerOfTen(k) \in Nat
    BY Tens
  <2> QED BY <1>8, <2>1
<1>9b. \A j \in Nat : Nexts(s, j)
  BY FirstNext
<1>9. IsFiniteSet(D)
  <2>1. Len(s) \in Nat /\ D \subseteq 1 .. Len(s)
    BY DEF D, DigitPlaces
  <2>2. IsFiniteSet(1 .. Len(s))
    BY <2>1, FS_Interval
  <2> QED BY <2>1, <2>2, FS_Subset
<1>10. \A i \in D : Term(s, scale, i) \in Int
  <2> TAKE i \in D
  <2>1. PICK j \in 1 .. n : i = Place(s, j)
    BY <1>3
  <2>2. DigitValue(ab[j]) \in Nat /\ PowerOfTen(scale + m - j) \in Nat
    BY <1>6, <1>9a
  <2>3. \A x, y \in Nat : x * y \in Int
    OBVIOUS
  <2> QED BY <1>7, <2>1, <2>2, <2>3
<1>11. Sums(f, Terms(s, scale)) /\ Terms(s, scale) \in [D -> Int]
  BY <1>9, <1>10, TotalsSum DEF D, f, Terms
<1>12. f[{}] = 0 /\ \A T \in SUBSET D : f[T] \in Int /\ AnyFirst(f, Terms(s, scale), T)
  BY <1>9, <1>11, SumAny
<1>13. \A T \in SUBSET D : \A x \in T : f[T] = Term(s, scale, x) + f[T \ {x}]
  BY <1>12 DEF AnyFirst, Terms, D
<1>14. \A j \in 0 .. n : First(s, j) \in SUBSET D
  <2>1. \A j \in 0 .. n : \A i \in 1 .. j : i \in 1 .. n
    BY <1>3
  <2> QED BY <1>3, <2>1 DEF First
<1> DEFINE S == {j \in Nat : j <= n => f[First(s, j)] = R[j] * PowerOfTen(scale + m - j)}
<1>15. 0 \in S
  <2>1. First(s, 0) = {}
    BY DEF First
  <2>2. PowerOfTen(scale + m - 0) \in Nat
    <3>1. 0 \in 0 .. n
      BY <1>3
    <3> QED BY <1>9a, <3>1
  <2>3. R[0] * PowerOfTen(scale + m - 0) = 0
    BY <1>5, <2>2
  <2> QED BY <1>12, <2>1, <2>3
<1>16. ASSUME NEW j \in Nat, j \in S PROVE j + 1 \in S
  <2> SUFFICES ASSUME j + 1 <= n PROVE f[First(s, j + 1)] = R[j + 1] * PowerOfTen(scale + m - (j + 1))
    OBVIOUS
  <2> DEFINE p == PowerOfTen(scale + m - (j + 1))
             d == DigitValue(ab[j + 1])
             r == R[j]
  <2>1. j \in 0 .. n /\ j + 1 \in 1 .. n /\ j + 1 \in 0 .. n /\ (j + 1) - 1 = j
    BY <1>3
  <2>2. f[First(s, j)] = r * PowerOfTen(scale + m - j)
    BY <1>16, <2>1
  <2>3. f[First(s, j + 1)] = Term(s, scale, Place(s, j + 1)) + f[First(s, j)]
    <3>1. Place(s, j + 1) \in First(s, j + 1) /\ First(s, j + 1) \ {Place(s, j + 1)} = First(s, j)
      BY <1>9b DEF Nexts
    <3> QED BY <1>13, <1>14, <2>1, <3>1
  <2>4. Term(s, scale, Place(s, j + 1)) = d * p
    BY <1>7, <2>1
  <2>5. p \in Nat /\ PowerOfTen(scale + m - j) = 10 * p
    <3>1. scale + m - (j + 1) \in Nat /\ (scale + m - (j + 1)) + 1 = scale + m - j
      BY <1>1, <1>8, <2>1
    <3> QED BY <3>1, Tens
  <2>6. d \in Nat /\ r \in Nat /\ R[j + 1] = 10 * r + d
    BY <1>5, <1>6, <2>1
  <2> HIDE DEF p, d, r
  <2>7. f[First(s, j + 1)] = d * p + r * (10 * p)
    BY <2>2, <2>3, <2>4, <2>5
  <2>8. d * p + r * (10 * p) = (10 * r + d) * p
    BY <2>5, <2>6, TenShift
  <2> QED BY <2>6, <2>7, <2>8 DEF p
<1> HIDE DEF S
<1>17. n \in S
  <2>1. Nat \subseteq S
    BY <1>15, <1>16, NatSetInduction
  <2> QED BY <1>3, <2>1
<1>18. f[First(s, n)] = R[n] * PowerOfTen(scale + m - n)
  BY <1>3, <1>17 DEF S
<1>19. First(s, n) = D
  BY <1>3 DEF First
<1>20. scale + m - n = scale - l
  BY <1>1 DEF n
<1>21. Number(ab) \in Nat
  BY <1>2, NumberNat
<1> QED BY <1>2, <1>5, <1>18, <1>19, <1>20, <1>21 DEF ab, D, f, l

(* What a literal says is the number of its digits and of the zeros that   *)
(* are missing behind them.                                                *)
LEMMA SaidNumber ==
  ASSUME NEW C, NEW s \in Seq(C), AllDigits(Whole(s)), AllDigits(Fraction(s)),
         NEW scale \in Nat, Len(Fraction(s)) <= scale
  PROVE  LET digits == Whole(s) \o Fraction(s) \o Zeros(scale - Len(Fraction(s)))
         IN /\ Number(digits) \in Nat
            /\ Said(s, scale) = IF HasPrefix(s, "-") THEN -Number(digits) ELSE Number(digits)
<1> DEFINE ab == Whole(s) \o Fraction(s)
           k == scale - Len(Fraction(s))
<1>1. /\ ab \in Seq(Figure) /\ Number(ab) \in Nat
      /\ Totals(s, scale)[DigitPlaces(s)] = Number(ab) * PowerOfTen(k)
  BY DigitsSum
<1>2. k \in Nat
  <2>1. Len(Fraction(s)) \in Nat
    BY Parted
  <2> QED BY <2>1
<1> HIDE DEF ab, k
<1>3. Number(ab \o Zeros(k)) = Number(ab) * PowerOfTen(k)
  BY <1>1, <1>2, NumberZeros
<1>4. Number(ab \o Zeros(k)) \in Nat
  <2>1. Zeros(k) \in Seq(Figure)
    BY <1>2, ZerosSeq
  <2>2. ab \o Zeros(k) \in Seq(Figure)
    BY <1>1, <2>1
  <2> QED BY <2>2, NumberNat
<1>5. Said(s, scale) = IF HasPrefix(s, "-") THEN -(Totals(s, scale)[DigitPlaces(s)])
                       ELSE Totals(s, scale)[DigitPlaces(s)]
  BY SaidIs
<1> QED BY <1>1, <1>3, <1>4, <1>5 DEF ab, k

----------------------------------------------------------------------------
(* Which texts are literals of an exact type, and what they are read as.   *)
(* The text behind the signs has digits alone if there is no point in it.  *)
LEMMA DigitsAlone ==
  ASSUME NEW C, NEW s \in Seq(C)
  PROVE  /\ ~Pointed(s) => Whole(s) = Behind(s) /\ Fraction(s) = <<>>
         /\ AllDigits(Behind(s)) <=> ~Pointed(s) /\ AllDigits(Whole(s))
<1> DEFINE t == Behind(s)
<1>1. t \in Seq(C)
  BY BehindSigns
<1>2. LET cut == Cut(t, ".")
          m == Len(cut.before)
          l == Len(cut.after)
      IN /\ cut.before \in Seq(C) /\ cut.after \in Seq(C) /\ cut.found \in BOOLEAN
         /\ \A j \in 1 .. m : t[j] = cut.before[j] /\ t[j] # "."
         /\ ~cut.found => Len(t) = m /\ l = 0
         /\ cut.found => Len(t) = m + 1 + l /\ t[m + 1] = "." /\ \A j \in 1 .. l : t[m + 1 + j] = cut.after[j]
  <2> HIDE DEF t
  <2> QED BY <1>1, CutPlaces
<1> HIDE DEF t
<1>3. LET m == Len(Whole(s))
          l == Len(Fraction(s))
      IN /\ Whole(s) \in Seq(C) /\ Fraction(s) \in Seq(C) /\ Pointed(s) \in BOOLEAN
         /\ \A j \in 1 .. m : t[j] = Whole(s)[j] /\ t[j] # "."
         /\ ~Pointed(s) => Len(t) = m /\ l = 0
         /\ Pointed(s) => Len(t) = m + 1 + l /\ t[m + 1] = "." /\ \A j \in 1 .. l : t[m + 1 + j] = Fraction(s)[j]
  BY <1>2 DEF t, Whole, Fraction, Pointed
<1>4. ASSUME ~Pointed(s) PROVE Whole(s) = t /\ Fraction(s) = <<>>
  <2>1. Whole(s) = t
    BY <1>1, <1>3, <1>4, SameTexts
  <2>2. Fraction(s) = <<>>
    BY <1>3, <1>4
  <2> QED BY <2>1, <2>2
<1>5. ASSUME Pointed(s) PROVE ~AllDigits(t)
  <2>1. Len(Whole(s)) + 1 \in DOMAIN t /\ t[Len(Whole(s)) + 1] = "."
    BY <1>1, <1>3, <1>5
  <2>2. ~IsDigit(".")
    BY FigureValue, FigureChars
  <2> QED BY <2>1, <2>2 DEF AllDigits
<1> QED BY <1>4, <1>5 DEF t

(* An integer literal is read as what it says.                             *)
LEMMA IntSays ==
  ASSUME NEW C, NEW s \in Seq(C)
  PROVE  AsInt(s) = IF Numeric(s) /\ PointPlaces(s) = {} /\ SignLength(s) < 2 THEN {Said(s, 0)} ELSE {}
<1> DEFINE body == Unsigned(s)
<1>1. AsInt(s) = IF body = <<>> \/ ~AllDigits(body) THEN {}
                 ELSE {IF HasPrefix(s, "-") THEN -Number(body) ELSE Number(body)}
  BY DEF AsInt, Unsigned
<1>2. Numeric(s) <=> Behind(s) # <<>> /\ AllDigits(Whole(s)) /\ AllDigits(Fraction(s))
  BY NumericIs
<1>3. PointPlaces(s) = {} <=> ~Pointed(s)
  BY PointsAre
<1>4. /\ ~Pointed(s) => Whole(s) = Behind(s) /\ Fraction(s) = <<>>
      /\ AllDigits(Behind(s)) <=> ~Pointed(s) /\ AllDigits(Whole(s))
  BY DigitsAlone
<1>5. /\ SignLength(s) < 2 => body = Behind(s)
      /\ SignLength(s) = 2 => ~AllDigits(body)
      /\ SignLength(s) \in 0 .. 2
  BY SignsTaken, Signs
<1> HIDE DEF body
<1>6. CASE ~(SignLength(s) < 2)
  <2>1. ~AllDigits(body)
    BY <1>5, <1>6
  <2> QED BY <1>1, <1>6, <2>1
<1>7. CASE SignLength(s) < 2 /\ (Behind(s) = <<>> \/ ~AllDigits(Behind(s)))
  <2>1. ~(Numeric(s) /\ PointPlaces(s) = {})
    BY <1>2, <1>3, <1>4, <1>7
  <2> QED BY <1>1, <1>5, <1>7, <2>1
<1>8. CASE SignLength(s) < 2 /\ Behind(s) # <<>> /\ AllDigits(Behind(s))
  <2>1. ~Pointed(s) /\ AllDigits(Whole(s)) /\ Whole(s) = Behind(s) /\ Fraction(s) = <<>>
    BY <1>4, <1>8
  <2>2. AllDigits(Fraction(s)) /\ Len(Fraction(s)) = 0
    BY <2>1 DEF AllDigits
  <2>3. LET digits == Whole(s) \o Fraction(s) \o Zeros(0 - Len(Fraction(s)))
        IN Said(s, 0) = IF HasPrefix(s, "-") THEN -Number(digits) ELSE Number(digits)
    <3>1. \A scale \in Nat : Len(Fraction(s)) <= scale =>
            LET digits == Whole(s) \o Fraction(s) \o Zeros(scale - Len(Fraction(s)))
            IN Said(s, scale) = IF HasPrefix(s, "-") THEN -Number(digits) ELSE Number(digits)
      <4> TAKE scale \in Nat
      <4> HAVE Len(Fraction(s)) <= scale
      <4> QED BY <2>1, <2>2, SaidNumber
    <3>2. 0 \in Nat /\ Len(Fraction(s)) <= 0
      BY <2>2
    <3> QED BY <3>1, <3>2, Zenon
  <2>4. Whole(s) \o Fraction(s) \o Zeros(0 - Len(Fraction(s))) = Behind(s)
    <3>1. Zeros(0 - Len(Fraction(s))) = <<>>
      BY <2>2 DEF Zeros
    <3>2. Behind(s) \in Seq(C)
      BY BehindSigns
    <3>3. Behind(s) \o <<>> \o <<>> = Behind(s)
      BY <3>2
    <3> QED BY <2>1, <3>1, <3>3
  <2>5. Said(s, 0) = IF HasPrefix(s, "-") THEN -Number(Behind(s)) ELSE Number(Behind(s))
    BY <2>3, <2>4
  <2>6. Numeric(s) /\ PointPlaces(s) = {}
    BY <1>2, <1>3, <1>8, <2>1, <2>2
  <2> QED BY <1>1, <1>5, <1>8, <2>5, <2>6
<1> QED BY <1>6, <1>7, <1>8

(* And a scaled one.                                                       *)
LEMMA ScaledSays ==
  ASSUME NEW C, NEW s \in Seq(C), NEW scale \in Nat
  PROVE  AsScaled(s, scale) =
           IF Numeric(s) /\ Places(s) <= scale /\ (DigitPlaces(s) # {} \/ scale > 0)
           THEN {Said(s, scale)} ELSE {}
<1> DEFINE a == Whole(s)
           b == Fraction(s)
           digits == a \o b \o Zeros(scale - Len(b))
           refused == \/ a = <<>> /\ ~Pointed(s)
                      \/ ~AllDigits(a) \/ ~AllDigits(b)
                      \/ Len(b) > scale \/ digits = <<>>
           legal == Numeric(s) /\ Places(s) <= scale /\ (DigitPlaces(s) # {} \/ scale > 0)
<1>1. AsScaled(s, scale) = IF refused THEN {}
        ELSE {IF HasPrefix(s, "-") THEN -Number(digits) ELSE Number(digits)}
  <2>1. TrimPrefix(TrimPrefix(s, "-"), "+") = Behind(s)
    BY SignsTaken
  <2> QED BY <2>1 DEF AsScaled, Whole, Fraction, Pointed
<1>2. a \in Seq(C) /\ b \in Seq(C) /\ Len(a) \in Nat /\ Len(b) \in Nat /\ Pointed(s) \in BOOLEAN
  BY Parted
<1>3. Numeric(s) <=> Behind(s) # <<>> /\ AllDigits(a) /\ AllDigits(b)
  BY NumericIs
<1>4. Behind(s) = <<>> <=> a = <<>> /\ ~Pointed(s)
  <2>1. /\ Len(s) = SignLength(s) + Len(a) + IF Pointed(s) THEN 1 + Len(b) ELSE 0
        /\ SignLength(s) \in Nat
    BY Parted
  <2>2. Behind(s) \in Seq(C) /\ Len(Behind(s)) = Len(s) - SignLength(s)
    BY BehindSigns
  <2>3. Behind(s) = <<>> <=> Len(Behind(s)) = 0
    BY <2>2
  <2>4. a = <<>> <=> Len(a) = 0
    BY <1>2
  <2> HIDE DEF a, b
  <2> QED BY <1>2, <2>1, <2>2, <2>3, <2>4
<1> HIDE DEF refused, legal
<1>5. CASE ~AllDigits(a) \/ ~AllDigits(b) \/ Behind(s) = <<>>
  <2>1. refused /\ ~legal
    BY <1>3, <1>4, <1>5 DEF refused, legal
  <2> QED BY <1>1, <2>1 DEF legal
<1>6. CASE AllDigits(a) /\ AllDigits(b) /\ Behind(s) # <<>> /\ Len(b) > scale
  <2>1. Places(s) = Len(b)
    BY <1>6, PointIs
  <2>2. refused /\ ~legal
    BY <1>2, <1>6, <2>1 DEF refused, legal
  <2> QED BY <1>1, <2>2 DEF legal
<1>7. CASE AllDigits(a) /\ AllDigits(b) /\ Behind(s) # <<>> /\ ~(Len(b) > scale)
  <2>1. Places(s) = Len(b) /\ Len(b) <= scale
    BY <1>2, <1>7, PointIs
  <2>2. DigitPlaces(s) = {} <=> Len(a) + Len(b) = 0
    <3>1. Len(a) + Len(b) \in Nat /\ DigitPlaces(s) = {Place(s, j) : j \in 1 .. Len(a) + Len(b)}
      BY <1>7, DigitsAre
    <3> HIDE DEF a, b
    <3>2. Len(a) + Len(b) > 0 => Place(s, 1) \in DigitPlaces(s)
      BY <3>1
    <3> QED BY <3>1, <3>2
  <2>3. digits = <<>> <=> Len(a) + Len(b) + (scale - Len(b)) = 0
    <3>1. Zeros(scale - Len(b)) \in Seq(Figure) /\ Len(Zeros(scale - Len(b))) = scale - Len(b)
      <4>1. scale - Len(b) \in Nat
        BY <1>2, <2>1
      <4> HIDE DEF a, b
      <4> QED BY <4>1, ZerosOf
    <3>2. a \in Seq(Figure) /\ b \in Seq(Figure)
      BY <1>2, <1>7, DigitsSeq
    <3> DEFINE z == Zeros(scale - Len(b))
    <3> HIDE DEF a, b, z
    <3>3. Len(a \o b \o z) = Len(a) + Len(b) + Len(z) /\ (a \o b \o z = <<>> <=> Len(a \o b \o z) = 0)
      BY <3>1, <3>2 DEF z
    <3> QED BY <3>1, <3>3 DEF z
  <2>4. refused <=> ~legal
    <3> HIDE DEF digits
    <3>1. refused <=> digits = <<>>
      BY <1>4, <1>7 DEF refused
    <3>2. legal <=> DigitPlaces(s) # {} \/ scale > 0
      BY <1>3, <1>7, <2>1 DEF legal
    <3> HIDE DEF a, b
    <3> QED BY <1>2, <2>1, <2>2, <2>3, <3>1, <3>2
  <2>5. Said(s, scale) = IF HasPrefix(s, "-") THEN -Number(digits) ELSE Number(digits)
    BY <1>7, <2>1, SaidNumber
  <2> HIDE DEF digits
  <2> QED BY <1>1, <2>4, <2>5 DEF legal
<1> QED BY <1>5, <1>6, <1>7

(* A numeral is as long as the least power of ten it does not reach.       *)
LEMMA NumeralLength ==
  \A n \in Nat : n > 0 => \A p \in Nat : Len(Numeral(n)) <= p <=> n < PowerOfTen(p)
<1> DEFINE S == {n \in Nat : n > 0 => \A p \in Nat : Len(Numeral(n)) <= p <=> n < PowerOfTen(p)}
<1>1. \A p \in Nat : PowerOfTen(p) \in Nat \ {0} /\ PowerOfTen(p + 1) = 10 * PowerOfTen(p)
  BY Tens
<1>2. PowerOfTen(0) = 1
  BY Tens
<1>3. ASSUME NEW n \in Nat, \A m \in Nat : m < n => m \in S
      PROVE  n \in S
  <2> SUFFICES ASSUME n > 0, NEW p \in Nat PROVE Len(Numeral(n)) <= p <=> n < PowerOfTen(p)
    OBVIOUS
  <2>1. CASE p = 0
    <3>1. Len(Numeral(n)) \in Nat /\ Len(Numeral(n)) > 0
      <4>1. Numeral(n) \in Seq(Figure) /\ Len(Numeral(n)) > 0
        BY NumberOfNumeral
      <4> QED BY <4>1
    <3> QED BY <1>2, <2>1, <3>1
  <2>2. CASE p > 0 /\ n < 10
    <3>1. Len(Numeral(n)) = 1
      <4>1. n \in 0 .. 9
        BY <2>2
      <4>2. Numeral(n) = <<Digits[n + 1]>>
        BY <4>1, NumeralWritten
      <4> QED BY <4>2
    <3>2. p - 1 \in Nat /\ (p - 1) + 1 = p
      BY <2>2
    <3>3. PowerOfTen(p) = 10 * PowerOfTen(p - 1) /\ PowerOfTen(p - 1) \in Nat \ {0}
      BY <1>1, <3>2
    <3> QED BY <2>2, <3>1, <3>3
  <2>3. CASE p > 0 /\ n >= 10
    <3>1. PICK q \in Nat, r \in 0 .. 9 : n = 10 * q + r /\ n \div 10 = q /\ n % 10 = r
      OBVIOUS
    <3>2. q < n /\ q > 0
      BY <2>3, <3>1
    <3>3. Len(Numeral(n)) = Len(Numeral(q)) + 1 /\ Len(Numeral(q)) \in Nat
      <4>1. Numeral(n) = Append(Numeral(q), Digits[r + 1]) /\ Numeral(q) \in Seq(Figure)
        BY <2>3, <3>1, NumeralWritten
      <4>2. Digits[r + 1] \in Figure
        BY FigureValue
      <4>3. \A t \in Seq(Figure) : \A c \in Figure : Len(Append(t, c)) = Len(t) + 1 /\ Len(t) \in Nat
        OBVIOUS
      <4> QED BY <4>1, <4>2, <4>3
    <3>4. p - 1 \in Nat /\ (p - 1) + 1 = p
      BY <2>3
    <3>5. Len(Numeral(q)) <= p - 1 <=> q < PowerOfTen(p - 1)
      BY <1>3, <3>2, <3>4
    <3>6. PowerOfTen(p) = 10 * PowerOfTen(p - 1) /\ PowerOfTen(p - 1) \in Nat \ {0}
      BY <1>1, <3>4
    <3> DEFINE t == PowerOfTen(p - 1)
    <3> HIDE DEF t
    <3>7. q < t <=> n < 10 * t
      <4>1. t \in Nat
        BY <3>6 DEF t
      <4> QED BY <3>1, <4>1
    <3> QED BY <3>3, <3>5, <3>6, <3>7 DEF t
  <2> QED BY <2>1, <2>2, <2>3
<1> HIDE DEF S
<1>4. Nat \subseteq S
  BY <1>3, StrongSetInduction
<1> QED BY <1>4 DEF S

(* Significant digits count those of the magnitude.                        *)
LEMMA SignificantIs ==
  ASSUME NEW n \in Int, NEW p \in Nat
  PROVE  Significant(n) <= p <=> Magnitude(n) < PowerOfTen(p)
<1>1. PowerOfTen(p) \in Nat \ {0}
  BY Tens
<1>2. CASE n = 0
  <2>1. Significant(n) = 0 /\ Magnitude(n) = 0
    BY <1>2 DEF Significant, Magnitude
  <2> QED BY <1>1, <2>1
<1>3. CASE n # 0
  <2>1. Magnitude(n) \in Nat /\ Magnitude(n) > 0
    BY <1>3 DEF Magnitude
  <2>2. Significant(n) = Len(Numeral(Magnitude(n)))
    BY <1>3 DEF Significant
  <2> QED BY <2>1, <2>2, NumeralLength
<1> QED BY <1>2, <1>3

(* The places an exact type keeps. *)
ScaleOf(type) == IF type.kind \in Scaled THEN type.scale ELSE 0

(* The width of an integer type is the range of what it holds.             *)
LEMMA LegalInt ==
  ASSUME NEW C, NEW s \in Seq(C), NEW type \in Type, type.kind \in Integral
  PROVE  Legal(s, type) <=> \E n \in AsInt(s) : Fits(n, type)
<1> DEFINE plain == Numeric(s) /\ PointPlaces(s) = {} /\ SignLength(s) < 2
           x == Said(s, 0)
<1>1. AsInt(s) = IF plain THEN {x} ELSE {}
  BY IntSays
<1>2. AsInt(s) \subseteq Int
  BY AsIntRange
<1>3. Legal(s, type) <=>
        /\ plain
        /\ type.kind = "i32" => x \in -(2 ^ (I32Bits - 1)) .. 2 ^ (I32Bits - 1) - 1
        /\ type.kind = "i64" => x \in -(2 ^ (I64Bits - 1)) .. 2 ^ (I64Bits - 1) - 1
  BY DEF Legal, Integral, Scaled
<1> HIDE DEF plain, x
<1>4. CASE ~plain
  BY <1>1, <1>3, <1>4
<1>5. CASE plain
  <2>1. AsInt(s) = {x} /\ x \in Int
    BY <1>1, <1>2, <1>5
  <2>2. x \in -(2 ^ (I32Bits - 1)) .. 2 ^ (I32Bits - 1) - 1 <=> FitsBits(x, I32Bits)
    <3>1. 2 ^ (I32Bits - 1) \in Int
      BY LiteralsAssumption
    <3> QED BY <2>1, <3>1 DEF FitsBits
  <2>3. x \in -(2 ^ (I64Bits - 1)) .. 2 ^ (I64Bits - 1) - 1 <=> FitsBits(x, I64Bits)
    <3>1. 2 ^ (I64Bits - 1) \in Int
      BY LiteralsAssumption
    <3> QED BY <2>1, <3>1 DEF FitsBits
  <2>4. Fits(x, type) <=> /\ type.kind = "i32" => FitsBits(x, I32Bits)
                          /\ type.kind = "i64" => FitsBits(x, I64Bits)
    BY DEF Fits
  <2> QED BY <1>3, <1>5, <2>1, <2>2, <2>3, <2>4, Zenon
<1> QED BY <1>4, <1>5

(* The precision of a decimal is the powers of ten its integers stay below. *)
LEMMA LegalScaled ==
  ASSUME NEW C, NEW s \in Seq(C), NEW type \in Type, type.kind \in Scaled
  PROVE  Legal(s, type) <=> \E n \in AsScaled(s, type.scale) : Holds(n, type)
<1> DEFINE plain == Numeric(s) /\ Places(s) <= type.scale /\ (DigitPlaces(s) # {} \/ type.scale > 0)
           x == Said(s, type.scale)
<1>1. type.scale \in Nat /\ type.precision \in Nat
  BY DEF Type
<1>2. AsScaled(s, type.scale) = IF plain THEN {x} ELSE {}
  BY <1>1, ScaledSays
<1>3. AsScaled(s, type.scale) \subseteq Int
  BY <1>1, AsScaledRange
<1>4. Legal(s, type) <=> plain /\ (type.kind = "decimal" => Magnitude(x) < PowerOfTen(type.precision))
  BY DEF Legal, Integral, Scaled
<1> HIDE DEF plain, x
<1>5. CASE ~plain
  BY <1>2, <1>4, <1>5
<1>6. CASE plain
  <2>1. AsScaled(s, type.scale) = {x} /\ x \in Int
    BY <1>2, <1>3, <1>6
  <2>2. Significant(x) <= type.precision <=> Magnitude(x) < PowerOfTen(type.precision)
    BY <1>1, <2>1, SignificantIs
  <2>3. Holds(x, type) <=> (type.kind = "decimal" => Significant(x) <= type.precision)
    BY DEF Holds
  <2> QED BY <1>4, <1>6, <2>1, <2>2, <2>3, Zenon
<1> QED BY <1>5, <1>6

(* A legal literal of an exact type, and no other text, is read, as what it says. *)
LEMMA ReadExact ==
  ASSUME NEW C, NEW s \in Seq(C), NEW type \in Type, type.kind \in Integral \cup Scaled, NEW expected
  PROVE  /\ Legal(s, type) <=> Read(s, type, expected) # {}
         /\ \A v \in Read(s, type, expected) : v.type = type /\ ~IsRaise(v) /\ v.int = Said(s, ScaleOf(type))
<1>1. CASE type.kind \in Integral
  <2>1. Read(s, type, expected) = {[Zero(type) EXCEPT !.int = n] : n \in {m \in AsInt(s) : Fits(m, type)}}
    BY <1>1 DEF Read, Integral, Scaled
  <2>2. \A n \in AsInt(s) : n = Said(s, 0)
    BY IntSays
  <2>3. ScaleOf(type) = 0
    BY <1>1 DEF ScaleOf, Integral, Scaled
  <2>4. Legal(s, type) <=> \E n \in AsInt(s) : Fits(n, type)
    BY <1>1, LegalInt
  <2>5. \A v \in Read(s, type, expected) : \E n \in AsInt(s) : v = [Zero(type) EXCEPT !.int = n]
    BY <2>1
  <2>6. ASSUME NEW v \in Read(s, type, expected)
        PROVE  v.type = type /\ ~IsRaise(v) /\ v.int = Said(s, ScaleOf(type))
    <3>1. PICK n \in AsInt(s) : v = [Zero(type) EXCEPT !.int = n]
      BY <2>5
    <3> QED BY <2>2, <2>3, <3>1 DEF Zero, IsRaise
  <2>7. (\E n \in AsInt(s) : Fits(n, type)) <=> Read(s, type, expected) # {}
    BY <2>1
  <2> QED BY <2>4, <2>6, <2>7
<1>2. CASE type.kind \in Scaled
  <2>1. Read(s, type, expected) =
          {[Zero(type) EXCEPT !.int = n] : n \in {m \in AsScaled(s, type.scale) : Holds(m, type)}}
    BY <1>2 DEF Read, Integral, Scaled
  <2>0. type.scale \in Nat
    BY DEF Type
  <2>2. \A n \in AsScaled(s, type.scale) : n = Said(s, type.scale)
    BY <2>0, ScaledSays
  <2>3. ScaleOf(type) = type.scale
    BY <1>2 DEF ScaleOf
  <2>4. Legal(s, type) <=> \E n \in AsScaled(s, type.scale) : Holds(n, type)
    BY <1>2, LegalScaled
  <2>5. \A v \in Read(s, type, expected) : \E n \in AsScaled(s, type.scale) : v = [Zero(type) EXCEPT !.int = n]
    BY <2>1
  <2>6. ASSUME NEW v \in Read(s, type, expected)
        PROVE  v.type = type /\ ~IsRaise(v) /\ v.int = Said(s, ScaleOf(type))
    <3>1. PICK n \in AsScaled(s, type.scale) : v = [Zero(type) EXCEPT !.int = n]
      BY <2>5
    <3> QED BY <2>2, <2>3, <3>1 DEF Zero, IsRaise
  <2>7. (\E n \in AsScaled(s, type.scale) : Holds(n, type)) <=> Read(s, type, expected) # {}
    BY <2>1
  <2> QED BY <2>4, <2>6, <2>7
<1> QED BY <1>1, <1>2

(* No literal of a number begins with a !, and none is empty.              *)
LEMMA LegalStart ==
  ASSUME NEW C, NEW s \in Seq(C), NEW type, Legal(s, type)
  PROVE  s # <<>> /\ s[1] # "!"
<1>1. /\ Numeric(s) /\ SignLength(s) < Len(s) /\ SignLength(s) \in Nat /\ Len(s) \in Nat
      /\ \A i \in 1 .. SignLength(s) : s[i] \in {"-", "+"}
  BY Signs DEF Legal, Numeric
<1>2. s # <<>> /\ 1 \in DOMAIN s
  BY <1>1
<1>3. 1 \in (1 .. SignLength(s)) \cup DigitPlaces(s) \cup PointPlaces(s)
  BY <1>1, <1>2 DEF Numeric
<1>4. ~IsDigit("!")
  BY FigureValue DEF Figure
<1>5. s[1] \in {"-", "+"} \/ IsDigit(s[1]) \/ s[1] = "."
  BY <1>1, <1>3 DEF DigitPlaces, PointPlaces
<1> QED BY <1>2, <1>4, <1>5

(* What LiteralsExact says of a cell.                                      *)
Exact(s, type, expected, v) ==
  /\ v # NoValue <=> Legal(s, type) \/ (IsRaise(v) /\ expected)
  /\ v # NoValue /\ ~IsRaise(v) => v.int = Said(s, ScaleOf(type))

(* types.Parse of an exact type does what LiteralsExact asks. *)
LEMMA ParseExact ==
  ASSUME NEW C, NEW text \in Seq(C), NEW type \in Type, type.kind \in Integral \cup Scaled,
         NEW expected \in BOOLEAN
  PROVE  Exact(Trim(text), type, expected, Parse(text, type, expected))
<1> DEFINE s == Trim(text)
           v == Parse(text, type, expected)
           vs == Values(text, type, expected)
<1>1. s \in Seq(C)
  BY TrimSeq
<1>2. vs = IF s = <<>> THEN {} ELSE IF s[1] = "!" THEN Raise(s, type, expected) ELSE Read(s, type, expected)
  BY Zenon DEF Values
<1>3. (vs = {} => v = NoValue) /\ (vs # {} => v \in vs)
  BY DEF Parse
<1>4. ~IsRaise(NoValue) /\ NoValue.type = Invalid
  BY DEF NoValue, Zero, IsRaise
<1>5. type # Invalid
  BY DEF Invalid, Plain, Integral, Scaled
<1> HIDE DEF s, v, vs
<1>6. CASE s = <<>>
  <2>1. v = NoValue /\ ~Legal(s, type)
    BY <1>1, <1>2, <1>3, <1>6, LegalStart
  <2> QED BY <1>4, <2>1 DEF Exact, s, v
<1>7. CASE s # <<>> /\ s[1] = "!"
  <2>1. ~Legal(s, type)
    BY <1>1, <1>7, LegalStart
  <2>2. vs = Raise(s, type, expected)
    BY <1>2, <1>7
  <2>3. \A w \in Raise(s, type, expected) : expected /\ IsRaise(w) /\ w.type = type
    BY DEF Raise, IsRaise, Zero
  <2>4. v # NoValue => expected /\ IsRaise(v)
    BY <1>3, <2>2, <2>3
  <2> QED BY <1>4, <2>1, <2>4 DEF Exact, s, v
<1>8. CASE s # <<>> /\ s[1] # "!"
  <2>1. vs = Read(s, type, expected)
    BY <1>2, <1>8
  <2>2. Legal(s, type) <=> vs # {}
    BY <1>1, <2>1, ReadExact
  <2>3. \A w \in vs : w.type = type /\ ~IsRaise(w) /\ w.int = Said(s, ScaleOf(type))
    BY <1>1, <2>1, ReadExact
  <2>4. CASE vs = {}
    BY <1>3, <1>4, <2>2, <2>4 DEF Exact, s, v
  <2>5. CASE vs # {}
    <3>1. v.type = type /\ ~IsRaise(v) /\ v.int = Said(s, ScaleOf(type))
      BY <1>3, <2>3, <2>5
    <3>2. v # NoValue
      BY <1>4, <1>5, <3>1
    <3> QED BY <2>2, <2>5, <3>1, <3>2 DEF Exact, s, v
  <2> QED BY <2>4, <2>5
<1> QED BY <1>6, <1>7, <1>8

(* So of each cell, *)
LEMMA CellExact ==
  ASSUME NEW f, WellFormedFn(f), NEW t \in DOMAIN f.tables,
         NEW r \in DOMAIN f.tables[t].rows, NEW i \in DOMAIN f.tables[t].columns,
         Typed(Bind(f, f.tables[t], i)), Bind(f, f.tables[t], i).type.kind \in Integral \cup Scaled
  PROVE  LET b == Bind(f, f.tables[t], i)
         IN Exact(Trim(f.tables[t].rows[r][i]), b.type, b.kind = "output", CellValue(f, f.tables[t], r, i))
<1> DEFINE T == f.tables[t]
           b == Bind(f, T, i)
           v == CellValue(f, T, r, i)
           text == T.rows[r][i]
           expected == b.kind = "output"
<1>1. v = Parse(text, b.type, expected)
  BY DEF CellValue
<1>2. b.type \in Type /\ b.type.kind \in Integral \cup Scaled
  BY BoundType
<1>3. text \in Seq(STRING)
  BY DEF WellFormedFn, WellFormedTable
<1>4. expected \in BOOLEAN
  OBVIOUS
<1> HIDE DEF b, v, text, expected
<1>5. Exact(Trim(text), b.type, expected, v)
  BY <1>1, <1>2, <1>3, <1>4, ParseExact
<1> QED BY <1>5 DEF b, v, text, expected

(* and of all that were checked. *)
LEMMA FilledExact ==
  ASSUME FilledInv
  PROVE  LiteralsExact
<1> SUFFICES ASSUME NEW d \in 1 .. next - 1, NEW t \in DOMAIN columns[d],
                    NEW i \in DOMAIN columns[d][t], Typed(columns[d][t][i]),
                    columns[d][t][i].type.kind \in Integral \cup Scaled, NEW r \in DOMAIN values[d][t]
             PROVE  Exact(Trim(decls[d].tables[t].rows[r][i]), columns[d][t][i].type,
                          columns[d][t][i].kind = "output", values[d][t][r][i])
  BY DEF LiteralsExact, Exact, ScaleOf
<1> DEFINE f == decls[d]
<1>1. d \in DOMAIN decls /\ WellFormedFn(f) /\ Filled(d)
  BY DeclsDomain DEF FilledInv
<1> HIDE DEF f
<1>2. CASE columns[d] = BlankColumns(f) /\ values[d] = BlankValues(f)
  <2>1. t \in DOMAIN f.tables /\ i \in DOMAIN f.tables[t].columns
    BY <1>2 DEF BlankColumns
  <2>2. columns[d][t][i] = Unresolved
    BY <1>2, <2>1 DEF BlankColumns
  <2> QED BY <2>2 DEF Typed, Unresolved
<1>3. CASE columns[d] = BoundColumns(f) /\ values[d] = BoundValues(f)
  <2>1. t \in DOMAIN f.tables /\ i \in DOMAIN f.tables[t].columns /\ r \in DOMAIN f.tables[t].rows
    BY <1>3 DEF BoundColumns, BoundValues
  <2>2. values[d][t][r][i] = CellValue(f, f.tables[t], r, i)
    BY <1>3, <2>1 DEF BoundValues
  <2>3. columns[d][t][i] = Bind(f, f.tables[t], i)
    BY <1>3, <2>1 DEF BoundColumns
  <2>4. Typed(Bind(f, f.tables[t], i)) /\ Bind(f, f.tables[t], i).type.kind \in Integral \cup Scaled
    BY <2>3
  <2>5. LET b == Bind(f, f.tables[t], i)
        IN Exact(Trim(f.tables[t].rows[r][i]), b.type, b.kind = "output", CellValue(f, f.tables[t], r, i))
    BY <1>1, <2>1, <2>4, CellExact
  <2> QED BY <2>2, <2>3, <2>5 DEF f
<1> QED BY <1>1, <1>2, <1>3 DEF Filled, BoundAs, f

(* The numerals an exact type takes are those it can hold, and each stands *)
(* for what its digits say: of every width, precision and scale, for every *)
(* text of a cell, none is rounded, cut or wrapped.                        *)
THEOREM NumeralsExact == HarnessSpec => []LiteralsExact
<1>1. HarnessInit => FilledInv
  BY FilledStart DEF HarnessInit
<1>2. FilledInv /\ [HarnessNext]_harnessVars => FilledInv'
  <2>1. [HarnessNext]_harnessVars => [CheckNext]_checkVars
    BY DEF HarnessNext, Checking, SkipLive, PlanFn, Stopped, harnessVars
  <2> QED BY <2>1, FilledStep
<1>3. FilledInv => LiteralsExact
  BY FilledExact
<1> QED BY <1>1, <1>2, <1>3, PTL DEF HarnessSpec

----------------------------------------------------------------------------
(* The arguments of a row: Marshal writes an expression that means what the *)
(* cell means.                                                             *)
(* Decimal("...") of the text that Marshal writes is the scaled integer. *)
LEMMA DecimalRead ==
  ASSUME NEW n \in Int, NEW scale \in Nat
  PROVE  DecimalOf(ScaledString(n, scale)) = PyDecimal(n < 0, Magnitude(n), -scale)
<1>1. PICK a \in Seq(Figure), b \in Seq(Figure) :
        /\ Len(a) > 0 /\ Len(b) = scale /\ Number(a \o b) = Magnitude(n)
        /\ ScaledString(n, scale) = Signed(n, IF scale = 0 THEN a ELSE a \o <<".">> \o b)
  BY ScaledText
<1> DEFINE body == IF scale = 0 THEN a ELSE a \o <<".">> \o b
<1>2. /\ body \in Seq(NumeralChar) /\ Len(body) > 0 /\ body[1] \in Figure
      /\ Cut(body, ".").before = a /\ Cut(body, ".").after = b
  BY <1>1, CutScaled
<1>3. ScaledString(n, scale) = Signed(n, body)
  BY <1>1
<1> HIDE DEF body
<1>4. HasPrefix(Signed(n, body), "-") = (n < 0) /\ TrimPrefix(Signed(n, body), "-") = body
  <2>1. HasPrefix(Signed(n, body), "-") \in BOOLEAN
    BY DEF HasPrefix
  <2>2. (HasPrefix(Signed(n, body), "-") <=> n < 0) /\ TrimPrefix(Signed(n, body), "-") = body
    BY <1>2, SignRead
  <2> QED BY <2>1, <2>2
<1>5. DecimalOf(Signed(n, body)) = PyDecimal(n < 0, Number(a \o b), -Len(b))
  BY <1>2, <1>4 DEF DecimalOf
<1> QED BY <1>1, <1>3, <1>5

(* n, with places decimal places, is n times that power of ten. *)
LEMMA SameScaled ==
  ASSUME NEW n \in Int, NEW places \in Nat
  PROVE  SameNumber(n, -places, n, places)
<1> DEFINE e == (-places) + places
<1>1. e = 0 /\ PowerOfTen(0) = 1
  BY Tens
<1>2. SameNumber(n, -places, n, places) <=> IF e >= 0 THEN n * PowerOfTen(e) = n ELSE n = n * PowerOfTen(-e)
  BY DEF SameNumber
<1> HIDE DEF e
<1> QED BY <1>1, <1>2

(* An argument means what its cell means. *)
LEMMA ArgStands ==
  ASSUME NEW C, "byte" \in C, NEW text \in Seq(C), NEW type \in Type,
         NEW v, v = Parse(text, type, FALSE), v # NoValue, v.type.kind # "float",
         \A j \in DOMAIN v.text : v.text[j] # "byte"
  PROVE  Stands(PyArg(v), v)
<1>1. /\ v.type = type /\ type.kind \in Kind \ {"invalid", "float"}
      /\ type.kind \in Integral \cup Scaled => v.int \in Int
      /\ type.kind = "text" => v.text \in Seq(C)
  <2>1. /\ v.type = type /\ type.kind \in Kind \ {"invalid"}
        /\ type.kind \in Integral \cup Scaled => v.int \in Int
        /\ type.kind = "text" => v.text \in Seq(C)
    BY ParsedInput, Zenon
  <2> QED BY <2>1
<1>2. CASE type.kind = "bool"
  <2>1. PyArg(v) = PyBool(v.bool) /\ PyKind(type) = "bool"
    BY <1>1, <1>2 DEF PyArg, PyKind, Integral, Scaled
  <2> QED BY <1>1, <2>1 DEF Stands, PyBool, PyZero
<1>3. CASE type.kind = "text"
  <2>1. PyArg(v) = PyStr(Json(v.text)) /\ PyKind(type) = "str"
    BY <1>1, <1>3 DEF PyArg, PyKind, Integral, Scaled
  <2>2. Json(v.text) = v.text
    <3>1. v.text = [i \in DOMAIN v.text |-> v.text[i]]
      BY <1>1, <1>3, SeqFunction
    <3>2. Json(v.text) = [i \in DOMAIN v.text |-> v.text[i]]
      BY DEF Json
    <3> QED BY <3>1, <3>2
  <2> QED BY <1>1, <2>1, <2>2 DEF Stands, PyStr, PyZero
<1>4. CASE type.kind \in Integral
  <2>1. PyArg(v) = PyInt(v.int) /\ PyKind(type) = "int"
    BY <1>1, <1>4 DEF PyArg, PyKind, Integral, Scaled
  <2> QED BY <1>1, <2>1 DEF Stands, PyInt, PyZero
<1>5. CASE type.kind \in Scaled
  <2>1. type.scale \in Nat /\ v.int \in Int
    BY <1>1, <1>5 DEF Type
  <2>2. String(v) = ScaledString(v.int, type.scale) /\ PyKind(type) = "Decimal" /\ Decimals(v) = type.scale
    <3>1. ~IsRaise(v)
      <4>1. v \in Read(Trim(text), type, FALSE)
        BY DEF Parse, Values, Raise
      <4>2. PICK n : v = [Zero(type) EXCEPT !.int = n]
        BY <1>5, <4>1 DEF Read, Integral, Scaled
      <4> QED BY <4>2 DEF Zero, IsRaise
    <3>2. String(v) = ScaledString(v.int, type.scale)
      BY <1>1, <1>5, <3>1 DEF String, Scaled
    <3>3. PyKind(type) = "Decimal"
      BY <1>5 DEF PyKind, Integral, Scaled
    <3> QED BY <1>1, <1>5, <3>2, <3>3 DEF Decimals
  <2>3. PyArg(v) = PyDecimal(v.int < 0, Magnitude(v.int), -type.scale)
    <3>1. PyArg(v) = DecimalOf(String(v))
      BY <1>1, <1>5 DEF PyArg, Integral, Scaled
    <3> QED BY <2>1, <2>2, <3>1, DecimalRead
  <2>4. (IF v.int < 0 THEN -Magnitude(v.int) ELSE Magnitude(v.int)) = v.int
    <3>1. \A n \in Int : (IF n < 0 THEN -Magnitude(n) ELSE Magnitude(n)) = n
      BY DEF Magnitude
    <3> QED BY <2>1, <3>1
  <2>5. SameNumber(v.int, -type.scale, v.int, type.scale)
    BY <2>1, SameScaled
  <2>6. /\ PyArg(v).py = "Decimal" /\ PyArg(v).neg = (v.int < 0) /\ PyArg(v).n = Magnitude(v.int)
        /\ PyArg(v).exp = -type.scale
    BY <2>3 DEF PyDecimal, PyZero
  <2> QED BY <1>1, <2>2, <2>4, <2>5, <2>6 DEF Stands
<1>6. CASE type.kind = "date"
  <2>1. PyArg(v) = PyDate(v.date) /\ PyKind(type) = "date"
    BY <1>1, <1>6 DEF PyArg, PyKind, Integral, Scaled
  <2> QED BY <1>1, <2>1 DEF Stands, PyDate, PyZero
<1> QED BY <1>1, <1>2, <1>3, <1>4, <1>5, <1>6 DEF Kind, Integral, Scaled

(* An argument of a planned row is what its cell was read as. *)
IsArg(v) ==
  \E text \in Seq(STRING), type \in Type : v = Parse(text, type, FALSE) /\ v # NoValue

(* The Python value of an argument means what its cell means, bytes apart. *)
LEMMA ArgDenotes ==
  ASSUME NEW v, IsArg(v), v.type.kind # "float"
  PROVE  Stands(PyArg(v), v) \/ \E j \in DOMAIN v.text : v.text[j] = "byte"
<1> SUFFICES ASSUME \A j \in DOMAIN v.text : v.text[j] # "byte" PROVE Stands(PyArg(v), v)
  OBVIOUS
<1>1. PICK text \in Seq(STRING), type \in Type : v = Parse(text, type, FALSE) /\ v # NoValue
  BY DEF IsArg
<1> DEFINE C == STRING \cup {"byte"}
<1>2. Seq(STRING) \subseteq Seq(C) /\ "byte" \in C
  BY SeqMonotonic, STRING \subseteq C
<1> HIDE DEF C
<1>3. text \in Seq(C)
  BY <1>1, <1>2
<1> QED BY <1>1, <1>2, <1>3, ArgStands

(* What a row that runFn plans is: a clean declaration names nothing       *)
(* "note", and the row stands in one of its tables.                        *)
LEMMA PlannedRow ==
  ASSUME NEW d \in DOMAIN decls, WellFormedFn(decls[d]), Clean(decls[d]), BoundAs(d),
         decls[d].mode = "frozen", NEW s \in DOMAIN Plan(d).rows
  PROVE  ~NamesNote(decls[d]) /\ s \in Slots(d) /\ Plan(d).rows[s].args = Args(d, s[1], s[2])
<1> DEFINE f == decls[d]
           rows == [u \in Slots(d) |-> Row(Args(d, u[1], u[2]), Expected(d, u[1], u[2]))]
<1>1. ~NamesNote(f)
  <2> SUFFICES ASSUME NamesNote(f) PROVE FALSE
    OBVIOUS
  <2>1. Plan(d).problem # ""
    BY NoteRefused
  <2>2. Plan(d).rows = <<>>
    BY <2>1, Zenon DEF Plan, Refuse
  <2> QED BY <2>2, NoRows
<1>2. Plan(d).rows = rows
  <2>1. \/ Plan(d) = Refuse("table has no output column") \/ Plan(d) = Refuse("no rows to assay")
        \/ Plan(d) = Refuse("unsupported type") \/ Plan(d) = Refuse("no cell for input")
        \/ Plan(d) = [problem |-> "", rows |-> rows]
    BY Zenon DEF Plan
  <2>2. Plan(d).problem = ""
    BY <1>1, PlanSound
  <2>3. /\ Refuse("table has no output column").problem # ""
        /\ Refuse("no rows to assay").problem # ""
        /\ Refuse("unsupported type").problem # "" /\ Refuse("no cell for input").problem # ""
    BY DEF Refuse
  <2> HIDE DEF rows
  <2> QED BY <2>1, <2>2, <2>3, PlanFields, Zenon
<1>3. s \in DOMAIN rows /\ Plan(d).rows[s] = rows[s]
  BY <1>2
<1> QED BY <1>1, <1>3 DEF Row

(* So it is of every row that runFn plans. *)
LEMMA PlannedArgs ==
  ASSUME NEW d \in DOMAIN decls, WellFormedFn(decls[d]), Clean(decls[d]), BoundAs(d),
         decls[d].mode = "frozen", NEW s \in DOMAIN Plan(d).rows,
         NEW p \in DOMAIN Plan(d).rows[s].args
  PROVE  IsArg(Plan(d).rows[s].args[p])
<1> DEFINE f == decls[d]
           t == s[1]
           r == s[2]
           T == f.tables[t]
<1>1. ~NamesNote(f) /\ s \in Slots(d) /\ Plan(d).rows[s].args = Args(d, t, r)
  BY PlannedRow
<1>2. t \in DOMAIN f.tables /\ r \in DOMAIN T.rows
  BY <1>1 DEF Slots, Table
<1>3. p \in DOMAIN f.params
  BY <1>1 DEF Args
<1>4. f.params[p].name \in ParamSet(f)
  BY <1>3 DEF ParamSet
<1>5. PICK i \in DOMAIN T.columns : T.columns[i] = f.params[p].name
  BY <1>1, <1>2, <1>4, CleanColumns
<1>6. Plan(d).rows[s].args[p] = Parse(T.rows[r][i], f.params[p].type, FALSE)
  <2>1. RowByName(f, T, r, Plan(d).rows[s])
    BY PlanSound
  <2> QED BY <1>3, <1>5, <2>1 DEF RowByName
<1>7. Parse(T.rows[r][i], f.params[p].type, FALSE) # NoValue
  <2>1. /\ Bind(f, T, i).kind = "input" /\ Bind(f, T, i).type = f.params[p].type
        /\ IsParsed(f, T, r, i)
    BY <1>1, <1>2, <1>3, <1>4, <1>5, CleanColumns
  <2> QED BY <2>1 DEF IsParsed
<1>8. T.rows[r][i] \in Seq(STRING) /\ f.params[p].type \in Type
  <2>1. WellFormedTable(T) /\ f.params \in Seq([name : STRING, type : Type])
    BY <1>2 DEF WellFormedFn
  <2>2. \A S : f.params \in Seq(S) => \A k \in DOMAIN f.params : f.params[k] \in S
    OBVIOUS
  <2>3. f.params[p] \in [name : STRING, type : Type]
    BY <1>3, <2>1, <2>2
  <2> QED BY <1>2, <1>5, <2>1, <2>3 DEF WellFormedTable
<1> QED BY <1>6, <1>7, <1>8 DEF IsArg

(* A row is known by the places of its table and of itself. *)
LEMMA PlannedSlots ==
  ASSUME NEW d \in DOMAIN decls, WellFormedFn(decls[d])
  PROVE  DOMAIN Plan(d).rows \subseteq Nat \X Nat
<1> DEFINE f == decls[d]
           rows == [u \in Slots(d) |-> Row(Args(d, u[1], u[2]), Expected(d, u[1], u[2]))]
<1>1. Plan(d).rows = <<>> \/ Plan(d).rows = rows
  BY Zenon DEF Plan, Refuse
<1>2. Slots(d) \subseteq Nat \X Nat
  <2>1. \A t \in DOMAIN f.tables : t \in Nat /\ \A r \in DOMAIN f.tables[t].rows : r \in Nat
    BY DEF WellFormedFn, WellFormedTable
  <2>2. Slots(d) = UNION {{t} \X DOMAIN f.tables[t].rows : t \in DOMAIN f.tables}
    BY DEF Slots, Table
  <2> HIDE DEF f
  <2> QED BY <2>1, <2>2
<1>3. DOMAIN rows = Slots(d)
  OBVIOUS
<1> HIDE DEF rows
<1> QED BY <1>1, <1>2, <1>3, NoRows

(* There is a first of any rows. *)
LEMMA NatLeast ==
  ASSUME NEW S \in SUBSET Nat, S # {}
  PROVE  \E m \in S : \A i \in S : m <= i
<1> DEFINE R == OpToRel(<, Nat)
<1>1. IsWellFoundedOn(R, Nat)
  BY NatLessThanWellFounded
<1>2. \A x, y \in Nat : x < y => <<x, y>> \in R
  BY DEF OpToRel
<1> HIDE DEF R
<1>3. PICK m \in S : \A y \in S : ~ (<<y, m>> \in R)
  BY <1>1, WFMin
<1>4. ASSUME NEW y \in S PROVE m <= y
  <2>1. y \in Nat /\ m \in Nat /\ ~ (y < m)
    BY <1>2, <1>3
  <2> QED BY <2>1
<1> QED BY <1>4

(* There is a first of any rows in the order of a spec. *)
LEMMA FirstRow ==
  ASSUME NEW L \in SUBSET (Nat \X Nat), L # {}
  PROVE  \E s \in L : \A u \in L \ {s} : Earlier(s, u)
<1> DEFINE A == {x[1] : x \in L}
<1>1. A \in SUBSET Nat /\ A # {}
  OBVIOUS
<1>2. PICK a \in A : \A i \in A : a <= i
  BY <1>1, NatLeast
<1> DEFINE B == {x[2] : x \in {y \in L : y[1] = a}}
<1>3. B \in SUBSET Nat /\ B # {}
  BY <1>2
<1>4. PICK b \in B : \A i \in B : b <= i
  BY <1>3, NatLeast
<1>5. PICK s \in L : s[1] = a /\ s[2] = b
  BY <1>4
<1>6. ASSUME NEW u \in L \ {s} PROVE Earlier(s, u)
  <2>1. u[1] \in A /\ a <= u[1] /\ (u[1] = a => u[2] \in B /\ b <= u[2])
    BY <1>2, <1>4
  <2>2. /\ u = <<u[1], u[2]>> /\ s = <<s[1], s[2]>> /\ u # s
        /\ u[1] \in Nat /\ u[2] \in Nat /\ s[1] \in Nat /\ s[2] \in Nat
    OBVIOUS
  <2> HIDE DEF A, B
  <2> QED BY <1>5, <2>1, <2>2 DEF Earlier
<1> QED BY <1>6

(* The calls that were made, against the plans: a call is one of its       *)
(* harness's rows, marshalled.                                             *)
Called(call, rows) ==
  /\ call.slot \in DOMAIN rows
  /\ call.args = [p \in DOMAIN rows[call.slot].args |-> PyArg(rows[call.slot].args[p])]
  /\ ~Unreadable(rows[call.slot])

(* What was planned has such arguments; what was called was planned. *)
RowsInv ==
  /\ DOMAIN ran = DOMAIN decls
  /\ \A d \in DOMAIN decls : Len(ran[d]) \in Nat /\ DOMAIN ran[d] = 1 .. Len(ran[d])
  /\ \A d \in DOMAIN decls : \A s \in DOMAIN plans[d].rows :
       \A p \in DOMAIN plans[d].rows[s].args : IsArg(plans[d].rows[s].args[p])
  /\ \A d \in DOMAIN decls : DOMAIN plans[d].rows \subseteq Nat \X Nat
  /\ \A d \in DOMAIN decls : d < turn \/ ran[d] = <<>>
  /\ \A d \in DOMAIN decls : \A i \in DOMAIN ran[d] : Called(ran[d][i], plans[d].rows)

(* Before the first harness, nothing has been called. *)
LEMMA RowsStart == RowsInit => RowsInv
<1> SUFFICES ASSUME RowsInit PROVE RowsInv
  OBVIOUS
<1>1. /\ ran = [d \in DOMAIN decls |-> <<>>] /\ plans = [d \in DOMAIN decls |-> NoPlan]
  BY DEF RowsInit, HarnessInit
<1>2. \A d \in DOMAIN decls : ran[d] = <<>> /\ plans[d].rows = <<>>
  BY <1>1 DEF NoPlan
<1>3. \A d \in DOMAIN decls : DOMAIN ran[d] = {} /\ DOMAIN plans[d].rows = {}
  BY <1>2, NoRows
<1>4. Len(<<>>) \in Nat /\ DOMAIN <<>> = 1 .. Len(<<>>)
  OBVIOUS
<1> QED BY <1>1, <1>2, <1>3, <1>4 DEF RowsInv

(* While the harnesses are being prepared. *)
LEMMA PreparingStep ==
  ASSUME HarnessInv, RowsInv, Preparing
  PROVE  RowsInv'
<1>1. decls' = decls /\ ran' = ran
  BY DEF Preparing, HarnessNext, Checking, CheckNext, Redeclared, CheckFn, SkipLive, PlanFn,
         Stopped, harnessVars, checkVars
<1>2. CASE plans' = plans /\ (turn' = turn \/ turn' = turn + 1)
  <2>1. \A d \in DOMAIN decls : d < turn => d < turn'
    BY <1>2, DeclsDomain DEF HarnessInv
  <2> QED BY <1>1, <1>2, <2>1 DEF RowsInv
<1>3. CASE PlanFn
  <2>1. /\ turn' = turn + 1 /\ turn \in DOMAIN decls /\ Checked /\ ~HasErrors
        /\ decls[turn].mode = "frozen" /\ turn \in Nat
        /\ DOMAIN plans' = DOMAIN decls
        /\ \A d \in DOMAIN decls : plans'[d] = IF d = turn THEN Plan(turn) ELSE plans[d]
    <3>1. turn' = turn + 1 /\ Checked /\ ~HasErrors /\ decls[turn].mode = "frozen" /\ turn <= Len(decls)
      BY <1>3 DEF PlanFn, Assaying
    <3>2. turn \in DOMAIN decls /\ turn \in Nat
      BY <3>1, DeclsDomain DEF HarnessInv
    <3>3. plans' = [plans EXCEPT ![turn] = Plan(turn)] /\ DOMAIN plans = DOMAIN decls
      BY <1>3 DEF PlanFn, HarnessInv
    <3> QED BY <3>1, <3>2, <3>3
  <2>2. \A d \in DOMAIN decls : d < turn => d < turn' /\ d # turn
    BY <2>1, DeclsDomain DEF HarnessInv
  <2>3. \A s \in DOMAIN Plan(turn).rows : \A p \in DOMAIN Plan(turn).rows[s].args :
          IsArg(Plan(turn).rows[s].args[p])
    BY <2>1, CleanWhenChecked, PlannedArgs
  <2>4. \A d \in DOMAIN decls : \A s \in DOMAIN plans'[d].rows :
          \A p \in DOMAIN plans'[d].rows[s].args : IsArg(plans'[d].rows[s].args[p])
    BY <2>1, <2>3 DEF RowsInv
  <2>7. \A d \in DOMAIN decls : DOMAIN plans'[d].rows \subseteq Nat \X Nat
    BY <2>1, DeclsDomain, PlannedSlots DEF RowsInv, HarnessInv
  <2>5. \A d \in DOMAIN decls : d < turn' \/ ran[d] = <<>>
    BY <2>2 DEF RowsInv
  <2>6. ASSUME NEW d \in DOMAIN decls, NEW i \in DOMAIN ran[d]
        PROVE  Called(ran[d][i], plans'[d].rows)
    <3>1. d < turn
      BY <2>6, NoRows DEF RowsInv
    <3>2. plans'[d] = plans[d]
      BY <2>1, <2>2, <3>1
    <3> QED BY <3>2 DEF RowsInv
  <2> QED BY <1>1, <2>4, <2>5, <2>6, <2>7 DEF RowsInv
<1> QED BY <1>2, <1>3 DEF Preparing, HarnessNext, Checking, SkipLive, Stopped, harnessVars

(* The row that is called next is one that has not been called. *)
LEMMA UpcomingLeft ==
  ASSUME RowsInv, NEW d \in DOMAIN decls, Left(d) # {}
  PROVE  Upcoming(d) \in Left(d)
<1>1. Left(d) \in SUBSET (Nat \X Nat)
  BY DEF Left, RowsInv
<1>2. \E x \in Left(d) : \A u \in Left(d) \ {x} : Earlier(x, u)
  BY <1>1, FirstRow
<1> QED BY <1>2 DEF Upcoming

(* A row is called. *)
LEMMA CallStep ==
  ASSUME RowsInv, NEW d \in DOMAIN decls, CallRow(d)
  PROVE  RowsInv'
<1>1. /\ decls' = decls /\ plans' = plans /\ turn' = turn /\ Planned(d) /\ Left(d) # {}
      /\ Readable(d)
  BY DEF CallRow, Runs, harnessVars, checkVars
<1> DEFINE s == Upcoming(d)
           row == plans[d].rows[s]
<1>2. PICK answer, passed :
        ran' = [ran EXCEPT ![d] = Append(@,
                 [slot |-> s, args |-> [p \in DOMAIN row.args |-> PyArg(row.args[p])],
                  answer |-> answer, passed |-> passed])]
  BY DEF CallRow
<1>3. s \in Left(d)
  BY <1>1, UpcomingLeft
<1> HIDE DEF s
<1>4. s \in DOMAIN plans[d].rows /\ ~Unreadable(row)
  BY <1>1, <1>3 DEF Left, Readable
<1> DEFINE call == [slot |-> s, args |-> [p \in DOMAIN row.args |-> PyArg(row.args[p])],
                    answer |-> answer, passed |-> passed]
<1>5. Called(call, plans[d].rows)
  BY <1>4 DEF Called
<1> HIDE DEF call
<1>6. /\ DOMAIN ran' = DOMAIN decls /\ ran'[d] = Append(ran[d], call)
      /\ \A e \in DOMAIN decls : e # d => ran'[e] = ran[e]
  BY <1>2 DEF RowsInv, call
<1>7. \A i \in DOMAIN ran'[d] : ran'[d][i] = call \/ (i \in DOMAIN ran[d] /\ ran'[d][i] = ran[d][i])
  BY <1>6 DEF RowsInv
<1>10. \A e \in DOMAIN decls : Len(ran'[e]) \in Nat /\ DOMAIN ran'[e] = 1 .. Len(ran'[e])
  <2>1. Len(Append(ran[d], call)) = Len(ran[d]) + 1
        /\ DOMAIN Append(ran[d], call) = 1 .. Len(ran[d]) + 1
    BY DEF RowsInv
  <2> QED BY <1>6, <2>1 DEF RowsInv
<1>8. \A e \in DOMAIN decls : \A i \in DOMAIN ran'[e] : Called(ran'[e][i], plans[e].rows)
  BY <1>5, <1>6, <1>7 DEF RowsInv
<1>9. \A e \in DOMAIN decls : e < turn \/ ran'[e] = <<>>
  BY <1>1, <1>6 DEF RowsInv, Planned
<1> QED BY <1>1, <1>6, <1>8, <1>9, <1>10 DEF RowsInv

(* Running the rows leaves alone what was checked and planned: what holds  *)
(* of every run of Harness holds while its harnesses run.                  *)
THEOREM RowsKeepHarness == RowsSpec => HarnessSpec
<1>1. RowsInit => HarnessInit
  BY DEF RowsInit
<1>2. [RowsNext]_rowsVars => [HarnessNext]_harnessVars
  BY DEF RowsNext, Preparing, HarnessUnreadable, CallRow, CallFails, HarnessEnds, End, rowsVars
<1> QED BY <1>1, <1>2, PTL DEF RowsSpec, HarnessSpec

(* A step of the harnesses keeps it. *)
LEMMA RowsStep ==
  ASSUME HarnessInv, RowsInv, [RowsNext]_rowsVars
  PROVE  RowsInv'
<1>1. ASSUME UNCHANGED harnessVars, ran' = ran PROVE RowsInv'
  <2>1. decls' = decls /\ plans' = plans /\ turn' = turn
    BY <1>1 DEF harnessVars, checkVars
  <2> QED BY <1>1, <2>1 DEF RowsInv
<1>2. CASE Preparing
  BY <1>2, PreparingStep
<1>3. ASSUME NEW d \in DOMAIN decls, HarnessUnreadable(d) \/ CallFails(d) \/ HarnessEnds(d)
      PROVE  RowsInv'
  <2>1. UNCHANGED harnessVars /\ ran' = ran
    BY <1>3 DEF HarnessUnreadable, CallFails, HarnessEnds, End
  <2> QED BY <1>1, <2>1
<1>4. ASSUME NEW d \in DOMAIN decls, CallRow(d) PROVE RowsInv'
  BY <1>4, CallStep
<1>5. CASE UNCHANGED rowsVars
  BY <1>1, <1>5 DEF rowsVars
<1> QED BY <1>2, <1>3, <1>4, <1>5 DEF RowsNext

(* It holds of every run. *)
LEMMA RowsInductive == RowsSpec => [](HarnessInv /\ RowsInv)
<1>1. RowsInit => RowsInv
  BY RowsStart
<1>2. HarnessInv /\ RowsInv /\ [RowsNext]_rowsVars => RowsInv'
  BY RowsStep
<1> QED BY <1>1, <1>2, RowsKeepHarness, HarnessInductive, PTL DEF RowsSpec

(* Of every row that is called, each argument is the Python value of the   *)
(* parameter's type that means what the cell means.                        *)
THEOREM ArgumentsDenote == RowsSpec => []ArgsDenote
<1>1. ASSUME HarnessInv, RowsInv PROVE ArgsDenote
  <2> SUFFICES ASSUME NEW d \in DOMAIN decls, NEW i \in DOMAIN ran[d],
                      NEW p \in DOMAIN plans[d].rows[ran[d][i].slot].args
               PROVE  LET args == plans[d].rows[ran[d][i].slot].args IN
                      \/ Stands(ran[d][i].args[p], args[p])
                      \/ \E j \in DOMAIN args[p].text : args[p].text[j] = "byte"
    BY DEF ArgsDenote
  <2> DEFINE row == plans[d].rows[ran[d][i].slot]
  <2>1. Called(ran[d][i], plans[d].rows)
    BY <1>1 DEF RowsInv
  <2>2. ran[d][i].args[p] = PyArg(row.args[p]) /\ ~Unreadable(row) /\ ran[d][i].slot \in DOMAIN plans[d].rows
    BY <2>1 DEF Called
  <2>3. row.args[p].type.kind # "float"
    BY <2>2 DEF Unreadable
  <2>4. IsArg(row.args[p])
    BY <1>1, <2>2 DEF RowsInv
  <2> HIDE DEF row
  <2>5. Stands(PyArg(row.args[p]), row.args[p])
        \/ \E j \in DOMAIN row.args[p].text : row.args[p].text[j] = "byte"
    BY <2>3, <2>4, ArgDenotes
  <2> QED BY <2>2, <2>5 DEF row
<1> QED BY <1>1, RowsInductive, PTL

----------------------------------------------------------------------------
(* What _canon writes of an answer, and what is read in it: a number is a  *)
(* numeral that tells it, or has an exponent and is read as nothing.       *)
(* A text without spaces around it, which names no raise and no tolerance. *)
PlainText(x) == Trimmed(x) /\ x[1] # "!" /\ \A i \in DOMAIN x : x[i] # "~"

(* A float of an input is what its text is read as, unless it is infinite; *)
(* any other value, what types.Parse reads for its type.                   *)
Meanings(x, type) ==
  IF type.kind = "float" THEN {BareFloat(type, f) : f \in {g \in AsFloat(x) : g.class # "inf"}}
  ELSE Read(x, type, FALSE)

(* A float is read in it as its reader says, another value as Read does, *)
LEMMA ReadPlain ==
  ASSUME NEW C, NEW x \in Seq(C), PlainText(x), NEW type
  PROVE  Read(x, type, FALSE) = Meanings(x, type)
<1>1. CASE type.kind # "float"
  BY <1>1 DEF Meanings
<1>2. CASE type.kind = "float"
  <2> DEFINE cut == Cut(x, "~")
             F == AsFloat(x)
             One(f) == IF f.class = "inf" THEN {} ELSE {BareFloat(type, f)}
  <2>1. cut.before = x /\ ~cut.found /\ Trim(x) = x
    BY CutNone, TrimSame DEF PlainText
  <2>2. \A f : FloatValue(x, type, f, FALSE) = One(f)
    BY <2>1 DEF FloatValue, BareFloat
  <2>3. Read(x, type, FALSE) = UNION {FloatValue(x, type, f, FALSE) : f \in F}
    BY <1>2, <2>1 DEF Read, Integral, Scaled
  <2>4. Meanings(x, type) = {BareFloat(type, f) : f \in {g \in F : g.class # "inf"}}
    BY <1>2 DEF Meanings
  <2>5. UNION {FloatValue(x, type, f, FALSE) : f \in F} = UNION {One(f) : f \in F}
    BY <2>2
  <2>6. UNION {One(f) : f \in F} = {BareFloat(type, f) : f \in {g \in F : g.class # "inf"}}
    <3> HIDE DEF F
    <3> QED BY Zenon
  <2> QED BY <2>3, <2>4, <2>5, <2>6
<1> QED BY <1>1, <1>2

(* What types.Parse makes of such a text. *)
LEMMA ParsePlain ==
  ASSUME NEW C, NEW x \in Seq(C), PlainText(x), NEW type
  PROVE  /\ Parse(x, type, FALSE) # NoValue => Parse(x, type, FALSE) \in Meanings(x, type)
         /\ \A v : Meanings(x, type) = {v} => Parse(x, type, FALSE) = v
<1>1. Trim(x) = x /\ Trimmed(x) /\ x[1] # "!"
  BY TrimSame DEF PlainText
<1>2. ASSUME Parse(x, type, FALSE) # NoValue PROVE Parse(x, type, FALSE) \in Meanings(x, type)
  <2>1. Parse(x, type, FALSE) \in Read(x, type, FALSE)
    <3> DEFINE v == Parse(x, type, FALSE)
               y == Trim(x)
    <3>1. \/ y[1] = "!" /\ v \in Raise(y, type, FALSE)
          \/ y[1] # "!" /\ v \in Read(y, type, FALSE)
      BY <1>2, ReadFrom
    <3> QED BY <1>1, <3>1
  <2> QED BY <2>1, ReadPlain
<1>3. ASSUME NEW v, Meanings(x, type) = {v} PROVE Parse(x, type, FALSE) = v
  <2>1. Read(x, type, FALSE) = {v}
    BY <1>3, ReadPlain
  <2> QED BY <1>1, <2>1, ReadOne
<1> QED BY <1>2, <1>3

(* What a number of that many decimal places comes to in another unit: the *)
(* digits N and L places say what n does at exponent -k.                   *)
SameValue(N, L, n, k) == N * PowerOfTen(k) = n * PowerOfTen(L)

(* A power of ten on both sides cancels. *)
LEMMA Cancel ==
  \A i, j \in Nat, p \in Nat \ {0} : i * p = j * p => i = j
<1> SUFFICES ASSUME NEW i \in Nat, NEW j \in Nat, NEW p \in Nat \ {0}, i * p = j * p PROVE i = j
  OBVIOUS
<1>1. CASE i < j
  <2>1. (i + 1) * p <= j * p /\ (i + 1) * p = i * p + p
    BY <1>1
  <2>2. i * p \in Nat
    OBVIOUS
  <2> QED BY <2>1, <2>2
<1>2. CASE j < i
  <2>1. (j + 1) * p <= i * p /\ (j + 1) * p = j * p + p
    BY <1>2
  <2>2. j * p \in Nat
    OBVIOUS
  <2> QED BY <2>1, <2>2
<1> QED BY <1>1, <1>2

(* A scale that has the places of both. *)
LEMMA ScaledSame ==
  ASSUME NEW N \in Nat, NEW L \in Nat, NEW n \in Nat, NEW k \in Nat, SameValue(N, L, n, k),
         NEW scale \in Nat, L <= scale
  PROVE  IF k <= scale THEN n * PowerOfTen(scale - k) = N * PowerOfTen(scale - L)
         ELSE n = (N * PowerOfTen(scale - L)) * PowerOfTen(k - scale)
<1> DEFINE P(i) == PowerOfTen(i)
           r == scale - L
<1>1. r \in Nat /\ \A i, j \in Nat : P(i) \in Nat \ {0} /\ P(i + j) = P(i) * P(j)
  <2>1. \A i, j \in Nat : PowerOfTen(i + j) = PowerOfTen(i) * PowerOfTen(j)
    BY TensAdd
  <2>2. \A i \in Nat : PowerOfTen(i) \in Nat \ {0}
    BY Tens
  <2>3. r \in Nat
    OBVIOUS
  <2> QED BY <2>1, <2>2, <2>3
<1>2. N * P(k) = n * P(L)
  BY DEF SameValue
<1>3. CASE k <= scale
  <2> DEFINE q == scale - k
  <2>1. q \in Nat /\ k + q = r + L /\ q + k = r + L
    BY <1>3
  <2>2. P(k) * P(q) = P(r) * P(L)
    BY <1>1, <2>1
  <2>3. P(k) \in Nat \ {0} /\ P(q) \in Nat \ {0} /\ P(r) \in Nat \ {0} /\ P(L) \in Nat \ {0}
    BY <1>1, <2>1
  <2>4. \A a, b, c, d, e, f \in Nat : e * a = f * d /\ a * b = c * d => (f * b) * d = (e * c) * d
    <3> SUFFICES ASSUME NEW a \in Nat, NEW b \in Nat, NEW c \in Nat, NEW d \in Nat, NEW e \in Nat,
                        NEW f \in Nat, e * a = f * d, a * b = c * d
                 PROVE  (f * b) * d = (e * c) * d
      OBVIOUS
    <3>1. (f * b) * d = (f * d) * b
      OBVIOUS
    <3>2. (f * d) * b = (e * a) * b
      OBVIOUS
    <3>3. (e * a) * b = e * (a * b)
      OBVIOUS
    <3>4. e * (a * b) = e * (c * d)
      OBVIOUS
    <3>5. e * (c * d) = (e * c) * d
      OBVIOUS
    <3> QED BY <3>1, <3>2, <3>3, <3>4, <3>5
  <2>5. (n * P(q)) * P(L) = (N * P(r)) * P(L)
    BY <1>2, <2>2, <2>3, <2>4
  <2>6. n * P(q) \in Nat /\ N * P(r) \in Nat
    <3>1. \A i, j \in Nat : i * j \in Nat
      OBVIOUS
    <3> QED BY <2>3, <3>1
  <2>7. n * P(q) = N * P(r)
    BY <2>3, <2>5, <2>6, Cancel
  <2> QED BY <1>3, <2>7
<1>4. CASE ~ (k <= scale)
  <2> DEFINE q == k - scale
  <2>1. q \in Nat /\ k = (r + q) + L /\ r + q \in Nat
    BY <1>4
  <2>2. P(k) = (P(r) * P(q)) * P(L)
    BY <1>1, <2>1
  <2>3. P(q) \in Nat \ {0} /\ P(r) \in Nat \ {0} /\ P(L) \in Nat \ {0}
    BY <1>1, <2>1
  <2>4. \A a, b, c, d \in Nat : d * ((a * b) * c) = ((d * a) * b) * c /\ (d * a) * b \in Nat
    OBVIOUS
  <2>5. ((N * P(r)) * P(q)) * P(L) = n * P(L) /\ (N * P(r)) * P(q) \in Nat
    BY <1>2, <2>2, <2>3, <2>4
  <2>6. n = (N * P(r)) * P(q)
    BY <2>3, <2>5, Cancel
  <2> QED BY <1>4, <2>6
<1> QED BY <1>3, <1>4

(* A text is a numeral: digits, a point if there are any behind it, a sign. *)
Spells(x, a, b, g) ==
  a \in Seq(Figure) /\ b \in Seq(Figure) /\ g \in Int /\ Len(a) > 0 /\ x = Signed(g, WithPoint(a, b))

(* And it is a number: what the digits say is n at the exponent -k. *)
Tells(x, number, g, n, k) ==
  \E a, b : /\ Spells(x, a, b, g) /\ n \in Nat /\ k \in Nat
            /\ number.n = WithSign(g, n) /\ number.exp = -k
            /\ SameValue(Number(a \o b), Len(b), n, k)

(* str(Decimal) has an exponent. *)
Exponential(v) == v.py = "Decimal" /\ (v.exp > 0 \/ Len(Numeral(v.n)) + v.exp <= -6)

(* _canon of an int is its numeral. *)
LEMMA CanonInt ==
  ASSUME NEW v, IsPython(v), v.py = "int"
  PROVE  Tells(Canon(v), NumberOf(v), v.n, Magnitude(v.n), 0)
<1> DEFINE m == Magnitude(v.n)
           a == Numeral(m)
<1>1. v.n \in Int /\ m \in Nat /\ v.n = WithSign(v.n, m)
  BY DEF IsPython, Magnitude, WithSign
<1> HIDE DEF m
<1>2. a \in Seq(Figure) /\ Len(a) > 0 /\ Number(a) = m
  BY <1>1, NumberOfNumeral
<1>3. Canon(v) = Signed(v.n, a)
  BY DEF Canon, m
<1>4. WithPoint(a, <<>>) = a
  BY DEF WithPoint
<1> HIDE DEF a
<1>5. a \o <<>> = a /\ Len(<<>>) = 0 /\ <<>> \in Seq(Figure)
  BY <1>2
<1>6. Spells(Canon(v), a, <<>>, v.n)
  BY <1>1, <1>2, <1>3, <1>4, <1>5 DEF Spells
<1>7. NumberOf(v).n = v.n /\ NumberOf(v).exp = -0 /\ 0 \in Nat
  BY DEF NumberOf
<1>8. SameValue(Number(a \o <<>>), Len(<<>>), m, 0)
  BY <1>2, <1>5 DEF SameValue
<1>9. Tells(Canon(v), NumberOf(v), v.n, m, 0)
  BY <1>1, <1>6, <1>7, <1>8, Zenon DEF Tells
<1> QED BY <1>9 DEF m

(* A sign before digits, which are the number at that exponent. *)
DecimalSign(v) == IF v.neg THEN -1 ELSE 0

(* The text of a Decimal without an exponent, as a sign and a numeral. *)
LEMMA DecimalSigned ==
  ASSUME NEW v, IsPython(v), v.py = "Decimal", NEW a \in Seq(Figure), NEW b \in Seq(Figure),
         Len(a) > 0,
         DecimalString(v) = (IF v.neg THEN <<"-">> ELSE <<>>) \o WithPoint(a, b)
  PROVE  Canon(v) = Signed(DecimalSign(v), WithPoint(a, b)) /\ DecimalSign(v) \in Int
<1> DEFINE g == DecimalSign(v)
<1>1. v.neg \in BOOLEAN
  BY DEF IsPython
<1>2. Canon(v) = DecimalString(v)
  BY DEF Canon
<1>3. WithPoint(a, b) \in Seq(NumeralChar)
  BY CutFloat DEF WithPoint
<1>4. DecimalString(v) = Signed(g, WithPoint(a, b))
  <2>1. <<>> \o WithPoint(a, b) = WithPoint(a, b)
    BY <1>3
  <2>2. CASE v.neg
    <3>1. DecimalSign(v) = -1 /\ -1 < 0
      BY <2>2 DEF DecimalSign
    <3>2. DecimalString(v) = <<"-">> \o WithPoint(a, b)
      BY <2>2
    <3> QED BY <3>1, <3>2, Zenon DEF Signed
  <2>3. CASE ~v.neg
    <3>1. DecimalSign(v) = 0 /\ ~ (0 < 0)
      BY <2>3 DEF DecimalSign
    <3>2. DecimalString(v) = WithPoint(a, b)
      BY <2>1, <2>3
    <3> QED BY <3>1, <3>2, Zenon DEF Signed
  <2> QED BY <2>2, <2>3
<1>5. g \in Int
  BY DEF DecimalSign
<1> QED BY <1>2, <1>4, <1>5

(* str(Decimal), if it has no exponent, tells the number. *)
LEMMA DecimalTells ==
  ASSUME NEW v, IsPython(v), v.py = "Decimal", NEW a \in Seq(Figure), NEW b \in Seq(Figure),
         Len(a) > 0, Number(a \o b) = v.n, Len(b) = -v.exp,
         DecimalString(v) = (IF v.neg THEN <<"-">> ELSE <<>>) \o WithPoint(a, b)
  PROVE  Tells(Canon(v), NumberOf(v), DecimalSign(v), v.n, -v.exp)
<1> DEFINE g == DecimalSign(v)
<1>1. v.neg \in BOOLEAN /\ v.n \in Nat /\ v.exp \in Int /\ -v.exp \in Nat
  BY DEF IsPython
<1>5. Spells(Canon(v), a, b, g)
  BY DecimalSigned DEF Spells
<1>6. NumberOf(v).n = WithSign(g, v.n) /\ NumberOf(v).exp = -(-v.exp)
  BY <1>1 DEF NumberOf, WithSign, DecimalSign
<1>7. SameValue(Number(a \o b), Len(b), v.n, -v.exp)
  BY DEF SameValue
<1> QED BY <1>1, <1>5, <1>6, <1>7 DEF Tells

LEMMA MinusZero == \A i \in Int : i <= 0 /\ i >= 0 => -i = 0
OBVIOUS

LEMMA PointBehind == <<"0">> \o <<".">> = <<"0", ".">>
<1> DEFINE x == <<"0">> \o <<".">>
           y == <<"0", ".">>
<1>1. x \in Seq(NumeralChar) /\ Len(x) = 2 /\ x[1] = "0" /\ x[2] = "."
  BY DEF NumeralChar, Figure
<1>2. y \in Seq(NumeralChar) /\ Len(y) = 2 /\ y[1] = "0" /\ y[2] = "."
  BY DEF NumeralChar, Figure
<1> HIDE DEF x, y
<1>3. x = y
  BY <1>1, <1>2, SeqEqual
<1> QED BY <1>3 DEF x, y

(* str(Decimal), without an exponent: its digits, and as many places as it has. *)
LEMMA CanonDecimal ==
  ASSUME NEW v, IsPython(v), v.py = "Decimal", ~Exponential(v)
  PROVE  \E a, b \in Seq(Figure) :
           /\ Len(a) > 0 /\ Number(a \o b) = v.n /\ Len(b) = -v.exp
           /\ DecimalString(v) = (IF v.neg THEN <<"-">> ELSE <<>>) \o WithPoint(a, b)
<1> DEFINE digits == Numeral(v.n)
           point == Len(digits) + v.exp
           sign == IF v.neg THEN <<"-">> ELSE <<>>
           zeros == Zeros(-point) \o digits
           before == SubSeq(digits, 1, point)
           after == SubSeq(digits, point + 1, Len(digits))
           exponent == digits \o <<"E">> \o Numeral(Magnitude(v.exp))
           split == before \o <<".">> \o after
           led == <<"0", ".">> \o zeros
<1>1. v.neg \in BOOLEAN /\ v.n \in Nat /\ v.exp \in Int
  BY DEF IsPython
<1>2. digits \in Seq(Figure) /\ Len(digits) \in Nat /\ Len(digits) > 0 /\ Number(digits) = v.n
  <2>1. digits \in Seq(Figure) /\ Len(digits) > 0 /\ Number(digits) = v.n
    BY <1>1, NumberOfNumeral
  <2> QED BY <2>1, LenProperties
<1>3. v.exp <= 0 /\ ~ (point <= -6) /\ point \in Int
  BY <1>1, <1>2 DEF Exponential
<1>4. DecimalString(v) = sign \o
        (CASE v.exp > 0 \/ point <= -6 -> exponent
           [] v.exp = 0 -> digits
           [] v.exp < 0 /\ point > 0 -> split
           [] OTHER -> led)
  BY DEF DecimalString
<1> HIDE DEF digits, sign, exponent, split, led
<1>5. CASE v.exp = 0
  <2>1. /\ WithPoint(digits, <<>>) = digits /\ digits \o <<>> = digits
        /\ Len(<<>>) = 0 /\ <<>> \in Seq(Figure)
    BY <1>2 DEF WithPoint
  <2>2. DecimalString(v) = sign \o digits
    BY <1>3, <1>4, <1>5
  <2>3. Number(digits \o <<>>) = v.n /\ Len(<<>>) = -v.exp
    <3>1. Number(digits \o <<>>) = v.n
      BY <1>2, <2>1, Zenon
    <3>2. Len(<<>>) = -v.exp
      <4>1. -v.exp = 0
        <5>1. v.exp \in Int /\ v.exp <= 0 /\ v.exp >= 0
          BY <1>1, <1>5
        <5> QED BY <5>1, MinusZero
      <4>2. Len(<<>>) = 0
        BY <2>1
      <4> QED BY <4>1, <4>2, Zenon
    <3> QED BY <3>1, <3>2
  <2> QED BY <1>2, <2>1, <2>2, <2>3 DEF sign
<1>6. CASE v.exp < 0 /\ point > 0
  <2>1. DecimalString(v) = sign \o (before \o <<".">> \o after)
    <3>1. DecimalString(v) = sign \o split
      BY <1>1, <1>3, <1>4, <1>6
    <3> QED BY <3>1 DEF split
  <2>2. point \in 0 .. Len(digits)
    BY <1>1, <1>2, <1>3, <1>6
  <2>3. /\ before \in Seq(Figure) /\ Len(before) = point
        /\ after \in Seq(Figure) /\ Len(after) = Len(digits) - point
        /\ before \o after = digits
    <3> HIDE DEF point
    <3> QED BY <1>2, <2>2, SplitAt
  <2> HIDE DEF before, after
  <2>4. Len(after) = -v.exp /\ Len(after) # 0 /\ Len(before) > 0
    BY <1>1, <1>2, <1>6, <2>3
  <2>5. WithPoint(before, after) = before \o <<".">> \o after
    BY <2>4 DEF WithPoint
  <2> QED BY <1>2, <2>1, <2>3, <2>4, <2>5 DEF sign
<1>7. CASE v.exp < 0 /\ ~ (point > 0)
  <2>1. DecimalString(v) = sign \o (<<"0", ".">> \o zeros)
    <3>1. DecimalString(v) = sign \o led
      BY <1>1, <1>3, <1>4, <1>7
    <3> QED BY <3>1 DEF led
  <2>2. -point \in Nat
    BY <1>3, <1>7
  <2>3. zeros \in Seq(Figure) /\ Number(zeros) = v.n
    <3>1. -point \in Int
      BY <2>2
    <3> HIDE DEF point
    <3> QED BY <1>2, <3>1, LeadingZeros
  <2>4. Len(zeros) = -v.exp
    <3>1. Zeros(-point) \in Seq(Figure) /\ Len(Zeros(-point)) = -point
      <4> HIDE DEF point
      <4> QED BY <2>2, ZerosOf
    <3>2. Len(zeros) = -point + Len(digits)
      <4> HIDE DEF point
      <4> QED BY <1>2, <3>1
    <3> QED BY <1>1, <1>2, <3>2
  <2> HIDE DEF zeros
  <2>5. <<"0">> \in Seq(Figure) /\ Len(<<"0">>) = 1 /\ Number(<<"0">>) = 0
    <3>1. "0" \in Figure /\ DigitValue("0") = 0
      BY FigureValue DEF Digits, Figure
    <3> QED BY <3>1, NumberOne
  <2>6. Number(<<"0">> \o zeros) = v.n
    <3>1. Number(<<"0">> \o zeros) = 0 * PowerOfTen(Len(zeros)) + v.n
      BY <2>3, <2>5, NumberConcat
    <3>2. PowerOfTen(Len(zeros)) \in Nat
      BY <2>3, Tens
    <3> QED BY <1>1, <3>1, <3>2
  <2>7. WithPoint(<<"0">>, zeros) = <<"0">> \o <<".">> \o zeros
    BY <1>7, <2>4, <1>1 DEF WithPoint
  <2>9. DecimalString(v) = sign \o WithPoint(<<"0">>, zeros)
    <3>1. <<"0">> \o <<".">> = <<"0", ".">>
      BY PointBehind
    <3> QED BY <2>1, <2>7, <3>1
  <2>10. Len(<<"0">>) > 0
    BY <2>5
  <2> QED BY <2>3, <2>4, <2>5, <2>6, <2>9, <2>10 DEF sign
<1>8. v.exp = 0 \/ (v.exp < 0 /\ point > 0) \/ (v.exp < 0 /\ ~ (point > 0))
  BY <1>1, <1>3
<1> QED BY <1>5, <1>6, <1>7, <1>8, Zenon

(* strings.Cut finds a character where it stands. *)
LEMMA CutFinds == \A s, c : Cut(s, c).found <=> Has(s, c)
BY DEF Cut, Has

LEMMA ZeroBehind == <<".">> \o <<"0">> = <<".", "0">>
<1> DEFINE x == <<".">> \o <<"0">>
           y == <<".", "0">>
<1>1. x \in Seq(NumeralChar) /\ Len(x) = 2 /\ x[1] = "." /\ x[2] = "0"
  BY DEF NumeralChar, Figure
<1>2. y \in Seq(NumeralChar) /\ Len(y) = 2 /\ y[1] = "." /\ y[2] = "0"
  BY DEF NumeralChar, Figure
<1> HIDE DEF x, y
<1>3. x = y
  BY <1>1, <1>2, SeqEqual
<1> QED BY <1>3 DEF x, y

(* repr(float) has a point, whatever the shortest numeral has. *)
LEMMA ReprTells ==
  ASSUME NEW n \in Int
  PROVE  Tells(ReprFloat(Finite(n)), [n |-> n, exp |-> -FloatPlaces], n, Magnitude(n), FloatPlaces)
<1> DEFINE F == FloatPlaces
           m == Magnitude(n)
           s == FloatString(Finite(n))
           x == ReprFloat(Finite(n))
<1>1. F \in Nat /\ m \in Nat /\ n = WithSign(n, m)
  BY LiteralsAssumption DEF Magnitude, WithSign
<1>2. PICK a, b \in Seq(Figure) :
           /\ Len(a) > 0 /\ Len(b) <= F
           /\ Number(a \o b \o Zeros(F - Len(b))) = m
           /\ s = Signed(n, IF Len(b) = 0 THEN a ELSE a \o <<".">> \o b)
  BY <1>1, FloatText
<1>3. s = Signed(n, WithPoint(a, b))
  BY <1>2 DEF WithPoint
<1>4. x = IF ~Cut(s, ".").found THEN s \o <<".", "0">> ELSE s
  BY DEF ReprFloat, Finite
<1> HIDE DEF s, x, m, F
<1>5. Len(a) \in Nat /\ Len(b) \in Nat /\ a \o b \in Seq(Figure) /\ F - Len(b) \in Nat
  BY <1>1, <1>2, TwoNumerals
<1>6. Number(a \o b) * PowerOfTen(F - Len(b)) = m
  <2>1. Number((a \o b) \o Zeros(F - Len(b))) = Number(a \o b) * PowerOfTen(F - Len(b))
    BY <1>5, NumberZeros
  <2> QED BY <1>2, <2>1
<1>7. Number(a \o b) \in Nat /\ \A k \in Nat : PowerOfTen(k) \in Nat
  BY <1>5, NumberNat, Tens
<1>8. CASE Len(b) # 0
  <2>1. WithPoint(a, b) = a \o <<".">> \o b /\ WithPoint(a, b) \in Seq(NumeralChar)
    BY <1>2, <1>8, CutFloat DEF WithPoint
  <2>2. Has(s, ".")
    <3>1. a \o <<".">> \in Seq(NumeralChar) /\ a \in Seq(NumeralChar) /\ b \in Seq(NumeralChar)
          /\ <<".">> \in Seq(NumeralChar) /\ <<"-">> \in Seq(NumeralChar)
      BY FigureChars
    <3>2. Has(<<".">>, ".")
      BY DEF Has
    <3>3. Has(a \o <<".">>, ".")
      BY <3>1, <3>2, HasEither
    <3>4. Has(WithPoint(a, b), ".")
      <4>1. Has((a \o <<".">>) \o b, ".")
        BY <3>1, <3>3, HasEither
      <4>2. (a \o <<".">>) \o b = WithPoint(a, b)
        BY <2>1
      <4> QED BY <4>1, <4>2
    <3>5. Has(<<"-">> \o WithPoint(a, b), ".")
      BY <2>1, <3>1, <3>4, HasEither
    <3> QED BY <1>3, <3>4, <3>5 DEF Signed
  <2>3. x = Signed(n, WithPoint(a, b))
    BY <1>3, <1>4, <2>2, CutFinds
  <2>4. Spells(x, a, b, n)
    BY <1>2, <2>3 DEF Spells
  <2>5. SameValue(Number(a \o b), Len(b), m, F)
    <3> DEFINE N == Number(a \o b)
               p == PowerOfTen(F - Len(b))
               q == PowerOfTen(Len(b))
    <3>1. PowerOfTen((F - Len(b)) + Len(b)) = p * q /\ (F - Len(b)) + Len(b) = F
      BY <1>1, <1>5, TensAdd
    <3>2. PowerOfTen(F) = p * q
      BY <3>1
    <3>3. N \in Nat /\ p \in Nat /\ q \in Nat
      BY <1>5, <1>7
    <3>4. N * p = m
      BY <1>6
    <3> HIDE DEF N, p, q
    <3>5. N * (p * q) = m * q
      <4>1. N * (p * q) = (N * p) * q
        BY <3>3
      <4> QED BY <3>4, <4>1
    <3> QED BY <3>2, <3>5 DEF SameValue, N, q
  <2> QED BY <1>1, <2>4, <2>5, Zenon DEF Tells, m, x, F
<1>9. CASE Len(b) = 0
  <2> DEFINE c == <<"0">>
  <2>1. b = <<>> /\ a \o b = a /\ WithPoint(a, b) = a
    BY <1>9 DEF WithPoint
  <2>2. s = Signed(n, a) /\ ~Has(s, ".")
    <3>1. s = Signed(n, a)
      BY <1>3, <2>1
    <3>2. "-" # "." /\ \A i \in DOMAIN a : a[i] # "."
      BY FigureChars
    <3>3. ASSUME NEW i \in DOMAIN (<<"-">> \o a) PROVE (<<"-">> \o a)[i] # "."
      BY <3>2
    <3> QED BY <3>1, <3>2, <3>3 DEF Signed, Has
  <2>3. x = s \o <<".", "0">>
    BY <1>4, <2>2, CutFinds
  <2>4. c \in Seq(Figure) /\ Len(c) = 1 /\ Number(c) = 0
    <3>1. "0" \in Figure /\ DigitValue("0") = 0
      BY FigureValue DEF Digits, Figure
    <3> QED BY <3>1, NumberOne
  <2>5. WithPoint(a, c) = a \o (<<".", "0">>)
    <3>1. <<".">> \o <<"0">> = <<".", "0">>
      BY ZeroBehind
    <3>2. <<".">> \in Seq(NumeralChar) /\ a \in Seq(NumeralChar) /\ c \in Seq(NumeralChar)
      <4>1. c \in Seq(Figure)
        BY <2>4
      <4> HIDE DEF c
      <4> QED BY <4>1, FigureChars
    <3>3. \A u, v, w \in Seq(NumeralChar) : u \o (v \o w) = (u \o v) \o w
      BY Regroup, SMTT(30)
    <3>4. a \o (<<".">> \o c) = (a \o <<".">>) \o c
      BY <3>2, <3>3
    <3> QED BY <2>4, <3>1, <3>4 DEF WithPoint
  <2>6. x = Signed(n, WithPoint(a, c))
    <3>1. <<"-">> \in Seq(NumeralChar) /\ a \in Seq(NumeralChar) /\ <<".", "0">> \in Seq(NumeralChar)
      BY FigureChars DEF NumeralChar, Figure
    <3>2. \A u, v, w \in Seq(NumeralChar) : u \o (v \o w) = (u \o v) \o w
      BY Regroup, SMTT(30)
    <3>3. <<"-">> \o (a \o <<".", "0">>) = (<<"-">> \o a) \o <<".", "0">>
      BY <3>1, <3>2
    <3> QED BY <2>2, <2>3, <2>5, <3>3 DEF Signed
  <2>7. Spells(x, a, c, n)
    BY <1>2, <2>4, <2>6 DEF Spells
  <2>8. SameValue(Number(a \o c), Len(c), m, F)
    <3> DEFINE N == Number(a)
               p == PowerOfTen(F)
    <3>1. N \in Nat /\ p \in Nat /\ PowerOfTen(1) = 10 * PowerOfTen(0) /\ PowerOfTen(0) = 1
      <4>1. \A k \in Nat : PowerOfTen(k + 1) = 10 * PowerOfTen(k)
        BY Tens
      <4>2. 0 \in Nat /\ 0 + 1 = 1
        OBVIOUS
      <4> QED BY <1>1, <1>7, <2>1, <4>1, <4>2, Tens
    <3>2. Number(a \o c) = N * PowerOfTen(1) + 0
      BY <2>4, NumberConcat
    <3>3. N * p = m
      <4>1. F - 0 = F
        BY <1>1
      <4> QED BY <1>6, <1>9, <2>1, <4>1
    <3> HIDE DEF N, p
    <3>4. (N * 10) * p = m * 10
      <4>1. (N * 10) * p = (N * p) * 10
        BY <3>1
      <4> QED BY <3>3, <4>1
    <3>5. PowerOfTen(1) = 10
      BY <3>1
    <3>6. Number(a \o c) = N * 10
      BY <3>1, <3>2, <3>5
    <3> QED BY <2>4, <3>4, <3>5, <3>6 DEF SameValue, p
  <2> HIDE DEF c
  <2> QED BY <1>1, <2>7, <2>8, Zenon DEF Tells, m, x, F
<1> QED BY <1>8, <1>9

(* _canon of a finite float tells it to its places. *)
LEMMA CanonFloat ==
  ASSUME NEW v, IsPython(v), v.py = "float", v.float.class = "finite"
  PROVE  Tells(Canon(v), NumberOf(v), v.float.n, Magnitude(v.float.n), FloatPlaces)
<1>1. v.float.n \in Int /\ v.float = Finite(v.float.n)
  BY DEF IsPython, NaN, Inf
<1>2. Canon(v) = ReprFloat(Finite(v.float.n))
  BY <1>1, Zenon DEF Canon
<1>3. NumberOf(v) = [n |-> v.float.n, exp |-> -FloatPlaces]
  BY DEF NumberOf
<1> QED BY <1>1, <1>2, <1>3, ReprTells

(* What a number told in a text is at a scale. *)
LEMMA SameSigned ==
  ASSUME NEW N \in Nat, NEW L \in Nat, NEW n \in Nat, NEW k \in Nat, SameValue(N, L, n, k),
         NEW scale \in Nat, L <= scale, NEW g
  PROVE  SameNumber(WithSign(g, n), -k, WithSign(g, N * PowerOfTen(scale - L)), scale)
<1> DEFINE m == N * PowerOfTen(scale - L)
           e == (-k) + scale
<1>1. IF k <= scale THEN n * PowerOfTen(scale - k) = m ELSE n = m * PowerOfTen(k - scale)
  BY ScaledSame
<1>2. m \in Nat
  <2>1. scale - L \in Nat /\ \A i, j \in Nat : i * j \in Nat
    OBVIOUS
  <2>2. PowerOfTen(scale - L) \in Nat
    BY <2>1, Tens
  <2> QED BY <2>1, <2>2
<1> HIDE DEF m
<1>3. \A i, j \in Nat : (-i) * j = -(i * j)
  OBVIOUS
<1>4. CASE k <= scale
  <2>1. e = scale - k /\ e >= 0 /\ scale - k \in Nat
    BY <1>4
  <2>2. PowerOfTen(e) \in Nat /\ n * PowerOfTen(e) = m
    BY <1>1, <1>4, <2>1, Tens
  <2>3. WithSign(g, n) * PowerOfTen(e) = WithSign(g, m)
    BY <1>3, <2>2 DEF WithSign
  <2> QED BY <2>1, <2>3 DEF SameNumber, m
<1>5. CASE ~ (k <= scale)
  <2>1. -e = k - scale /\ ~ (e >= 0) /\ k - scale \in Nat
    BY <1>5
  <2>2. PowerOfTen(-e) \in Nat /\ n = m * PowerOfTen(-e)
    BY <1>1, <1>5, <2>1, Tens
  <2>3. WithSign(g, n) = WithSign(g, m) * PowerOfTen(-e)
    BY <1>2, <1>3, <2>2 DEF WithSign
  <2> QED BY <2>1, <2>3 DEF SameNumber, m
<1> QED BY <1>4, <1>5

(* The integers and the scaled numbers a told number can be read as. *)
LEMMA TellsScaled ==
  ASSUME NEW x, NEW number, NEW g, NEW n, NEW k, Tells(x, number, g, n, k), NEW scale \in Nat,
         NEW m, m \in AsScaled(x, scale)
  PROVE  SameNumber(number.n, number.exp, m, scale)
<1>1. PICK a, b : /\ Spells(x, a, b, g) /\ n \in Nat /\ k \in Nat
                  /\ number.n = WithSign(g, n) /\ number.exp = -k
                  /\ SameValue(Number(a \o b), Len(b), n, k)
  BY DEF Tells
<1>2. /\ a \in Seq(Figure) /\ b \in Seq(Figure) /\ g \in Int /\ Len(a) > 0
      /\ x = Signed(g, WithPoint(a, b))
  BY <1>1 DEF Spells
<1>3. AsScaled(x, scale) = IF Len(b) > scale THEN {}
                           ELSE {WithSign(g, Number(a \o b) * PowerOfTen(scale - Len(b)))}
  BY <1>2, SpelledScaled, ZenonT(60)
<1>4. ~ (Len(b) > scale) /\ m = WithSign(g, Number(a \o b) * PowerOfTen(scale - Len(b)))
  BY <1>3
<1>5. Len(b) \in Nat /\ Number(a \o b) \in Nat
  BY <1>2, TwoNumerals, NumberNat
<1>6. Len(b) <= scale
  BY <1>4, <1>5
<1> QED BY <1>1, <1>4, <1>5, <1>6, SameSigned

(* Of an integer, no place is behind the point. *)
LEMMA TellsInt ==
  ASSUME NEW x, NEW number, NEW g, NEW n, NEW k, Tells(x, number, g, n, k),
         NEW m, m \in AsInt(x)
  PROVE  SameNumber(number.n, number.exp, m, 0)
<1>1. PICK a, b : Spells(x, a, b, g)
  BY DEF Tells
<1>2. /\ a \in Seq(Figure) /\ b \in Seq(Figure) /\ g \in Int /\ Len(a) > 0
      /\ x = Signed(g, WithPoint(a, b))
  BY <1>1 DEF Spells
<1>3. AsInt(x) = IF Len(b) = 0 THEN {WithSign(g, Number(a))} ELSE {}
  BY <1>2, SpelledInt
<1>4. Len(b) = 0 /\ m = WithSign(g, Number(a))
  BY <1>3
<1>5. b = <<>> /\ a \o b = a /\ Number(a) \in Nat
  BY <1>2, <1>4, NumberNat
<1>6. AsScaled(x, 0) = {WithSign(g, Number(a \o b) * PowerOfTen(0 - Len(b)))}
  <2>1. AsScaled(x, 0) = IF Len(b) > 0 THEN {}
                           ELSE {WithSign(g, Number(a \o b) * PowerOfTen(0 - Len(b)))}
    BY <1>2, SpelledScaled
  <2> QED BY <1>4, <2>1
<1>7. Number(a \o b) * PowerOfTen(0 - Len(b)) = Number(a)
  BY <1>4, <1>5, Tens
<1> QED BY <1>4, <1>6, <1>7, TellsScaled, SMTT(30)

(* The places of a float: what is behind them is cut off. *)
InPlaces(n, k) ==
  IF k <= FloatPlaces THEN n * PowerOfTen(FloatPlaces - k)
  ELSE n \div PowerOfTen(k - FloatPlaces)

(* What is cut off by division is what is cut off the digits. *)
LEMMA QuotientScaled ==
  ASSUME NEW n \in Nat, NEW q \in Nat \ {0}, NEW p \in Nat \ {0}
  PROVE  (n * p) \div (q * p) = n \div q
<1> DEFINE d == n \div q
           r == n % q
<1>1. d \in Nat /\ r \in Nat /\ r < q /\ n = d * q + r
  BY SMT
<1> HIDE DEF d, r
<1>2. \A i, j \in Nat : i * j \in Nat
  OBVIOUS
<1>3. q * p \in Nat \ {0} /\ r * p \in Nat /\ r * p < q * p
  <2>1. (r + 1) * p <= q * p
    BY <1>1
  <2>2. (r + 1) * p = r * p + p
    BY <1>1
  <2>3. r * p \in Nat /\ q * p \in Nat
    BY <1>1, <1>2
  <2> QED BY <2>1, <2>2, <2>3
<1>4. n * p = d * (q * p) + r * p
  <2>1. n * p = (d * q) * p + r * p
    BY <1>1
  <2>2. (d * q) * p = d * (q * p)
    BY <1>1
  <2> QED BY <2>1, <2>2
<1>5. (d * (q * p) + r * p) \div (q * p) = d
  BY <1>1, <1>3, Quotient
<1> QED BY <1>4, <1>5 DEF d

(* The same number, told with more digits behind the point, *)
LEMMA InPlacesUp ==
  ASSUME NEW N \in Nat, NEW L \in Nat, NEW n \in Nat, NEW k \in Nat, SameValue(N, L, n, k), L <= k
  PROVE  InPlaces(N, L) = InPlaces(n, k)
<1> DEFINE F == FloatPlaces
           P(i) == PowerOfTen(i)
<1>1. F \in Nat
  BY LiteralsAssumption
<1>2. \A i \in Nat : P(i) \in Nat \ {0}
  BY Tens
<1>3. CASE L <= F
  <2>1. IF k <= F THEN n * P(F - k) = N * P(F - L) ELSE n = (N * P(F - L)) * P(k - F)
    BY <1>1, <1>3, ScaledSame
  <2>2. CASE k <= F
    BY <1>3, <2>1, <2>2 DEF InPlaces
  <2>3. CASE ~ (k <= F)
    <3> DEFINE m == N * P(F - L)
               p == P(k - F)
    <3>1. F - L \in Nat /\ k - F \in Nat
      BY <1>1, <1>3, <2>3
    <3>2. p \in Nat \ {0} /\ P(F - L) \in Nat
      BY <1>2, <3>1
    <3>3. m \in Nat
      <4>1. \A i, j \in Nat : i * j \in Nat
        OBVIOUS
      <4> QED BY <3>2, <4>1
    <3>4. n = m * p
      BY <2>1, <2>3
    <3> HIDE DEF m, p
    <3>5. (m * p + 0) \div p = m
      BY <3>2, <3>3, Quotient
    <3>6. m * p + 0 = n
      BY <3>4
    <3>7. n \div p = m
      BY <3>5, <3>6
    <3> QED BY <1>3, <2>3, <3>7 DEF InPlaces, m, p
  <2> QED BY <2>2, <2>3
<1>4. CASE ~ (L <= F)
  <2> DEFINE p == P(k - L)
             q == P(L - F)
  <2>1. k - L \in Nat /\ L - F \in Nat /\ k - F = (L - F) + (k - L) /\ ~ (k <= F)
    BY <1>1, <1>4
  <2>2. p \in Nat \ {0} /\ q \in Nat \ {0}
    BY <1>2, <2>1
  <2>3. P(k - F) = q * p
    BY <2>1, TensAdd
  <2>4. n = N * p
    <3>1. IF k <= L THEN n * P(L - k) = N * P(L - L) ELSE n = (N * P(L - L)) * P(k - L)
      BY ScaledSame
    <3>2. L - L = 0 /\ P(0) = 1
      BY Tens
    <3>3. N * P(L - L) = N
      BY <3>2
    <3>4. CASE k <= L
      <4>1. k - L = 0 /\ L - k = 0
        BY <3>4
      <4> QED BY <3>1, <3>2, <3>3, <3>4, <4>1
    <3>5. CASE ~ (k <= L)
      BY <3>1, <3>3, <3>5
    <3> QED BY <3>4, <3>5
  <2> HIDE DEF p, q
  <2>5. n \div (q * p) = N \div q
    BY <2>2, <2>4, QuotientScaled
  <2> QED BY <1>4, <2>1, <2>3, <2>5 DEF InPlaces, q
<1> QED BY <1>3, <1>4

(* or with fewer, is the same in places. *)
LEMMA InPlacesSame ==
  ASSUME NEW N \in Nat, NEW L \in Nat, NEW n \in Nat, NEW k \in Nat, SameValue(N, L, n, k)
  PROVE  InPlaces(N, L) = InPlaces(n, k)
<1>1. SameValue(n, k, N, L)
  BY DEF SameValue
<1>2. L <= k \/ k <= L
  OBVIOUS
<1> QED BY <1>1, <1>2, InPlacesUp

(* AsPlaces says it with the sign. *)
LEMMA AsPlacesSigned ==
  ASSUME NEW n \in Nat, NEW k \in Nat, NEW g
  PROVE  AsPlaces(WithSign(g, n), -k) = WithSign(g, InPlaces(n, k)) /\ InPlaces(n, k) \in Nat
<1> DEFINE F == FloatPlaces
           e == (-k) + F
           s == WithSign(g, n)
<1>1. F \in Nat
  BY LiteralsAssumption
<1>2. AsPlaces(s, -k) = IF e >= 0 THEN s * PowerOfTen(e)
                        ELSE (IF s < 0 THEN -1 ELSE 1) * (Magnitude(s) \div PowerOfTen(-e))
  BY DEF AsPlaces
<1>3. CASE k <= F
  <2> DEFINE p == PowerOfTen(F - k)
  <2>1. e >= 0 /\ e = F - k /\ F - k \in Nat
    BY <1>1, <1>3
  <2>2. p \in Nat
    BY <2>1, Tens
  <2>3. InPlaces(n, k) = n * p /\ AsPlaces(s, -k) = s * p
    BY <1>2, <1>3, <2>1 DEF InPlaces
  <2> HIDE DEF p
  <2>4. \A i, j \in Nat : (-i) * j = -(i * j) /\ i * j \in Nat
    OBVIOUS
  <2> QED BY <2>2, <2>3, <2>4 DEF WithSign
<1>4. CASE ~ (k <= F)
  <2> DEFINE p == PowerOfTen(k - F)
             d == n \div p
  <2>1. ~ (e >= 0) /\ -e = k - F /\ k - F \in Nat
    BY <1>1, <1>4
  <2>2. p \in Nat \ {0}
    BY <2>1, Tens
  <2>3. InPlaces(n, k) = d
    BY <1>4 DEF InPlaces
  <2>4. AsPlaces(s, -k) = (IF s < 0 THEN -1 ELSE 1) * (Magnitude(s) \div p)
    BY <1>2, <2>1
  <2>5. Magnitude(s) = n /\ (s < 0 <=> g < 0 /\ n # 0)
    BY DEF Magnitude, WithSign
  <2> HIDE DEF p
  <2>6. d \in Nat
    BY <2>2
  <2>7. n = 0 => d = 0
    <3>1. 0 * p + 0 = 0
      BY <2>2
    <3>2. (0 * p + 0) \div p = 0
      BY <2>2, Quotient
    <3> QED BY <3>1, <3>2
  <2> HIDE DEF d
  <2>8. AsPlaces(s, -k) = (IF s < 0 THEN -1 ELSE 1) * d
    BY <2>4, <2>5 DEF d
  <2> QED BY <2>3, <2>5, <2>6, <2>7, <2>8 DEF WithSign
<1> QED BY <1>3, <1>4

(* The float a told number is read as. *)
LEMMA TellsFloat ==
  ASSUME NEW x, NEW number, NEW g, NEW n, NEW k, Tells(x, number, g, n, k)
  PROVE  AsFloat(x) = {Finite(AsPlaces(number.n, number.exp))} /\ AsPlaces(number.n, number.exp) \in Int
<1>1. PICK a, b : /\ Spells(x, a, b, g) /\ n \in Nat /\ k \in Nat
                  /\ number.n = WithSign(g, n) /\ number.exp = -k
                  /\ SameValue(Number(a \o b), Len(b), n, k)
  BY DEF Tells
<1>2. /\ a \in Seq(Figure) /\ b \in Seq(Figure) /\ g \in Int /\ Len(a) > 0
      /\ x = Signed(g, WithPoint(a, b))
  BY <1>1 DEF Spells
<1> DEFINE N == Number(a \o b)
           L == Len(b)
<1>3. FloatPlaces \in Nat /\ N \in Nat /\ L \in Nat
  BY <1>2, LiteralsAssumption, TwoNumerals, NumberNat
<1>4. AsFloat(x) = {Finite(WithSign(g, InPlaces(N, L)))}
  BY <1>2, <1>3, SpelledFloat DEF InPlaces
<1> HIDE DEF N, L
<1>5. InPlaces(N, L) = InPlaces(n, k)
  BY <1>1, <1>3, InPlacesSame DEF N, L
<1>6. AsPlaces(number.n, number.exp) = WithSign(g, InPlaces(n, k)) /\ InPlaces(n, k) \in Nat
  BY <1>1, AsPlacesSigned
<1> QED BY <1>4, <1>5, <1>6 DEF WithSign

(* The characters of the text of a number, an exponent's included. *)
NumberChar == FloatChar \cup {"E"}
QuoteMarks == {"backquote", "\"", "'"}

(* A character of a number is no mark of another value, nor is a date. *)
LEMMA MarksApart ==
  /\ \A c \in NumberChar : /\ c # Blank /\ c # "!" /\ c # "~" /\ c # "true" /\ c # "false"
                           /\ c \notin QuoteMarks
  /\ FloatChar \cap Dates = {}
  /\ \A d \in Dates : /\ d # Blank /\ d # "!" /\ d # "~" /\ d # "true" /\ d # "false"
                      /\ d \notin FloatChar
<1>1. \A c \in NumberChar : /\ c # Blank /\ c # "!" /\ c # "~" /\ c # "true" /\ c # "false"
                            /\ c \notin QuoteMarks
  BY Zenon DEF NumberChar, FloatChar, NumeralChar, Figure, Blank, QuoteMarks
<1>2. FloatChar \subseteq Marks /\ Blank \in Marks /\ {"!", "~", "true", "false"} \subseteq Marks
  BY Zenon DEF FloatChar, NumeralChar, Figure, Blank, Marks
<1>3. Dates \cap Marks = {}
  BY LiteralsAssumption
<1> QED BY <1>1, <1>2, <1>3

(* What does not end with a quote is no text. *)
LEMMA NoText ==
  ASSUME NEW s, Len(s) < 2 \/ s[Len(s)] \notin QuoteMarks
  PROVE  AsText(s) = {}
<1>1. CASE Len(s) < 2
  BY <1>1, Zenon DEF AsText
<1>2. CASE s[Len(s)] \notin QuoteMarks
  BY <1>2, Zenon DEF AsText, QuoteMarks
<1> QED BY <1>1, <1>2

(* A text of those characters is of a number or of nothing. *)
OfNumbers(x) == PlainText(x) /\ AsBool(x) = {} /\ AsDate(x) = {} /\ AsText(x) = {}

(* A text of those characters that is not blank is one of them. *)
LEMMA NumberText ==
  ASSUME NEW x \in Seq(NumberChar), x # <<>>, x[1] \in FloatChar
  PROVE  OfNumbers(x)
<1>1. /\ Len(x) \in Nat /\ Len(x) > 0 /\ DOMAIN x = 1 .. Len(x)
      /\ \A i \in DOMAIN x : x[i] \in NumberChar
  OBVIOUS
<1>2. 1 \in DOMAIN x /\ Len(x) \in DOMAIN x
  BY <1>1
<1>3. PlainText(x)
  <2>1. x[1] \in NumberChar /\ x[Len(x)] \in NumberChar
    BY <1>1, <1>2
  <2>2. Trimmed(x) /\ x[1] # "!"
    BY <2>1, MarksApart DEF Trimmed
  <2>3. \A i \in DOMAIN x : x[i] # "~"
    BY <1>1, MarksApart
  <2> QED BY <2>2, <2>3 DEF PlainText
<1>4. AsBool(x) = {}
  <2>1. x # <<"true">> /\ x # <<"false">>
    BY <1>1, <1>2, MarksApart
  <2> QED BY <2>1 DEF AsBool
<1>5. AsDate(x) = {}
  <2>1. \A d \in Dates : x # <<d>>
    BY MarksApart
  <2> QED BY <2>1 DEF AsDate
<1>6. AsText(x) = {}
  <2>1. x[Len(x)] \notin QuoteMarks
    BY <1>1, <1>2, MarksApart
  <2> QED BY <2>1, NoText
<1> QED BY <1>3, <1>4, <1>5, <1>6 DEF OfNumbers

(* A told number is in one. *)
LEMMA TellsText ==
  ASSUME NEW x, NEW number, NEW g, NEW n, NEW k, Tells(x, number, g, n, k)
  PROVE  x \in Seq(NumberChar) /\ OfNumbers(x)
<1>1. PICK a, b : Spells(x, a, b, g)
  BY DEF Tells
<1>2. /\ a \in Seq(Figure) /\ b \in Seq(Figure) /\ g \in Int /\ Len(a) > 0
      /\ x = Signed(g, WithPoint(a, b))
  BY <1>1 DEF Spells
<1>3. x \in Seq(NumeralChar) /\ x # <<>>
  BY <1>2, SpelledBack
<1>4. NumeralChar \subseteq FloatChar /\ NumeralChar \subseteq NumberChar
  BY DEF FloatChar, NumberChar
<1>5. x \in Seq(NumberChar) /\ x[1] \in FloatChar
  BY <1>3, <1>4
<1> QED BY <1>3, <1>5, NumberText

(* One with an exponent is in one, and no type reads it. *)
LEMMA ExponentText ==
  ASSUME NEW v, IsPython(v), Exponential(v)
  PROVE  Canon(v) \in Seq(NumberChar) /\ OfNumbers(Canon(v)) /\ Has(Canon(v), "E")
<1> DEFINE digits == Numeral(v.n)
           exponent == Numeral(Magnitude(v.exp))
           sign == IF v.neg THEN <<"-">> ELSE <<>>
           body == digits \o <<"E">> \o exponent
           x == Canon(v)
<1>1. v.n \in Nat /\ Magnitude(v.exp) \in Nat
  BY DEF IsPython, Exponential, Magnitude
<1>2. digits \in Seq(Figure) /\ Len(digits) > 0 /\ exponent \in Seq(Figure)
  BY <1>1, NumberOfNumeral
<1>3. x = sign \o body
  <2> DEFINE point == Len(digits) + v.exp
             split == SubSeq(digits, 1, point) \o <<".">> \o SubSeq(digits, point + 1, Len(digits))
             led == <<"0", ".">> \o (Zeros(-point) \o digits)
  <2>1. DecimalString(v) = sign \o
          (CASE v.exp > 0 \/ point <= -6 -> body
             [] v.exp = 0 -> digits
             [] v.exp < 0 /\ point > 0 -> split
             [] OTHER -> led)
    BY DEF DecimalString
  <2>2. v.exp > 0 \/ point <= -6
    BY DEF Exponential
  <2>3. v.exp \in Int /\ Len(digits) \in Nat
    BY <1>2, LenProperties DEF IsPython
  <2>4. x = DecimalString(v)
    BY DEF Canon, Exponential
  <2> HIDE DEF digits, sign, body, split, led, x
  <2>5. CASE v.exp > 0
    BY <2>1, <2>3, <2>4, <2>5
  <2>6. CASE ~ (v.exp > 0)
    BY <2>1, <2>2, <2>3, <2>4, <2>6
  <2> QED BY <2>5, <2>6
<1> HIDE DEF digits, exponent, x
<1>4. Figure \subseteq NumberChar /\ Figure \subseteq FloatChar /\ "-" \in FloatChar /\ "E" \in NumberChar
      /\ "-" \in NumberChar
  BY DEF FloatChar, NumberChar, NumeralChar
<1>5. digits \in Seq(NumberChar) /\ exponent \in Seq(NumberChar) /\ <<"E">> \in Seq(NumberChar)
      /\ sign \in Seq(NumberChar)
  BY <1>2, <1>4
<1>6. body \in Seq(NumberChar) /\ Has(body, "E") /\ Len(body) > 0 /\ body[1] \in FloatChar
  <2>1. digits \o <<"E">> \in Seq(NumberChar) /\ Has(digits \o <<"E">>, "E")
    <3>1. Has(<<"E">>, "E")
      BY DEF Has
    <3>2. Has(digits \o <<"E">>, "E")
      BY <1>5, <3>1, HasEither
    <3>3. digits \o <<"E">> \in Seq(NumberChar)
      BY <1>5, ConcatProperties
    <3> QED BY <3>2, <3>3
  <2>2. (digits \o <<"E">>) \o exponent \in Seq(NumberChar) /\ Has((digits \o <<"E">>) \o exponent, "E")
    <3>1. Has((digits \o <<"E">>) \o exponent, "E")
      BY <1>5, <2>1, HasEither
    <3>2. (digits \o <<"E">>) \o exponent \in Seq(NumberChar)
      BY <1>5, <2>1, ConcatProperties
    <3> QED BY <3>1, <3>2
  <2>3. body[1] = digits[1] /\ Len(body) > 0 /\ digits[1] \in Figure
    BY <1>2
  <2> QED BY <1>4, <2>2, <2>3
<1> HIDE DEF body
<1>7. x \in Seq(NumberChar) /\ Has(x, "E")
  <2>1. Has(sign \o body, "E")
    BY <1>5, <1>6, HasEither
  <2> QED BY <1>3, <1>5, <1>6, <2>1
<1>8. x # <<>> /\ x[1] \in FloatChar
  <2>1. CASE v.neg
    <3>1. x = <<"-">> \o body
      BY <1>3, <2>1
    <3>2. Len(x) > 0 /\ x[1] = "-"
      BY <1>6, <3>1
    <3> QED BY <1>4, <3>2
  <2>2. CASE ~v.neg
    <3>1. x = body
      BY <1>3, <1>6, <2>2
    <3> QED BY <1>6, <3>1
  <2> QED BY <2>1, <2>2
<1> QED BY <1>7, <1>8, NumberText DEF x

(* nan and the infinities. *)
LEMMA WordText ==
  ASSUME NEW v, IsPython(v), v.py = "float", v.float.class # "finite"
  PROVE  /\ Canon(v) \in Seq(NumberChar) /\ OfNumbers(Canon(v))
         /\ AsInt(Canon(v)) = {} /\ \A scale \in Nat : AsScaled(Canon(v), scale) = {}
         /\ \A f \in AsFloat(Canon(v)) : f.class # "finite"
<1> DEFINE x == Canon(v)
<1>1. v.float \in {NaN, Inf(1), Inf(-1)}
  BY DEF IsPython, Finite
<1>2. IsFloat(v.float) /\ FloatPlaces \in Nat
  BY <1>1, LiteralsAssumption DEF IsFloat
<1>3. x = FloatString(v.float)
  BY DEF Canon, ReprFloat
<1>4. x \in Seq(FloatChar) /\ x # <<>> /\ AsFloat(x) = {v.float}
  BY <1>2, <1>3, FloatBack
<1>5. PICK g \in Int, w \in {<<"nan">>, <<"inf">>} : x = Signed(g, w)
  <2>1. CASE v.float = NaN
    <3>1. x = <<"nan">>
      BY <1>3, <2>1 DEF FloatString, NaN
    <3>2. Signed(0, <<"nan">>) = <<"nan">>
      BY DEF Signed
    <3> QED BY <3>1, <3>2
  <2>2. ASSUME NEW g \in {1, -1}, v.float = Inf(g)
        PROVE  x = Signed(g, <<"inf">>)
    BY <1>3, <2>2 DEF FloatString, Inf
  <2> QED BY <1>1, <2>1, <2>2
<1> HIDE DEF x
<1>6. x \in Seq(NumberChar) /\ x[1] \in FloatChar
  BY <1>4 DEF NumberChar
<1>10. /\ Unsigned(x) = w /\ TrimPrefix(TrimPrefix(x, "-"), "+") = w
  <2>1. w \in Seq(FloatChar) /\ Len(w) > 0 /\ w[1] \in {"nan", "inf"}
    <3>1. \A c \in FloatChar : <<c>> \in Seq(FloatChar) /\ Len(<<c>>) = 1 /\ <<c>>[1] = c
      OBVIOUS
    <3>2. "nan" \in FloatChar /\ "inf" \in FloatChar
      BY FloatChars
    <3>3. CASE w = <<"nan">>
      BY <3>1, <3>2, <3>3
    <3>4. CASE w = <<"inf">>
      BY <3>1, <3>2, <3>4
    <3> QED BY <3>3, <3>4
  <2>2. w[1] # "-" /\ w[1] # "+"
    BY <2>1
  <2>3. "-" \in FloatChar
    BY FloatChars
  <2> QED BY <1>5, <2>1, <2>2, <2>3, SignedText
<1>11. ~AllDigits(w) /\ w # <<>> /\ \A i \in DOMAIN w : w[i] # "."
  <2>1. ~IsDigit("nan") /\ ~IsDigit("inf") /\ "nan" # "." /\ "inf" # "."
    BY FigureValue, FloatChars
  <2>2. 1 \in DOMAIN w /\ \A i \in DOMAIN w : w[i] \in {"nan", "inf"}
    OBVIOUS
  <2> QED BY <2>1, <2>2 DEF AllDigits
<1>7. AsInt(x) = {}
  BY <1>10, <1>11 DEF AsInt, Unsigned
<1>8. ASSUME NEW scale \in Nat PROVE AsScaled(x, scale) = {}
  <2>1. Cut(w, ".").before = w
    BY <1>11, CutNone
  <2> QED BY <1>10, <1>11, <2>1 DEF AsScaled
<1>9. \A f \in AsFloat(x) : f.class # "finite"
  BY <1>4
<1> QED BY <1>4, <1>6, <1>7, <1>8, <1>9, NumberText DEF x

(* The truth values and the dates. *)
LEMMA OtherText ==
  ASSUME NEW v, IsPython(v), v.py \in {"bool", "date", "datetime"}
  PROVE  LET x == Canon(v) IN
         /\ \E C : x \in Seq(C)
         /\ PlainText(x) /\ AsText(x) = {}
         /\ AsInt(x) = {} /\ AsFloat(x) = {} /\ \A scale \in Nat : AsScaled(x, scale) = {}
         /\ AsBool(x) = IF v.py = "bool" THEN {v.bool} ELSE {}
         /\ AsDate(x) = IF v.py = "date" THEN {v.date} ELSE {}
<1> DEFINE x == Canon(v)
           C == Dates \cup {"true", "false", "T00:00:00"}
<1>1. /\ v.py = "bool" => x = IF v.bool THEN <<"true">> ELSE <<"false">>
      /\ v.py = "date" => x = <<v.date>> /\ v.date \in Dates
      /\ v.py = "datetime" => x = <<v.date, "T00:00:00">> /\ v.date \in Dates
      /\ v.bool \in BOOLEAN
  BY DEF Canon, IsPython
<1>2. /\ "true" \notin FloatChar /\ "false" \notin FloatChar /\ "T00:00:00" \notin FloatChar
      /\ "true" \notin Dates /\ "false" \notin Dates /\ "T00:00:00" \notin QuoteMarks
      /\ "T00:00:00" # Blank /\ "true" # Blank /\ "false" # Blank
      /\ "T00:00:00" # "~" /\ "true" # "~" /\ "false" # "~" /\ "true" # "!" /\ "false" # "!"
  <2>1. /\ "true" \notin FloatChar /\ "false" \notin FloatChar /\ "T00:00:00" \notin FloatChar
        /\ "T00:00:00" \notin QuoteMarks
        /\ "T00:00:00" # Blank /\ "true" # Blank /\ "false" # Blank
        /\ "T00:00:00" # "~" /\ "true" # "~" /\ "false" # "~" /\ "true" # "!" /\ "false" # "!"
    BY Zenon DEF FloatChar, NumeralChar, Figure, Blank, QuoteMarks
  <2>2. "true" \notin Dates /\ "false" \notin Dates
    BY MarksApart
  <2> QED BY <2>1, <2>2
<1> HIDE DEF x
<1>3. CASE v.py = "bool"
  <2>1. PICK w \in {"true", "false"} : x = <<w>>
    BY <1>1, <1>3
  <2>2. x \in Seq(C) /\ Has(x, w) /\ w \notin FloatChar
    BY <1>2, <2>1 DEF Has
  <2>3. AsInt(x) = {} /\ AsFloat(x) = {} /\ \A scale \in Nat : AsScaled(x, scale) = {}
    <3> HIDE DEF C
    <3>1. \A scale \in Nat : AsInt(x) = {} /\ AsScaled(x, scale) = {} /\ AsFloat(x) = {}
      BY <2>2, AlienNumber
    <3>2. 0 \in Nat
      OBVIOUS
    <3> QED BY <3>1, <3>2
  <2>4. PlainText(x)
    BY <1>2, <2>1 DEF PlainText, Trimmed
  <2>5. AsText(x) = {}
    BY <2>1, NoText
  <2>6. AsBool(x) = {v.bool}
    BY <1>1, <1>3 DEF AsBool
  <2>7. AsDate(x) = {}
    BY <1>2, <2>1 DEF AsDate
  <2> HIDE DEF C
  <2>8. \E D : x \in Seq(D)
    BY <2>2
  <2> QED BY <1>3, <2>3, <2>4, <2>5, <2>6, <2>7, <2>8 DEF x
<1>4. CASE v.py = "date"
  <2>1. x = <<v.date>> /\ v.date \in Dates
    BY <1>1, <1>4
  <2>2. x \in Seq(C) /\ Has(x, v.date) /\ v.date \notin FloatChar
    BY <2>1, MarksApart DEF Has
  <2>3. AsInt(x) = {} /\ AsFloat(x) = {} /\ \A scale \in Nat : AsScaled(x, scale) = {}
    <3> HIDE DEF C
    <3>1. \A scale \in Nat : AsInt(x) = {} /\ AsScaled(x, scale) = {} /\ AsFloat(x) = {}
      BY <2>2, AlienNumber
    <3>2. 0 \in Nat
      OBVIOUS
    <3> QED BY <3>1, <3>2
  <2>4. PlainText(x)
    BY <2>1, MarksApart DEF PlainText, Trimmed
  <2>5. AsText(x) = {}
    BY <2>1, NoText
  <2>6. AsBool(x) = {}
    BY <1>2, <2>1 DEF AsBool
  <2>7. AsDate(x) = {v.date}
    BY <2>1 DEF AsDate
  <2> HIDE DEF C
  <2>8. \E D : x \in Seq(D)
    BY <2>2
  <2> QED BY <1>4, <2>3, <2>4, <2>5, <2>6, <2>7, <2>8 DEF x
<1>5. CASE v.py = "datetime"
  <2>1. x = <<v.date, "T00:00:00">> /\ v.date \in Dates /\ Len(x) = 2 /\ x[1] = v.date /\ x[2] = "T00:00:00"
        /\ DOMAIN x = 1 .. 2 /\ x # <<>>
    BY <1>1, <1>5
  <2>2. x \in Seq(C) /\ Has(x, "T00:00:00")
    BY <2>1 DEF Has
  <2>3. AsInt(x) = {} /\ AsFloat(x) = {} /\ \A scale \in Nat : AsScaled(x, scale) = {}
    <3> HIDE DEF C
    <3>1. \A scale \in Nat : AsInt(x) = {} /\ AsScaled(x, scale) = {} /\ AsFloat(x) = {}
      BY <1>2, <2>2, AlienNumber
    <3>2. 0 \in Nat
      OBVIOUS
    <3> QED BY <3>1, <3>2
  <2>4. PlainText(x)
    BY <1>2, <2>1, MarksApart DEF PlainText, Trimmed
  <2>5. AsText(x) = {}
    BY <1>2, <2>1, NoText
  <2>6. \A c : x # <<c>>
    <3>1. \A c : Len(<<c>>) = 1
      OBVIOUS
    <3> QED BY <2>1, <3>1
  <2>7. AsBool(x) = {} /\ AsDate(x) = {}
    BY <2>6 DEF AsBool, AsDate
  <2> HIDE DEF C
  <2>8. \E D : x \in Seq(D)
    BY <2>2
  <2> QED BY <1>5, <2>3, <2>4, <2>5, <2>7, <2>8 DEF x
<1> QED BY <1>3, <1>4, <1>5

(* A Python value that is a number, and what its text can be read as. *)
IsNumber(v) == v.py \in {"int", "Decimal", "float"}
NumberSays(v, m, places) == IsNumber(v) /\ SameNumber(NumberOf(v).n, NumberOf(v).exp, m, places)

(* What types.Parse may read in the text of a Python value that is no str: what it means. *)
Faithful(v, x) ==
  /\ \E C : x \in Seq(C)
  /\ PlainText(x) /\ AsText(x) = {}
  /\ \A b \in AsBool(x) : v.py = "bool" /\ b = v.bool
  /\ \A d \in AsDate(x) : v.py = "date" /\ d = v.date
  /\ \A m \in AsInt(x) : NumberSays(v, m, 0)
  /\ \A scale \in Nat : \A m \in AsScaled(x, scale) : NumberSays(v, m, scale)
  /\ \A f \in AsFloat(x) : f.class = "finite" =>
       IsNumber(v) /\ f.n = AsPlaces(NumberOf(v).n, NumberOf(v).exp)

(* A told number says what it is, to every reader. *)
LEMMA TellsFaithful ==
  ASSUME NEW v, IsNumber(v), NEW x, NEW g, NEW n, NEW k, Tells(x, NumberOf(v), g, n, k)
  PROVE  Faithful(v, x)
<1>1. x \in Seq(NumberChar) /\ OfNumbers(x)
  BY TellsText
<1>2. \A m \in AsInt(x) : NumberSays(v, m, 0)
  BY TellsInt DEF NumberSays
<1>3. \A scale \in Nat : \A m \in AsScaled(x, scale) : NumberSays(v, m, scale)
  BY TellsScaled DEF NumberSays
<1>4. \A f \in AsFloat(x) : f.class = "finite" =>
        IsNumber(v) /\ f.n = AsPlaces(NumberOf(v).n, NumberOf(v).exp)
  BY TellsFloat DEF Finite
<1> QED BY <1>1, <1>2, <1>3, <1>4, Zenon DEF Faithful, OfNumbers

(* _canon writes no text that a type reads as another value. *)
LEMMA CanonFaithful ==
  ASSUME NEW v, IsPython(v), v.py \notin {"None", "str"}
  PROVE  Faithful(v, Canon(v))
<1>1. v.py \in {"int", "bool", "Decimal", "float", "date", "datetime"}
  BY DEF IsPython, Python
<1>2. CASE v.py = "int"
  BY <1>2, CanonInt, TellsFaithful DEF IsNumber
<1>3. CASE v.py = "float" /\ v.float.class = "finite"
  BY <1>3, CanonFloat, TellsFaithful DEF IsNumber
<1>4. CASE v.py = "Decimal" /\ ~Exponential(v)
  <2>1. PICK a, b \in Seq(Figure) :
           /\ Len(a) > 0 /\ Number(a \o b) = v.n /\ Len(b) = -v.exp
           /\ DecimalString(v) = (IF v.neg THEN <<"-">> ELSE <<>>) \o WithPoint(a, b)
    BY <1>4, CanonDecimal
  <2>2. Tells(Canon(v), NumberOf(v), DecimalSign(v), v.n, -v.exp)
    BY <1>4, <2>1, DecimalTells
  <2> QED BY <1>4, <2>2, TellsFaithful DEF IsNumber
<1>5. CASE Exponential(v)
  <2>1. Canon(v) \in Seq(NumberChar) /\ OfNumbers(Canon(v)) /\ Has(Canon(v), "E")
    BY <1>5, ExponentText
  <2>2. "E" \notin FloatChar
    BY DEF FloatChar, NumeralChar, Figure
  <2>3. \A scale \in Nat : AsInt(Canon(v)) = {} /\ AsScaled(Canon(v), scale) = {} /\ AsFloat(Canon(v)) = {}
    BY <2>1, <2>2, AlienNumber
  <2>4. 0 \in Nat
    OBVIOUS
  <2> QED BY <2>1, <2>3, <2>4, Zenon DEF Faithful, OfNumbers
<1>6. CASE v.py = "float" /\ v.float.class # "finite"
  <2>1. /\ Canon(v) \in Seq(NumberChar) /\ OfNumbers(Canon(v))
        /\ AsInt(Canon(v)) = {} /\ \A scale \in Nat : AsScaled(Canon(v), scale) = {}
        /\ \A f \in AsFloat(Canon(v)) : f.class # "finite"
    BY <1>6, WordText
  <2> QED BY <2>1, Zenon DEF Faithful, OfNumbers
<1>7. CASE v.py \in {"bool", "date", "datetime"}
  <2> DEFINE x == Canon(v)
  <2>1. /\ \E C : x \in Seq(C)
        /\ PlainText(x) /\ AsText(x) = {}
        /\ AsInt(x) = {} /\ AsFloat(x) = {} /\ \A scale \in Nat : AsScaled(x, scale) = {}
        /\ AsBool(x) = IF v.py = "bool" THEN {v.bool} ELSE {}
        /\ AsDate(x) = IF v.py = "date" THEN {v.date} ELSE {}
    BY <1>7, OtherText
  <2> HIDE DEF x
  <2>2. /\ \A b \in AsBool(x) : v.py = "bool" /\ b = v.bool
        /\ \A d \in AsDate(x) : v.py = "date" /\ d = v.date
    BY <2>1
  <2>3. Faithful(v, x)
    BY <2>1, <2>2 DEF Faithful
  <2> QED BY <2>3 DEF x
<1> QED BY <1>1, <1>2, <1>3, <1>4, <1>5, <1>6, <1>7 DEF Exponential

----------------------------------------------------------------------------
(* The judgement of an answer against what a row expects.                  *)
(* What a row expects, as its cell was read. *)
IsExpected(e) ==
  \E text \in Seq(STRING), type \in Type : e = Parse(text, type, TRUE) /\ e # NoValue

(* A value that is returned, of the type. *)
IsOf(v, type) == v.type = type /\ v.raises = <<>>

(* What is read is of its type. *)
LEMMA ReadIs ==
  ASSUME NEW s, NEW type, NEW expected
  PROVE  \A v \in Read(s, type, expected) : IsOf(v, type)
<1> SUFFICES ASSUME NEW v \in Read(s, type, expected) PROVE v.type = type /\ v.raises = <<>>
  BY DEF IsOf
<1>1. CASE type.kind = "float"
  <2>1. PICK f : v \in FloatValue(s, type, f, expected)
    BY <1>1 DEF Read, Integral, Scaled
  <2> QED BY <2>1 DEF FloatValue, Zero
<1>2. CASE type.kind \in {"bool", "text", "date"}
  BY <1>2 DEF Read, Zero, Integral, Scaled
<1>3. CASE type.kind \in Integral \cup Scaled
  BY <1>3 DEF Read, Zero, Integral, Scaled
<1>4. CASE type.kind \notin Integral \cup Scaled \cup {"bool", "text", "date", "float"}
  BY <1>4 DEF Read, Integral, Scaled
<1> QED BY <1>1, <1>2, <1>3, <1>4

(* Its value is one of its type, a float's with a tolerance. *)
ExpectedValue(e) ==
  /\ e.type.kind # "invalid"
  /\ e.type.kind \in Integral => e.int \in Int /\ Fits(e.int, e.type)
  /\ e.type.kind \in Scaled => e.int \in Int /\ Holds(e.int, e.type)
  /\ e.type.kind = "float" => \E f, t : Held(f) /\ Tolerated(t) /\ e = TolerantFloat(e.type, f, t)

(* An expected value is an error or one of its type. *)
LEMMA ExpectedIs ==
  ASSUME NEW e, IsExpected(e)
  PROVE  e.type \in Type /\ (IsRaise(e) \/ (e.raises = <<>> /\ ExpectedValue(e)))
<1>1. PICK text \in Seq(STRING), type \in Type : e = Parse(text, type, TRUE) /\ e # NoValue
  BY DEF IsExpected
<1> DEFINE s == Trim(text)
<1>2. /\ s \in Seq(STRING)
      /\ e \in Raise(s, type, TRUE) \/ e \in Read(s, type, TRUE)
  BY <1>1, ReadFrom
<1> HIDE DEF s
<1>3. CASE e \in Raise(s, type, TRUE)
  BY <1>1, <1>3 DEF Raise, Zero, IsRaise
<1>4. CASE e \in Read(s, type, TRUE)
  <2>1. e.type = type /\ e.raises = <<>>
    <3>1. \A u \in Read(s, type, TRUE) : IsOf(u, type)
      BY ReadIs
    <3> QED BY <1>4, <3>1 DEF IsOf
  <2>2. type.kind # "invalid"
    BY <1>4 DEF Read, Integral, Scaled
  <2>3. ASSUME type.kind \in Integral PROVE e.int \in Int /\ Fits(e.int, type)
    <3>1. PICK n \in {m \in AsInt(s) : Fits(m, type)} : e = [Zero(type) EXCEPT !.int = n]
      BY <1>4, <2>3 DEF Read, Integral, Scaled
    <3>2. e.int = n /\ n \in AsInt(s)
      BY <3>1 DEF Zero
    <3> QED BY <1>2, <3>1, <3>2, AsIntRange
  <2>4. ASSUME type.kind \in Scaled PROVE e.int \in Int /\ Holds(e.int, type)
    <3>1. PICK n \in {m \in AsScaled(s, type.scale) : Holds(m, type)} : e = [Zero(type) EXCEPT !.int = n]
      BY <1>4, <2>4 DEF Read, Integral, Scaled
    <3>2. e.int = n /\ n \in AsScaled(s, type.scale) /\ type.scale \in Nat
      BY <1>1, <3>1 DEF Zero, Type
    <3> QED BY <1>2, <3>1, <3>2, AsScaledRange
  <2>5. ASSUME type.kind = "float"
        PROVE  \E f, t : Held(f) /\ Tolerated(t) /\ e = TolerantFloat(type, f, t)
    <3>1. FloatHeld(type, TRUE, e)
      BY <1>2, <1>4, <2>5, FloatCell, LiteralsAssumption
    <3> QED BY <3>1, Zenon DEF FloatHeld
  <2> QED BY <1>1, <2>1, <2>2, <2>3, <2>4, <2>5 DEF ExpectedValue
<1> QED BY <1>2, <1>3, <1>4

(* A text that was read, of an answer, names no error. *)
LEMMA AnswerRead ==
  ASSUME NEW C, NEW x \in Seq(C), NEW type, Parse(x, type, FALSE) # NoValue
  PROVE  Parse(x, type, FALSE).raises = <<>> /\ Parse(x, type, FALSE).type = type
<1> DEFINE v == Parse(x, type, FALSE)
           s == Trim(x)
<1>1. v \in Raise(s, type, FALSE) \/ v \in Read(s, type, FALSE)
  BY ReadFrom
<1>2. Raise(s, type, FALSE) = {}
  BY DEF Raise
<1> HIDE DEF v, s
<1>3. v.raises = <<>> /\ v.type = type
  <2>1. \A u \in Read(s, type, FALSE) : IsOf(u, type)
    BY ReadIs
  <2> QED BY <1>1, <1>2, <2>1 DEF IsOf
<1> QED BY <1>3 DEF v

(* A number that says the expected one agrees with it. *)
LEMMA NumberAgrees ==
  ASSUME NEW e, e.type.kind \in Integral \cup Scaled, NEW v, NumberSays(v, e.int, Decimals(e))
  PROVE  Agrees(v, e)
<1> DEFINE n == NumberOf(v).n
           k == NumberOf(v).exp
<1>1. v.py \in {"int", "Decimal", "float"} /\ SameNumber(n, k, e.int, Decimals(e))
  BY DEF NumberSays, IsNumber
<1>2. Agrees(v, e) <=> v.py \in {"int", "Decimal", "float"} /\ SameNumber(n, k, e.int, Decimals(e))
  BY DEF Agrees, Integral, Scaled
<1> QED BY <1>1, <1>2

(* A value that was read in the text of another than a str, and is equal,  *)
(* means what the row expects.                                             *)
LEMMA EqualAgrees ==
  ASSUME NEW e, e.type \in Type, e.raises = <<>>, ExpectedValue(e),
         NEW v, NEW x, Faithful(v, x), NEW actual, actual \in Meanings(x, e.type),
         actual.raises = <<>>, TRUE \in Equal(e, actual)
  PROVE  Agrees(v, e)
<1> DEFINE type == e.type
<1>1. type.kind \in Kind /\ type.scale \in Nat
  BY DEF Type
<1>2. ~IsRaise(e) /\ ~IsRaise(actual)
  BY DEF IsRaise
<1>3. CASE type.kind = "bool"
  <2>1. PICK b \in AsBool(x) : actual = [Zero(type) EXCEPT !.bool = b]
    BY <1>3 DEF Meanings, Read, Integral, Scaled
  <2>2. actual.bool = b /\ v.py = "bool" /\ b = v.bool
    BY <2>1 DEF Zero, Faithful
  <2>3. e.bool = actual.bool
    BY <1>2, <1>3 DEF Equal, Integral, Scaled
  <2>4. PyKind(e.type) = "bool"
    BY <1>3 DEF PyKind, Integral, Scaled
  <2> QED BY <1>3, <2>2, <2>3, <2>4 DEF Agrees, Stands, Integral, Scaled
<1>4. CASE type.kind = "date"
  <2>1. PICK d \in AsDate(x) : actual = [Zero(type) EXCEPT !.date = d]
    BY <1>4 DEF Meanings, Read, Integral, Scaled
  <2>2. actual.date = d /\ v.py = "date" /\ d = v.date
    BY <2>1 DEF Zero, Faithful
  <2>3. e.date = actual.date
    BY <1>2, <1>4 DEF Equal, Integral, Scaled
  <2>4. PyKind(e.type) = "date"
    BY <1>4 DEF PyKind, Integral, Scaled
  <2> QED BY <1>4, <2>2, <2>3, <2>4 DEF Agrees, Stands, Integral, Scaled
<1>5. CASE type.kind = "text"
  BY <1>5 DEF Meanings, Read, Faithful, Integral, Scaled
<1>6. CASE type.kind \in Integral
  <2>1. PICK m \in AsInt(x) : actual = [Zero(type) EXCEPT !.int = m]
    BY <1>6 DEF Meanings, Read, Integral, Scaled
  <2>2. actual.int = m /\ NumberSays(v, m, 0)
    BY <2>1 DEF Zero, Faithful
  <2>3. e.int = actual.int
    BY <1>2, <1>6 DEF Equal, Integral, Scaled
  <2>4. Decimals(e) = 0
    BY <1>6 DEF Decimals, Integral, Scaled
  <2>5. NumberSays(v, e.int, Decimals(e))
    BY <2>2, <2>3, <2>4
  <2> QED BY <1>6, <2>5, NumberAgrees
<1>7. CASE type.kind \in Scaled
  <2>1. PICK m \in AsScaled(x, type.scale) : actual = [Zero(type) EXCEPT !.int = m]
    BY <1>7 DEF Meanings, Read, Integral, Scaled
  <2>2. actual.int = m /\ NumberSays(v, m, type.scale)
    BY <1>1, <2>1 DEF Zero, Faithful
  <2>3. e.int = actual.int
    BY <1>2, <1>7 DEF Equal, Integral, Scaled
  <2>4. Decimals(e) = type.scale
    BY <1>7 DEF Decimals
  <2>5. NumberSays(v, e.int, Decimals(e))
    BY <2>2, <2>3, <2>4
  <2> QED BY <1>7, <2>5, NumberAgrees
<1>8. CASE type.kind = "float"
  <2>1. PICK f \in AsFloat(x) : f.class # "inf" /\ actual = BareFloat(type, f)
    BY <1>8 DEF Meanings
  <2>2. PICK h, t : Held(h) /\ Tolerated(t) /\ e = TolerantFloat(type, h, t)
    BY <1>8 DEF ExpectedValue
  <2>3. e.float = h /\ e.tol = t /\ actual.float = f
    BY <2>1, <2>2 DEF TolerantFloat, BareFloat, Zero
  <2>4. TRUE \in Close(h, f, t)
    <3>1. Equal(e, actual) = Close(e.float, actual.float, e.tol)
      BY <1>2, <1>8 DEF Equal, Integral, Scaled
    <3> QED BY <2>3, <3>1
  <2>5. h.class # "nan" /\ f.class # "nan" /\ t.class # "nan"
    BY <2>4 DEF Close
  <2>6. t # NoFloat /\ t.class \in {"finite", "inf"}
    BY <2>2, <2>5 DEF Tolerated, IsFloat, NoFloat, NaN, Inf, Finite
  <2>7. h.n \in Int /\ h.class = "finite"
    BY <2>2, <2>5 DEF Held, IsFloat, NaN, Inf, Finite
  <2>8. f.class = "finite" /\ f.n \in Int
    <3>1. PICK C : x \in Seq(C)
      BY DEF Faithful
    <3>2. IsFloat(f)
      BY <3>1, AsFloatRange, LiteralsAssumption
    <3> QED BY <2>1, <2>5, <3>2 DEF IsFloat, NaN, Inf, Finite
  <2>9. IsNumber(v) /\ f.n = AsPlaces(NumberOf(v).n, NumberOf(v).exp)
    BY <2>8 DEF Faithful
  <2>10. t.class = "inf" \/ Magnitude(f.n - h.n) <= t.n
    <3> SUFFICES ASSUME t.class = "finite" PROVE Magnitude(f.n - h.n) <= t.n
      BY <2>6
    <3>1. t.n \in Int
      BY <2>2 DEF Tolerated, IsFloat, NaN, Inf, Finite
    <3>2. Magnitude(h.n - f.n) = t.n \/ Magnitude(h.n - f.n) < t.n
      BY <2>4, <2>5, <2>6 DEF Close
    <3>3. Magnitude(h.n - f.n) = Magnitude(f.n - h.n) /\ Magnitude(f.n - h.n) \in Int
      BY <2>7, <2>8 DEF Magnitude
    <3> QED BY <3>1, <3>2, <3>3
  <2> QED BY <1>8, <2>3, <2>9, <2>10 DEF Agrees, IsNumber, Integral, Scaled
<1>9. type.kind # "invalid"
  BY DEF ExpectedValue
<1> QED BY <1>1, <1>3, <1>4, <1>5, <1>6, <1>7, <1>8, <1>9 DEF Kind, Integral, Scaled

(* What a row that passes had for an answer. *)
Passes(answer, e) ==
  /\ answer.raised = e.raises
  /\ IsRaise(e) \/ answer.value.py = "str" \/ Agrees(answer.value, e)

(* A row that passes was answered with what it expects. *)
LEMMA JudgedGreen ==
  ASSUME NEW e, IsExpected(e), NEW answer, IsAnswer(answer), TRUE \in Judge(e, answer)
  PROVE  Passes(answer, e)
<1> DEFINE type == e.type
           v == answer.value
           x == Canon(v)
           actual == Parse(x, type, FALSE)
<1>1. type \in Type /\ (IsRaise(e) \/ (e.raises = <<>> /\ ExpectedValue(e)))
  BY ExpectedIs
<1>2. Judge(e, answer) =
        IF answer.raised # <<>> THEN Equal(e, [Zero(type) EXCEPT !.raises = answer.raised])
        ELSE IF v.py = "None" \/ actual = NoValue THEN {FALSE}
        ELSE Equal(e, actual)
  BY DEF Judge
<1>3. IsPython(v)
  BY DEF IsAnswer
<1> HIDE DEF x, actual
<1>4. CASE answer.raised # <<>>
  <2> DEFINE r == [Zero(type) EXCEPT !.raises = answer.raised]
  <2>1. r.raises = answer.raised
    BY DEF Zero
  <2> HIDE DEF r
  <2>2. TRUE \in Equal(e, r) /\ IsRaise(r)
    BY <1>2, <1>4, <2>1 DEF IsRaise, r
  <2>3. e.raises = r.raises
    BY <2>2 DEF Equal
  <2> QED BY <1>4, <2>1, <2>3 DEF Passes, IsRaise
<1>5. CASE answer.raised = <<>>
  <2>1. v.py # "None" /\ actual # NoValue /\ TRUE \in Equal(e, actual)
    BY <1>2, <1>5
  <2>2. PICK C : x \in Seq(C)
    <3>1. CASE v.py = "str"
      BY <1>3, <3>1 DEF IsPython, Canon, x
    <3>2. CASE v.py # "str"
      BY <1>3, <2>1, <3>2, CanonFaithful DEF Faithful, x
    <3> QED BY <3>1, <3>2
  <2>3. actual.raises = <<>> /\ actual.type = type
    BY <2>1, <2>2, AnswerRead DEF actual
  <2>4. e.raises = <<>>
    BY <2>1, <2>3 DEF Equal, IsRaise
  <2>5. ASSUME v.py # "str" PROVE Agrees(v, e)
    <3>1. Faithful(v, x)
      BY <1>3, <2>1, <2>5, CanonFaithful DEF x
    <3>2. actual \in Meanings(x, type)
      <4>1. PlainText(x)
        BY <3>1 DEF Faithful
      <4> QED BY <2>1, <2>2, <4>1, ParsePlain DEF actual
    <3>3. ExpectedValue(e)
      BY <1>1, <2>4 DEF IsRaise
    <3> QED BY <1>1, <2>1, <2>3, <2>4, <3>1, <3>2, <3>3, EqualAgrees
  <2> QED BY <1>5, <2>4, <2>5 DEF Passes
<1> QED BY <1>4, <1>5

(* A value that is read as one that is equal is judged so. *)
LEMMA JudgedEqual ==
  ASSUME NEW e, e.raises = <<>>, e.type.kind # "invalid", NEW answer, answer.raised = <<>>,
         answer.value.py # "None", NEW C, Canon(answer.value) \in Seq(C), PlainText(Canon(answer.value)),
         NEW w, Meanings(Canon(answer.value), e.type) = {w}, w.type = e.type, Equal(e, w) = {TRUE}
  PROVE  Judge(e, answer) = {TRUE}
<1> DEFINE x == Canon(answer.value)
           actual == Parse(x, e.type, FALSE)
<1>1. actual = w
  BY ParsePlain
<1>2. w # NoValue
  <2>1. NoValue.type.kind = "invalid"
    BY DEF NoValue, Zero, Invalid, Plain
  <2> QED BY <2>1
<1>3. Judge(e, answer) = IF answer.raised # <<>> THEN Equal(e, [Zero(e.type) EXCEPT !.raises = answer.raised])
                         ELSE IF answer.value.py = "None" \/ actual = NoValue THEN {FALSE}
                         ELSE Equal(e, actual)
  BY DEF Judge
<1> HIDE DEF actual
<1> QED BY <1>1, <1>2, <1>3

(* A right truth value passes; *)
LEMMA RightBool ==
  ASSUME NEW e, e.raises = <<>>, e.type.kind = "bool", NEW answer, IsAnswer(answer), Correct(answer, e)
  PROVE  Judge(e, answer) = {TRUE}
<1> DEFINE v == answer.value
           x == Canon(v)
           w == [Zero(e.type) EXCEPT !.bool = v.bool]
<1>1. answer.raised = <<>> /\ Stands(v, e) /\ IsPython(v)
  BY DEF Correct, IsRaise, IsAnswer
<1>2. v.py = "bool" /\ v.bool = e.bool
  BY <1>1 DEF Stands, PyKind, Integral, Scaled
<1>3. /\ \E C : x \in Seq(C)
      /\ PlainText(x) /\ AsBool(x) = {v.bool}
  BY <1>1, <1>2, OtherText
<1> HIDE DEF x
<1>4. Meanings(x, e.type) = {w}
  BY <1>3 DEF Meanings, Read, Integral, Scaled
<1>5. w.type = e.type /\ w.raises = <<>> /\ w.bool = v.bool
  BY DEF Zero
<1> HIDE DEF w
<1>6. Equal(e, w) = {TRUE}
  <2>1. Equal(e, w) = {e.bool = w.bool}
    BY <1>5 DEF Equal, IsRaise, Integral, Scaled
  <2>2. (e.bool = w.bool) = TRUE
    BY <1>2, <1>5
  <2> QED BY <2>1, <2>2
<1> QED BY <1>1, <1>2, <1>3, <1>4, <1>5, <1>6, JudgedEqual DEF x

(* so does a right date, *)
LEMMA RightDate ==
  ASSUME NEW e, e.raises = <<>>, e.type.kind = "date", NEW answer, IsAnswer(answer), Correct(answer, e)
  PROVE  Judge(e, answer) = {TRUE}
<1> DEFINE v == answer.value
           x == Canon(v)
           w == [Zero(e.type) EXCEPT !.date = v.date]
<1>1. answer.raised = <<>> /\ Stands(v, e) /\ IsPython(v)
  BY DEF Correct, IsRaise, IsAnswer
<1>2. v.py = "date" /\ v.date = e.date
  BY <1>1 DEF Stands, PyKind, Integral, Scaled
<1>3. /\ \E C : x \in Seq(C)
      /\ PlainText(x) /\ AsDate(x) = {v.date}
  BY <1>1, <1>2, OtherText
<1> HIDE DEF x
<1>4. Meanings(x, e.type) = {w}
  BY <1>3 DEF Meanings, Read, Integral, Scaled
<1>5. w.type = e.type /\ w.raises = <<>> /\ w.date = v.date
  BY DEF Zero
<1> HIDE DEF w
<1>6. Equal(e, w) = {TRUE}
  <2>1. Equal(e, w) = {e.date = w.date}
    BY <1>5 DEF Equal, IsRaise, Integral, Scaled
  <2>2. (e.date = w.date) = TRUE
    BY <1>2, <1>5
  <2> QED BY <2>1, <2>2
<1> QED BY <1>1, <1>2, <1>3, <1>4, <1>5, <1>6, JudgedEqual DEF x

(* a right integer, *)
LEMMA RightInt ==
  ASSUME NEW e, e.raises = <<>>, e.type.kind \in Integral, Fits(e.int, e.type),
         NEW answer, IsAnswer(answer), Correct(answer, e)
  PROVE  Judge(e, answer) = {TRUE}
<1> DEFINE v == answer.value
           x == Canon(v)
           w == [Zero(e.type) EXCEPT !.int = v.n]
<1>1. answer.raised = <<>> /\ Stands(v, e) /\ IsPython(v)
  BY DEF Correct, IsRaise, IsAnswer
<1>2. v.py = "int" /\ v.n = e.int /\ v.n \in Int
  <2>1. PyKind(e.type) = "int"
    BY DEF PyKind, Integral, Scaled
  <2> QED BY <1>1, <2>1 DEF Stands, IsPython
<1>3. /\ \E C : x \in Seq(C)
      /\ PlainText(x)
  BY <1>1, <1>2, CanonFaithful DEF Faithful
<1>4. AsInt(x) = {v.n}
  <2>1. x = Signed(v.n, Numeral(Magnitude(v.n)))
    BY <1>2 DEF Canon
  <2> QED BY <1>2, <2>1, IntBack
<1> HIDE DEF x
<1>5. Meanings(x, e.type) = {w}
  BY <1>2, <1>4 DEF Meanings, Read, Integral, Scaled
<1>6. w.type = e.type /\ w.raises = <<>> /\ w.int = v.n
  BY DEF Zero
<1> HIDE DEF w
<1>7. Equal(e, w) = {TRUE}
  <2>1. Equal(e, w) = {e.int = w.int}
    BY <1>6 DEF Equal, IsRaise, Integral, Scaled
  <2>2. (e.int = w.int) = TRUE
    BY <1>2, <1>6
  <2> QED BY <2>1, <2>2
<1>8. e.type.kind # "invalid"
  BY DEF Integral
<1> QED BY <1>1, <1>2, <1>3, <1>5, <1>6, <1>7, <1>8, JudgedEqual DEF x

(* (a numeral with its places in the scale) *)
LEMMA SpelledInScale ==
  ASSUME NEW x, NEW a, NEW b, NEW g, NEW scale,
         a \in Seq(Figure), b \in Seq(Figure), Len(a) > 0, g \in Int, scale \in Nat,
         x = Signed(g, WithPoint(a, b))
  PROVE  AsScaled(x, scale) = IF Len(b) > scale THEN {}
           ELSE {WithSign(g, Number(a \o b) * PowerOfTen(scale - Len(b)))}
BY SpelledScaled, ZenonT(60)

(* a right Decimal with no more places than the type, *)
LEMMA RightScaled ==
  ASSUME NEW e, e.raises = <<>>, e.type.kind \in Scaled, e.type.scale \in Nat, Holds(e.int, e.type),
         NEW answer, IsAnswer(answer), Correct(answer, e), ~Misread(answer, e)
  PROVE  Judge(e, answer) = {TRUE}
<1> DEFINE v == answer.value
           x == Canon(v)
           w == [Zero(e.type) EXCEPT !.int = e.int]
           scale == e.type.scale
           g == DecimalSign(v)
<1>1. answer.raised = <<>> /\ Stands(v, e) /\ IsPython(v)
  BY DEF Correct, IsRaise, IsAnswer
<1>2. /\ v.py = "Decimal" /\ v.n \in Nat /\ v.exp \in Int /\ v.neg \in BOOLEAN
      /\ SameNumber(IF v.neg THEN -v.n ELSE v.n, v.exp, e.int, scale)
  <2>1. PyKind(e.type) = "Decimal" /\ Decimals(e) = scale
    BY DEF PyKind, Decimals, Integral, Scaled
  <2> QED BY <1>1, <2>1 DEF Stands, IsPython
<1>3. ~ (v.exp > 0) /\ ~ (-v.exp > scale) /\ ~Exponential(v)
  BY DEF Misread, IsRaise, Exponential
<1>4. PICK a, b \in Seq(Figure) :
           /\ Len(a) > 0 /\ Number(a \o b) = v.n /\ Len(b) = -v.exp
           /\ DecimalString(v) = (IF v.neg THEN <<"-">> ELSE <<>>) \o WithPoint(a, b)
  BY <1>1, <1>2, <1>3, CanonDecimal
<1>5. /\ \E C : x \in Seq(C)
      /\ PlainText(x)
  BY <1>1, <1>2, CanonFaithful DEF Faithful
<1>6. x = Signed(g, WithPoint(a, b)) /\ g \in Int
  BY <1>1, <1>2, <1>4, DecimalSigned
<1> HIDE DEF x
<1>7. AsScaled(x, scale) = {e.int}
  <2> DEFINE p == PowerOfTen(scale - Len(b))
  <2>1. Len(b) \in Nat /\ ~ (Len(b) > scale) /\ scale - Len(b) = v.exp + scale /\ v.exp + scale >= 0
        /\ v.exp + scale \in Nat
    BY <1>2, <1>3, <1>4
  <2>2. AsScaled(x, scale) = {WithSign(g, v.n * p)}
    <3>1. AsScaled(x, scale) = IF Len(b) > scale THEN {} ELSE {WithSign(g, Number(a \o b) * p)}
      <4>1. scale \in Nat /\ Len(a) > 0
        BY <1>4
      <4> HIDE DEF g, p, scale
      <4>2. AsScaled(x, scale) = IF Len(b) > scale THEN {}
              ELSE {WithSign(g, Number(a \o b) * PowerOfTen(scale - Len(b)))}
        BY <1>6, <4>1, SpelledInScale
      <4> QED BY <4>2 DEF p
    <3> QED BY <1>4, <2>1, <3>1
  <2>3. (IF v.neg THEN -v.n ELSE v.n) * p = e.int
    BY <1>2, <2>1 DEF SameNumber
  <2>4. p \in Nat
    BY <2>1, Tens
  <2> HIDE DEF p
  <2>5. WithSign(g, v.n * p) = e.int
    <3>1. \A i, j \in Nat : (-i) * j = -(i * j)
      OBVIOUS
    <3> QED BY <1>2, <2>3, <2>4, <3>1 DEF WithSign, DecimalSign
  <2> QED BY <2>2, <2>5
<1>8. Meanings(x, e.type) = {w}
  BY <1>7 DEF Meanings, Read, Integral, Scaled
<1>9. w.type = e.type /\ w.raises = <<>> /\ w.int = e.int
  BY DEF Zero
<1> HIDE DEF w
<1>10. Equal(e, w) = {TRUE}
  <2>1. Equal(e, w) = {e.int = w.int}
    BY <1>9 DEF Equal, IsRaise, Integral, Scaled
  <2>2. (e.int = w.int) = TRUE
    BY <1>9
  <2> QED BY <2>1, <2>2
<1>11. e.type.kind # "invalid"
  BY DEF Scaled
<1> QED BY <1>1, <1>2, <1>5, <1>8, <1>9, <1>10, <1>11, JudgedEqual DEF x

(* and a float within the tolerance. *)
LEMMA RightFloat ==
  ASSUME NEW e, e.raises = <<>>, e.type.kind = "float", ExpectedValue(e),
         NEW answer, IsAnswer(answer), Correct(answer, e)
  PROVE  Judge(e, answer) = {TRUE}
<1> DEFINE v == answer.value
           x == Canon(v)
           w == BareFloat(e.type, v.float)
<1>1. answer.raised = <<>> /\ Stands(v, e) /\ IsPython(v)
  BY DEF Correct, IsRaise, IsAnswer
<1>2. v.py = "float" /\ Near(v.float, e.float, e.tol)
  BY <1>1 DEF Stands, PyKind, Integral, Scaled
<1>3. v.float.class = "finite" /\ v.float.n \in Int /\ v.float = Finite(v.float.n)
  BY <1>1, <1>2 DEF Near, IsPython, NaN, Inf
<1>4. /\ \E C : x \in Seq(C)
      /\ PlainText(x)
  BY <1>1, <1>2, CanonFaithful DEF Faithful
<1>5. AsFloat(x) = {v.float}
  <2>1. Tells(x, NumberOf(v), v.float.n, Magnitude(v.float.n), FloatPlaces)
    BY <1>1, <1>2, <1>3, CanonFloat
  <2>2. AsFloat(x) = {Finite(AsPlaces(NumberOf(v).n, NumberOf(v).exp))}
    BY <2>1, TellsFloat
  <2>3. NumberOf(v) = [n |-> v.float.n, exp |-> -FloatPlaces]
    BY <1>2 DEF NumberOf
  <2>4. AsPlaces(v.float.n, -FloatPlaces) = v.float.n
    <3> DEFINE k == (-FloatPlaces) + FloatPlaces
    <3>1. k = 0 /\ PowerOfTen(0) = 1
      BY LiteralsAssumption, Tens
    <3>2. AsPlaces(v.float.n, -FloatPlaces) =
            IF k >= 0 THEN v.float.n * PowerOfTen(k)
            ELSE (IF v.float.n < 0 THEN -1 ELSE 1) * (Magnitude(v.float.n) \div PowerOfTen(-k))
      BY DEF AsPlaces
    <3> HIDE DEF k
    <3> QED BY <1>3, <3>1, <3>2
  <2> QED BY <1>3, <2>2, <2>3, <2>4
<1> HIDE DEF x
<1>6. Meanings(x, e.type) = {w}
  <2>1. {f \in AsFloat(x) : f.class # "inf"} = {v.float}
    BY <1>3, <1>5
  <2> QED BY <2>1 DEF Meanings
<1>7. w.type = e.type /\ w.raises = <<>> /\ w.float = v.float
  BY DEF BareFloat, Zero
<1> HIDE DEF w
<1>8. Equal(e, w) = {TRUE}
  <2>1. Equal(e, w) = Close(e.float, v.float, e.tol)
    BY <1>7 DEF Equal, IsRaise, Integral, Scaled
  <2>2. PICK h, t : Held(h) /\ Tolerated(t) /\ e = TolerantFloat(e.type, h, t)
    BY DEF ExpectedValue
  <2>3. e.float = h /\ e.tol = t
    BY <2>2 DEF TolerantFloat, Zero
  <2>4. /\ h.class = "finite" /\ t.class \in {"finite", "inf"}
        /\ t.class = "finite" => Magnitude(v.float.n - h.n) < t.n
    BY <1>2, <2>3 DEF Near
  <2>5. h.n \in Int /\ t.n \in Int /\ t # NoFloat
    BY <2>2, <2>4 DEF Held, Tolerated, IsFloat, NaN, Inf, Finite, NoFloat
  <2>6. Magnitude(h.n - v.float.n) = Magnitude(v.float.n - h.n) /\ Magnitude(v.float.n - h.n) \in Int
    BY <1>3, <2>5 DEF Magnitude
  <2>7. "nan" \notin {h.class, v.float.class, t.class}
    BY <1>3, <2>4
  <2>8. CASE t.class = "inf"
    <3>1. Close(h, v.float, t) = {TRUE}
      BY <2>5, <2>7, <2>8 DEF Close
    <3> QED BY <2>1, <2>3, <3>1
  <2>9. CASE t.class = "finite"
    <3> DEFINE m == Magnitude(h.n - v.float.n)
    <3>1. m # t.n /\ m < t.n
      BY <2>4, <2>5, <2>6, <2>9
    <3>2. Close(h, v.float, t) = {m < t.n}
      BY <2>5, <2>7, <2>9, <3>1 DEF Close
    <3> HIDE DEF m
    <3>3. (m < t.n) = TRUE
      BY <3>1
    <3> QED BY <2>1, <2>3, <3>2, <3>3
  <2> QED BY <2>4, <2>8, <2>9
<1> QED BY <1>1, <1>2, <1>4, <1>6, <1>7, <1>8, JudgedEqual DEF x

(* An answer that is right and is not misread passes, in every case. *)
LEMMA RightPasses ==
  ASSUME NEW e, IsExpected(e), NEW answer, IsAnswer(answer), Correct(answer, e), ~Misread(answer, e)
  PROVE  Judge(e, answer) = {TRUE}
<1>1. e.type \in Type /\ (IsRaise(e) \/ (e.raises = <<>> /\ ExpectedValue(e)))
  BY ExpectedIs
<1>2. CASE IsRaise(e)
  <2> DEFINE r == [Zero(e.type) EXCEPT !.raises = answer.raised]
  <2>1. answer.raised = e.raises /\ answer.raised # <<>>
    BY <1>2 DEF Correct, IsRaise
  <2>2. r.raises = answer.raised
    BY DEF Zero
  <2> HIDE DEF r
  <2>3. Judge(e, answer) = Equal(e, r)
    BY <2>1 DEF Judge, r
  <2>4. Equal(e, r) = {e.raises = r.raises}
    BY <1>2 DEF Equal
  <2>5. (e.raises = r.raises) = TRUE
    BY <2>1, <2>2
  <2> QED BY <2>3, <2>4, <2>5
<1>3. CASE e.raises = <<>> /\ ExpectedValue(e)
  <2>1. e.type.kind \in Kind \ {"invalid", "text"} /\ e.type.scale \in Nat
    BY <1>1, <1>3 DEF Type, ExpectedValue, Misread, IsRaise
  <2>2. e.type.kind \in Integral => Fits(e.int, e.type)
    BY <1>3 DEF ExpectedValue
  <2>3. e.type.kind \in Scaled => Holds(e.int, e.type)
    BY <1>3 DEF ExpectedValue
  <2>4. e.type.kind \in {"bool", "date", "float"} \cup Integral \cup Scaled
    BY <2>1 DEF Kind, Integral, Scaled
  <2> QED BY <1>3, <2>1, <2>2, <2>3, <2>4, RightBool, RightDate, RightInt, RightScaled, RightFloat
<1> QED BY <1>1, <1>2, <1>3

(* A planned row expects what its cell under the result's name was read as. *)
LEMMA PlannedExpected ==
  ASSUME NEW d \in DOMAIN decls, WellFormedFn(decls[d]), Clean(decls[d]), BoundAs(d),
         decls[d].mode = "frozen", NEW s \in DOMAIN Plan(d).rows
  PROVE  IsExpected(Plan(d).rows[s].expected)
<1> DEFINE f == decls[d]
           t == s[1]
           r == s[2]
           T == f.tables[t]
<1>1. ~NamesNote(f) /\ t \in DOMAIN f.tables /\ r \in DOMAIN T.rows
  BY PlannedRow DEF Slots, Table
<1>2. PICK i \in DOMAIN T.columns : T.columns[i] = f.result.name
  BY <1>1, CleanColumns
<1>3. Plan(d).rows[s].expected = Parse(T.rows[r][i], f.result.type, TRUE)
  <2>1. RowByName(f, T, r, Plan(d).rows[s])
    BY PlanSound
  <2> QED BY <1>2, <2>1 DEF RowByName
<1>4. Parse(T.rows[r][i], f.result.type, TRUE) # NoValue
  <2>1. /\ Bind(f, T, i).kind = "output" /\ Bind(f, T, i).type = f.result.type
        /\ IsParsed(f, T, r, i)
    BY <1>1, <1>2, CleanColumns
  <2> QED BY <2>1 DEF IsParsed
<1>5. T.rows[r][i] \in Seq(STRING) /\ f.result.type \in Type
  BY <1>1, <1>2 DEF WellFormedFn, WellFormedTable
<1> QED BY <1>3, <1>4, <1>5 DEF IsExpected

----------------------------------------------------------------------------
(* The answer of a call is one of those given. *)
LEMMA AnswerGiven ==
  ASSUME RowsInv, NEW d \in DOMAIN decls, NEW answer \in AnswersNow(d)
  PROVE  IsAnswer(answer)
<1> DEFINE a == Len(ran[d]) + 1
           b == Len(Answers)
           m == Min({a, b})
<1>1. a \in Nat \ {0} /\ b \in Nat \ {0}
  BY RowsAssumption DEF RowsInv
<1> HIDE DEF a, b
<1>2. \E x \in {a, b} : \A y \in {a, b} : x <= y
  BY <1>1
<1>3. m \in {a, b} /\ m <= b
  BY <1>2 DEF Min
<1>4. m \in DOMAIN Answers
  BY <1>1, <1>3, RowsAssumption DEF b
<1> QED BY <1>4, RowsAssumption DEF AnswersNow, a, b

(* A call's verdict is a judgement of its answer. *)
Judged(call, rows) ==
  IsAnswer(call.answer) /\ call.passed \in Judge(rows[call.slot].expected, call.answer)

(* What is said of a harness that has ended. *)
Settled(d) ==
  /\ verdicts[d] = [s \in DOMAIN plans[d].rows |-> \E i \in Passing(d) : ran[d][i].slot = s]
  /\ \/ Left(d) = {}
     \/ \E s \in DOMAIN plans[d].rows : Unreadable(plans[d].rows[s]) \/ Uncallable(plans[d].rows[s])

(* What was planned expects what a cell says, what was called was judged   *)
(* by it, and an ended harness has its verdicts from its calls.            *)
JudgedInv ==
  /\ \A d \in DOMAIN decls : \A s \in DOMAIN plans[d].rows : IsExpected(plans[d].rows[s].expected)
  /\ \A d \in DOMAIN decls : \A i \in DOMAIN ran[d] : Judged(ran[d][i], plans[d].rows)
  /\ DOMAIN verdicts = DOMAIN decls
  /\ \A d \in over : d \in DOMAIN decls /\ d < turn
  /\ \A d \in over : Settled(d)

(* Before the first harness. *)
LEMMA JudgedStart == RowsInit => JudgedInv
<1> SUFFICES ASSUME RowsInit PROVE JudgedInv
  OBVIOUS
<1>1. /\ ran = [d \in DOMAIN decls |-> <<>>] /\ plans = [d \in DOMAIN decls |-> NoPlan]
      /\ over = {} /\ DOMAIN verdicts = DOMAIN decls
  BY DEF RowsInit, HarnessInit
<1>2. \A d \in DOMAIN decls : ran[d] = <<>> /\ plans[d].rows = <<>>
  BY <1>1 DEF NoPlan
<1>3. \A d \in DOMAIN decls : DOMAIN ran[d] = {} /\ DOMAIN plans[d].rows = {}
  BY <1>2, NoRows
<1> QED BY <1>1, <1>3 DEF JudgedInv

(* What a harness that has ended is said of stays so while others run. *)
LEMMA StaysSettled ==
  ASSUME NEW d, Settled(d), plans'[d] = plans[d], ran'[d] = ran[d], verdicts'[d] = verdicts[d]
  PROVE  Settled(d)'
<1>1. Passing(d)' = Passing(d) /\ Left(d)' = Left(d)
  BY DEF Passing, Left
<1> QED BY <1>1 DEF Settled

(* While the harnesses are being prepared. *)
LEMMA PreparingJudged ==
  ASSUME HarnessInv, RowsInv, JudgedInv, Preparing
  PROVE  JudgedInv'
<1>1. decls' = decls /\ ran' = ran /\ over' = over /\ verdicts' = verdicts
  BY DEF Preparing, HarnessNext, Checking, CheckNext, Redeclared, CheckFn, SkipLive, PlanFn,
         Stopped, harnessVars, checkVars
<1>2. CASE plans' = plans /\ (turn' = turn \/ turn' = turn + 1)
  <2>1. \A d \in DOMAIN decls : d < turn => d < turn'
    BY <1>2, DeclsDomain DEF HarnessInv
  <2>2. \A d \in over : Settled(d)'
    BY <1>1, <1>2, StaysSettled DEF JudgedInv
  <2> QED BY <1>1, <1>2, <2>1, <2>2 DEF JudgedInv
<1>3. CASE PlanFn
  <2>1. /\ turn' = turn + 1 /\ turn \in DOMAIN decls /\ Checked /\ ~HasErrors
        /\ decls[turn].mode = "frozen" /\ turn \in Nat
        /\ \A d \in DOMAIN decls : plans'[d] = IF d = turn THEN Plan(turn) ELSE plans[d]
    <3>1. turn' = turn + 1 /\ Checked /\ ~HasErrors /\ decls[turn].mode = "frozen" /\ turn <= Len(decls)
      BY <1>3 DEF PlanFn, Assaying
    <3>2. turn \in DOMAIN decls /\ turn \in Nat
      BY <3>1, DeclsDomain DEF HarnessInv
    <3>3. plans' = [plans EXCEPT ![turn] = Plan(turn)] /\ DOMAIN plans = DOMAIN decls
      BY <1>3 DEF PlanFn, HarnessInv
    <3> QED BY <3>1, <3>2, <3>3
  <2>2. \A d \in DOMAIN decls : d < turn => d < turn' /\ plans'[d] = plans[d]
    BY <2>1, DeclsDomain DEF HarnessInv
  <2>3. \A s \in DOMAIN Plan(turn).rows : IsExpected(Plan(turn).rows[s].expected)
    BY <2>1, CleanWhenChecked, PlannedExpected
  <2>4. \A d \in DOMAIN decls : \A s \in DOMAIN plans'[d].rows : IsExpected(plans'[d].rows[s].expected)
    BY <2>1, <2>3 DEF JudgedInv
  <2>5. \A d \in DOMAIN decls : \A i \in DOMAIN ran[d] : Judged(ran[d][i], plans'[d].rows)
    <3> SUFFICES ASSUME NEW d \in DOMAIN decls, NEW i \in DOMAIN ran[d]
                 PROVE  Judged(ran[d][i], plans'[d].rows)
      OBVIOUS
    <3>1. d < turn
      BY NoRows DEF RowsInv
    <3> QED BY <2>2, <3>1 DEF JudgedInv
  <2>6. \A d \in over : Settled(d)'
    BY <1>1, <2>2, StaysSettled DEF JudgedInv
  <2> QED BY <1>1, <2>2, <2>4, <2>5, <2>6 DEF JudgedInv
<1> QED BY <1>2, <1>3 DEF Preparing, HarnessNext, Checking, SkipLive, Stopped, harnessVars

(* A row is called, and its answer judged. *)
LEMMA CallJudged ==
  ASSUME RowsInv, JudgedInv, NEW d \in DOMAIN decls, CallRow(d)
  PROVE  JudgedInv'
<1>1. /\ decls' = decls /\ plans' = plans /\ turn' = turn /\ over' = over /\ verdicts' = verdicts
      /\ d \notin over
  BY DEF CallRow, Runs, harnessVars, checkVars
<1> DEFINE s == Upcoming(d)
           row == plans[d].rows[s]
<1>2. PICK answer \in AnswersNow(d) : \E passed \in Judge(row.expected, answer) :
        ran' = [ran EXCEPT ![d] = Append(@,
                 [slot |-> s, args |-> [p \in DOMAIN row.args |-> PyArg(row.args[p])],
                  answer |-> answer, passed |-> passed])]
  BY DEF CallRow
<1>3. PICK passed \in Judge(row.expected, answer) :
        ran' = [ran EXCEPT ![d] = Append(@,
                 [slot |-> s, args |-> [p \in DOMAIN row.args |-> PyArg(row.args[p])],
                  answer |-> answer, passed |-> passed])]
  BY <1>2
<1> HIDE DEF s
<1> DEFINE call == [slot |-> s, args |-> [p \in DOMAIN row.args |-> PyArg(row.args[p])],
                    answer |-> answer, passed |-> passed]
<1>4. Judged(call, plans[d].rows)
  BY AnswerGiven DEF Judged
<1> HIDE DEF call
<1>5. /\ ran'[d] = Append(ran[d], call)
      /\ \A e \in DOMAIN decls : e # d => ran'[e] = ran[e]
  BY <1>3 DEF RowsInv, call
<1>6. \A i \in DOMAIN ran'[d] : ran'[d][i] = call \/ (i \in DOMAIN ran[d] /\ ran'[d][i] = ran[d][i])
  BY <1>5 DEF RowsInv
<1>7. \A e \in DOMAIN decls : \A i \in DOMAIN ran'[e] : Judged(ran'[e][i], plans[e].rows)
  BY <1>4, <1>5, <1>6 DEF JudgedInv
<1>8. \A e \in over : Settled(e)'
  BY <1>1, <1>5, StaysSettled DEF JudgedInv
<1> QED BY <1>1, <1>7, <1>8 DEF JudgedInv

(* A harness ends: it could not be read, a call failed, or no row is left. *)
LEMMA EndJudged ==
  ASSUME RowsInv, JudgedInv, NEW d \in DOMAIN decls,
         HarnessUnreadable(d) \/ CallFails(d) \/ HarnessEnds(d)
  PROVE  JudgedInv'
<1>1. /\ decls' = decls /\ plans' = plans /\ turn' = turn /\ ran' = ran /\ d < turn
      /\ over' = over \cup {d} /\ d \notin over
      /\ verdicts' = [verdicts EXCEPT ![d] =
           [s \in DOMAIN plans[d].rows |-> \E i \in Passing(d) : ran[d][i].slot = s]]
  BY DEF HarnessUnreadable, CallFails, HarnessEnds, End, Runs, Planned, harnessVars, checkVars
<1>2. /\ DOMAIN verdicts' = DOMAIN decls
      /\ verdicts'[d] = [s \in DOMAIN plans[d].rows |-> \E i \in Passing(d) : ran[d][i].slot = s]
      /\ \A e \in DOMAIN decls : e # d => verdicts'[e] = verdicts[e]
  BY <1>1 DEF JudgedInv
<1>3. \/ Left(d) = {}
      \/ \E s \in DOMAIN plans[d].rows : Unreadable(plans[d].rows[s]) \/ Uncallable(plans[d].rows[s])
  <2>1. CASE HarnessUnreadable(d)
    BY <2>1 DEF HarnessUnreadable
  <2>2. CASE CallFails(d)
    <3>1. Upcoming(d) \in Left(d) /\ Uncallable(plans[d].rows[Upcoming(d)])
      BY <2>2, UpcomingLeft DEF CallFails
    <3> QED BY <3>1 DEF Left
  <2>3. CASE HarnessEnds(d)
    BY <2>3 DEF HarnessEnds
  <2> QED BY <2>1, <2>2, <2>3
<1>4. Settled(d)'
  <2>1. Passing(d)' = Passing(d) /\ Left(d)' = Left(d)
    BY <1>1 DEF Passing, Left
  <2> QED BY <1>1, <1>2, <1>3, <2>1 DEF Settled
<1>5. \A e \in over : Settled(e)'
  BY <1>1, <1>2, StaysSettled DEF JudgedInv
<1> QED BY <1>1, <1>2, <1>4, <1>5 DEF JudgedInv

(* A step of the harnesses keeps it. *)
LEMMA JudgedStep ==
  ASSUME HarnessInv, RowsInv, JudgedInv, [RowsNext]_rowsVars
  PROVE  JudgedInv'
<1>1. CASE Preparing
  BY <1>1, PreparingJudged
<1>2. ASSUME NEW d \in DOMAIN decls, CallRow(d) PROVE JudgedInv'
  BY <1>2, CallJudged
<1>3. ASSUME NEW d \in DOMAIN decls, HarnessUnreadable(d) \/ CallFails(d) \/ HarnessEnds(d)
      PROVE  JudgedInv'
  BY <1>3, EndJudged
<1>4. CASE UNCHANGED rowsVars
  <2>1. /\ decls' = decls /\ plans' = plans /\ turn' = turn /\ ran' = ran /\ over' = over
        /\ verdicts' = verdicts
    BY <1>4 DEF rowsVars, harnessVars, checkVars
  <2>2. \A d \in over : Settled(d)'
    BY <2>1, StaysSettled DEF JudgedInv
  <2> QED BY <2>1, <2>2 DEF JudgedInv
<1> QED BY <1>1, <1>2, <1>3, <1>4 DEF RowsNext

(* It holds of every run. *)
LEMMA JudgedInductive == RowsSpec => [](HarnessInv /\ RowsInv /\ JudgedInv)
<1>1. RowsInit => JudgedInv
  BY JudgedStart
<1>2. HarnessInv /\ RowsInv /\ JudgedInv /\ [RowsNext]_rowsVars => JudgedInv'
  BY JudgedStep
<1> QED BY <1>1, <1>2, RowsInductive, PTL DEF RowsSpec

(* A row is green only if it was called and the answer means what the row  *)
(* expects: the same error, or the same number, date or truth value.       *)
THEOREM GreenIsEqual == RowsSpec => []GreenMeansEqual
<1>1. ASSUME RowsInv, JudgedInv PROVE GreenMeansEqual
  <2> SUFFICES ASSUME NEW d \in over, NEW s \in DOMAIN plans[d].rows, verdicts[d][s]
               PROVE  \E i \in DOMAIN ran[d] :
                        LET e == plans[d].rows[s].expected
                            answer == ran[d][i].answer
                        IN /\ ran[d][i].slot = s
                           /\ answer.raised = e.raises
                           /\ IsRaise(e) \/ answer.value.py = "str" \/ Agrees(answer.value, e)
    BY DEF GreenMeansEqual
  <2>1. d \in DOMAIN decls /\ verdicts[d][s] = \E i \in Passing(d) : ran[d][i].slot = s
    BY <1>1 DEF JudgedInv, Settled
  <2>2. PICK i \in Passing(d) : ran[d][i].slot = s
    BY <2>1
  <2>3. i \in DOMAIN ran[d] /\ ran[d][i].passed
    BY DEF Passing
  <2> DEFINE e == plans[d].rows[s].expected
             answer == ran[d][i].answer
  <2>4. IsExpected(e) /\ IsAnswer(answer) /\ ran[d][i].passed \in Judge(e, answer)
    BY <1>1, <2>1, <2>2, <2>3 DEF JudgedInv, Judged
  <2>5. TRUE \in Judge(e, answer)
    BY <2>3, <2>4
  <2>6. Passes(answer, e)
    BY <2>4, <2>5, JudgedGreen
  <2> QED BY <2>2, <2>3, <2>6 DEF Passes
<1> QED BY <1>1, JudgedInductive, PTL

(* A harness that ran to its end, of an implementation that answered every *)
(* call rightly with no answer that is misread, is green in every row.     *)
THEOREM RightIsGreen == RowsSpec => []CorrectIsGreen
<1>1. ASSUME RowsInv, JudgedInv PROVE CorrectIsGreen
  <2> SUFFICES ASSUME NEW d \in over,
                      ~ \E s \in DOMAIN plans[d].rows :
                          Unreadable(plans[d].rows[s]) \/ Uncallable(plans[d].rows[s]),
                      ~ \E i \in DOMAIN ran[d] :
                          \/ ~RightAnswer(d, i)
                          \/ Misread(ran[d][i].answer, plans[d].rows[ran[d][i].slot].expected),
                      NEW s \in DOMAIN plans[d].rows
               PROVE  verdicts[d][s]
    BY DEF CorrectIsGreen
  <2>1. /\ d \in DOMAIN decls /\ Left(d) = {}
        /\ verdicts[d] = [u \in DOMAIN plans[d].rows |-> \E i \in Passing(d) : ran[d][i].slot = u]
    BY <1>1 DEF JudgedInv, Settled
  <2>2. PICK i \in DOMAIN ran[d] : ran[d][i].slot = s
    BY <2>1, SMTT(30) DEF Left
  <2> DEFINE e == plans[d].rows[s].expected
             answer == ran[d][i].answer
  <2>3. IsExpected(e) /\ IsAnswer(answer) /\ ran[d][i].passed \in Judge(e, answer)
    BY <1>1, <2>1, <2>2 DEF JudgedInv, Judged
  <2>4. Correct(answer, e) /\ ~Misread(answer, e)
    BY <2>2 DEF RightAnswer
  <2>5. Judge(e, answer) = {TRUE}
    BY <2>3, <2>4, RightPasses
  <2>6. ran[d][i].passed
    <3>1. ran[d][i].passed = TRUE
      BY <2>3, <2>5
    <3> QED BY <3>1, Zenon
  <2>7. i \in Passing(d)
    BY <2>6 DEF Passing
  <2> QED BY <2>1, <2>2, <2>7
<1> QED BY <1>1, JudgedInductive, PTL
=============================================================================
