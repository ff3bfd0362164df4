-------------------------------- MODULE Rows --------------------------------
(***************************************************************************)
(* From the calls of a harness to the verdicts on them: what Marshal       *)
(* writes of a cell (internal/backend/python/python.go) and Python reads,  *)
(* what _canon writes of an answer, and what runFn (internal/assay/        *)
(* assay.go) reads in it and compares.  A function that Harness planned is *)
(* run before the next is planned; each row is one call.                   *)
(*                                                                         *)
(* The process, its output and its deadline are Assay's: here every answer *)
(* is reported, and the question is what it says.                          *)
(***************************************************************************)
EXTENDS Harness

(* What an implementation may answer its i-th call with; the calls after   *)
(* the last of them, as that one (a bound).                                *)
CONSTANT Answers

(* A Python value: a Decimal is its sign, its digits and its exponent.     *)
Python == {"int", "bool", "Decimal", "float", "str", "date", "datetime", "None"}
PyZero(type) ==
  [py |-> type, n |-> 0, neg |-> FALSE, exp |-> 0, bool |-> FALSE, float |-> NoFloat,
   text |-> <<>>, date |-> ""]
PyInt(n) == [PyZero("int") EXCEPT !.n = n]
PyBool(b) == [PyZero("bool") EXCEPT !.bool = b]
PyDecimal(neg, n, exp) == [PyZero("Decimal") EXCEPT !.neg = neg, !.n = n, !.exp = exp]
PyFloat(f) == [PyZero("float") EXCEPT !.float = f]
PyStr(t) == [PyZero("str") EXCEPT !.text = t]
PyDate(d) == [PyZero("date") EXCEPT !.date = d]

Returned(v) == [raised |-> <<>>, value |-> v]
Raised(name) == [raised |-> name, value |-> PyZero("None")]

(* Of a type, the part that its values have. *)
IsPython(v) ==
  /\ v.py \in Python /\ v.neg \in BOOLEAN /\ v.bool \in BOOLEAN
  /\ v.n \in Int /\ v.exp \in Int /\ v.text \in Seq(STRING)
  /\ v.py = "Decimal" => v.n >= 0
  /\ v.py = "float" =>
       v.float \in {NaN, Inf(1), Inf(-1)} \/ (v.float.n \in Int /\ v.float = Finite(v.float.n))
  /\ v.py \in {"date", "datetime"} => v.date \in Dates

IsAnswer(a) == IsPython(a.value) /\ (a.raised # <<>> => a.value.py = "None")

ASSUME RowsAssumption ==
  /\ Len(Answers) \in Nat \ {0} /\ DOMAIN Answers = 1 .. Len(Answers)
  /\ \A i \in DOMAIN Answers : \A a \in Answers[i] : IsAnswer(a)

VARIABLES
  ran,       (* for each declaration, the calls of its harness, in order *)
  over,      (* the declarations whose harness has ended *)
  verdicts   (* for each declaration, which rows passed *)

rowsVars == <<harnessVars, ran, over, verdicts>>

----------------------------------------------------------------------------
(* Marshal, and Python's reading of what it wrote. *)

(* pyString: json.Marshal writes U+FFFD for a byte that is no UTF-8. *)
Json(t) == [i \in DOMAIN t |-> IF t[i] = "byte" THEN "U+FFFD" ELSE t[i]]

(* Decimal("-49.99"): the digits as they stand, and where the point is. *)
DecimalOf(s) ==
  LET cut == Cut(TrimPrefix(s, "-"), ".")
  IN PyDecimal(HasPrefix(s, "-"), Number(cut.before \o cut.after), -Len(cut.after))

PyArgUnscaled(v) ==
  CASE v.type.kind = "bool" -> PyBool(v.bool)
    [] v.type.kind = "text" -> PyStr(Json(v.text))
    [] v.type.kind \in Integral -> PyInt(v.int)
    [] v.type.kind \in Scaled -> DecimalOf(Signed(v.int, Numeral(Magnitude(v.int))))
    [] v.type.kind = "date" -> PyDate(v.date)
    [] OTHER -> PyZero("None")
PyArg(v) ==
  CASE v.type.kind = "bool" -> PyBool(v.bool)
    [] v.type.kind = "text" -> PyStr(Json(v.text))
    [] v.type.kind \in Integral -> PyInt(v.int)
    [] v.type.kind \in Scaled -> DecimalOf(String(v))
    [] v.type.kind = "date" -> PyDate(v.date)
    [] OTHER -> PyZero("None")

(* FormatFloat has no verb 'r' and answers "%r": no Python expression, so  *)
(* the interpreter refuses the harness as a whole.                         *)
Unreadable(row) == \E p \in DOMAIN row.args : row.args[p].type.kind = "float"

(* date(0, 1, 1) is a ValueError, which nothing around the call catches.   *)
Uncallable(row) == \E p \in DOMAIN row.args : row.args[p].date \in YearZero

----------------------------------------------------------------------------
(* _canon. *)

(* str(Decimal): a point if the exponent is not above zero and there are   *)
(* at most five zeros between it and the first digit, else an exponent.    *)
DecimalString(v) ==
  LET digits == Numeral(v.n)
      point == Len(digits) + v.exp
      zeros == Zeros(-point) \o digits
  IN (IF v.neg THEN <<"-">> ELSE <<>>) \o
     CASE v.exp > 0 \/ point <= -6 -> digits \o <<"E">> \o Numeral(Magnitude(v.exp))
       [] v.exp = 0 -> digits
       [] v.exp < 0 /\ point > 0 -> SubSeq(digits, 1, point) \o <<".">> \o SubSeq(digits, point + 1, Len(digits))
       [] OTHER -> <<"0", ".">> \o zeros

(* repr(float): one decimal place at least. *)
ReprFloat(f) ==
  LET s == FloatString(f)
  IN IF f.class = "finite" /\ ~Cut(s, ".").found THEN s \o <<".", "0">> ELSE s

Canon(v) ==
  CASE v.py = "bool" -> IF v.bool THEN <<"true">> ELSE <<"false">>
    [] v.py = "int" -> Signed(v.n, Numeral(Magnitude(v.n)))
    [] v.py = "Decimal" -> DecimalString(v)
    [] v.py = "float" -> ReprFloat(v.float)
    [] v.py = "str" -> v.text
    [] v.py = "date" -> <<v.date>>
    [] v.py = "datetime" -> <<v.date, "T00:00:00">>

----------------------------------------------------------------------------
(* runFn's judgement of a row that was reported. *)

JudgeQuoted(expected, answer) ==
  LET type == expected.type
      actual == Parse(Quote(Canon(answer.value)), type, FALSE)
  IN IF answer.raised # <<>> THEN Equal(expected, [Zero(type) EXCEPT !.raises = answer.raised])
     ELSE IF answer.value.py = "None" \/ actual = NoValue THEN {FALSE}
     ELSE Equal(expected, actual)
Judge(expected, answer) ==
  LET type == expected.type
      actual == Parse(Canon(answer.value), type, FALSE)
  IN IF answer.raised # <<>> THEN Equal(expected, [Zero(type) EXCEPT !.raises = answer.raised])
     ELSE IF answer.value.py = "None" \/ actual = NoValue THEN {FALSE}
     ELSE Equal(expected, actual)

----------------------------------------------------------------------------
RowsInit ==
  /\ HarnessInit
  /\ ran = [d \in DOMAIN decls |-> <<>>] /\ over = {}
  /\ verdicts = [d \in DOMAIN decls |-> [s \in {} |-> FALSE]]

Planned(d) == d < turn /\ plans[d].problem = ""
Runs(d) == Planned(d) /\ d \notin over
Idle == \A d \in DOMAIN decls : ~Runs(d)

Preparing == Idle /\ HarnessNext /\ UNCHANGED <<ran, over, verdicts>>

(* The calls of a harness stand in the order of the tables and the rows. *)
Earlier(s, u) == s[1] < u[1] \/ (s[1] = u[1] /\ s[2] < u[2])
Left(d) == DOMAIN plans[d].rows \ {ran[d][i].slot : i \in DOMAIN ran[d]}
Upcoming(d) == CHOOSE s \in Left(d) : \A u \in Left(d) \ {s} : Earlier(s, u)

Passing(d) == {i \in DOMAIN ran[d] : ran[d][i].passed}
End(d) ==
  /\ over' = over \cup {d}
  /\ verdicts' = [verdicts EXCEPT ![d] =
       [s \in DOMAIN plans[d].rows |-> \E i \in Passing(d) : ran[d][i].slot = s]]
  /\ UNCHANGED <<harnessVars, ran>>

HarnessUnreadable(d) ==
  /\ Runs(d) /\ ran[d] = <<>>
  /\ \E s \in DOMAIN plans[d].rows : Unreadable(plans[d].rows[s])
  /\ End(d)

AnswersNow(d) == Answers[Min({Len(ran[d]) + 1, Len(Answers)})]

Readable(d) == \A s \in DOMAIN plans[d].rows : ~Unreadable(plans[d].rows[s])

CallRow(d) ==
  /\ Runs(d) /\ Readable(d) /\ Left(d) # {}
  /\ LET s == Upcoming(d)
         row == plans[d].rows[s]
     IN /\ ~Uncallable(row)
        /\ \E answer \in AnswersNow(d) : \E passed \in Judge(row.expected, answer) :
             ran' = [ran EXCEPT ![d] = Append(@,
               [slot |-> s, args |-> [p \in DOMAIN row.args |-> PyArg(row.args[p])],
                answer |-> answer, passed |-> passed])]
  /\ UNCHANGED <<harnessVars, over, verdicts>>

CallFails(d) ==
  /\ Runs(d) /\ Readable(d) /\ Left(d) # {}
  /\ Uncallable(plans[d].rows[Upcoming(d)])
  /\ End(d)

HarnessEnds(d) == Runs(d) /\ Readable(d) /\ Left(d) = {} /\ End(d)

RowsNext ==
  \/ Preparing
  \/ \E d \in DOMAIN decls :
       HarnessUnreadable(d) \/ CallRow(d) \/ CallFails(d) \/ HarnessEnds(d)
RowsSpec == RowsInit /\ [][RowsNext]_rowsVars

----------------------------------------------------------------------------
(* Properties.  What a Python value means is said here without a text:     *)
(* a number is n times a power of ten.                                     *)

Decimals(v) == IF v.type.kind \in Scaled THEN v.type.scale ELSE 0
SameNumber(n, exp, m, places) ==
  IF exp + places >= 0 THEN n * PowerOfTen(exp + places) = m
  ELSE n = m * PowerOfTen(-(exp + places))
Near(a, b, tol) ==
  /\ a.class = "finite" /\ b.class = "finite" /\ tol.class \in {"finite", "inf"}
  /\ tol.class = "finite" => Magnitude(a.n - b.n) < tol.n

PyKind(type) ==
  CASE type.kind \in Integral -> "int" [] type.kind \in Scaled -> "Decimal"
    [] type.kind = "text" -> "str" [] OTHER -> type.kind

(* v is the Python value that stands for the value e. *)
Stands(v, e) ==
  /\ v.py = PyKind(e.type)
  /\ v.py = "bool" => v.bool = e.bool
  /\ v.py = "str" => v.text = e.text
  /\ v.py = "date" => v.date = e.date
  /\ v.py = "int" => v.n = e.int
  /\ v.py = "Decimal" => SameNumber(IF v.neg THEN -v.n ELSE v.n, v.exp, e.int, Decimals(e))
  /\ v.py = "float" => Near(v.float, e.float, e.tol)

(* The answer a row asks for. *)
Correct(answer, e) ==
  IF IsRaise(e) THEN answer.raised = e.raises
  ELSE answer.raised = <<>> /\ Stands(answer.value, e)

(* A number of any Python type that is the expected one, or within the     *)
(* expected one's tolerance (at it, rounding decides), to the places that a *)
(* float has.                                                              *)
NumberOf(v) ==
  CASE v.py = "Decimal" -> [n |-> IF v.neg THEN -v.n ELSE v.n, exp |-> v.exp]
    [] v.py = "float" -> [n |-> v.float.n, exp |-> -FloatPlaces]
    [] OTHER -> [n |-> v.n, exp |-> 0]
AsPlaces(n, exp) ==
  IF exp + FloatPlaces >= 0 THEN n * PowerOfTen(exp + FloatPlaces)
  ELSE (IF n < 0 THEN -1 ELSE 1) * (Magnitude(n) \div PowerOfTen(-(exp + FloatPlaces)))
Agrees(v, e) ==
  LET x == NumberOf(v) IN
  CASE e.type.kind \in Integral \cup Scaled ->
         v.py \in {"int", "Decimal", "float"} /\ SameNumber(x.n, x.exp, e.int, Decimals(e))
    [] e.type.kind = "float" ->
         /\ v.py \in {"int", "Decimal", "float"}
         /\ e.tol.class = "inf" \/ Magnitude(AsPlaces(x.n, x.exp) - e.float.n) <= e.tol.n
    [] e.type.kind \in {"bool", "date"} -> Stands(v, e)
    [] OTHER -> FALSE

(* A function is called with the values its cells stand for: of every row, *)
(* each argument is of the Python type of its parameter and means what the *)
(* cell means ("Doré's semantics are preserved rather than approximated",  *)
(* python.go:44), but for a text that is not UTF-8.                        *)
ArgsDenote ==
  \A d \in DOMAIN decls : \A i \in DOMAIN ran[d] :
    LET args == plans[d].rows[ran[d][i].slot].args IN
    \A p \in DOMAIN args :
      \/ Stands(ran[d][i].args[p], args[p])
      \/ \E j \in DOMAIN args[p].text : args[p].text[j] = "byte"

(* A row is green only if it was called and the answer means what the row  *)
(* expects: the same error, or the same number, date or truth value.  A    *)
(* str counts for the literal it spells, of whatever type.                 *)
GreenMeansEqual ==
  \A d \in over : \A s \in DOMAIN plans[d].rows : verdicts[d][s] =>
    \E i \in DOMAIN ran[d] :
      LET e == plans[d].rows[s].expected
          answer == ran[d][i].answer
      IN /\ ran[d][i].slot = s
         /\ answer.raised = e.raises
         /\ IsRaise(e) \/ answer.value.py = "str" \/ Agrees(answer.value, e)

(* What keeps a right answer from being read as one: a text is emitted     *)
(* without quotes and read as if it had them; a Decimal whose text has an  *)
(* exponent, or more places than the type, is no literal of it.            *)
Misread(answer, e) ==
  /\ ~IsRaise(e)
  /\ \/ e.type.kind = "text"
     \/ /\ e.type.kind \in Scaled
        /\ \/ answer.value.exp > 0 \/ -answer.value.exp > e.type.scale
           \/ Len(Numeral(answer.value.n)) + answer.value.exp <= -6

(* An implementation that answers every call rightly is green, with these  *)
(* exceptions: an answer that is misread, and a harness that does not run  *)
(* to its end, for a float among its inputs or a date of the year 0000.    *)
RightAnswer(d, i) == Correct(ran[d][i].answer, plans[d].rows[ran[d][i].slot].expected)
CorrectIsGreen ==
  \A d \in over :
    \/ \E s \in DOMAIN plans[d].rows : Unreadable(plans[d].rows[s]) \/ Uncallable(plans[d].rows[s])
    \/ \E i \in DOMAIN ran[d] :
         \/ ~RightAnswer(d, i)
         \/ Misread(ran[d][i].answer, plans[d].rows[ran[d][i].slot].expected)
    \/ \A s \in DOMAIN plans[d].rows : verdicts[d][s]

(* "Every row runs even after one fails, so a single assay reports every   *)
(* failing case" (python.go:70-71): when the harness of a file the check   *)
(* passed has ended, each row has been called.                             *)
EveryRowCalled ==
  \A d \in over : \A s \in DOMAIN plans[d].rows : \E i \in DOMAIN ran[d] : ran[d][i].slot = s
=============================================================================
