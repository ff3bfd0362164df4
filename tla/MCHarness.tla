------------------------------ MODULE MCHarness -----------------------------
(* Instances of Harness and Rows: files of small declarations whose names, *)
(* types and cells are taken in every combination.                         *)
EXTENDS Rows

Integer == Plain("int")
Text == Plain("text")
Float == Plain("float")
MCDates == {"2026-08-27", "2026-08-28", "0000-01-01"}
MCYearZero == {"0000-01-01"}

Param(n, type) == [name |-> n, type |-> type]
SeqsUpTo(S, n) == UNION {[1 .. k -> S] : k \in 0 .. n}

(* A row whose cells tell the columns apart. *)
IntRow(header) == [i \in DOMAIN header |-> <<Digits[i + 1]>>]
TableOf(header) == [columns |-> header, rows |-> <<IntRow(header)>>]

Fn(name, mode, params, result, tables) ==
  [name |-> name, mode |-> mode, params |-> params, result |-> result,
   tables |-> tables, properties |-> <<>>]
Ints(names) == [i \in DOMAIN names |-> Param(names[i], Integer)]

(* Every signature of at most two inputs against every header of at most   *)
(* three columns.                                                          *)
Headers == SeqsUpTo({"a", "b", "r", "note", "typo"}, 3)
Signatures ==
  {<<Ints(ps), Param(r, Integer)>> :
     ps \in SeqsUpTo({"a", "b", "r", "note"}, 2), r \in {"r", "note"}}
NameFiles ==
  {<<Fn("f", "frozen", s[1], s[2], <<TableOf(h)>>)>> :
     s \in Signatures, h \in Headers}

(* Every two types against every form of two cells, in either order. *)
Forms == {<<"1">>, <<"1", "~", "2">>, <<"!", "X">>, <<"z">>}
CellFiles ==
  {<<Fn("f", "frozen", <<Param("a", ta)>>, Param("r", tr),
        <<[columns |-> h, rows |-> <<<< <<"1">>, <<"1", "~", "2">> >>, <<x, y>>>>],
          [columns |-> h, rows |-> <<<<x, y>>>>]>>)>> :
     ta \in {Integer, Float, Invalid}, tr \in {Integer, Float, Invalid},
     h \in {<<"a", "r">>, <<"r", "a">>}, x \in Forms, y \in Forms}

(* Three declarations, with and without a table, whose names may clash. *)
Good == TableOf(<<"a", "r">>)
Bad == TableOf(<<"a", "b">>)
Loop == {Fn(n, m, Ints(<<"a">>), Param("r", Integer), ts) :
           n \in {"f", "g"}, m \in {"frozen", "live"}, ts \in {<<>>, <<Good>>, <<Good, Bad>>}}
LoopFiles == {<<x, [z EXCEPT !.name = m, !.properties = <<"", "p", "", n>>], y>> :
                x \in Loop, y \in Loop, z \in {w \in Loop : w.mode = "live"},
                m \in {"f", "h"}, n \in {"p", "q"}}

----------------------------------------------------------------------------
(* Every short text, as an input and as a result of every type.  The texts *)
(* of at most k characters are numbered in order of their length.          *)
Nth(chars, n) ==
  LET of[m \in Nat] ==
        IF m = 0 THEN <<>>
        ELSE Append(of[(m - 1) \div Len(chars)], chars[((m - 1) % Len(chars)) + 1])
  IN of[n]
AllTexts(chars, k) ==
  LET upTo[j \in 0 .. k] == IF j = 0 THEN 1 ELSE 1 + Len(chars) * upTo[j - 1]
  IN [n \in 1 .. upTo[k] |-> Nth(chars, n - 1)]

Numbers ==
  AllTexts(<<"0", "1", "7", "-", "+", ".", " ">>, 4) \o
  << <<"-", "1", "0", "0", ".", "0", "5">>, <<"1", "2", ".", "3", "4", "5">>,
    <<"0", "0", "1", "6">>, <<"-", "0", "8">>, <<"!", " ", "X">>, <<"!">> >>
Floats == AllTexts(<<"1", "0", "-", ".", "~", "nan", "inf", " ">>, 4) \o
  << <<"0", ".", "0", "5", " ", "~", "1", ".", "2", "5">> >>
Quoteds == AllTexts(<<"z", "\"", "\\", "'", "backquote", "xff">>, 5)
Words == AllTexts(<<"true", "false", " ", "!", "2026-08-27", "0000-01-01">>, 2)

TextFile(type, texts) ==
  <<Fn("f", "live", <<Param("a", type)>>, Param("r", type),
       <<[columns |-> <<"a", "r">>, rows |-> [i \in DOMAIN texts |-> <<texts[i], texts[i]>>]]>>)>>
TextFiles ==
  {TextFile(type, Numbers) :
     type \in {Integer, Plain("i32"), Plain("i64"), Money, Decimal(2, 1), Decimal(3, 0)}} \cup
  {TextFile(Float, Floats), TextFile(Text, Quoteds)} \cup
  {TextFile(type, Words) : type \in {Plain("bool"), Plain("date"), Integer}}

----------------------------------------------------------------------------
(* One row of each type, with every answer an implementation may give. *)
Calls(params, result, rows) ==
  <<Fn("f", "frozen", params, result,
       <<[columns |-> [i \in DOMAIN params |-> params[i].name] \o <<result.name>>,
          rows |-> rows]>>)>>
RowFiles(type, texts) ==
  {Calls(<<>>, Param("r", type), <<<<x>>>>) : x \in texts}

Fives == {<<"5">>, <<"5", ".", "0">>, <<"-", "1", ".", "2">>, <<"0">>, <<"-", ".">>, <<"!", "X">>}
ResultFiles ==
  UNION {RowFiles(type, Fives) : type \in {Integer, Plain("i32"), Money, Decimal(3, 0), Decimal(8, 7)}}
  \cup RowFiles(Float, {<<"5", " ", "~", "1">>, <<"5", "~", "inf">>, <<"5", "~", "nan">>,
                       <<"nan", "~", "1">>, <<"0", "~", ".", "1">>, <<"!", "X">>})
  \cup RowFiles(Text, {<<"\"", "5", "\"">>, <<"backquote", "\"", "5", "\"", "backquote">>, <<"\"", "\"">>, <<"'", "z", "'">>})
  \cup RowFiles(Plain("bool"), {<<"true">>, <<"false">>, <<"!", "X">>})
  \cup RowFiles(Plain("date"), {<<"2026-08-27">>, <<"0000-01-01">>})

(* One argument of each type, and two rows of which the first may fail.    *)
ArgFile(type, x, y) ==
  LET expected == <<"5">>
  IN Calls(<<Param("a", type)>>, Param("r", Integer), <<<<x, expected>>, <<y, expected>>>>)
ArgFiles ==
  {ArgFile(type, x, <<"1">>) : type \in {Integer, Money, Decimal(3, 0), Decimal(8, 7), Float},
                               x \in {<<"-", ".">>, <<"-", "1", ".", "5">>, <<"7">>, <<"-", "0">>}} \cup
  {ArgFile(Text, <<"\"", "z", "\"">>, x) : x \in {<<"\"", "\\", "xff", "\"">>, <<"backquote", "\\", "backquote">>}} \cup
  {ArgFile(Plain("bool"), <<"true">>, <<"false">>)} \cup
  {ArgFile(Plain("date"), <<x>>, <<"2026-08-28">>) : x \in MCDates}

Any ==
  {Returned(PyInt(n)) : n \in {0, 5, -5, 12}} \cup
  {Returned(PyBool(b)) : b \in BOOLEAN} \cup
  {Returned(PyDecimal(neg, n, exp)) : neg \in BOOLEAN, n \in {0, 5, 12}, exp \in {1, 0, -1, -7}} \cup
  {Returned(PyFloat(f)) : f \in {Finite(n) : n \in {500, 550, 600, 0, -120}} \cup {NaN, Inf(1), Inf(-1)}} \cup
  {Returned(PyStr(t)) : t \in {<<"5">>, <<"\"", "5", "\"">>, <<>>, <<"\"", "\"">>, <<" ", "true">>,
                               <<"!", "X">>, <<"z">>, <<"2026-08-27">>}} \cup
  {Returned([PyZero(p) EXCEPT !.date = "2026-08-27"]) : p \in {"date", "datetime"}} \cup
  {Returned(PyZero("None")), Raised(<<"X">>), Raised(<<"Y">>)}

Few == {Returned(PyInt(5)), Returned(PyZero("None")), Raised(<<"X">>)}
MCAnswers == <<Any, Few, {Returned(PyInt(5))}>>

(* The functions that take a float.                                        *)
FloatInputs == {file \in ArgFiles : file[1].params[1].type = Float}

MCFiles == NameFiles \cup CellFiles \cup LoopFiles \cup TextFiles \cup ResultFiles \cup ArgFiles
=============================================================================
