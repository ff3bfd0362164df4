----------------------------- MODULE MCSignature ----------------------------
(* Instances of Signature: one declaration in many layouts, the same with  *)
(* a token too many, too few or wrong, types by nearly their name, and     *)
(* rows of every short text.                                               *)
EXTENDS Signature

MCWords == {"frozen", "live", "fn", "examples"}
MCTwoBytes == {"accent"}

Joins(parts) ==
  LET upTo[i \in 0 .. Len(parts)] == IF i = 0 THEN <<>> ELSE upTo[i - 1] \o parts[i]
  IN upTo[Len(parts)]
(* The lines of a text with a rune for each line break. *)
Broken(s) ==
  LET upTo[i \in 0 .. Len(s)] ==
        IF i = 0 THEN <<<<>>>>
        ELSE LET done == upTo[i - 1]
             IN IF s[i] = "break" THEN Append(done, <<>>)
                ELSE [done EXCEPT ![Len(done)] = Append(@, s[i])]
  IN upTo[Len(s)]
Input(s, meant) == [lines |-> Broken(s), meant |-> meant]

IntName == <<"i", "n", "t">>
BoolName == <<"b", "o", "o", "l">>

(* frozen fn f(a: int, b2: decimal(10,2)) -> r_: bool *)
Declaration ==
  << <<"frozen">>, <<"fn">>, <<"f">>, <<"(">>, <<"a">>, <<":">>, IntName, <<",">>,
     <<"b", "2">>, <<":">>, DecimalWord, <<"(">>, <<"1", "0">>, <<",">>, <<"2">>, <<")">>, <<")">>,
     <<"-", ">">>, <<"r", "_">>, <<":">>, BoolName>>
DeclarationMeant ==
  [fn |-> [mode |-> "frozen", name |-> <<"f">>,
           params |-> <<[name |-> <<"a">>, type |-> Plain("int")],
                        [name |-> <<"b", "2">>, type |-> Decimal(10, 2)]>>,
           result |-> [name |-> <<"r", "_">>, type |-> Plain("bool")]],
   cells |-> <<>>]

(* Its blanks, and others. *)
Spaced == {2, 3, 7, 9, 11, 18, 19, 21}
Usual == [g \in 2 .. Len(Declaration) |-> IF g \in Spaced THEN <<" ">> ELSE <<>>]
Inside(g) ==
  Cardinality({i \in 1 .. g - 1 : Declaration[i] = <<"(">>}) >
  Cardinality({i \in 1 .. g - 1 : Declaration[i] = <<")">>})
Gaps(g) ==
  {<<" ", " ">>, <<"tab">>} \cup
  IF Inside(g) THEN {<<"break">>, <<"return", "break", "tab">>,
                     <<" ", "#", " ", "\"", "(", "accent", "break", "break", " ", " ">>}
  ELSE {}
Written(gaps) ==
  Declaration[1] \o Joins([g \in 1 .. Len(gaps) |-> gaps[g] \o Declaration[g + 1]])
Layouts ==
  {[g \in 1 .. Len(Declaration) - 1 |->
     IF g + 1 = i THEN x ELSE IF g + 1 = j THEN y ELSE Usual[g + 1]] :
   x \in UNION {Gaps(k) : k \in 4 .. Len(Declaration)},
   y \in {<<"break">>, <<" ", "#", " ", "\"", "(", "accent", "break", "break", " ", " ">>},
   i \in 4 .. Len(Declaration), j \in {g \in 4 .. Len(Declaration) : Inside(g)}}
Allowed(gaps) ==
  \A g \in DOMAIN gaps : gaps[g] = Usual[g + 1] \/ gaps[g] \in Gaps(g + 1)

(* What stands below it: a table, whose texts quote what the scanners look *)
(* for, and another declaration.                                           *)
Row(texts) == [fn |-> NoFn, cells |-> texts]
Below ==
  <<"break", " ", " ", "examples", ":", "break", "break",
    "tab", "|", "a", "|", " ", "b", "2", " ", "|", "r", "_", " ", "|", "break",
    " ", "#", "(", "break",
    "tab", "|", " ", "\"", "#", ")", "\\", "\"", "(", "\"", "|", "accent", " ", "|", "|", "#", "|", "return", "break",
    "live", " ", "fn", " ", "g", "(", ")", "-", ">", "s", ":">> \o IntName
BelowMeant ==
  <<Row(<<>>), Row(<< <<"a">>, <<"b", "2">>, <<"r", "_">> >>),
    Row(<< <<"\"", "#", ")", "\\", "\"", "(", "\"">>, <<"accent">>, <<>> >>),
    [fn |-> [mode |-> "live", name |-> <<"g">>, params |-> <<>>,
             result |-> [name |-> <<"s">>, type |-> Plain("int")]], cells |-> <<>>]>>
LayoutInputs ==
  {Input(Written(gaps) \o Below, <<DeclarationMeant>> \o BelowMeant) : gaps \in {x \in Layouts : Allowed(x)}}

----------------------------------------------------------------------------
(* One token too many, too few or wrong, on one line and over two. *)
Junk == {<<"(">>, <<")">>, <<":">>, <<",">>, <<"-", ">">>, <<"-">>, <<"x">>, <<"7">>, <<"\"">>, <<"accent">>,
         DecimalWord}
Texts(gap(_)) ==
  {Joins([k \in DOMAIN ts |-> IF k = 1 THEN ts[k] ELSE gap(k) \o ts[k]]) :
   ts \in {Declaration} \cup
     {SubSeq(Declaration, 1, i - 1) \o <<x>> \o SubSeq(Declaration, i + d, Len(Declaration)) :
        i \in 1 .. Len(Declaration) + 1, d \in {0, 1}, x \in Junk} \cup
     {SubSeq(Declaration, 1, i - 1) \o SubSeq(Declaration, i + 1, Len(Declaration)) : i \in 1 .. Len(Declaration)} \cup
     {SubSeq(Declaration, 1, i) : i \in 1 .. Len(Declaration)}}
BrokenInputs ==
  {Input(s, <<>>) : s \in Texts(LAMBDA k : <<" ">>)} \cup
  {Input(s, <<>>) : s \in Texts(LAMBDA k : IF k \in {7, 13, 15} THEN <<" ", "#", "accent", "break", "tab">> ELSE <<" ">>)}

(* A result of a type by each of these names. *)
Typing(name) ==
  <<"live", " ", "fn", " ", "g", "(", ")", "-", ">", "s", ":">> \o name
Near(names) == UNION {Edited(name, <<"o", "i", "t">>) : name \in names}
Unknown ==
  {Candidates[i] : i \in DOMAIN Candidates} \cup Near(Known) \cup
  Near({<<"i", "t">>, <<"d", "a", "t", "t", "e">>, <<"t", "e", "x">>}) \cup
  {<<"B", "o", "o", "l">>, <<"I", "3", "2">>, <<"b", "o", "o", "l", "e", "a", "n">>, <<"d", "e", "c">>, <<"x">>}
Arguable ==
  {DecimalWord \o <<"(">> \o a \o <<")">> :
     a \in {<<>>, <<"2">>, <<"2", ",", "3">>, <<"2", " ", "1">>, <<"0", ",", "0">>, <<"2", ",", "2", ",">>,
            <<"x", ",", "1">>, <<"3", ",", "(", "1", ")">>, <<"3", ",", "-", "1">>, <<"1", "2", ",", "1", "0">>}}
NameInputs == {Input(Typing(name), <<>>) : name \in (Unknown \ {<<>>}) \cup Arguable}

(* Every short row, on one line and, for a parenthesis in it, on more. *)
RowTexts(chars, k) == UNION {[1 .. d -> chars] : d \in 0 .. k}
RowInputs ==
  {Input(<<" ", "|">> \o s, <<>>) :
     s \in RowTexts({"|", " ", "x", "\"", "#"}, 4) \cup RowTexts({"|", "tab", "accent", "\\"}, 4) \cup
          {<<"(">> \o t \o <<"|">> : t \in RowTexts({"|", "x", " ", "break"}, 4)}}

MCInputs == LayoutInputs \cup BrokenInputs \cup NameInputs \cup RowInputs
=============================================================================
