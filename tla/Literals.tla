------------------------------ MODULE Literals ------------------------------
(***************************************************************************)
(* internal/types: what a literal of a touchstone cell means.  Parse reads *)
(* a text as a value of a type, Value.String writes it back, Equal decides *)
(* whether a row passes.                                                   *)
(*                                                                         *)
(* A text is a sequence of characters, each a string of one character; a   *)
(* word the code only compares (true, inf, a date) is one character, and   *)
(* so are a back quote and the escape of a byte, xff.  Floats have         *)
(* FloatPlaces decimal places: what binary64 cannot hold is lost there, and *)
(* so is the sign of a zero.                                               *)
(***************************************************************************)
EXTENDS Integers, Sequences, FiniteSetsExt

CONSTANTS
  I32Bits, I64Bits,   (* widths of i32 and i64: 32 and 64 *)
  FloatPlaces,        (* bound: the decimal places of a float *)
  Dates,              (* the dates there are *)
  YearZero            (* those of the year 0000 *)

(* What numbers, truth values and raises are written with: no date is one. *)
Marks ==
  {"0", "1", "2", "3", "4", "5", "6", "7", "8", "9", "+", "-", ".", "~", "!", " ",
   "true", "false", "nan", "inf"}

ASSUME LiteralsAssumption ==
  /\ I32Bits \in Nat \ {0} /\ I64Bits \in Nat \ {0} /\ FloatPlaces \in Nat
  /\ YearZero \subseteq Dates
  /\ Dates \cap Marks = {}

----------------------------------------------------------------------------
(* Types and values (types.go, value.go). *)

Kind == {"invalid", "int", "i32", "i64", "money", "decimal", "float", "text", "bool", "date"}
Type == [kind : Kind, precision : Nat, scale : Nat]

Plain(kind) == [kind |-> kind, precision |-> 0, scale |-> 0]
Invalid == Plain("invalid")
Money == [kind |-> "money", precision |-> 0, scale |-> 2]
Decimal(p, s) == [kind |-> "decimal", precision |-> p, scale |-> s]

Integral == {"int", "i32", "i64"}
Scaled == {"money", "decimal"}

Finite(n) == [class |-> "finite", n |-> n]
NaN == [class |-> "nan", n |-> 0]
Inf(sign) == [class |-> "inf", n |-> sign]
NoFloat == [class |-> "none", n |-> 0]

Zero(type) ==
  [type |-> type, int |-> 0, float |-> Finite(0), tol |-> NoFloat, text |-> <<>>,
   bool |-> FALSE, date |-> "", raises |-> <<>>]

(* The zero Value, which a cell keeps when its literal is refused. *)
NoValue == Zero(Invalid)
IsRaise(v) == v.raises # <<>>

----------------------------------------------------------------------------
(* Texts: strings.TrimSpace, TrimPrefix, Cut, Repeat; numerals. *)

Trim(s) ==
  LET kept == {i \in DOMAIN s : s[i] # " "}
  IN IF kept = {} THEN <<>> ELSE SubSeq(s, Min(kept), Max(kept))

HasPrefix(s, c) == s # <<>> /\ s[1] = c
TrimPrefix(s, c) == IF HasPrefix(s, c) THEN Tail(s) ELSE s

Cut(s, c) ==
  LET at == {i \in DOMAIN s : s[i] = c}
  IN IF at = {} THEN [before |-> s, after |-> <<>>, found |-> FALSE]
     ELSE [before |-> SubSeq(s, 1, Min(at) - 1), after |-> SubSeq(s, Min(at) + 1, Len(s)),
           found |-> TRUE]

Digits == <<"0", "1", "2", "3", "4", "5", "6", "7", "8", "9">>
IsDigit(c) == \E i \in DOMAIN Digits : Digits[i] = c
AllDigits(s) == \A i \in DOMAIN s : IsDigit(s[i])
DigitValue(c) == (CHOOSE i \in DOMAIN Digits : Digits[i] = c) - 1

(* big.Int's SetString and String, for digits alone. *)
Number(s) ==
  LET upTo[k \in 0 .. Len(s)] == IF k = 0 THEN 0 ELSE 10 * upTo[k - 1] + DigitValue(s[k])
  IN upTo[Len(s)]
Numeral(n) ==
  LET of[m \in Nat] == IF m < 10 THEN <<Digits[m + 1]>> ELSE Append(of[m \div 10], Digits[(m % 10) + 1])
  IN of[n]
Zeros(k) == IF k > 0 THEN [i \in 1 .. k |-> "0"] ELSE <<>>
Take(s, k) == SubSeq(s, 1, Min({k, Len(s)}))
Magnitude(n) == IF n < 0 THEN -n ELSE n
Signed(n, s) == IF n < 0 THEN <<"-">> \o s ELSE s

----------------------------------------------------------------------------
(* The literals of each type.  Each operator is the set of the values the  *)
(* text can stand for: empty if it is refused.                             *)

AsBool(s) == {b \in BOOLEAN : s = IF b THEN <<"true">> ELSE <<"false">>}
AsDate(s) == {d \in Dates : s = <<d>>}

(* big.Int.SetString in base 10, and checkWidth. *)
AsInt(s) ==
  LET body == IF HasPrefix(s, "-") \/ HasPrefix(s, "+") THEN Tail(s) ELSE s
  IN IF body = <<>> \/ ~AllDigits(body) THEN {}
     ELSE {IF HasPrefix(s, "-") THEN -Number(body) ELSE Number(body)}

FitsUnsigned(n, bits) == n < 2 ^ bits /\ -n <= 2 ^ (bits - 1)
FitsBits(n, bits) == -(2 ^ (bits - 1)) <= n /\ n <= 2 ^ (bits - 1) - 1
Fits(n, type) ==
  /\ type.kind = "i32" => FitsBits(n, I32Bits)
  /\ type.kind = "i64" => FitsBits(n, I64Bits)

(* parseScaled. *)
AsScaledRounding(s, scale) ==
  LET cut == Cut(TrimPrefix(TrimPrefix(s, "-"), "+"), ".")
      fraction == Take(cut.after, scale) \o Zeros(scale - Len(cut.after))
      n == Number(cut.before \o fraction)
  IN IF \/ cut.before = <<>> /\ ~cut.found
        \/ ~AllDigits(cut.before) \/ ~AllDigits(cut.after)
        \/ cut.before \o fraction = <<>>
     THEN {} ELSE {IF HasPrefix(s, "-") THEN -n ELSE n}
AsScaled(s, scale) ==
  LET cut == Cut(TrimPrefix(TrimPrefix(s, "-"), "+"), ".")
      digits == cut.before \o cut.after \o Zeros(scale - Len(cut.after))
  IN IF \/ cut.before = <<>> /\ ~cut.found
        \/ ~AllDigits(cut.before) \/ ~AllDigits(cut.after)
        \/ Len(cut.after) > scale \/ digits = <<>>
     THEN {} ELSE {IF HasPrefix(s, "-") THEN -Number(digits) ELSE Number(digits)}

Significant(n) == IF n = 0 THEN 0 ELSE Len(Numeral(Magnitude(n)))
Holds(n, type) == type.kind = "decimal" => Significant(n) <= type.precision

(* strconv.ParseFloat, for numerals without an exponent. *)
AsFloat(s) ==
  LET body == IF HasPrefix(s, "-") \/ HasPrefix(s, "+") THEN Tail(s) ELSE s
      cut == Cut(body, ".")
      digits == cut.before \o Take(cut.after, FloatPlaces) \o Zeros(FloatPlaces - Len(cut.after))
      sign == IF HasPrefix(s, "-") THEN -1 ELSE 1
  IN IF s = <<"nan">> THEN {NaN}
     ELSE IF body = <<"inf">> THEN {Inf(sign)}
     ELSE IF cut.before \o cut.after = <<>> \/ ~AllDigits(cut.before \o cut.after) THEN {}
     ELSE {Finite(sign * Number(digits))}

(* splitTolerance refuses a tolerance that is zero or less. *)
AsTolerance(s) == {t \in AsFloat(s) : t.class # "nan" => t.n > 0}

(* strconv.Unquote.  A backslash takes the next character with it; no      *)
(* quote stands inside but after one.                                      *)
Escapes(quote) == {"\\", quote, "xff"}
Unescaped(c) == IF c = "xff" THEN "byte" ELSE c
Unescape(s, quote) ==
  LET from[k \in 1 .. Len(s) + 1] ==
        IF k > Len(s) THEN {<<>>}
        ELSE IF s[k] = quote THEN {}
        ELSE IF s[k] # "\\" THEN {<<s[k]>> \o rest : rest \in from[k + 1]}
        ELSE IF k = Len(s) \/ s[k + 1] \notin Escapes(quote) THEN {}
        ELSE {<<Unescaped(s[k + 1])>> \o rest : rest \in from[k + 2]}
  IN from[1]
AsText(s) ==
  LET quote == s[1]
      inside == SubSeq(s, 2, Len(s) - 1)
  IN IF Len(s) < 2 \/ quote # s[Len(s)] THEN {}
     ELSE IF quote = "backquote" THEN {t \in {inside} : \A i \in DOMAIN t : t[i] # "backquote"}
     ELSE IF quote = "\"" THEN Unescape(inside, quote)
     ELSE IF quote = "'" THEN {t \in Unescape(inside, quote) : Len(t) = 1}
     ELSE {}

----------------------------------------------------------------------------
(* types.Parse. *)

FloatValue(s, type, f, expected) ==
  LET cut == Cut(s, "~")
      tols == AsTolerance(Trim(cut.after))
  IN IF f.class = "inf" THEN {}
     ELSE IF cut.found THEN {[Zero(type) EXCEPT !.float = f, !.tol = t] : t \in tols}
     ELSE IF expected THEN {} ELSE {[Zero(type) EXCEPT !.float = f]}

Read(s, type, expected) ==
  CASE type.kind = "bool" -> {[Zero(type) EXCEPT !.bool = b] : b \in AsBool(s)}
    [] type.kind = "text" -> {[Zero(type) EXCEPT !.text = t] : t \in AsText(s)}
    [] type.kind \in Integral -> {[Zero(type) EXCEPT !.int = n] : n \in {m \in AsInt(s) : Fits(m, type)}}
    [] type.kind \in Scaled ->
         {[Zero(type) EXCEPT !.int = n] : n \in {m \in AsScaled(s, type.scale) : Holds(m, type)}}
    [] type.kind = "float" ->
         UNION {FloatValue(s, type, f, expected) : f \in AsFloat(Trim(Cut(s, "~").before))}
    [] type.kind = "date" -> {[Zero(type) EXCEPT !.date = d] : d \in AsDate(s)}
    [] OTHER -> {}

Raise(s, type, expected) ==
  IF expected /\ Trim(Tail(s)) # <<>> THEN {[Zero(type) EXCEPT !.raises = Trim(Tail(s))]} ELSE {}

Values(text, type, expected) ==
  LET s == Trim(text)
  IN IF s = <<>> THEN {}
     ELSE IF s[1] = "!" THEN Raise(s, type, expected) ELSE Read(s, type, expected)

Parse(text, type, expected) ==
  LET vs == Values(text, type, expected)
  IN IF vs = {} THEN NoValue ELSE CHOOSE v \in vs : TRUE

----------------------------------------------------------------------------
(* Value.String, which writes the literal the hash of a spec is to see,    *)
(* and types.Equal.                                                        *)

(* scaledString. *)
Padded(n, scale) == Zeros(scale + 1 - Len(Numeral(n))) \o Numeral(n)
ScaledStringInTwo(n, scale) ==
  LET digits == Padded(Magnitude(n), scale)
      whole == Number(SubSeq(digits, 1, Len(digits) - scale))
  IN Signed(IF n < 0 THEN -whole ELSE whole, Numeral(whole)) \o
     (IF scale = 0 THEN <<>> ELSE <<".">> \o SubSeq(digits, Len(digits) - scale + 1, Len(digits)))
ScaledString(n, scale) ==
  LET digits == Padded(Magnitude(n), scale)
      point == Len(digits) - scale
  IN Signed(n, IF scale = 0 THEN digits
               ELSE SubSeq(digits, 1, point) \o <<".">> \o SubSeq(digits, point + 1, Len(digits)))

(* FormatFloat: the shortest numeral. *)
FloatString(f) ==
  LET digits == Padded(Magnitude(f.n), FloatPlaces)
      point == Len(digits) - FloatPlaces
      last == Max({point} \cup {i \in point + 1 .. Len(digits) : digits[i] # "0"})
  IN CASE f.class = "nan" -> <<"nan">>
       [] f.class = "inf" -> Signed(f.n, <<"inf">>)
       [] OTHER -> Signed(f.n, SubSeq(digits, 1, point) \o
                     (IF last = point THEN <<>> ELSE <<".">> \o SubSeq(digits, point + 1, last)))

Escaped(c) ==
  CASE c \in {"\"", "\\"} -> <<"\\", c>> [] c = "byte" -> <<"\\", "xff">> [] OTHER -> <<c>>
Quote(t) ==
  LET upTo[k \in 0 .. Len(t)] == IF k = 0 THEN <<"\"">> ELSE upTo[k - 1] \o Escaped(t[k])
  IN Append(upTo[Len(t)], "\"")

String(v) ==
  CASE IsRaise(v) -> <<"!">> \o v.raises
    [] ~IsRaise(v) /\ v.type.kind = "bool" -> IF v.bool THEN <<"true">> ELSE <<"false">>
    [] ~IsRaise(v) /\ v.type.kind = "text" -> Quote(v.text)
    [] ~IsRaise(v) /\ v.type.kind = "float" ->
         FloatString(v.float) \o (IF v.tol = NoFloat THEN <<>> ELSE <<" ", "~">> \o FloatString(v.tol))
    [] ~IsRaise(v) /\ v.type.kind = "date" -> <<v.date>>
    [] ~IsRaise(v) /\ v.type.kind \in Scaled -> ScaledString(v.int, v.type.scale)
    [] OTHER -> Signed(v.int, Numeral(Magnitude(v.int)))

(* floatEqual.  At a distance of just the tolerance, rounding decides: the *)
(* verdicts are a set.                                                     *)
Close(a, b, tol) ==
  IF "nan" \in {a.class, b.class, tol.class} THEN {FALSE}
  ELSE IF tol = NoFloat THEN {a = b}
  ELSE IF tol.class = "inf" THEN {TRUE}
  ELSE IF Magnitude(a.n - b.n) = tol.n THEN BOOLEAN
  ELSE {Magnitude(a.n - b.n) < tol.n}

EqualAnyRaise(expected, actual) ==
  IF IsRaise(expected) \/ IsRaise(actual) THEN {IsRaise(expected) = IsRaise(actual)}
  ELSE {[expected EXCEPT !.tol = NoFloat] = actual}
Equal(expected, actual) ==
  IF IsRaise(expected) \/ IsRaise(actual) THEN {expected.raises = actual.raises}
  ELSE CASE expected.type.kind = "bool" -> {expected.bool = actual.bool}
         [] expected.type.kind = "text" -> {expected.text = actual.text}
         [] expected.type.kind = "date" -> {expected.date = actual.date}
         [] expected.type.kind = "float" -> Close(expected.float, actual.float, expected.tol)
         [] expected.type.kind \in Integral \cup Scaled -> {expected.int = actual.int}
         [] OTHER -> {FALSE}

----------------------------------------------------------------------------
(* 10^k, for the properties of Check and Rows. *)
PowerOfTen(k) ==
  LET of[m \in Nat] == IF m = 0 THEN 1 ELSE 10 * of[m - 1]
  IN of[k]
=============================================================================
