------------------------------ MODULE TypeNames -----------------------------
(***************************************************************************)
(* The names of the types (internal/types/types.go): Named finds the type  *)
(* a name stands for, Suggest the one a mistaken name may be meant for.  A *)
(* name is the sequence of its letters.                                    *)
(***************************************************************************)
EXTENDS Literals, Lexer

BuiltIn(name) ==
  CASE name = <<"i", "n", "t">> -> {Plain("int")}
    [] name = <<"i", "3", "2">> -> {Plain("i32")}
    [] name = <<"i", "6", "4">> -> {Plain("i64")}
    [] name = <<"m", "o", "n", "e", "y">> -> {Money}
    [] name = <<"f", "l", "o", "a", "t">> -> {Plain("float")}
    [] name = <<"t", "e", "x", "t">> -> {Plain("text")}
    [] name = <<"b", "o", "o", "l">> -> {Plain("bool")}
    [] name = <<"d", "a", "t", "e">> -> {Plain("date")}
    [] OTHER -> {}

(* parseDecimalName: two numbers, each as far as its digits go (Sscanf). *)
DecimalWord == <<"d", "e", "c", "i", "m", "a", "l">>
Leading(s) == Take(s, Min({i \in DOMAIN s : ~IsDigit(s[i])} \cup {Len(s) + 1}) - 1)
DecimalName(name) ==
  LET inner == SubSeq(name, 9, Len(name) - 1)
      cut == Cut(inner, ",")
      p == Leading(cut.before)
      s == Leading(cut.after)
  IN IF \/ Take(name, 8) # Append(DecimalWord, "(") \/ name[Len(name)] # ")"
        \/ ~cut.found \/ Cut(cut.after, ",").found \/ p = <<>> \/ s = <<>>
     THEN {}
     ELSE {Decimal(m, n) : m \in {Number(p)} \ {0}, n \in {Number(s)} \cap (0 .. Number(p))}

Named(name) == BuiltIn(name) \cup DecimalName(name)

----------------------------------------------------------------------------
(* Suggest. *)

Candidates ==
  << <<"i", "n", "t">>, <<"i", "3", "2">>, <<"i", "6", "4">>, <<"m", "o", "n", "e", "y">>,
     DecimalWord, <<"f", "l", "o", "a", "t">>, <<"t", "e", "x", "t">>, <<"b", "o", "o", "l">>,
     <<"d", "a", "t", "e">> >>

LowerRune(c) ==
  IF c \in Range(Capital) THEN Small[CHOOSE i \in DOMAIN Capital : Capital[i] = c] ELSE c
Lower(s) == [i \in DOMAIN s |-> LowerRune(s[i])]

(* editDistance, row by row: row i + 1 counts the edits from the first i   *)
(* letters of a to the first 0, 1, .. letters of b.                        *)
Cost(c, d) == IF c = d THEN 0 ELSE 1
NextRowInPlace(prev, i, c, b) ==
  LET upTo[j \in 0 .. Len(b)] ==
        IF j = 0 THEN <<i>>
        ELSE LET row == upTo[j - 1]
             IN Append(row, Min({prev[j + 1] + 1, row[j] + 1, row[j] + Cost(c, b[j])}))
  IN upTo[Len(b)]
NextRow(prev, i, c, b) ==
  LET upTo[j \in 0 .. Len(b)] ==
        IF j = 0 THEN <<i>>
        ELSE LET row == upTo[j - 1]
             IN Append(row, Min({prev[j + 1] + 1, row[j] + 1, prev[j] + Cost(c, b[j])}))
  IN upTo[Len(b)]
EditDistance(a, b) ==
  LET rows[i \in 0 .. Len(a)] ==
        IF i = 0 THEN [j \in 1 .. Len(b) + 1 |-> j - 1]
        ELSE LET prev == rows[i - 1] IN NextRow(prev, i, a[i], b)
  IN rows[Len(a)][Len(b) + 1]

Begins(s, t) == Len(s) <= Len(t) /\ SubSeq(t, 1, Len(s)) = s
Closest(typed) ==
  LET dist == [k \in DOMAIN Candidates |-> EditDistance(Lower(typed), Candidates[k])]
      k == CHOOSE m \in DOMAIN dist :
             \A j \in DOMAIN dist : dist[m] < dist[j] \/ (dist[m] = dist[j] /\ m <= j)
  IN [name |-> Candidates[k], dist |-> dist[k]]

NoName == <<>>
CloseTo(best, low) ==
  \/ (Begins(best.name, low) \/ Begins(low, best.name)) /\ best.dist > 0
  \/ best.dist \in 1 .. 2 /\ best.dist < Len(low)
Suggest(typed) ==
  LET best == Closest(typed)
  IN IF CloseTo(best, Lower(typed)) THEN best.name ELSE NoName
=============================================================================
