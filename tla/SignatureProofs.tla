--------------------------- MODULE SignatureProofs ---------------------------
(***************************************************************************)
(* Proofs about Signature: what is true of every file, whatever is in it.  *)
(* The names that are proposed for unknown types come first: the table of  *)
(* editDistance (types.go) against what one edit and two edits can do;     *)
(* then the tokens, the parser, and the lines of a file.  What is accepted *)
(* comes second: a text without its blanks and commas is its tokens one    *)
(* behind the other, a signature is spelled by what each part of the       *)
(* parser takes of them, and a row by its pipes and the cells between.     *)
(***************************************************************************)
EXTENDS Signature, LiteralsProofs, ScanProofs

(* The least of three numbers. *)
LEMMA MinThree ==
  ASSUME NEW x \in Nat, NEW y \in Nat, NEW z \in Nat
  PROVE  LET m == Min({x, y, z})
         IN m \in Nat /\ m <= x /\ m <= y /\ m <= z /\ (m = x \/ m = y \/ m = z)
<1> DEFINE S == {x, y, z}
<1>1. S \in SUBSET Int /\ x \in S /\ y \in S /\ z \in S
  OBVIOUS
<1>2. PICK m \in S : m <= x /\ m <= y /\ m <= z
  OBVIOUS
<1>3. \A i \in S : m <= i
  BY <1>2
<1> HIDE DEF S
<1>4. Min(S) = m
  BY <1>1, <1>2, <1>3, MinIs
<1> QED BY <1>2, <1>4 DEF S

----------------------------------------------------------------------------
(* editDistance: one row. *)

(* The entry that follows a row. *)
Entry(prev, c, b, row, j) == Min({prev[j + 1] + 1, row[j] + 1, prev[j] + Cost(c, b[j])})
RowReads(prev, i, c, b, g) ==
  g = [j \in 0 .. Len(b) |->
        IF j = 0 THEN <<i>>
        ELSE LET row == g[j - 1]
             IN Append(row, Min({prev[j + 1] + 1, row[j] + 1, prev[j] + Cost(c, b[j])}))]
RowRead(prev, i, c, b) ==
  LET upTo[j \in 0 .. Len(b)] ==
        IF j = 0 THEN <<i>>
        ELSE LET row == upTo[j - 1]
             IN Append(row, Min({prev[j + 1] + 1, row[j] + 1, prev[j] + Cost(c, b[j])}))
  IN upTo

(* A row of the numbers of edits for a text b. *)
IsRow(r, b) == r \in Seq(Nat) /\ Len(r) = Len(b) + 1

(* What an entry of the table starts from is a number. *)
LEMMA EntryNat ==
  ASSUME NEW C, NEW b \in Seq(C), NEW c, NEW prev, IsRow(prev, b),
         NEW j \in 1 .. Len(b), NEW row \in Seq(Nat), Len(row) = j
  PROVE  /\ Entry(prev, c, b, row, j) \in Nat
         /\ Entry(prev, c, b, row, j) <= prev[j + 1] + 1
         /\ Entry(prev, c, b, row, j) <= row[j] + 1
         /\ Entry(prev, c, b, row, j) <= prev[j] + Cost(c, b[j])
         /\ \/ Entry(prev, c, b, row, j) = prev[j + 1] + 1
            \/ Entry(prev, c, b, row, j) = row[j] + 1
            \/ Entry(prev, c, b, row, j) = prev[j] + Cost(c, b[j])
<1>1. Len(b) \in Nat /\ j \in Nat /\ j + 1 \in 1 .. Len(prev) /\ j \in 1 .. Len(prev)
  BY DEF IsRow
<1>2. prev[j + 1] \in Nat /\ prev[j] \in Nat /\ row[j] \in Nat
  BY <1>1 DEF IsRow
<1>3. Cost(c, b[j]) \in Nat
  BY DEF Cost
<1> DEFINE x == prev[j + 1] + 1
           y == row[j] + 1
           z == prev[j] + Cost(c, b[j])
<1>4. x \in Nat /\ y \in Nat /\ z \in Nat
  BY <1>2, <1>3
<1>5. Entry(prev, c, b, row, j) = Min({x, y, z})
  BY DEF Entry
<1> HIDE DEF x, y, z
<1>6. LET m == Min({x, y, z})
      IN m \in Nat /\ m <= x /\ m <= y /\ m <= z /\ (m = x \/ m = y \/ m = z)
  BY <1>4, MinThree
<1> QED BY <1>5, <1>6 DEF x, y, z

(* The row there is. *)
LEMMA RowExists ==
  ASSUME NEW C, NEW b \in Seq(C), NEW c, NEW prev, IsRow(prev, b), NEW i \in Nat
  PROVE  RowReads(prev, i, c, b, RowRead(prev, i, c, b))
<1> DEFINE last == Len(b)
           T == Seq(Nat)
           first == <<i>>
           step == [x \in (1 .. last) \X T |->
                     IF Len(x[2]) = x[1] THEN Append(x[2], Entry(prev, c, b, x[2], x[1])) ELSE first]
<1>1. last \in Nat /\ first \in T
  OBVIOUS
<1>2. step \in [(1 .. last) \X T -> T]
  <2> SUFFICES ASSUME NEW x \in (1 .. last) \X T PROVE step[x] \in T
    OBVIOUS
  <2>1. x[1] \in 1 .. last /\ x[2] \in T
    OBVIOUS
  <2>2. Len(x[2]) = x[1] => Entry(prev, c, b, x[2], x[1]) \in Nat
    BY <2>1, EntryNat
  <2> QED BY <1>1, <2>1, <2>2
<1>3. PICK g \in [0 .. last -> T] : Climbs(g, last, first, step)
  <2> HIDE DEF step, first, T
  <2> QED BY <1>1, <1>2, UpRecursion
<1>4. g[0] = first /\ \A j \in 1 .. last : g[j] = step[<<j, g[j - 1]>>]
  BY <1>3 DEF Climbs
<1>5. \A j \in 1 .. last : j - 1 \in 0 .. last /\ g[j - 1] \in T
  <2> TAKE j \in 1 .. last
  <2>1. j - 1 \in 0 .. last
    BY <1>1
  <2> HIDE DEF T
  <2> QED BY <1>3, <2>1
<1>6. \A j \in 1 .. last :
        g[j] = IF Len(g[j - 1]) = j THEN Append(g[j - 1], Entry(prev, c, b, g[j - 1], j)) ELSE first
  <2> SUFFICES ASSUME NEW j \in 1 .. last
               PROVE  g[j] = IF Len(g[j - 1]) = j THEN Append(g[j - 1], Entry(prev, c, b, g[j - 1], j)) ELSE first
    OBVIOUS
  <2>1. <<j, g[j - 1]>> \in (1 .. last) \X T
    BY <1>5
  <2> QED BY <1>4, <2>1
<1> DEFINE S == {j \in Nat : j \in 0 .. last => Len(g[j]) = j + 1}
<1>7. 0 \in S
  BY <1>4
<1>8. ASSUME NEW j \in Nat, j \in S PROVE j + 1 \in S
  <2> SUFFICES ASSUME j + 1 \in 0 .. last PROVE Len(g[j + 1]) = (j + 1) + 1
    OBVIOUS
  <2>1. j \in 0 .. last /\ j + 1 \in 1 .. last /\ (j + 1) - 1 = j
    BY <1>1
  <2>2. Len(g[j]) = j + 1 /\ g[j] \in T
    BY <1>3, <1>8, <2>1
  <2>3. g[j + 1] = Append(g[j], Entry(prev, c, b, g[j], j + 1))
    BY <1>6, <2>1, <2>2
  <2>4. Entry(prev, c, b, g[j], j + 1) \in Nat
    BY <2>1, <2>2, EntryNat
  <2> QED BY <2>2, <2>3, <2>4
<1> HIDE DEF S
<1>9. Nat \subseteq S
  BY <1>7, <1>8, NatSetInduction
<1>10. \A j \in 1 .. last : Len(g[j - 1]) = j
  <2> TAKE j \in 1 .. last
  <2>1. j - 1 \in Nat /\ j - 1 \in 0 .. last
    BY <1>1
  <2>2. Len(g[j - 1]) = (j - 1) + 1
    BY <1>9, <2>1 DEF S
  <2> QED BY <2>2
<1>11. \A j \in 1 .. last : g[j] = Append(g[j - 1], Entry(prev, c, b, g[j - 1], j))
  BY <1>6, <1>10
<1> DEFINE Q(j) == IF j = 0 THEN <<i>> ELSE Append(g[j - 1], Entry(prev, c, b, g[j - 1], j))
<1>12. RowReads(prev, i, c, b, g)
  <2>1. g = [j \in 0 .. last |-> g[j]]
    BY <1>3
  <2>2. \A j \in 0 .. last : g[j] = Q(j)
    <3> TAKE j \in 0 .. last
    <3>1. j = 0 \/ j \in 1 .. last
      BY <1>1
    <3> QED BY <1>4, <1>11, <3>1
  <2> HIDE DEF Q
  <2>3. g = [j \in 0 .. last |-> Q(j)]
    BY <2>1, <2>2
  <2> QED BY <2>3, Zenon DEF RowReads, Entry, Q
<1> QED BY <1>12, Zenon DEF RowRead, RowReads

(* The number of edits from the first i letters of one text to the first j *)
(* of the other, in the rows; and what a step of the second loop makes it. *)
Edits(rows, i, j) == rows[i][j + 1]
(* The next row of the table, entry by entry, and its first. *)
LEMMA NextRowIs ==
  ASSUME NEW C, NEW b \in Seq(C), NEW c, NEW prev, IsRow(prev, b), NEW i \in Nat
  PROVE  /\ IsRow(NextRow(prev, i, c, b), b)
         /\ NextRow(prev, i, c, b)[1] = i
         /\ \A j \in 1 .. Len(b) :
              NextRow(prev, i, c, b)[j + 1] = Entry(prev, c, b, NextRow(prev, i, c, b), j)
<1> DEFINE last == Len(b)
           u == RowRead(prev, i, c, b)
           r == NextRow(prev, i, c, b)
<1>1. r = u[last] /\ last \in Nat
  BY DEF NextRow, RowRead
<1>2. RowReads(prev, i, c, b, u)
  BY RowExists
<1> HIDE DEF u, r
<1>3. /\ u[0] = <<i>>
      /\ \A j \in 1 .. last : u[j] = Append(u[j - 1], Entry(prev, c, b, u[j - 1], j))
  <2>1. \A j \in 0 .. last : u[j] = IF j = 0 THEN <<i>> ELSE Append(u[j - 1], Entry(prev, c, b, u[j - 1], j))
    BY <1>2 DEF RowReads, Entry
  <2>2. 0 \in 0 .. last /\ \A j \in 1 .. last : j \in 0 .. last /\ j # 0
    BY <1>1
  <2> QED BY <2>1, <2>2
<1> DEFINE Good(j) == /\ u[j] \in Seq(Nat) /\ Len(u[j]) = j + 1 /\ u[j][1] = i
                      /\ \A x \in 1 .. j : u[j][x + 1] = Entry(prev, c, b, u[j], x)
           S == {j \in Nat : j \in 0 .. last => Good(j)}
<1>4. 0 \in S
  <2>1. Good(0)
    BY <1>3
  <2> QED BY <2>1
<1>5. ASSUME NEW j \in Nat, j \in S PROVE j + 1 \in S
  <2> SUFFICES ASSUME j + 1 \in 0 .. last PROVE Good(j + 1)
    OBVIOUS
  <2> DEFINE p == u[j]
             q == u[j + 1]
             e == Entry(prev, c, b, p, j + 1)
  <2>1. j \in 0 .. last /\ j + 1 \in 1 .. last /\ (j + 1) - 1 = j
    BY <1>1
  <2>2. Good(j)
    BY <1>5, <2>1
  <2>3. q = Append(p, e)
    BY <1>3, <2>1
  <2>4. p \in Seq(Nat) /\ Len(p) = j + 1 /\ p[1] = i
    BY <2>2
  <2>5. e \in Nat
    BY <2>1, <2>4, EntryNat
  <2>6. \A x \in 1 .. j : p[x + 1] = Entry(prev, c, b, p, x)
    BY <2>2
  <2> HIDE DEF p, q, e
  <2>7. /\ q \in Seq(Nat) /\ Len(q) = (j + 1) + 1 /\ q[(j + 1) + 1] = e
        /\ \A x \in 1 .. j + 1 : q[x] = p[x]
    BY <2>3, <2>4, <2>5
  <2>8. \A x \in 1 .. j + 1 : Entry(prev, c, b, q, x) = Entry(prev, c, b, p, x)
    BY <2>7 DEF Entry
  <2>9. ASSUME NEW x \in 1 .. j + 1 PROVE q[x + 1] = Entry(prev, c, b, q, x)
    <3>1. CASE x = j + 1
      BY <2>7, <2>8, <3>1 DEF e
    <3>2. CASE x \in 1 .. j
      <4>1. x + 1 \in 1 .. j + 1 /\ x \in 1 .. j + 1
        BY <3>2
      <4> QED BY <2>6, <2>7, <2>8, <3>2, <4>1
    <3> QED BY <3>1, <3>2
  <2>10. q[1] = i
    BY <2>4, <2>7
  <2> QED BY <2>7, <2>9, <2>10 DEF q
<1> HIDE DEF S, Good
<1>6. Nat \subseteq S
  BY <1>4, <1>5, NatSetInduction
<1>7. Good(last)
  BY <1>1, <1>6 DEF S
<1> QED BY <1>1, <1>7 DEF Good, IsRow, r

----------------------------------------------------------------------------
(* editDistance: the rows. *)

RowsRead(a, b, g) ==
  g = [i \in 0 .. Len(a) |->
        IF i = 0 THEN [j \in 1 .. Len(b) + 1 |-> j - 1]
        ELSE LET prev == g[i - 1] IN NextRow(prev, i, a[i], b)]
RowsOf(a, b) ==
  LET rows[i \in 0 .. Len(a)] ==
        IF i = 0 THEN [j \in 1 .. Len(b) + 1 |-> j - 1]
        ELSE LET prev == rows[i - 1] IN NextRow(prev, i, a[i], b)
  IN rows

(* The rows there are. *)
LEMMA RowsExist ==
  ASSUME NEW C, NEW a \in Seq(C), NEW b \in Seq(C)
  PROVE  RowsRead(a, b, RowsOf(a, b))
<1> DEFINE last == Len(a)
           T == {r \in Seq(Nat) : Len(r) = Len(b) + 1}
           first == [j \in 1 .. Len(b) + 1 |-> j - 1]
           step == [x \in (1 .. last) \X T |-> NextRow(x[2], x[1], a[x[1]], b)]
<1>1. last \in Nat /\ first \in T
  OBVIOUS
<1>2. step \in [(1 .. last) \X T -> T]
  <2> SUFFICES ASSUME NEW x \in (1 .. last) \X T PROVE NextRow(x[2], x[1], a[x[1]], b) \in T
    OBVIOUS
  <2>1. x[1] \in Nat /\ IsRow(x[2], b)
    BY DEF IsRow
  <2>2. IsRow(NextRow(x[2], x[1], a[x[1]], b), b)
    BY <2>1, NextRowIs
  <2> QED BY <2>2 DEF IsRow
<1>3. PICK g \in [0 .. last -> T] : Climbs(g, last, first, step)
  <2> HIDE DEF step, first, T
  <2> QED BY <1>1, <1>2, UpRecursion
<1>4. g[0] = first /\ \A i \in 1 .. last : g[i] = step[<<i, g[i - 1]>>]
  BY <1>3 DEF Climbs
<1>5. ASSUME NEW i \in 1 .. last PROVE g[i] = NextRow(g[i - 1], i, a[i], b)
  <2>1. i - 1 \in 0 .. last
    BY <1>1
  <2> HIDE DEF T
  <2>2. g[i - 1] \in T
    BY <1>3, <2>1
  <2>3. <<i, g[i - 1]>> \in (1 .. last) \X T
    BY <2>2
  <2> QED BY <1>4, <2>3
<1> DEFINE Q(i) == IF i = 0 THEN first ELSE NextRow(g[i - 1], i, a[i], b)
<1>6. RowsRead(a, b, g)
  <2>1. g = [i \in 0 .. last |-> g[i]]
    BY <1>3
  <2>2. \A i \in 0 .. last : g[i] = Q(i)
    <3> TAKE i \in 0 .. last
    <3>1. i = 0 \/ i \in 1 .. last
      BY <1>1
    <3> QED BY <1>4, <1>5, <3>1
  <2> HIDE DEF Q
  <2>3. g = [i \in 0 .. last |-> Q(i)]
    BY <2>1, <2>2
  <2> QED BY <2>3, Zenon DEF RowsRead, Q
<1> QED BY <1>6, Zenon DEF RowsOf, RowsRead

(* What the rows are, entry by entry: the edits of nothing, and the least  *)
(* of a letter gone, a letter new and a letter changed.                    *)
LEMMA RowsAre ==
  ASSUME NEW C, NEW a \in Seq(C), NEW b \in Seq(C)
  PROVE  /\ \A i \in 0 .. Len(a) : IsRow(RowsOf(a, b)[i], b)
         /\ \A i \in 1 .. Len(a) : RowsOf(a, b)[i] = NextRow(RowsOf(a, b)[i - 1], i, a[i], b)
         /\ \A j \in 0 .. Len(b) : Edits(RowsOf(a, b), 0, j) = j
<1> DEFINE last == Len(a)
           R == RowsOf(a, b)
           first == [j \in 1 .. Len(b) + 1 |-> j - 1]
<1>1. last \in Nat /\ Len(b) \in Nat
  OBVIOUS
<1>2. RowsRead(a, b, R)
  BY RowsExist
<1> HIDE DEF R
<1>3. \A i \in 0 .. last : R[i] = IF i = 0 THEN first ELSE NextRow(R[i - 1], i, a[i], b)
  BY <1>2 DEF RowsRead
<1>4. R[0] = first /\ \A i \in 1 .. last : R[i] = NextRow(R[i - 1], i, a[i], b)
  <2>1. 0 \in 0 .. last /\ \A i \in 1 .. last : i \in 0 .. last /\ i # 0
    BY <1>1
  <2> HIDE DEF first
  <2> QED BY <1>3, <2>1
<1> DEFINE S == {i \in Nat : i \in 0 .. last => IsRow(R[i], b)}
<1>5. 0 \in S
  <2>1. first \in Seq(Nat) /\ Len(first) = Len(b) + 1
    BY <1>1
  <2> HIDE DEF first
  <2>2. IsRow(R[0], b)
    BY <1>4, <2>1 DEF IsRow
  <2> QED BY <2>2
<1>6. ASSUME NEW i \in Nat, i \in S PROVE i + 1 \in S
  <2> SUFFICES ASSUME i + 1 \in 0 .. last PROVE IsRow(R[i + 1], b)
    OBVIOUS
  <2>1. i \in 0 .. last /\ i + 1 \in 1 .. last /\ (i + 1) - 1 = i
    BY <1>1
  <2>2. IsRow(R[i], b)
    BY <1>6, <2>1
  <2>3. IsRow(NextRow(R[i], i + 1, a[i + 1], b), b)
    <3> DEFINE p == R[i]
               c == a[i + 1]
    <3>1. IsRow(p, b) /\ i + 1 \in Nat
      BY <2>2
    <3> HIDE DEF p, c
    <3>2. IsRow(NextRow(p, i + 1, c, b), b)
      BY <3>1, NextRowIs
    <3> QED BY <3>2 DEF p, c
  <2> QED BY <1>4, <2>1, <2>3
<1> HIDE DEF S
<1>7. Nat \subseteq S
  BY <1>5, <1>6, NatSetInduction
<1>8. \A i \in 0 .. last : IsRow(R[i], b)
  BY <1>1, <1>7 DEF S
<1>9. \A j \in 0 .. Len(b) : Edits(R, 0, j) = j
  BY <1>1, <1>4 DEF Edits
<1> QED BY <1>4, <1>8, <1>9 DEF R

(* A number of edits is a number. *)
LEMMA EditsNat ==
  ASSUME NEW C, NEW a \in Seq(C), NEW b \in Seq(C)
  PROVE  \A i \in 0 .. Len(a) : \A j \in 0 .. Len(b) : Edits(RowsOf(a, b), i, j) \in Nat
<1> TAKE i \in 0 .. Len(a)
<1> TAKE j \in 0 .. Len(b)
<1>1. IsRow(RowsOf(a, b)[i], b)
  BY RowsAre
<1>2. j + 1 \in 1 .. Len(b) + 1
  OBVIOUS
<1> HIDE DEF RowsOf
<1> QED BY <1>1, <1>2 DEF IsRow, Edits

(* The fewest edits, from the fewest for what is one rune shorter. *)
LEMMA EditsStep ==
  ASSUME NEW C, NEW a \in Seq(C), NEW b \in Seq(C)
  PROVE  LET E(i, j) == Edits(RowsOf(a, b), i, j)
         IN /\ \A i \in 0 .. Len(a) : E(i, 0) = i
            /\ \A i \in 1 .. Len(a) : \A j \in 1 .. Len(b) :
                 /\ E(i, j) <= E(i - 1, j) + 1
                 /\ E(i, j) <= E(i, j - 1) + 1
                 /\ E(i, j) <= E(i - 1, j - 1) + Cost(a[i], b[j])
                 /\ \/ E(i, j) = E(i - 1, j) + 1
                    \/ E(i, j) = E(i, j - 1) + 1
                    \/ E(i, j) = E(i - 1, j - 1) + Cost(a[i], b[j])
<1> DEFINE R == RowsOf(a, b)
           E(i, j) == Edits(R, i, j)
<1>1. /\ \A i \in 0 .. Len(a) : IsRow(R[i], b)
      /\ \A i \in 1 .. Len(a) : R[i] = NextRow(R[i - 1], i, a[i], b)
      /\ \A j \in 0 .. Len(b) : Edits(R, 0, j) = j
  BY RowsAre
<1>2. Len(a) \in Nat /\ Len(b) \in Nat
  OBVIOUS
<1> HIDE DEF R
<1>3. ASSUME NEW i \in 0 .. Len(a) PROVE E(i, 0) = i
  <2>1. CASE i = 0
    BY <1>1, <1>2, <2>1
  <2>2. CASE i # 0
    <3>1. i \in 1 .. Len(a) /\ i - 1 \in 0 .. Len(a) /\ i \in Nat
      BY <1>2, <2>2
    <3>2. NextRow(R[i - 1], i, a[i], b)[1] = i
      <4> DEFINE p == R[i - 1]
                 c == a[i]
      <4>1. IsRow(p, b) /\ i \in Nat
        BY <1>1, <3>1
      <4> HIDE DEF p, c
      <4>2. NextRow(p, i, c, b)[1] = i
        BY <4>1, NextRowIs
      <4> QED BY <4>2 DEF p, c
    <3> QED BY <1>1, <3>1, <3>2 DEF Edits
  <2> QED BY <2>1, <2>2
<1>4. ASSUME NEW i \in 1 .. Len(a), NEW j \in 1 .. Len(b)
      PROVE  /\ E(i, j) <= E(i - 1, j) + 1
             /\ E(i, j) <= E(i, j - 1) + 1
             /\ E(i, j) <= E(i - 1, j - 1) + Cost(a[i], b[j])
             /\ \/ E(i, j) = E(i - 1, j) + 1
                \/ E(i, j) = E(i, j - 1) + 1
                \/ E(i, j) = E(i - 1, j - 1) + Cost(a[i], b[j])
  <2> DEFINE p == R[i - 1]
             r == R[i]
             c == a[i]
             row == SubSeq(r, 1, j)
  <2>1. i - 1 \in 0 .. Len(a) /\ i \in 0 .. Len(a) /\ i \in Nat /\ j \in Nat /\ (j - 1) + 1 = j
    BY <1>2
  <2>2. IsRow(p, b) /\ IsRow(r, b) /\ r = NextRow(p, i, c, b)
    BY <1>1, <2>1
  <2> HIDE DEF p, r, c
  <2>3. r[j + 1] = Entry(p, c, b, r, j)
    BY <2>1, <2>2, NextRowIs
  <2>4. row \in Seq(Nat) /\ Len(row) = j /\ row[j] = r[j]
    <3>0. r \in Seq(Nat) /\ Len(r) = Len(b) + 1
      BY <2>2 DEF IsRow
    <3>1. r \in Seq(Nat) /\ 1 \in 1 .. Len(r) /\ j \in 1 .. Len(r) /\ 1 <= j
      BY <1>2, <2>1, <3>0
    <3>2. Len(SubSeq(r, 1, j)) = j - 1 + 1 /\ \A x \in 1 .. j - 1 + 1 : SubSeq(r, 1, j)[x] = r[1 + x - 1]
      BY <3>1, SubSeqOf
    <3>3. SubSeq(r, 1, j) \in Seq(Nat)
      BY <3>1, SubSeqOf
    <3>4. j \in 1 .. j - 1 + 1 /\ 1 + j - 1 = j /\ j - 1 + 1 = j
      BY <2>1
    <3> QED BY <3>2, <3>3, <3>4
  <2>5. Entry(p, c, b, r, j) = Entry(p, c, b, row, j)
    BY <2>4 DEF Entry
  <2> HIDE DEF row
  <2>6. /\ Entry(p, c, b, row, j) <= p[j + 1] + 1
        /\ Entry(p, c, b, row, j) <= row[j] + 1
        /\ Entry(p, c, b, row, j) <= p[j] + Cost(c, b[j])
        /\ \/ Entry(p, c, b, row, j) = p[j + 1] + 1
           \/ Entry(p, c, b, row, j) = row[j] + 1
           \/ Entry(p, c, b, row, j) = p[j] + Cost(c, b[j])
    BY <2>2, <2>4, EntryNat
  <2>7. E(i, j) = r[j + 1] /\ E(i - 1, j) = p[j + 1] /\ E(i, j - 1) = r[j] /\ E(i - 1, j - 1) = p[j]
    BY <2>1 DEF Edits, p, r
  <2>8. c = a[i]
    BY DEF c
  <2> QED BY <2>3, <2>4, <2>5, <2>6, <2>7, <2>8
<1>5. \A i \in 0 .. Len(a) : E(i, 0) = i
  BY <1>3
<1>6. \A i \in 1 .. Len(a) : \A j \in 1 .. Len(b) :
                 /\ E(i, j) <= E(i - 1, j) + 1
                 /\ E(i, j) <= E(i, j - 1) + 1
                 /\ E(i, j) <= E(i - 1, j - 1) + Cost(a[i], b[j])
                 /\ \/ E(i, j) = E(i - 1, j) + 1
                    \/ E(i, j) = E(i, j - 1) + 1
                    \/ E(i, j) = E(i - 1, j - 1) + Cost(a[i], b[j])
  BY <1>4
<1> HIDE DEF E
<1>7. \A i, j : E(i, j) = Edits(RowsOf(a, b), i, j)
  BY DEF E, R
<1> QED BY <1>5, <1>6, <1>7

(* The two texts' distance is the last entry. *)
LEMMA DistanceIs ==
  ASSUME NEW a, NEW b
  PROVE  EditDistance(a, b) = Edits(RowsOf(a, b), Len(a), Len(b))
BY DEF EditDistance, Edits, RowsOf

(* The rows of two texts that begin alike begin alike. *)
LEMMA RowsAlike ==
  ASSUME NEW C, NEW a \in Seq(C), NEW m \in Seq(C), NEW b \in Seq(C),
         NEW k \in Nat, k <= Len(a), k <= Len(m), \A i \in 1 .. k : a[i] = m[i]
  PROVE  \A i \in 0 .. k : RowsOf(a, b)[i] = RowsOf(m, b)[i]
<1> DEFINE R == RowsOf(a, b)
           Q == RowsOf(m, b)
           S == {i \in Nat : i \in 0 .. k => R[i] = Q[i]}
<1>1. /\ RowsRead(a, b, R) /\ RowsRead(m, b, Q)
      /\ \A i \in 1 .. Len(a) : R[i] = NextRow(R[i - 1], i, a[i], b)
      /\ \A i \in 1 .. Len(m) : Q[i] = NextRow(Q[i - 1], i, m[i], b)
  BY RowsExist, RowsAre
<1> HIDE DEF R, Q
<1>2. 0 \in S
  <2>1. 0 \in 0 .. Len(a) /\ 0 \in 0 .. Len(m)
    OBVIOUS
  <2>2. R[0] = Q[0]
    BY <1>1, <2>1 DEF RowsRead
  <2> QED BY <2>2
<1>3. ASSUME NEW i \in Nat, i \in S PROVE i + 1 \in S
  <2> SUFFICES ASSUME i + 1 \in 0 .. k PROVE R[i + 1] = Q[i + 1]
    OBVIOUS
  <2>1. i \in 0 .. k /\ i + 1 \in 1 .. k /\ (i + 1) - 1 = i /\ i + 1 \in 1 .. Len(a) /\ i + 1 \in 1 .. Len(m)
    OBVIOUS
  <2>2. R[i + 1] = NextRow(R[i], i + 1, a[i + 1], b)
    BY <1>1, <2>1
  <2>3. Q[i + 1] = NextRow(Q[i], i + 1, m[i + 1], b)
    BY <1>1, <2>1
  <2> QED BY <1>3, <2>1, <2>2, <2>3
<1> HIDE DEF S
<1>4. Nat \subseteq S
  BY <1>2, <1>3, NatSetInduction
<1>5. \A i \in 0 .. k : R[i] = Q[i]
  BY <1>4 DEF S
<1> QED BY <1>5 DEF R, Q

(* Every entry is at most one more than the one to its left.               *)
LEMMA EditsAlong ==
  ASSUME NEW C, NEW a \in Seq(C), NEW b \in Seq(C)
  PROVE  \A i \in 0 .. Len(a) : \A j \in 1 .. Len(b) :
           Edits(RowsOf(a, b), i, j) <= Edits(RowsOf(a, b), i, j - 1) + 1
<1> DEFINE E(i, j) == Edits(RowsOf(a, b), i, j)
<1>1. Len(a) \in Nat /\ Len(b) \in Nat
  OBVIOUS
<1>2. \A j \in 0 .. Len(b) : E(0, j) = j
  BY RowsAre
<1>3. \A i \in 1 .. Len(a) : \A j \in 1 .. Len(b) : E(i, j) <= E(i, j - 1) + 1
  BY EditsStep
<1> HIDE DEF E
<1>4. ASSUME NEW i \in 0 .. Len(a), NEW j \in 1 .. Len(b) PROVE E(i, j) <= E(i, j - 1) + 1
  <2>1. CASE i = 0
    <3>1. j \in 0 .. Len(b) /\ j - 1 \in 0 .. Len(b) /\ j \in Nat
      BY <1>1
    <3>2. E(0, j) = j /\ E(0, j - 1) = j - 1
      BY <1>2, <3>1
    <3> QED BY <2>1, <3>1, <3>2
  <2>2. CASE i # 0
    <3>1. i \in 1 .. Len(a)
      BY <1>1, <2>2
    <3> QED BY <1>3, <3>1
  <2> QED BY <2>1, <2>2
<1> QED BY <1>4 DEF E

(* A row is at most one more, anywhere, than another.                      *)
NearRow(R, i, Q, k, b) == \A j \in 0 .. Len(b) : Edits(R, i, j) <= Edits(Q, k, j) + 1

(* Rows next to each other are that near.                                  *)
LEMMA RowsNear ==
  ASSUME NEW C, NEW a \in Seq(C), NEW b \in Seq(C), NEW i \in 1 .. Len(a)
  PROVE  /\ NearRow(RowsOf(a, b), i, RowsOf(a, b), i - 1, b)
         /\ NearRow(RowsOf(a, b), i - 1, RowsOf(a, b), i, b)
<1> DEFINE R == RowsOf(a, b)
           E(x, y) == Edits(R, x, y)
           last == Len(b)
<1>1. Len(a) \in Nat /\ last \in Nat /\ i \in Nat /\ i - 1 \in Nat /\ i - 1 \in 0 .. Len(a) /\ i \in 0 .. Len(a)
  OBVIOUS
<1>2. \A x \in 0 .. Len(a) : \A y \in 0 .. last : E(x, y) \in Nat
  BY EditsNat
<1>3. \A x \in 0 .. Len(a) : \A y \in 1 .. last : E(x, y) <= E(x, y - 1) + 1
  BY EditsAlong
<1>4. /\ \A x \in 0 .. Len(a) : E(x, 0) = x
      /\ \A x \in 1 .. Len(a) : \A y \in 1 .. last :
           /\ E(x, y) <= E(x - 1, y) + 1
           /\ \/ E(x, y) = E(x - 1, y) + 1
              \/ E(x, y) = E(x, y - 1) + 1
              \/ E(x, y) = E(x - 1, y - 1) + Cost(a[x], b[y])
  BY EditsStep
<1>5. \A x, y : Cost(x, y) \in Nat
  BY DEF Cost
<1> HIDE DEF E, R
<1>6. E(i, 0) = i /\ E(i - 1, 0) = i - 1
  BY <1>1, <1>4
<1>7. ASSUME NEW j \in 0 .. last PROVE E(i, j) <= E(i - 1, j) + 1
  <2>1. CASE j = 0
    BY <1>1, <1>6, <2>1
  <2>2. CASE j # 0
    <3>1. j \in 1 .. last
      BY <1>1, <2>2
    <3> QED BY <1>4, <3>1
  <2> QED BY <2>1, <2>2
<1> DEFINE Good(j) == E(i - 1, j) <= E(i, j) + 1
           S == {j \in Nat : j \in 0 .. last => Good(j)}
<1>8. 0 \in S
  <2>1. Good(0)
    BY <1>1, <1>6
  <2> HIDE DEF Good
  <2> QED BY <2>1
<1>9. ASSUME NEW j \in Nat, j \in S PROVE j + 1 \in S
  <2> SUFFICES ASSUME j + 1 \in 0 .. last PROVE Good(j + 1)
    OBVIOUS
  <2>1. j \in 0 .. last /\ j + 1 \in 1 .. last /\ (j + 1) - 1 = j
    BY <1>1
  <2>2. E(i - 1, j) <= E(i, j) + 1
    BY <1>9, <2>1
  <2>3. E(i - 1, j + 1) <= E(i - 1, j) + 1
    BY <1>1, <1>3, <2>1
  <2>4. /\ E(i, j) \in Nat /\ E(i - 1, j) \in Nat /\ E(i, j + 1) \in Nat /\ E(i - 1, j + 1) \in Nat
    BY <1>1, <1>2, <2>1
  <2>5. \/ E(i, j + 1) = E(i - 1, j + 1) + 1
        \/ E(i, j + 1) = E(i, j) + 1
        \/ E(i, j + 1) = E(i - 1, j) + Cost(a[i], b[j + 1])
    BY <1>4, <2>1
  <2>6. Cost(a[i], b[j + 1]) \in Nat
    BY <1>5
  <2> DEFINE c == Cost(a[i], b[j + 1])
             here == E(i, j + 1)
             above == E(i - 1, j + 1)
             left == E(i, j)
             both == E(i - 1, j)
  <2> HIDE DEF c, here, above, left, both
  <2>7. both <= left + 1 /\ above <= both + 1
    BY <2>2, <2>3 DEF above, left, both
  <2>8. here = above + 1 \/ here = left + 1 \/ here = both + c
    BY <2>5 DEF c, here, above, left, both
  <2>9. left \in Nat /\ both \in Nat /\ here \in Nat /\ above \in Nat /\ c \in Nat
    BY <2>4, <2>6 DEF c, here, above, left, both
  <2>10. above <= here + 1
    BY <2>7, <2>8, <2>9
  <2> QED BY <2>10 DEF here, above
<1> HIDE DEF S
<1>10. Nat \subseteq S
  BY <1>8, <1>9, NatSetInduction
<1>11. \A j \in 0 .. last : Good(j)
  BY <1>10 DEF S
<1> QED BY <1>7, <1>11 DEF NearRow, E, R

(* Two rows that follow near ones, by the same letter, or by others from   *)
(* the same row, are near.                                                 *)
LEMMA NearOn ==
  ASSUME NEW C, NEW a \in Seq(C), NEW m \in Seq(C), NEW b \in Seq(C),
         NEW i \in 1 .. Len(a), NEW k \in 1 .. Len(m),
         \/ a[i] = m[k] /\ NearRow(RowsOf(a, b), i - 1, RowsOf(m, b), k - 1, b)
         \/ i = k /\ RowsOf(a, b)[i - 1] = RowsOf(m, b)[i - 1]
  PROVE  NearRow(RowsOf(a, b), i, RowsOf(m, b), k, b)
<1> DEFINE R == RowsOf(a, b)
           Q == RowsOf(m, b)
           E(x, y) == Edits(R, x, y)
           F(x, y) == Edits(Q, x, y)
           last == Len(b)
<1>1. Len(a) \in Nat /\ last \in Nat /\ i - 1 \in Nat /\ i - 1 \in 0 .. Len(a) /\ i \in 0 .. Len(a)
  OBVIOUS
<1>2. Len(m) \in Nat /\ k - 1 \in Nat /\ k - 1 \in 0 .. Len(m) /\ k \in 0 .. Len(m) /\ i \in Nat /\ k \in Nat
  OBVIOUS
<1>3. \A x \in 0 .. Len(a) : \A y \in 0 .. last : E(x, y) \in Nat
  BY EditsNat
<1>4. \A x \in 0 .. Len(m) : \A y \in 0 .. last : F(x, y) \in Nat
  BY EditsNat
<1>5. /\ \A x \in 0 .. Len(a) : E(x, 0) = x
      /\ \A x \in 1 .. Len(a) : \A y \in 1 .. last :
           /\ E(x, y) <= E(x - 1, y) + 1
           /\ E(x, y) <= E(x, y - 1) + 1
           /\ E(x, y) <= E(x - 1, y - 1) + Cost(a[x], b[y])
  BY EditsStep
<1>6. /\ \A x \in 0 .. Len(m) : F(x, 0) = x
      /\ \A x \in 1 .. Len(m) : \A y \in 1 .. last :
           \/ F(x, y) = F(x - 1, y) + 1
           \/ F(x, y) = F(x, y - 1) + 1
           \/ F(x, y) = F(x - 1, y - 1) + Cost(m[x], b[y])
  BY EditsStep
<1>7. \A x, y : Cost(x, y) \in {0, 1}
  BY DEF Cost
<1>8. \/ a[i] = m[k] /\ \A y \in 0 .. last : E(i - 1, y) <= F(k - 1, y) + 1
      \/ i = k /\ \A y \in 0 .. last : E(i - 1, y) = F(k - 1, y)
  BY DEF NearRow, Edits
<1> HIDE DEF E, F, R, Q
<1>9. \A y \in 0 .. last : E(i - 1, y) <= F(k - 1, y) + 1
  <2> TAKE y \in 0 .. last
  <2>1. E(i - 1, y) \in Nat /\ F(k - 1, y) \in Nat
    BY <1>1, <1>2, <1>3, <1>4
  <2> QED BY <1>8, <2>1
<1> DEFINE Good(j) == E(i, j) <= F(k, j) + 1
           S == {j \in Nat : j \in 0 .. last => Good(j)}
<1>10. 0 \in S
  <2>1. E(i, 0) = i /\ F(k, 0) = k /\ E(i - 1, 0) = i - 1 /\ F(k - 1, 0) = k - 1
    BY <1>1, <1>2, <1>5, <1>6
  <2>2. E(i - 1, 0) <= F(k - 1, 0) + 1
    BY <1>1, <1>9
  <2>3. Good(0)
    BY <1>1, <1>2, <2>1, <2>2
  <2> HIDE DEF Good
  <2> QED BY <2>3
<1>11. ASSUME NEW j \in Nat, j \in S PROVE j + 1 \in S
  <2> SUFFICES ASSUME j + 1 \in 0 .. last PROVE Good(j + 1)
    OBVIOUS
  <2>1. j \in 0 .. last /\ j + 1 \in 1 .. last /\ (j + 1) - 1 = j
    BY <1>1
  <2>2. E(i, j) <= F(k, j) + 1
    BY <1>11, <2>1
  <2>3. /\ E(i, j) \in Nat /\ E(i - 1, j) \in Nat /\ E(i, j + 1) \in Nat /\ E(i - 1, j + 1) \in Nat
        /\ F(k, j) \in Nat /\ F(k - 1, j) \in Nat /\ F(k, j + 1) \in Nat /\ F(k - 1, j + 1) \in Nat
    BY <1>1, <1>2, <1>3, <1>4, <2>1
  <2>4. /\ E(i, j + 1) <= E(i - 1, j + 1) + 1
        /\ E(i, j + 1) <= E(i, j) + 1
        /\ E(i, j + 1) <= E(i - 1, j) + Cost(a[i], b[j + 1])
    BY <1>5, <2>1
  <2>5. \/ F(k, j + 1) = F(k - 1, j + 1) + 1
        \/ F(k, j + 1) = F(k, j) + 1
        \/ F(k, j + 1) = F(k - 1, j) + Cost(m[k], b[j + 1])
    BY <1>6, <2>1
  <2>6. E(i - 1, j) <= F(k - 1, j) + 1 /\ E(i - 1, j + 1) <= F(k - 1, j + 1) + 1
    BY <1>9, <2>1
  <2> DEFINE c == Cost(a[i], b[j + 1])
             d == Cost(m[k], b[j + 1])
             x == E(i, j + 1)
             u == E(i - 1, j + 1)
             v == E(i, j)
             w == E(i - 1, j)
             y == F(k, j + 1)
             p == F(k - 1, j + 1)
             q == F(k, j)
             r == F(k - 1, j)
  <2>7. /\ c \in {0, 1} /\ d \in {0, 1} /\ x \in Nat /\ u \in Nat /\ v \in Nat /\ w \in Nat
        /\ y \in Nat /\ p \in Nat /\ q \in Nat /\ r \in Nat
    BY <2>3, <1>7
  <2>8. x <= u + 1 /\ x <= v + 1 /\ x <= w + c /\ v <= q + 1 /\ w <= r + 1 /\ u <= p + 1
    BY <2>2, <2>4, <2>6
  <2>9. y = p + 1 \/ y = q + 1 \/ y = r + d
    BY <2>5
  <2>10. c = d \/ w = r
    <3>1. CASE a[i] = m[k]
      BY <3>1
    <3>2. CASE \A z \in 0 .. last : E(i - 1, z) = F(k - 1, z)
      BY <2>1, <3>2
    <3> QED BY <1>8, <3>1, <3>2
  <2> HIDE DEF c, d, x, u, v, w, y, p, q, r
  <2>11. x <= y + 1
    <3>1. CASE y = p + 1
      BY <2>7, <2>8, <3>1
    <3>2. CASE y = q + 1
      BY <2>7, <2>8, <3>2
    <3>3. CASE y = r + d
      BY <2>7, <2>8, <2>10, <3>3
    <3> QED BY <2>9, <3>1, <3>2, <3>3
  <2> QED BY <2>11 DEF x, y
<1> HIDE DEF S
<1>12. Nat \subseteq S
  BY <1>10, <1>11, NatSetInduction
<1>13. \A j \in 0 .. last : Good(j)
  BY <1>12 DEF S
<1> QED BY <1>13 DEF NearRow, E, F, R, Q

(* A part of a text, empty or not.                                         *)
LEMMA PartOf ==
  ASSUME NEW C, NEW s \in Seq(C), NEW m \in Nat, NEW last \in Nat, 1 <= m, last <= Len(s)
  PROVE  LET t == SubSeq(s, m, last)
             k == IF m <= last THEN last - m + 1 ELSE 0
         IN t \in Seq(C) /\ Len(t) = k /\ \A i \in 1 .. k : t[i] = s[m + i - 1]
<1>1. Len(s) \in Nat /\ \A i \in 1 .. Len(s) : s[i] \in C
  OBVIOUS
<1>2. \A i \in m .. last : s[i] \in C
  BY <1>1
<1>3. m \in Int /\ last \in Int
  OBVIOUS
<1>4. /\ SubSeq(s, m, last) \in Seq(C)
      /\ Len(SubSeq(s, m, last)) = IF m <= last THEN last - m + 1 ELSE 0
      /\ \A i \in 1 .. last - m + 1 : SubSeq(s, m, last)[i] = s[m + i - 1]
  BY <1>2, <1>3, SubSeqProperties
<1>5. \A i \in 1 .. (IF m <= last THEN last - m + 1 ELSE 0) : i \in 1 .. last - m + 1
  OBVIOUS
<1> QED BY <1>4, <1>5

(* The first i letters of one text and the first j of another differ, at   *)
(* most, in x letters of the one and y of the other, behind the first h.   *)
Apart(a, i, b, j, h, x, y) ==
  /\ h \in Nat /\ x \in {0, 1} /\ y \in {0, 1}
  /\ h + x <= i /\ h + y <= j /\ i - x = j - y
  /\ \A t \in 1 .. h : a[t] = b[t]
  /\ \A t \in 1 .. i - h - x : a[h + x + t] = b[h + y + t]

(* The last rows of two such texts are near.                               *)
LEMMA NearEnds ==
  ASSUME NEW C, NEW a \in Seq(C), NEW m \in Seq(C), NEW b \in Seq(C),
         NEW h, NEW x, NEW y, Apart(a, Len(a), m, Len(m), h, x, y)
  PROVE  NearRow(RowsOf(a, b), Len(a), RowsOf(m, b), Len(m), b)
<1> DEFINE R == RowsOf(a, b)
           Q == RowsOf(m, b)
           last == Len(a) - h - x
           Good(t) == NearRow(R, h + x + t, Q, h + y + t, b)
           S == {t \in Nat : t \in 0 .. last => Good(t)}
<1>1. /\ Len(a) \in Nat /\ Len(m) \in Nat /\ Len(b) \in Nat /\ h \in Nat /\ x \in {0, 1} /\ y \in {0, 1}
      /\ h + x <= Len(a) /\ h + y <= Len(m) /\ Len(a) - x = Len(m) - y /\ last \in Nat
      /\ \A t \in 1 .. h : a[t] = m[t]
      /\ \A t \in 1 .. last : a[h + x + t] = m[h + y + t]
  BY DEF Apart
<1>2. R[h] = Q[h]
  <2>1. \A i \in 0 .. h : R[i] = Q[i]
    BY <1>1, RowsAlike
  <2> QED BY <1>1, <2>1
<1>3. \A i \in 0 .. Len(a) : \A j \in 0 .. Len(b) : Edits(R, i, j) \in Nat
  BY EditsNat
<1>4. 0 \in S
  <2>1. CASE x = 0 /\ y = 0
    <3>1. h \in 0 .. Len(a) /\ h + x + 0 = h /\ h + y + 0 = h
      BY <1>1, <2>1
    <3> HIDE DEF R, Q
    <3>2. \A j \in 0 .. Len(b) : Edits(R, h, j) <= Edits(Q, h, j) + 1
      <4> TAKE j \in 0 .. Len(b)
      <4>1. Edits(R, h, j) = Edits(Q, h, j) /\ Edits(R, h, j) \in Nat
        BY <1>2, <1>3, <3>1 DEF Edits
      <4> QED BY <4>1
    <3>3. NearRow(R, h, Q, h, b)
      BY <3>2 DEF NearRow
    <3> QED BY <3>1, <3>3
  <2>2. CASE x = 1 /\ y = 0
    <3>1. h + 1 \in 1 .. Len(a) /\ h + x + 0 = h + 1 /\ h + y + 0 = h /\ (h + 1) - 1 = h
      BY <1>1, <2>2
    <3>2. NearRow(R, h + 1, R, (h + 1) - 1, b)
      BY <3>1, RowsNear
    <3> HIDE DEF R, Q
    <3>3. NearRow(R, h + 1, Q, h, b)
      BY <1>2, <3>1, <3>2 DEF NearRow, Edits
    <3> QED BY <3>1, <3>3
  <2>3. CASE x = 0 /\ y = 1
    <3>1. h + 1 \in 1 .. Len(m) /\ h + x + 0 = h /\ h + y + 0 = h + 1 /\ (h + 1) - 1 = h
      BY <1>1, <2>3
    <3>2. NearRow(Q, (h + 1) - 1, Q, h + 1, b)
      BY <3>1, RowsNear
    <3> HIDE DEF R, Q
    <3>3. NearRow(R, h, Q, h + 1, b)
      BY <1>2, <3>1, <3>2 DEF NearRow, Edits
    <3> QED BY <3>1, <3>3
  <2>4. CASE x = 1 /\ y = 1
    <3>1. h + 1 \in 1 .. Len(a) /\ h + 1 \in 1 .. Len(m) /\ h + x + 0 = h + 1 /\ h + y + 0 = h + 1 /\ (h + 1) - 1 = h
      BY <1>1, <2>4
    <3> DEFINE i == h + 1
    <3>4. i \in 1 .. Len(a) /\ i \in 1 .. Len(m) /\ i - 1 = h
      BY <3>1
    <3> HIDE DEF i
    <3>2. i \in 1 .. Len(a) /\ i \in 1 .. Len(m) /\ R[i - 1] = Q[i - 1]
      BY <1>2, <3>4
    <3>3. NearRow(R, i, Q, i, b)
      BY <3>2, NearOn
    <3> QED BY <3>1, <3>3 DEF i
  <2>5. Good(0)
    BY <1>1, <2>1, <2>2, <2>3, <2>4
  <2> HIDE DEF Good
  <2> QED BY <2>5
<1>5. ASSUME NEW t \in Nat, t \in S PROVE t + 1 \in S
  <2> SUFFICES ASSUME t + 1 \in 0 .. last PROVE Good(t + 1)
    OBVIOUS
  <2> DEFINE i == h + x + t + 1
             k == h + y + t + 1
  <2>1. /\ t \in 0 .. last /\ t + 1 \in 1 .. last /\ i \in 1 .. Len(a) /\ k \in 1 .. Len(m)
        /\ i - 1 = h + x + t /\ k - 1 = h + y + t /\ i = h + x + (t + 1) /\ k = h + y + (t + 1)
    BY <1>1
  <2>2. a[i] = m[k]
    <3>1. a[h + x + (t + 1)] = m[h + y + (t + 1)]
      <4> HIDE DEF last
      <4>1. t + 1 \in 1 .. last
        BY <2>1
      <4>2. \A o \in 1 .. last : a[h + x + o] = m[h + y + o]
        BY <1>1
      <4> QED BY <4>1, <4>2, Zenon
    <3> HIDE DEF i, k
    <3> QED BY <2>1, <3>1
  <2>3. NearRow(R, i - 1, Q, k - 1, b)
    <3>1. Good(t)
      <4> HIDE DEF Good
      <4> QED BY <1>5, <2>1
    <3> HIDE DEF R, Q
    <3> QED BY <2>1, <3>1
  <2> HIDE DEF i, k
  <2>4. NearRow(R, i, Q, k, b)
    BY <2>1, <2>2, <2>3, NearOn
  <2> QED BY <2>1, <2>4
<1> HIDE DEF S, Good
<1>6. Nat \subseteq S
  BY <1>4, <1>5, NatSetInduction
<1>7. Good(last)
  BY <1>1, <1>6 DEF S
<1>8. h + x + last = Len(a) /\ h + y + last = Len(m)
  BY <1>1
<1> QED BY <1>7, <1>8 DEF Good

(* One edit more or less.                                                  *)
LEMMA OneMore ==
  ASSUME NEW C, NEW a \in Seq(C), NEW m \in Seq(C), NEW b \in Seq(C),
         NEW h, NEW x, NEW y, Apart(a, Len(a), m, Len(m), h, x, y)
  PROVE  /\ EditDistance(a, b) \in Nat /\ EditDistance(m, b) \in Nat
         /\ EditDistance(a, b) <= EditDistance(m, b) + 1
<1>1. NearRow(RowsOf(a, b), Len(a), RowsOf(m, b), Len(m), b)
  BY NearEnds
<1>2. Len(a) \in 0 .. Len(a) /\ Len(m) \in 0 .. Len(m) /\ Len(b) \in 0 .. Len(b)
  OBVIOUS
<1>3. Edits(RowsOf(a, b), Len(a), Len(b)) <= Edits(RowsOf(m, b), Len(m), Len(b)) + 1
  BY <1>1, <1>2 DEF NearRow
<1>4. Edits(RowsOf(a, b), Len(a), Len(b)) \in Nat
  BY <1>2, EditsNat
<1>5. Edits(RowsOf(m, b), Len(m), Len(b)) \in Nat
  BY <1>2, EditsNat
<1> QED BY <1>3, <1>4, <1>5, DistanceIs

(* A text is no edits from itself.                                         *)
LEMMA NoEdits ==
  ASSUME NEW C, NEW b \in Seq(C)
  PROVE  EditDistance(b, b) = 0
<1> DEFINE E(i, j) == Edits(RowsOf(b, b), i, j)
           last == Len(b)
           S == {i \in Nat : i \in 0 .. last => E(i, i) = 0}
<1>1. last \in Nat
  OBVIOUS
<1>2. \A i \in 0 .. last : \A j \in 0 .. last : E(i, j) \in Nat
  BY EditsNat
<1>3. /\ \A i \in 0 .. last : E(i, 0) = i
      /\ \A i \in 1 .. last : \A j \in 1 .. last : E(i, j) <= E(i - 1, j - 1) + Cost(b[i], b[j])
  BY EditsStep
<1>4. \A i \in 1 .. last : Cost(b[i], b[i]) = 0
  BY DEF Cost
<1> HIDE DEF E
<1>5. 0 \in S
  BY <1>1, <1>3
<1>6. ASSUME NEW i \in Nat, i \in S PROVE i + 1 \in S
  <2> SUFFICES ASSUME i + 1 \in 0 .. last PROVE E(i + 1, i + 1) = 0
    OBVIOUS
  <2>1. i \in 0 .. last /\ i + 1 \in 1 .. last /\ (i + 1) - 1 = i
    BY <1>1
  <2>2. E(i, i) = 0
    BY <1>6, <2>1
  <2>3. E(i + 1, i + 1) <= E(i, i) + Cost(b[i + 1], b[i + 1])
    BY <1>3, <2>1
  <2>4. Cost(b[i + 1], b[i + 1]) = 0
    BY <1>4, <2>1
  <2>5. E(i + 1, i + 1) \in Nat
    BY <1>2
  <2> QED BY <2>2, <2>3, <2>4, <2>5
<1> HIDE DEF S
<1>7. Nat \subseteq S
  BY <1>5, <1>6, NatSetInduction
<1>8. E(last, last) = 0
  BY <1>1, <1>7 DEF S
<1> QED BY <1>8, DistanceIs DEF E

(* The lesser of two lengths.                                              *)
LEMMA MinTwo ==
  ASSUME NEW x \in Nat, NEW y \in Nat
  PROVE  Min({x, y}) \in Nat /\ Min({x, y}) <= x /\ Min({x, y}) <= y /\ (Min({x, y}) = x \/ Min({x, y}) = y)
<1> DEFINE S == {x, y}
<1>1. S \in SUBSET Int /\ x \in S /\ y \in S
  OBVIOUS
<1>2. PICK m \in S : m <= x /\ m <= y
  OBVIOUS
<1>3. \A i \in S : m <= i
  BY <1>2
<1> HIDE DEF S
<1>4. Min(S) = m
  BY <1>1, <1>2, <1>3, MinIs
<1> QED BY <1>2, <1>4 DEF S

(* Two texts of the same letters are the same.                             *)
LEMMA SameText ==
  ASSUME NEW C, NEW s \in Seq(C), NEW t \in Seq(C), Len(s) = Len(t), \A i \in 1 .. Len(s) : s[i] = t[i]
  PROVE  s = t
OBVIOUS

(* What a text begins with, and what it ends with.                         *)
LEMMA StartsWith ==
  ASSUME NEW C, NEW s \in Seq(C), NEW h \in 0 .. Len(s)
  PROVE  /\ SubSeq(s, 1, h) \in Seq(C) /\ Len(SubSeq(s, 1, h)) = h
         /\ \A i \in 1 .. h : SubSeq(s, 1, h)[i] = s[i]
<1> DEFINE t == SubSeq(s, 1, h)
<1>1. h \in Nat /\ h <= Len(s) /\ 1 \in Nat /\ 1 <= 1
  OBVIOUS
<1>2. /\ t \in Seq(C) /\ Len(t) = IF 1 <= h THEN h - 1 + 1 ELSE 0
      /\ \A i \in 1 .. (IF 1 <= h THEN h - 1 + 1 ELSE 0) : t[i] = s[1 + i - 1]
  BY <1>1, PartOf
<1>3. (IF 1 <= h THEN h - 1 + 1 ELSE 0) = h /\ \A i \in 1 .. h : 1 + i - 1 = i
  BY <1>1
<1> HIDE DEF t
<1>4. t \in Seq(C) /\ Len(t) = h /\ \A i \in 1 .. h : t[i] = s[i]
  BY <1>2, <1>3
<1> QED BY <1>4 DEF t

(* What is left of a text from one place on, rune by rune. *)
LEMMA EndsWith ==
  ASSUME NEW C, NEW s \in Seq(C), NEW p \in Nat, 1 <= p
  PROVE  LET k == IF p <= Len(s) THEN Len(s) - p + 1 ELSE 0
             t == SubSeq(s, p, Len(s))
         IN t \in Seq(C) /\ Len(t) = k /\ \A i \in 1 .. k : t[i] = s[p + i - 1]
<1>1. Len(s) \in Nat /\ Len(s) <= Len(s)
  OBVIOUS
<1> QED BY <1>1, PartOf

(* Texts one edit apart are that: alike up to a place and behind it.       *)
LEMMA OneEditApart ==
  ASSUME NEW C, NEW a \in Seq(C), NEW b \in Seq(C), OneEdit(a, b)
  PROVE  \E h, x, y : Apart(a, Len(a), b, Len(b), h, x, y)
<1>1. PICK i \in 0 .. Min({Len(a), Len(b)}) :
        /\ SubSeq(a, 1, i) = SubSeq(b, 1, i)
        /\ \E cut \in {<<1, 1>>, <<1, 0>>, <<0, 1>>} :
             SubSeq(a, i + 1 + cut[1], Len(a)) = SubSeq(b, i + 1 + cut[2], Len(b))
  BY DEF OneEdit
<1>2. Len(a) \in Nat /\ Len(b) \in Nat
  OBVIOUS
<1>3. i \in Nat /\ i <= Len(a) /\ i <= Len(b)
  BY <1>2, MinTwo
<1>4. PICK x \in {0, 1}, y \in {0, 1} : SubSeq(a, i + 1 + x, Len(a)) = SubSeq(b, i + 1 + y, Len(b))
  <2>1. PICK cut \in {<<1, 1>>, <<1, 0>>, <<0, 1>>} :
          SubSeq(a, i + 1 + cut[1], Len(a)) = SubSeq(b, i + 1 + cut[2], Len(b))
    BY <1>1
  <2>2. cut[1] \in {0, 1} /\ cut[2] \in {0, 1}
    OBVIOUS
  <2> QED BY <2>1, <2>2
<1>5. \A t \in 1 .. i : a[t] = b[t]
  <2>1. i \in 0 .. Len(a) /\ i \in 0 .. Len(b)
    BY <1>3
  <2>2. \A t \in 1 .. i : SubSeq(a, 1, i)[t] = a[t]
    BY <2>1, StartsWith
  <2>3. \A t \in 1 .. i : SubSeq(b, 1, i)[t] = b[t]
    BY <2>1, StartsWith
  <2> QED BY <1>1, <2>2, <2>3
<1> DEFINE u == SubSeq(a, i + 1 + x, Len(a))
           v == SubSeq(b, i + 1 + y, Len(b))
           p == i + 1 + x
           q == i + 1 + y
<1>6. p \in Nat /\ 1 <= p /\ q \in Nat /\ 1 <= q /\ i + 1 + x = p /\ i + 1 + y = q
  BY <1>3
<1> HIDE DEF p, q
<1>7. /\ Len(u) = IF p <= Len(a) THEN Len(a) - p + 1 ELSE 0
      /\ \A t \in 1 .. (IF p <= Len(a) THEN Len(a) - p + 1 ELSE 0) : u[t] = a[p + t - 1]
  BY <1>6, EndsWith
<1>8. /\ Len(v) = IF q <= Len(b) THEN Len(b) - q + 1 ELSE 0
      /\ \A t \in 1 .. (IF q <= Len(b) THEN Len(b) - q + 1 ELSE 0) : v[t] = b[q + t - 1]
  BY <1>6, EndsWith
<1>9. u = v
  BY <1>4
<1> HIDE DEF u, v
<1>10. CASE i + x <= Len(a) /\ i + y <= Len(b)
  <2>1. Len(a) - x = Len(b) - y /\ Len(u) = Len(a) - i - x /\ Len(v) = Len(b) - i - y
    <3>1. (IF p <= Len(a) THEN Len(a) - p + 1 ELSE 0) = Len(a) - i - x
      BY <1>2, <1>3, <1>6, <1>10
    <3>2. (IF q <= Len(b) THEN Len(b) - q + 1 ELSE 0) = Len(b) - i - y
      BY <1>2, <1>3, <1>6, <1>10
    <3>3. Len(u) = Len(a) - i - x /\ Len(v) = Len(b) - i - y /\ Len(u) = Len(v)
      BY <1>7, <1>8, <1>9, <3>1, <3>2
    <3> QED BY <1>2, <1>3, <3>3
  <2>2. ASSUME NEW t \in 1 .. Len(a) - i - x PROVE a[i + x + t] = b[i + y + t]
    <3>1. p + t - 1 = i + x + t /\ q + t - 1 = i + y + t /\ p <= Len(a) /\ q <= Len(b)
      BY <1>2, <1>3, <1>6, <2>1
    <3>2. u[t] = a[p + t - 1] /\ v[t] = b[q + t - 1]
      BY <1>7, <1>8, <2>1, <3>1
    <3> QED BY <1>9, <3>1, <3>2
  <2>3. Apart(a, Len(a), b, Len(b), i, x, y)
    BY <1>3, <1>5, <1>10, <2>1, <2>2 DEF Apart
  <2> QED BY <2>3
<1>11. CASE ~(i + x <= Len(a) /\ i + y <= Len(b))
  <2>1. \/ Len(a) = i /\ Len(b) = i
        \/ Len(a) = i /\ Len(b) = i + 1
        \/ Len(a) = i + 1 /\ Len(b) = i
    BY <1>2, <1>3, <1>6, <1>7, <1>8, <1>9, <1>11
  <2>2. CASE Len(a) = i /\ Len(b) = i
    <3>1. Apart(a, Len(a), b, Len(b), i, 0, 0)
      BY <1>3, <1>5, <2>2 DEF Apart
    <3> QED BY <3>1
  <2>3. CASE Len(a) = i /\ Len(b) = i + 1
    <3>1. Apart(a, Len(a), b, Len(b), i, 0, 1)
      BY <1>3, <1>5, <2>3 DEF Apart
    <3> QED BY <3>1
  <2>4. CASE Len(a) = i + 1 /\ Len(b) = i
    <3>1. Apart(a, Len(a), b, Len(b), i, 1, 0)
      BY <1>3, <1>5, <2>4 DEF Apart
    <3> QED BY <3>1
  <2> QED BY <2>1, <2>2, <2>3, <2>4
<1> QED BY <1>10, <1>11

(* And the other way.                                                      *)
LEMMA ApartOneEdit ==
  ASSUME NEW C, NEW a \in Seq(C), NEW b \in Seq(C), NEW h, NEW x, NEW y, Apart(a, Len(a), b, Len(b), h, x, y)
  PROVE  OneEdit(a, b)
<1>1. /\ Len(a) \in Nat /\ Len(b) \in Nat /\ h \in Nat /\ x \in {0, 1} /\ y \in {0, 1}
      /\ h + x <= Len(a) /\ h + y <= Len(b) /\ Len(a) - x = Len(b) - y
      /\ \A t \in 1 .. h : a[t] = b[t]
      /\ \A t \in 1 .. Len(a) - h - x : a[h + x + t] = b[h + y + t]
  BY DEF Apart
<1>2. h \in 0 .. Min({Len(a), Len(b)}) /\ 0 \in 0 .. Min({Len(a), Len(b)})
  <2> DEFINE m == Min({Len(a), Len(b)})
  <2>1. m \in Nat /\ (m = Len(a) \/ m = Len(b))
    BY <1>1, MinTwo
  <2> HIDE DEF m
  <2>2. h \in 0 .. m /\ 0 \in 0 .. m
    BY <1>1, <2>1
  <2> QED BY <2>2 DEF m
<1> DEFINE p == h + 1 + x
           q == h + 1 + y
<1>3. p \in Nat /\ 1 <= p /\ q \in Nat /\ 1 <= q /\ p = h + 1 + x /\ q = h + 1 + y
  BY <1>1
<1> HIDE DEF p, q
<1> DEFINE k == Len(a) - h - x
           u == SubSeq(a, p, Len(a))
           v == SubSeq(b, q, Len(b))
<1>4. /\ (IF p <= Len(a) THEN Len(a) - p + 1 ELSE 0) = k /\ k \in Nat
      /\ (IF q <= Len(b) THEN Len(b) - q + 1 ELSE 0) = k
  BY <1>1, <1>3
<1>5. u \in Seq(C) /\ Len(u) = k /\ \A t \in 1 .. k : u[t] = a[p + t - 1]
  <2>1. /\ u \in Seq(C) /\ Len(u) = IF p <= Len(a) THEN Len(a) - p + 1 ELSE 0
        /\ \A t \in 1 .. (IF p <= Len(a) THEN Len(a) - p + 1 ELSE 0) : u[t] = a[p + t - 1]
    BY <1>3, EndsWith
  <2> QED BY <1>4, <2>1
<1>6. v \in Seq(C) /\ Len(v) = k /\ \A t \in 1 .. k : v[t] = b[q + t - 1]
  <2>1. /\ v \in Seq(C) /\ Len(v) = IF q <= Len(b) THEN Len(b) - q + 1 ELSE 0
        /\ \A t \in 1 .. (IF q <= Len(b) THEN Len(b) - q + 1 ELSE 0) : v[t] = b[q + t - 1]
    BY <1>3, EndsWith
  <2> QED BY <1>4, <2>1
<1>7. \A t \in 1 .. k : p + t - 1 = h + x + t /\ q + t - 1 = h + y + t
  BY <1>1, <1>3
<1>8. \A t \in 1 .. k : a[h + x + t] = b[h + y + t]
  BY <1>1
<1> HIDE DEF u, v, k
<1>9. \A t \in 1 .. k : u[t] = v[t]
  BY <1>5, <1>6, <1>7, <1>8
<1>10. u = v
  BY <1>5, <1>6, <1>9, SameText
<1>11. SubSeq(a, 1, h) = SubSeq(b, 1, h)
  <2> DEFINE s == SubSeq(a, 1, h)
             t == SubSeq(b, 1, h)
  <2>1. h \in 0 .. Len(a) /\ h \in 0 .. Len(b)
    BY <1>1
  <2>2. s \in Seq(C) /\ Len(s) = h /\ \A i \in 1 .. h : s[i] = a[i]
    BY <2>1, StartsWith
  <2>3. t \in Seq(C) /\ Len(t) = h /\ \A i \in 1 .. h : t[i] = b[i]
    BY <2>1, StartsWith
  <2> HIDE DEF s, t
  <2>4. s = t
    BY <1>1, <2>2, <2>3, SameText
  <2> QED BY <2>4 DEF s, t
<1>12. CASE x = 0 /\ y = 0
  <2>1. \A i \in 1 .. Len(a) : a[i] = b[i]
    <3> TAKE i \in 1 .. Len(a)
    <3>1. CASE i <= h
      BY <1>1, <3>1
    <3>2. CASE i > h
      <4>1. i - h \in 1 .. Len(a) - h - x /\ h + x + (i - h) = i /\ h + y + (i - h) = i
        BY <1>1, <1>12, <3>2
      <4>2. a[h + x + (i - h)] = b[h + y + (i - h)]
        BY <1>8, <4>1, Zenon DEF k
      <4> QED BY <4>1, <4>2
    <3> QED BY <1>1, <3>1, <3>2
  <2>2. a = b
    BY <1>1, <1>12, <2>1, SameText
  <2> DEFINE cut == <<1, 1>>
  <2>3. SubSeq(a, 1, 0) = SubSeq(b, 1, 0) /\ SubSeq(a, 0 + 1 + cut[1], Len(a)) = SubSeq(b, 0 + 1 + cut[2], Len(b))
    BY <2>2
  <2>4. cut \in {<<1, 1>>, <<1, 0>>, <<0, 1>>}
    OBVIOUS
  <2> HIDE DEF cut
  <2> QED BY <1>2, <2>3, <2>4, Zenon DEF OneEdit
<1>13. CASE ~(x = 0 /\ y = 0)
  <2> DEFINE cut == <<x, y>>
  <2>1. cut \in {<<1, 1>>, <<1, 0>>, <<0, 1>>}
    BY <1>1, <1>13
  <2>2. SubSeq(a, h + 1 + cut[1], Len(a)) = SubSeq(b, h + 1 + cut[2], Len(b))
    BY <1>3, <1>10 DEF u, v
  <2> HIDE DEF cut
  <2> QED BY <1>2, <1>11, <2>1, <2>2, Zenon DEF OneEdit
<1> QED BY <1>12, <1>13

(* Texts one edit apart are at most one edit apart in the rows.            *)
LEMMA OneWithin ==
  ASSUME NEW C, NEW a \in Seq(C), NEW b \in Seq(C), OneEdit(a, b)
  PROVE  EditDistance(a, b) <= 1
<1>1. PICK h, x, y : Apart(a, Len(a), b, Len(b), h, x, y)
  BY OneEditApart
<1>2. /\ EditDistance(a, b) \in Nat
      /\ EditDistance(a, b) <= EditDistance(b, b) + 1
  BY <1>1, OneMore
<1>3. EditDistance(b, b) = 0
  BY NoEdits
<1> QED BY <1>2, <1>3

(* A text with a letter less, a letter more or another letter.             *)
Spliced(a, i, w, g) == SubSeq(a, 1, i - 1) \o w \o SubSeq(a, i + g, Len(a))
IsSpliced(m, a, i, w, g) ==
  /\ Len(m) = Len(a) - g + Len(w)
  /\ \A t \in 1 .. i - 1 : m[t] = a[t]
  /\ \A t \in 1 .. Len(w) : m[i - 1 + t] = w[t]
  /\ \A t \in 1 .. Len(a) - (i - 1) - g : m[i - 1 + Len(w) + t] = a[i - 1 + g + t]
(* A text with a piece of it exchanged, rune by rune. *)
LEMMA SplicedIs ==
  ASSUME NEW C, NEW a \in Seq(C), NEW w \in Seq(C), NEW i \in 1 .. Len(a) + 1, NEW g \in {0, 1},
         i + g <= Len(a) + 1
  PROVE  Spliced(a, i, w, g) \in Seq(C) /\ IsSpliced(Spliced(a, i, w, g), a, i, w, g)
<1> DEFINE h == i - 1
           p == i + g
           u == SubSeq(a, 1, h)
           v == SubSeq(a, p, Len(a))
           k == Len(a) - h - g
           z == Len(w)
           m == (u \o w) \o v
<1>1. Len(a) \in Nat /\ h \in 0 .. Len(a) /\ h \in Nat /\ p \in Nat /\ 1 <= p /\ k \in Nat /\ z \in Nat /\ p = h + g + 1
  OBVIOUS
<1>2. u \in Seq(C) /\ Len(u) = h /\ \A t \in 1 .. h : u[t] = a[t]
  BY <1>1, StartsWith
<1>3. v \in Seq(C) /\ Len(v) = k /\ \A t \in 1 .. k : v[t] = a[p + t - 1]
  <2>1. /\ v \in Seq(C) /\ Len(v) = IF p <= Len(a) THEN Len(a) - p + 1 ELSE 0
        /\ \A t \in 1 .. (IF p <= Len(a) THEN Len(a) - p + 1 ELSE 0) : v[t] = a[p + t - 1]
    BY <1>1, EndsWith
  <2>2. (IF p <= Len(a) THEN Len(a) - p + 1 ELSE 0) = k
    BY <1>1
  <2> QED BY <2>1, <2>2
<1>4. \A t \in 1 .. k : p + t - 1 = h + g + t
  BY <1>1
<1>5. Len(a) - g + Len(w) = h + z + k /\ Spliced(a, i, w, g) = m
  BY <1>1 DEF Spliced
<1>6. k = Len(a) - (i - 1) - g /\ h = i - 1 /\ z = Len(w)
  OBVIOUS
<1> HIDE DEF h, p, u, v, k, z
<1> DEFINE q == u \o w
<1>7. /\ q \in Seq(C) /\ Len(q) = h + z
      /\ \A t \in 1 .. h : q[t] = u[t]
      /\ \A t \in 1 .. z : q[h + t] = w[t]
  <2>1. /\ q \in Seq(C) /\ Len(q) = Len(u) + Len(w)
        /\ \A t \in 1 .. Len(u) + Len(w) : q[t] = IF t <= Len(u) THEN u[t] ELSE w[t - Len(u)]
    BY <1>2, ConcatProperties
  <2> HIDE DEF q
  <2>2. ASSUME NEW t \in 1 .. h PROVE q[t] = u[t]
    <3>1. t \in 1 .. h + z /\ t <= h
      BY <1>1
    <3> QED BY <1>2, <1>6, <2>1, <3>1
  <2>3. ASSUME NEW t \in 1 .. z PROVE q[h + t] = w[t]
    <3>1. h + t \in 1 .. h + z /\ ~(h + t <= h) /\ (h + t) - h = t
      BY <1>1
    <3> QED BY <1>2, <1>6, <2>1, <3>1
  <2> QED BY <1>2, <1>6, <2>1, <2>2, <2>3
<1> HIDE DEF q
<1>8. /\ m \in Seq(C) /\ Len(m) = h + z + k
      /\ \A t \in 1 .. h + z : m[t] = q[t]
      /\ \A t \in 1 .. k : m[h + z + t] = v[t]
  <2>1. /\ q \o v \in Seq(C) /\ Len(q \o v) = Len(q) + Len(v)
        /\ \A t \in 1 .. Len(q) + Len(v) : (q \o v)[t] = IF t <= Len(q) THEN q[t] ELSE v[t - Len(q)]
    BY <1>3, <1>7, ConcatProperties
  <2>2. m = q \o v
    BY DEF q
  <2> HIDE DEF m
  <2>3. ASSUME NEW t \in 1 .. h + z PROVE m[t] = q[t]
    <3>1. t \in 1 .. (h + z) + k /\ t <= h + z
      BY <1>1
    <3> QED BY <1>3, <1>7, <2>1, <2>2, <3>1
  <2>4. ASSUME NEW t \in 1 .. k PROVE m[h + z + t] = v[t]
    <3> DEFINE x == h + z
               y == x + t
    <3>1. y \in 1 .. x + k /\ ~(y <= x) /\ y - x = t /\ Len(q) = x /\ Len(v) = k
      BY <1>1, <1>3, <1>7
    <3> HIDE DEF x, y
    <3>2. m[y] = v[t]
      BY <2>1, <2>2, <3>1
    <3> QED BY <3>2 DEF x, y
  <2> QED BY <1>3, <1>7, <2>1, <2>2, <2>3, <2>4
<1> HIDE DEF m
<1>9. \A t \in 1 .. h : m[t] = a[t]
  <2> TAKE t \in 1 .. h
  <2>1. t \in 1 .. h + z
    BY <1>1
  <2> QED BY <1>2, <1>7, <1>8, <2>1
<1>10. \A t \in 1 .. z : m[h + t] = w[t]
  <2> TAKE t \in 1 .. z
  <2>1. h + t \in 1 .. h + z
    BY <1>1
  <2> QED BY <1>7, <1>8, <2>1
<1>11. \A t \in 1 .. k : m[h + z + t] = a[h + g + t]
  BY <1>3, <1>4, <1>8
<1>12. Len(m) = Len(a) - g + Len(w)
  BY <1>5, <1>8
<1>13. IsSpliced(m, a, i, w, g)
  BY <1>6, <1>9, <1>10, <1>11, <1>12 DEF IsSpliced
<1> QED BY <1>5, <1>8, <1>13

(* It is one edit from the text.                                           *)
LEMMA SplicedApart ==
  ASSUME NEW C, NEW a \in Seq(C), NEW w \in Seq(C), NEW i \in 1 .. Len(a) + 1, NEW g \in {0, 1},
         i + g <= Len(a) + 1, Len(w) \in {0, 1}
  PROVE  LET m == Spliced(a, i, w, g)
         IN m \in Seq(C) /\ Apart(a, Len(a), m, Len(m), i - 1, g, Len(w))
<1> DEFINE m == Spliced(a, i, w, g)
           h == i - 1
           z == Len(w)
<1>1. /\ m \in Seq(C) /\ Len(m) = Len(a) - g + z
      /\ \A t \in 1 .. h : m[t] = a[t]
      /\ \A t \in 1 .. Len(a) - h - g : m[h + z + t] = a[h + g + t]
  <2>1. m \in Seq(C) /\ IsSpliced(m, a, i, w, g)
    BY SplicedIs
  <2> HIDE DEF m
  <2> QED BY <2>1 DEF IsSpliced
<1>2. Len(a) \in Nat /\ h \in Nat /\ h + g <= Len(a) /\ z \in {0, 1}
  OBVIOUS
<1> HIDE DEF m, h, z
<1>3. h + z <= Len(m) /\ Len(a) - g = Len(m) - z
  BY <1>1, <1>2
<1>4. Apart(a, Len(a), m, Len(m), h, g, z)
  BY <1>1, <1>2, <1>3 DEF Apart
<1> QED BY <1>1, <1>4 DEF m, h, z

(* The texts Edited makes are such.                                        *)
LEMMA EditedIs ==
  ASSUME NEW C, NEW a \in Seq(C), NEW b \in Seq(C), NEW mid \in Edited(a, b)
  PROVE  \E i \in 1 .. Len(a) + 1 : \E g \in {0, 1} : \E w \in Seq(C) :
           i + g <= Len(a) + 1 /\ Len(w) \in {0, 1} /\ mid = Spliced(a, i, w, g)
<1>1. Len(a) \in Nat /\ DOMAIN a = 1 .. Len(a) /\ DOMAIN b = 1 .. Len(b) /\ \A j \in 1 .. Len(b) : b[j] \in C
  OBVIOUS
<1> DEFINE A == {Without(a, i) : i \in DOMAIN a}
           P(i, j, gone) == SubSeq(a, 1, i - 1) \o <<b[j]>> \o SubSeq(a, i + gone, Len(a))
           B == {P(i, j, gone) : i \in 1 .. Len(a) + 1, j \in DOMAIN b, gone \in {0, 1}}
<1>4. mid \in A \cup B
  <2>1. Edited(a, b) = A \cup B
    BY DEF Edited
  <2> HIDE DEF A, B
  <2> QED BY <2>1
<1>2. CASE mid \in A
  <2>1. PICK i \in 1 .. Len(a) : mid = Without(a, i)
    BY <1>1, <1>2
  <2>2. i - 1 \in 0 .. Len(a) /\ i \in Nat
    BY <1>1
  <2>3. SubSeq(a, 1, i - 1) \in Seq(C)
    BY <2>2, StartsWith
  <2>4. SubSeq(a, 1, i - 1) \o <<>> = SubSeq(a, 1, i - 1)
    BY <2>3, ConcatEmptySeq
  <2>5. mid = Spliced(a, i, <<>>, 1)
    BY <2>1, <2>4 DEF Without, Spliced
  <2>6. i \in 1 .. Len(a) + 1 /\ i + 1 <= Len(a) + 1 /\ 1 \in {0, 1} /\ <<>> \in Seq(C) /\ Len(<<>>) \in {0, 1}
    BY <1>1
  <2> QED BY <2>5, <2>6
<1>3. CASE mid \in B
  <2>1. PICK i \in 1 .. Len(a) + 1, j \in 1 .. Len(b), g \in {0, 1} :
          mid = SubSeq(a, 1, i - 1) \o <<b[j]>> \o SubSeq(a, i + g, Len(a))
    <3> HIDE DEF P
    <3>1. \E i \in 1 .. Len(a) + 1, j \in DOMAIN b, g \in {0, 1} : mid = P(i, j, g)
      BY <1>3
    <3> QED BY <1>1, <3>1 DEF P
  <2> DEFINE w == <<b[j]>>
  <2>2. w \in Seq(C) /\ Len(w) \in {0, 1}
    BY <1>1
  <2>3. mid = Spliced(a, i, w, g)
    BY <2>1 DEF Spliced
  <2> HIDE DEF w
  <2>4. CASE i + g <= Len(a) + 1
    BY <2>2, <2>3, <2>4
  <2>5. CASE ~(i + g <= Len(a) + 1)
    <3>1. Len(a) < i + g /\ Len(a) < i + 0 /\ i + g \in Int /\ i + 0 \in Int /\ i + 0 <= Len(a) + 1
      BY <1>1, <2>5
    <3>2. SubSeq(a, i + g, Len(a)) = <<>> /\ SubSeq(a, i + 0, Len(a)) = <<>>
      BY <1>1, <3>1, SubSeqEmpty
    <3>3. mid = Spliced(a, i, w, 0)
      BY <2>3, <3>2 DEF Spliced
    <3> QED BY <2>2, <3>1, <3>3
  <2> QED BY <2>4, <2>5
<1> HIDE DEF A, B
<1> QED BY <1>2, <1>3, <1>4

(* Texts two edits apart are at most two edits apart in the rows.          *)
LEMMA TwoWithin ==
  ASSUME NEW C, NEW a \in Seq(C), NEW b \in Seq(C), TwoEdits(a, b)
  PROVE  EditDistance(a, b) <= 2
<1>1. PICK mid \in Edited(a, b) : OneEdit(mid, b)
  BY DEF TwoEdits
<1>2. PICK i \in 1 .. Len(a) + 1, g \in {0, 1}, w \in Seq(C) :
        i + g <= Len(a) + 1 /\ Len(w) \in {0, 1} /\ mid = Spliced(a, i, w, g)
  BY EditedIs
<1>3. mid \in Seq(C) /\ Apart(a, Len(a), mid, Len(mid), i - 1, g, Len(w))
  BY <1>2, SplicedApart
<1>4. /\ EditDistance(a, b) \in Nat /\ EditDistance(mid, b) \in Nat
      /\ EditDistance(a, b) <= EditDistance(mid, b) + 1
  BY <1>3, OneMore
<1>5. EditDistance(mid, b) <= 1
  BY <1>1, <1>3, OneWithin
<1> QED BY <1>4, <1>5

(* An entry of the rows that a letter gone, a letter new or a letter       *)
(* changed made one more; and back to it along letters that are the same.  *)
Turn(R, i, j) ==
  \/ i = 0 /\ j = 0
  \/ i >= 1 /\ Edits(R, i, j) = Edits(R, i - 1, j) + 1
  \/ j >= 1 /\ Edits(R, i, j) = Edits(R, i, j - 1) + 1
  \/ i >= 1 /\ j >= 1 /\ Edits(R, i, j) = Edits(R, i - 1, j - 1) + 1
Back(R, a, i, b, j, k) ==
  /\ k \in Nat /\ k <= i /\ k <= j
  /\ Edits(R, i, j) = Edits(R, i - k, j - k)
  /\ Turn(R, i - k, j - k)
  /\ \A t \in 1 .. k : a[i - k + t] = b[j - k + t]

(* Where the last edit is made, the way back to it is empty. *)
LEMMA BackHere ==
  ASSUME NEW R, NEW a, NEW b, NEW i \in Nat, NEW j \in Nat, Turn(R, i, j)
  PROVE  Back(R, a, i, b, j, 0)
<1>1. i - 0 = i /\ j - 0 = j /\ 0 \in Nat /\ 0 <= i /\ 0 <= j /\ \A t \in 1 .. 0 : FALSE
  OBVIOUS
<1> QED BY <1>1 DEF Back

(* The way back goes on over a rune the two texts share. *)
LEMMA BackOn ==
  ASSUME NEW R, NEW a, NEW b, NEW i \in Nat, NEW j \in Nat, NEW k, Back(R, a, i, b, j, k),
         Edits(R, i + 1, j + 1) = Edits(R, i, j), a[i + 1] = b[j + 1]
  PROVE  Back(R, a, i + 1, b, j + 1, k + 1)
<1>1. /\ k \in Nat /\ k <= i /\ k <= j
      /\ Edits(R, i, j) = Edits(R, i - k, j - k)
      /\ Turn(R, i - k, j - k)
      /\ \A t \in 1 .. k : a[i - k + t] = b[j - k + t]
  BY DEF Back
<1>2. (i + 1) - (k + 1) = i - k /\ (j + 1) - (k + 1) = j - k /\ k + 1 \in Nat /\ k + 1 <= i + 1 /\ k + 1 <= j + 1
  BY <1>1
<1>3. ASSUME NEW t \in 1 .. k + 1 PROVE a[i - k + t] = b[j - k + t]
  <2>1. CASE t = k + 1
    <3>1. i - k + (k + 1) = i + 1 /\ j - k + (k + 1) = j + 1
      BY <1>1
    <3> QED BY <2>1, <3>1
  <2>2. CASE t \in 1 .. k
    BY <1>1, <2>2, Zenon
  <2> QED BY <1>1, <2>1, <2>2
<1> QED BY <1>1, <1>2, <1>3 DEF Back

(* From every entry of the table there is a way back to the last edit. *)
LEMMA Backwards ==
  ASSUME NEW C, NEW a \in Seq(C), NEW b \in Seq(C)
  PROVE  \A i \in 0 .. Len(a) : \A j \in 0 .. Len(b) : \E k : Back(RowsOf(a, b), a, i, b, j, k)
<1> DEFINE R == RowsOf(a, b)
           E(i, j) == Edits(R, i, j)
           Good(i) == \A j \in 0 .. Len(b) : \E k : Back(R, a, i, b, j, k)
           S == {i \in Nat : i \in 0 .. Len(a) => Good(i)}
<1>1. Len(a) \in Nat /\ Len(b) \in Nat
  OBVIOUS
<1>2. /\ \A i \in 0 .. Len(a) : E(i, 0) = i
      /\ \A i \in 1 .. Len(a) : \A j \in 1 .. Len(b) :
           \/ E(i, j) = E(i - 1, j) + 1
           \/ E(i, j) = E(i, j - 1) + 1
           \/ E(i, j) = E(i - 1, j - 1) + Cost(a[i], b[j])
  BY EditsStep
<1>3. \A j \in 0 .. Len(b) : E(0, j) = j
  BY RowsAre
<1>4. \A i \in 0 .. Len(a) : \A j \in 0 .. Len(b) : E(i, j) \in Nat
  BY EditsNat
<1> HIDE DEF R
<1>5. 0 \in S
  <2>1. ASSUME NEW j \in 0 .. Len(b) PROVE \E k : Back(R, a, 0, b, j, k)
    <3>1. j \in Nat /\ (j # 0 => j >= 1 /\ j - 1 \in 0 .. Len(b))
      BY <1>1
    <3>2. j # 0 => E(0, j) = E(0, j - 1) + 1
      BY <1>3, <3>1
    <3>3. Turn(R, 0, j)
      BY <3>1, <3>2 DEF Turn
    <3>4. Back(R, a, 0, b, j, 0)
      BY <3>1, <3>3, BackHere
    <3> QED BY <3>4
  <2>2. Good(0)
    BY <2>1
  <2> HIDE DEF Good
  <2> QED BY <2>2
<1>6. ASSUME NEW i \in Nat, i \in S PROVE i + 1 \in S
  <2> SUFFICES ASSUME i + 1 \in 0 .. Len(a) PROVE Good(i + 1)
    OBVIOUS
  <2>1. i \in 0 .. Len(a) /\ i + 1 \in 1 .. Len(a) /\ (i + 1) - 1 = i /\ i + 1 \in Nat /\ i + 1 >= 1
    BY <1>1
  <2>2. Good(i)
    <3> HIDE DEF Good
    <3> QED BY <1>6, <2>1
  <2>3. ASSUME NEW j \in 0 .. Len(b) PROVE \E k : Back(R, a, i + 1, b, j, k)
    <3>1. CASE Turn(R, i + 1, j)
      <4>1. Back(R, a, i + 1, b, j, 0)
        BY <1>1, <2>1, <3>1, BackHere
      <4> QED BY <4>1
    <3>2. CASE ~Turn(R, i + 1, j)
      <4>1. j # 0
        <5> SUFFICES ASSUME j = 0 PROVE FALSE
          OBVIOUS
        <5>1. E(i + 1, 0) = i + 1 /\ E(i, 0) = i
          BY <1>2, <2>1
        <5>2. Turn(R, i + 1, 0)
          BY <2>1, <5>1 DEF Turn
        <5> QED BY <3>2, <5>2
      <4>2. j \in 1 .. Len(b) /\ j - 1 \in 0 .. Len(b) /\ j >= 1 /\ j - 1 \in Nat /\ (j - 1) + 1 = j
        BY <1>1, <4>1
      <4>3. /\ E(i + 1, j) # E(i, j) + 1 /\ E(i + 1, j) # E(i + 1, j - 1) + 1
            /\ E(i + 1, j) # E(i, j - 1) + 1
        BY <2>1, <3>2, <4>2 DEF Turn
      <4>4. E(i + 1, j) = E(i, j - 1) + Cost(a[i + 1], b[j])
        BY <1>2, <2>1, <4>2, <4>3
      <4>5. a[i + 1] = b[j]
        BY <4>3, <4>4 DEF Cost
      <4>6. E(i + 1, j) = E(i, j - 1)
        <5>1. E(i, j - 1) \in Nat
          BY <1>4, <2>1, <4>2
        <5>2. Cost(a[i + 1], b[j]) = 0
          BY <4>5 DEF Cost
        <5> HIDE DEF E
        <5> QED BY <4>4, <5>1, <5>2
      <4>7. PICK k : Back(R, a, i, b, j - 1, k)
        BY <2>2, <4>2
      <4> DEFINE q == j - 1
      <4>8. q \in Nat /\ q + 1 = j
        BY <4>2
      <4> HIDE DEF q
      <4>9. Edits(R, i + 1, q + 1) = Edits(R, i, q) /\ a[i + 1] = b[q + 1] /\ Back(R, a, i, b, q, k)
        BY <4>5, <4>6, <4>7, <4>8 DEF q
      <4>10. Back(R, a, i + 1, b, q + 1, k + 1)
        BY <4>8, <4>9, BackOn
      <4> QED BY <4>8, <4>10
    <3> QED BY <3>1, <3>2
  <2> QED BY <2>3
<1> HIDE DEF S, Good
<1>7. Nat \subseteq S
  BY <1>5, <1>6, NatSetInduction
<1>8. \A i \in 0 .. Len(a) : Good(i)
  BY <1>1, <1>7 DEF S
<1> QED BY <1>8 DEF Good, R

(* The way back from an entry, with its letters.                           *)
TurnsAt(R, a, i, b, j, k, p, q) ==
  /\ i = p + k /\ j = q + k
  /\ Edits(R, i, j) = Edits(R, p, q)
  /\ Turn(R, p, q)
  /\ \A t \in 1 .. k : a[p + t] = b[q + t]
(* The last edit, and where it leaves both texts. *)
LEMMA TurnBack ==
  ASSUME NEW C, NEW a \in Seq(C), NEW b \in Seq(C), NEW i \in 0 .. Len(a), NEW j \in 0 .. Len(b)
  PROVE  \E k \in Nat, p \in 0 .. Len(a), q \in 0 .. Len(b) : TurnsAt(RowsOf(a, b), a, i, b, j, k, p, q)
<1> DEFINE R == RowsOf(a, b)
<1>1. PICK k : Back(R, a, i, b, j, k)
  BY Backwards
<1> HIDE DEF R
<1>2. /\ k \in Nat /\ k <= i /\ k <= j
      /\ Edits(R, i, j) = Edits(R, i - k, j - k)
      /\ Turn(R, i - k, j - k)
      /\ \A t \in 1 .. k : a[i - k + t] = b[j - k + t]
  BY <1>1 DEF Back
<1> DEFINE p == i - k
           q == j - k
<1>3. p \in 0 .. Len(a) /\ q \in 0 .. Len(b) /\ i = p + k /\ j = q + k
  BY <1>2
<1>4. /\ Edits(R, i, j) = Edits(R, p, q)
      /\ Turn(R, p, q)
      /\ \A t \in 1 .. k : a[p + t] = b[q + t]
  BY <1>2
<1> HIDE DEF p, q
<1>5. TurnsAt(R, a, i, b, j, k, p, q)
  BY <1>3, <1>4 DEF TurnsAt
<1> QED BY <1>2, <1>3, <1>5 DEF R

(* No edits: the same letters.                                             *)
LEMMA NoEditsSame ==
  ASSUME NEW C, NEW a \in Seq(C), NEW b \in Seq(C), NEW i \in 0 .. Len(a), NEW j \in 0 .. Len(b),
         Edits(RowsOf(a, b), i, j) = 0
  PROVE  i = j /\ \A t \in 1 .. i : a[t] = b[t]
<1> DEFINE R == RowsOf(a, b)
<1>0. PICK k \in Nat, p \in 0 .. Len(a), q \in 0 .. Len(b) : TurnsAt(R, a, i, b, j, k, p, q)
  BY TurnBack
<1>2. \A x \in 0 .. Len(a) : \A y \in 0 .. Len(b) : Edits(R, x, y) \in Nat
  BY EditsNat
<1> HIDE DEF R
<1>1. /\ i = p + k /\ j = q + k
      /\ Edits(R, i, j) = Edits(R, p, q)
      /\ Turn(R, p, q)
      /\ \A t \in 1 .. k : a[p + t] = b[q + t]
  BY <1>0 DEF TurnsAt
<1>3. p = 0 /\ q = 0
  <2>1. Edits(R, p, q) = 0
    BY <1>1 DEF R
  <2>2. ASSUME p >= 1 PROVE Edits(R, p - 1, q) \in Nat
    <3>1. p - 1 \in 0 .. Len(a)
      BY <2>2
    <3> QED BY <1>2, <3>1
  <2>3. ASSUME q >= 1 PROVE Edits(R, p, q - 1) \in Nat
    <3>1. q - 1 \in 0 .. Len(b)
      BY <2>3
    <3> QED BY <1>2, <3>1
  <2>4. ASSUME p >= 1, q >= 1 PROVE Edits(R, p - 1, q - 1) \in Nat
    <3>1. p - 1 \in 0 .. Len(a) /\ q - 1 \in 0 .. Len(b)
      BY <2>4
    <3> QED BY <1>2, <3>1
  <2> QED BY <1>1, <2>1, <2>2, <2>3, <2>4 DEF Turn
<1>4. i = k /\ j = k /\ \A t \in 1 .. k : p + t = t /\ q + t = t
  BY <1>1, <1>3
<1> QED BY <1>1, <1>4

(* At most one: apart by that.                                             *)
LEMMA OneApart ==
  ASSUME NEW C, NEW a \in Seq(C), NEW b \in Seq(C), NEW i \in 0 .. Len(a), NEW j \in 0 .. Len(b),
         Edits(RowsOf(a, b), i, j) <= 1
  PROVE  \E h, x, y : Apart(a, i, b, j, h, x, y)
<1> DEFINE R == RowsOf(a, b)
<1>1. \A x \in 0 .. Len(a) : \A y \in 0 .. Len(b) : Edits(R, x, y) \in Nat
  BY EditsNat
<1>2. \A x \in 0 .. Len(a) : \A y \in 0 .. Len(b) :
        Edits(R, x, y) = 0 => x = y /\ \A t \in 1 .. x : a[t] = b[t]
  BY NoEditsSame
<1>3. CASE Edits(R, i, j) = 0
  <2>1. i = j /\ \A t \in 1 .. i : a[t] = b[t]
    BY <1>2, <1>3
  <2>2. i \in Nat /\ i + 0 <= i /\ i + 0 <= j /\ i - 0 = j - 0 /\ \A t \in 1 .. i - i - 0 : FALSE
    BY <2>1
  <2>3. Apart(a, i, b, j, i, 0, 0)
    BY <2>1, <2>2 DEF Apart
  <2> QED BY <2>3
<1>4. CASE Edits(R, i, j) = 1
  <2>0. PICK k \in Nat, p \in 0 .. Len(a), q \in 0 .. Len(b) : TurnsAt(R, a, i, b, j, k, p, q)
    BY TurnBack
  <2>1. /\ i = p + k /\ j = q + k
        /\ Edits(R, i, j) = Edits(R, p, q)
        /\ Turn(R, p, q)
        /\ \A t \in 1 .. k : a[p + t] = b[q + t]
    <3> HIDE DEF R
    <3> QED BY <2>0 DEF TurnsAt
  <2>2. /\ p >= 1 => p - 1 \in 0 .. Len(a)
        /\ q >= 1 => q - 1 \in 0 .. Len(b)
        /\ p \in Nat /\ q \in Nat
    OBVIOUS
  <2>3. ASSUME NEW h \in Nat, NEW x \in {0, 1}, NEW y \in {0, 1}, h + x = p, h + y = q,
               \A t \in 1 .. h : a[t] = b[t]
        PROVE  \E o, u, v : Apart(a, i, b, j, o, u, v)
    <3>1. h + x <= i /\ h + y <= j /\ i - x = j - y /\ i - h - x = k
      BY <2>1, <2>3
    <3>2. \A t \in 1 .. i - h - x : a[h + x + t] = b[h + y + t]
      BY <2>1, <2>3, <3>1
    <3>3. Apart(a, i, b, j, h, x, y)
      BY <2>3, <3>1, <3>2 DEF Apart
    <3> QED BY <3>3
  <2>4. Edits(R, 0, 0) = 0
    BY RowsAre
  <2> HIDE DEF R
  <2>5. Edits(R, p, q) = 1
    BY <1>4, <2>1
  <2>6. CASE p >= 1 /\ Edits(R, p, q) = Edits(R, p - 1, q) + 1
    <3>1. Edits(R, p - 1, q) = 0
      <4>1. Edits(R, p - 1, q) \in Nat
        BY <1>1, <2>2, <2>6
      <4>2. Edits(R, p - 1, q) + 1 = 1
        BY <2>5, <2>6
      <4> QED BY <4>1, <4>2
    <3>2. p - 1 = q /\ \A t \in 1 .. p - 1 : a[t] = b[t]
      BY <1>2, <2>2, <2>6, <3>1
    <3>3. q + 1 = p /\ q + 0 = q /\ \A t \in 1 .. q : a[t] = b[t]
      BY <3>2
    <3> QED BY <2>2, <2>3, <3>3
  <2>7. CASE q >= 1 /\ Edits(R, p, q) = Edits(R, p, q - 1) + 1
    <3>1. Edits(R, p, q - 1) = 0
      <4>1. Edits(R, p, q - 1) \in Nat
        BY <1>1, <2>2, <2>7
      <4>2. Edits(R, p, q - 1) + 1 = 1
        BY <2>5, <2>7
      <4> QED BY <4>1, <4>2
    <3>2. p = q - 1 /\ \A t \in 1 .. p : a[t] = b[t]
      BY <1>2, <2>2, <2>7, <3>1
    <3>3. p + 0 = p /\ p + 1 = q
      BY <2>2, <3>2
    <3> QED BY <2>2, <2>3, <3>2, <3>3
  <2>8. CASE p >= 1 /\ q >= 1 /\ Edits(R, p, q) = Edits(R, p - 1, q - 1) + 1
    <3>1. Edits(R, p - 1, q - 1) = 0
      <4>1. Edits(R, p - 1, q - 1) \in Nat
        BY <1>1, <2>2, <2>8
      <4>2. Edits(R, p - 1, q - 1) + 1 = 1
        BY <2>5, <2>8
      <4> QED BY <4>1, <4>2
    <3>2. p - 1 = q - 1 /\ \A t \in 1 .. p - 1 : a[t] = b[t]
      BY <1>2, <2>2, <2>8, <3>1
    <3>3. p - 1 \in Nat /\ (p - 1) + 1 = p /\ (p - 1) + 1 = q
      BY <2>2, <2>8, <3>2
    <3> QED BY <2>3, <3>2, <3>3
  <2> QED BY <2>1, <2>4, <2>5, <2>6, <2>7, <2>8 DEF Turn
<1>5. Edits(R, i, j) \in Nat
  BY <1>1
<1> QED BY <1>3, <1>4, <1>5

(* The text with its last edit made, and one edit before that.             *)
Ending(a, i, g, w, b, j, k) ==
  /\ i + g + k = Len(a) /\ j + Len(w) + k = Len(b)
  /\ \A t \in 1 .. Len(w) : w[t] = b[j + t]
  /\ \A t \in 1 .. k : a[i + g + t] = b[j + Len(w) + t]
(* With the edit before the last one made, one edit is left. *)
LEMMA LastEdit ==
  ASSUME NEW C, NEW a \in Seq(C), NEW b \in Seq(C), NEW i \in Nat, NEW j \in Nat, NEW k \in Nat,
         NEW g \in {0, 1}, NEW w \in Seq(C), Len(w) \in {0, 1}, Ending(a, i, g, w, b, j, k),
         NEW h, NEW x, NEW y, Apart(a, i, b, j, h, x, y)
  PROVE  OneEdit(Spliced(a, i + 1, w, g), b)
<1> DEFINE m == Spliced(a, i + 1, w, g)
           z == Len(w)
           c == i + 1
<1>1. c \in 1 .. Len(a) + 1 /\ c + g <= Len(a) + 1 /\ c - 1 = i /\ Len(a) - i - g = k
      /\ z \in Nat /\ z <= 1 /\ g \in Nat /\ Len(a) \in Nat /\ i + g + k = Len(a)
  BY DEF Ending
<1>2. m \in Seq(C) /\ IsSpliced(m, a, c, w, g)
  <2> HIDE DEF c
  <2>1. Spliced(a, c, w, g) \in Seq(C) /\ IsSpliced(Spliced(a, c, w, g), a, c, w, g)
    BY <1>1, SplicedIs
  <2> QED BY <2>1 DEF c
<1> HIDE DEF m, c
<1>3. /\ Len(m) = Len(a) - g + z
      /\ \A t \in 1 .. i : m[t] = a[t]
      /\ \A t \in 1 .. z : m[i + t] = w[t]
      /\ \A t \in 1 .. k : m[i + z + t] = a[i + g + t]
  BY <1>1, <1>2 DEF IsSpliced
<1>4. /\ \A t \in 1 .. z : w[t] = b[j + t]
      /\ \A t \in 1 .. k : a[i + g + t] = b[j + z + t]
      /\ j + z + k = Len(b)
  BY DEF Ending
<1> HIDE DEF z
<1>5. Len(m) = i + z + k /\ Len(b) = j + z + k
  <2>1. Len(m) = Len(a) - g + z /\ j + z + k = Len(b)
    BY <1>3, <1>4
  <2> DEFINE p == Len(a)
             q == Len(m)
  <2>2. z \in Nat /\ g \in Nat /\ i \in Nat /\ k \in Nat /\ p \in Nat /\ i + g + k = p /\ q = p - g + z
    BY <1>1, <2>1
  <2> HIDE DEF p, q
  <2>3. q = i + z + k
    BY <2>2
  <2> QED BY <2>1, <2>3 DEF q
<1>6. /\ h \in Nat /\ x \in {0, 1} /\ y \in {0, 1} /\ x \in Nat /\ y \in Nat
      /\ h + x <= i /\ h + y <= j /\ i - x = j - y
      /\ \A t \in 1 .. h : a[t] = b[t]
      /\ \A t \in 1 .. i - h - x : a[h + x + t] = b[h + y + t]
  BY DEF Apart
<1>7. /\ h + x <= Len(m) /\ h + y <= Len(b) /\ Len(m) - x = Len(b) - y
  <2>1. /\ h \in Nat /\ x \in Nat /\ y \in Nat /\ h + x <= i /\ h + y <= j /\ i - x = j - y
    BY <1>6
  <2>2. z \in Nat
    BY <1>1
  <2> QED BY <1>5, <2>1, <2>2
<1>8. \A t \in 1 .. h : m[t] = b[t]
  <2> TAKE t \in 1 .. h
  <2>1. t \in 1 .. i
    BY <1>6
  <2> QED BY <1>3, <1>6, <2>1
<1>9. ASSUME NEW t \in 1 .. Len(m) - h - x PROVE m[h + x + t] = b[h + y + t]
  <2>0. t \in Nat /\ t >= 1 /\ t <= i + z + k - h - x
    <3>1. /\ h \in Nat /\ x \in Nat /\ y \in Nat /\ z \in Nat
      BY <1>1, <1>6
    <3> QED BY <1>5, <3>1
  <2>1. CASE t <= i - h - x
    <3> DEFINE o == h + x + t
    <3>1. o \in 1 .. i /\ t \in 1 .. i - h - x
      BY <1>6, <2>0, <2>1
    <3>2. a[o] = b[h + y + t]
      BY <1>6, <3>1, Zenon
    <3> HIDE DEF o
    <3>3. m[o] = a[o]
      BY <1>3, <3>1
    <3> QED BY <3>2, <3>3 DEF o
  <2>2. CASE t > i - h - x /\ h + x + t <= i + z
    <3> DEFINE o == h + x + t - i
    <3>1. o \in 1 .. z /\ i + o = h + x + t /\ j + o = h + y + t
      BY <1>1, <1>6, <2>0, <2>2
    <3> HIDE DEF o
    <3>2. m[i + o] = w[o] /\ w[o] = b[j + o]
      BY <1>3, <1>4, <3>1
    <3> QED BY <3>1, <3>2
  <2>3. CASE h + x + t > i + z
    <3> DEFINE o == h + x + t - i - z
    <3>1. o \in 1 .. k /\ i + z + o = h + x + t /\ j + z + o = h + y + t
      BY <1>1, <1>6, <2>0, <2>3
    <3> HIDE DEF o
    <3>2. m[i + z + o] = a[i + g + o] /\ a[i + g + o] = b[j + z + o]
      BY <1>3, <1>4, <3>1
    <3> QED BY <3>1, <3>2
  <2> QED BY <1>1, <1>6, <2>0, <2>1, <2>2, <2>3
<1>10. Apart(m, Len(m), b, Len(b), h, x, y)
  BY <1>6, <1>7, <1>8, <1>9 DEF Apart
<1>11. OneEdit(m, b)
  BY <1>2, <1>10, ApartOneEdit
<1> QED BY <1>11 DEF m

(* With the letters alike behind it, an edit and one before make two.      *)
LEMMA TwoBy ==
  ASSUME NEW C, NEW a \in Seq(C), NEW b \in Seq(C), NEW i \in Nat, NEW j \in Nat, NEW k \in Nat,
         NEW g \in {0, 1}, NEW w, Ending(a, i, g, w, b, j, k),
         NEW h, NEW x, NEW y, Apart(a, i, b, j, h, x, y),
         \/ w = <<>> /\ g = 1
         \/ w = <<b[j + 1]>>
  PROVE  TwoEdits(a, b)
<1>1. /\ i + g + k = Len(a) /\ j + Len(w) + k = Len(b) /\ Len(a) \in Nat /\ Len(b) \in Nat
      /\ DOMAIN a = 1 .. Len(a) /\ DOMAIN b = 1 .. Len(b)
  BY DEF Ending
<1>2. w \in Seq(C) /\ Len(w) \in {0, 1}
  <2>1. CASE w = <<>>
    BY <2>1
  <2>2. CASE w = <<b[j + 1]>>
    <3>1. j + 1 \in 1 .. Len(b)
      BY <1>1, <2>2
    <3> QED BY <2>2, <3>1
  <2> QED BY <2>1, <2>2
<1>3. OneEdit(Spliced(a, i + 1, w, g), b)
  BY <1>2, LastEdit
<1>4. Spliced(a, i + 1, w, g) \in Edited(a, b)
  <2>1. CASE w = <<>> /\ g = 1
    <3> DEFINE c == i + 1
    <3>1. c \in 1 .. Len(a) /\ c - 1 \in 0 .. Len(a)
      BY <1>1, <2>1
    <3> HIDE DEF c
    <3>2. SubSeq(a, 1, c - 1) \in Seq(C)
      BY <3>1, StartsWith
    <3>3. SubSeq(a, 1, c - 1) \o <<>> = SubSeq(a, 1, c - 1)
      BY <3>2, ConcatEmptySeq
    <3>4. Spliced(a, c, w, g) = Without(a, c)
      BY <2>1, <3>3 DEF Without, Spliced
    <3>5. Without(a, c) \in {Without(a, t) : t \in DOMAIN a}
      BY <1>1, <3>1
    <3> QED BY <3>4, <3>5 DEF Edited, c
  <2>2. CASE w = <<b[j + 1]>>
    <3> DEFINE c == i + 1
               d == j + 1
               P(s, t, gone) == SubSeq(a, 1, s - 1) \o <<b[t]>> \o SubSeq(a, s + gone, Len(a))
               A == {Without(a, s) : s \in DOMAIN a}
               B == {P(s, t, gone) : s \in 1 .. Len(a) + 1, t \in DOMAIN b, gone \in {0, 1}}
    <3>1. c \in 1 .. Len(a) + 1 /\ d \in DOMAIN b
      BY <1>1, <2>2
    <3>2. Edited(a, b) = A \cup B
      BY DEF Edited
    <3> HIDE DEF c, d, A
    <3>3. Spliced(a, c, w, g) = P(c, d, g)
      BY <2>2 DEF Spliced, d
    <3> HIDE DEF P
    <3>4. P(c, d, g) \in B
      BY <3>1
    <3> HIDE DEF B
    <3> QED BY <3>2, <3>3, <3>4 DEF c
  <2> QED BY <2>1, <2>2
<1> QED BY <1>3, <1>4 DEF TwoEdits

(* Apart at the end, by no edit, one, ...                                  *)
LEMMA OneIsTwo ==
  ASSUME NEW C, NEW a \in Seq(C), NEW b \in Seq(C), b # <<>>, NEW h, NEW x, NEW y,
         Apart(a, Len(a), b, Len(b), h, x, y)
  PROVE  TwoEdits(a, b)
<1>1. /\ h \in Nat /\ x \in {0, 1} /\ y \in {0, 1} /\ Len(a) \in Nat /\ Len(b) \in Nat
      /\ h + x <= Len(a) /\ h + y <= Len(b) /\ Len(a) - x = Len(b) - y
      /\ \A t \in 1 .. h : a[t] = b[t]
      /\ \A t \in 1 .. Len(a) - h - x : a[h + x + t] = b[h + y + t]
  BY DEF Apart
<1>2. Len(b) # 0
  BY EmptySeq
<1>3. CASE x = 0 /\ y = 0
  <2> DEFINE k == Len(a) - 1
             w == <<b[0 + 1]>>
  <2>1. k \in Nat /\ Len(w) = 1 /\ Len(a) = Len(b) /\ 0 + 1 + k = Len(a)
    BY <1>1, <1>2, <1>3
  <2>2. \A t \in 1 .. Len(a) : a[t] = b[t]
    <3> TAKE t \in 1 .. Len(a)
    <3>1. CASE t <= h
      BY <1>1, <3>1
    <3>2. CASE t > h
      <4>1. t - h \in 1 .. Len(a) - h - x /\ h + x + (t - h) = t /\ h + y + (t - h) = t
        BY <1>1, <1>3, <3>2
      <4>2. a[h + x + (t - h)] = b[h + y + (t - h)]
        BY <1>1, <4>1, Zenon
      <4> QED BY <4>1, <4>2
    <3> QED BY <1>1, <3>1, <3>2
  <2>3. \A t \in 1 .. k : a[0 + 1 + t] = b[0 + 1 + t]
    <3> TAKE t \in 1 .. k
    <3>1. 0 + 1 + t \in 1 .. Len(a)
      BY <2>1
    <3> QED BY <2>2, <3>1
  <2>4. \A t \in 1 .. Len(w) : w[t] = b[0 + t]
    BY <2>1
  <2>5. Apart(a, 0, b, 0, 0, 0, 0)
    <3>1. 0 + 0 <= 0 /\ 0 - 0 = 0 - 0 /\ (\A t \in 1 .. 0 : FALSE) /\ (\A t \in 1 .. 0 - 0 - 0 : FALSE)
      OBVIOUS
    <3> QED BY <3>1 DEF Apart
  <2> HIDE DEF k
  <2>6. Ending(a, 0, 1, w, b, 0, k)
    <3>1. 0 + Len(w) + k = Len(b)
      BY <2>1
    <3> HIDE DEF w
    <3>2. \A t \in 1 .. k : a[0 + 1 + t] = b[0 + Len(w) + t]
      BY <2>1, <2>3
    <3> QED BY <2>1, <2>4, <3>1, <3>2 DEF Ending
  <2>7. 1 \in {0, 1} /\ 0 \in Nat
    OBVIOUS
  <2> QED BY <2>1, <2>5, <2>6, <2>7, TwoBy
<1>4. CASE ~(x = 0 /\ y = 0)
  <2> DEFINE k == Len(a) - h - x
             w == IF y = 1 THEN <<b[h + 1]>> ELSE <<>>
  <2>1. k \in Nat /\ h + x + k = Len(a) /\ h + y + k = Len(b)
    BY <1>1
  <2>2. Len(w) = y
    BY <1>1
  <2>3. \A t \in 1 .. k : a[h + x + t] = b[h + y + t]
    BY <1>1
  <2>4. \A t \in 1 .. Len(w) : w[t] = b[h + t]
    <3>1. CASE y = 0
      BY <2>2, <3>1
    <3>2. CASE y = 1
      BY <2>2, <3>2
    <3> QED BY <1>1, <3>1, <3>2
  <2>5. Apart(a, h, b, h, h, 0, 0)
    <3>1. h + 0 <= h /\ h - 0 = h - 0 /\ (\A t \in 1 .. h - h - 0 : FALSE)
      BY <1>1
    <3> QED BY <1>1, <3>1 DEF Apart
  <2>6. (w = <<>> /\ x = 1) \/ w = <<b[h + 1]>>
    BY <1>1, <1>4
  <2> HIDE DEF k, w
  <2>7. Ending(a, h, x, w, b, h, k)
    BY <2>1, <2>2, <2>3, <2>4 DEF Ending
  <2>8. h \in Nat /\ x \in {0, 1} /\ 0 \in Nat
    BY <1>1
  <2> QED BY <2>1, <2>5, <2>6, <2>7, <2>8, TwoBy
<1> QED BY <1>3, <1>4

(* ... or two.                                                             *)
LEMMA TwoMeans ==
  ASSUME NEW C, NEW a \in Seq(C), NEW b \in Seq(C), b # <<>>, EditDistance(a, b) <= 2
  PROVE  TwoEdits(a, b)
<1> DEFINE R == RowsOf(a, b)
<1>1. \A x \in 0 .. Len(a) : \A y \in 0 .. Len(b) : Edits(R, x, y) \in Nat
  BY EditsNat
<1>2. \A x \in 0 .. Len(a) : \A y \in 0 .. Len(b) :
        Edits(R, x, y) <= 1 => \E h, u, v : Apart(a, x, b, y, h, u, v)
  BY OneApart
<1>3. Len(a) \in 0 .. Len(a) /\ Len(b) \in 0 .. Len(b) /\ Len(a) \in Nat /\ Len(b) \in Nat
  OBVIOUS
<1>4. Edits(R, Len(a), Len(b)) <= 2
  BY DistanceIs
<1>5. CASE Edits(R, Len(a), Len(b)) <= 1
  BY <1>2, <1>3, <1>5, OneIsTwo
<1>6. CASE Edits(R, Len(a), Len(b)) = 2
  <2>1. PICK k \in Nat, p \in 0 .. Len(a), q \in 0 .. Len(b) : TurnsAt(R, a, Len(a), b, Len(b), k, p, q)
    BY <1>3, TurnBack
  <2>2. Edits(R, 0, 0) = 0
    BY RowsAre
  <2> HIDE DEF R
  <2>3. /\ Len(a) = p + k /\ Len(b) = q + k
        /\ Edits(R, p, q) = 2
        /\ Turn(R, p, q)
        /\ \A t \in 1 .. k : a[p + t] = b[q + t]
    BY <1>6, <2>1 DEF TurnsAt
  <2>4. /\ p \in Nat /\ q \in Nat
        /\ p >= 1 => p - 1 \in 0 .. Len(a) /\ p - 1 \in Nat /\ (p - 1) + 1 = p
        /\ q >= 1 => q - 1 \in 0 .. Len(b) /\ q - 1 \in Nat /\ (q - 1) + 1 = q
    OBVIOUS
  <2>5. ASSUME NEW i \in 0 .. Len(a), NEW j \in 0 .. Len(b), NEW g \in {0, 1}, NEW w,
               Edits(R, i, j) + 1 = 2, i + g = p, j + Len(w) = q,
               \A t \in 1 .. Len(w) : w[t] = b[j + t],
               \/ w = <<>> /\ g = 1
               \/ w = <<b[j + 1]>>
        PROVE  TwoEdits(a, b)
    <3>1. Edits(R, i, j) <= 1
      <4>1. Edits(R, i, j) \in Nat
        BY <1>1
      <4> QED BY <2>5, <4>1
    <3>2. PICK h, x, y : Apart(a, i, b, j, h, x, y)
      BY <1>2, <3>1
    <3>3. i \in Nat /\ j \in Nat
      OBVIOUS
    <3>4. Ending(a, i, g, w, b, j, k)
      BY <2>3, <2>5 DEF Ending
    <3> QED BY <2>5, <3>2, <3>3, <3>4, TwoBy
  <2>6. CASE p >= 1 /\ Edits(R, p, q) = Edits(R, p - 1, q) + 1
    <3>1. p - 1 \in 0 .. Len(a) /\ (p - 1) + 1 = p /\ 1 \in {0, 1}
      BY <2>4, <2>6
    <3>2. q + Len(<<>>) = q /\ \A t \in 1 .. Len(<<>>) : <<>>[t] = b[q + t]
      BY <2>4
    <3>3. Edits(R, p - 1, q) + 1 = 2
      BY <2>3, <2>6
    <3> QED BY <2>5, <3>1, <3>2, <3>3
  <2>7. CASE q >= 1 /\ Edits(R, p, q) = Edits(R, p, q - 1) + 1
    <3> DEFINE j == q - 1
               w == <<b[j + 1]>>
    <3>1. j \in 0 .. Len(b) /\ p + 0 = p /\ 0 \in {0, 1}
      BY <2>4, <2>7
    <3>2. j + Len(w) = q /\ \A t \in 1 .. Len(w) : w[t] = b[j + t]
      BY <2>4, <2>7
    <3>3. Edits(R, p, j) + 1 = 2
      BY <2>3, <2>7
    <3> HIDE DEF j
    <3> QED BY <2>5, <3>1, <3>2, <3>3
  <2>8. CASE p >= 1 /\ q >= 1 /\ Edits(R, p, q) = Edits(R, p - 1, q - 1) + 1
    <3> DEFINE i == p - 1
               j == q - 1
               w == <<b[j + 1]>>
    <3>1. i \in 0 .. Len(a) /\ j \in 0 .. Len(b) /\ i + 1 = p /\ 1 \in {0, 1}
      BY <2>4, <2>8
    <3>2. j + Len(w) = q /\ \A t \in 1 .. Len(w) : w[t] = b[j + t]
      BY <2>4, <2>8
    <3>3. Edits(R, i, j) + 1 = 2
      BY <2>3, <2>8
    <3> HIDE DEF i, j
    <3> QED BY <2>5, <3>1, <3>2, <3>3
  <2>9. ~(p = 0 /\ q = 0)
    BY <2>2, <2>3
  <2> QED BY <2>3, <2>6, <2>7, <2>8, <2>9 DEF Turn
<1>7. Edits(R, Len(a), Len(b)) \in Nat
  BY <1>1, <1>3
<1> QED BY <1>4, <1>5, <1>6, <1>7

(* The rows and the edits agree.                                           *)
LEMMA DistanceTells ==
  ASSUME NEW C, NEW a \in Seq(C), NEW b \in Seq(C), b # <<>>
  PROVE  /\ EditDistance(a, b) \in Nat
         /\ EditDistance(a, b) = 0 <=> a = b
         /\ EditDistance(a, b) <= 1 <=> OneEdit(a, b)
         /\ EditDistance(a, b) <= 2 <=> TwoEdits(a, b)
<1>1. Len(a) \in 0 .. Len(a) /\ Len(b) \in 0 .. Len(b)
  OBVIOUS
<1>2. EditDistance(a, b) = Edits(RowsOf(a, b), Len(a), Len(b))
  BY DistanceIs
<1>3. EditDistance(a, b) \in Nat
  BY <1>1, <1>2, EditsNat
<1>4. EditDistance(a, b) = 0 => a = b
  <2> SUFFICES ASSUME EditDistance(a, b) = 0 PROVE a = b
    OBVIOUS
  <2>1. Len(a) = Len(b) /\ \A t \in 1 .. Len(a) : a[t] = b[t]
    BY <1>1, <1>2, NoEditsSame
  <2> QED BY <2>1, SameText
<1>5. a = b => EditDistance(a, b) = 0
  BY NoEdits
<1>6. EditDistance(a, b) <= 1 => OneEdit(a, b)
  <2> SUFFICES ASSUME EditDistance(a, b) <= 1 PROVE OneEdit(a, b)
    OBVIOUS
  <2>1. PICK h, x, y : Apart(a, Len(a), b, Len(b), h, x, y)
    BY <1>1, <1>2, OneApart
  <2> QED BY <2>1, ApartOneEdit
<1>7. OneEdit(a, b) => EditDistance(a, b) <= 1
  BY OneWithin
<1>8. EditDistance(a, b) <= 2 => TwoEdits(a, b)
  BY TwoMeans
<1>9. TwoEdits(a, b) => EditDistance(a, b) <= 2
  BY TwoWithin
<1> QED BY <1>3, <1>4, <1>5, <1>6, <1>7, <1>8, <1>9

(* The names there are are texts, and none is empty.                       *)
Letter == {"a", "b", "c", "d", "e", "f", "i", "l", "m", "n", "o", "t", "x", "y", "2", "3", "4", "6"}
(* The texts the names are written as. *)
LEMMA NameOf ==
  ASSUME NEW C, NEW p \in C, NEW q \in C, NEW r \in C, NEW s \in C, NEW t \in C, NEW u \in C, NEW v \in C
  PROVE  /\ <<p, q, r>> \in Seq(C) /\ Len(<<p, q, r>>) = 3
         /\ <<p, q, r, s>> \in Seq(C) /\ Len(<<p, q, r, s>>) = 4
         /\ <<p, q, r, s, t>> \in Seq(C) /\ Len(<<p, q, r, s, t>>) = 5
         /\ <<p, q, r, s, t, u, v>> \in Seq(C) /\ Len(<<p, q, r, s, t, u, v>>) = 7
OBVIOUS
(* A text with runes in it is not the empty one. *)
LEMMA NotNothing ==
  ASSUME NEW c, NEW k \in {3, 4, 5, 7}, Len(c) = k
  PROVE  c # <<>>
<1>1. Len(<<>>) = 0 /\ k # 0
  OBVIOUS
<1> QED BY <1>1, Zenon

(* The nine names, each a text of letters and digits. *)
LEMMA NamesAre ==
  /\ DOMAIN Candidates = 1 .. 9
  /\ \A i \in 1 .. 9 : Candidates[i] \in Seq(Letter) /\ Candidates[i] # <<>>
<1> DEFINE c1 == <<"i", "n", "t">>
           c2 == <<"i", "3", "2">>
           c3 == <<"i", "6", "4">>
           c4 == <<"m", "o", "n", "e", "y">>
           c5 == <<"d", "e", "c", "i", "m", "a", "l">>
           c6 == <<"f", "l", "o", "a", "t">>
           c7 == <<"t", "e", "x", "t">>
           c8 == <<"b", "o", "o", "l">>
           c9 == <<"d", "a", "t", "e">>
<1>1. Candidates = <<c1, c2, c3, c4, c5, c6, c7, c8, c9>>
  BY DEF Candidates, DecimalWord
<1>2. c1 \in Seq(Letter) /\ Len(c1) = 3
  <2>1. "i" \in Letter /\ "n" \in Letter /\ "t" \in Letter
    BY DEF Letter
  <2> QED BY <2>1, NameOf
<1>3. c2 \in Seq(Letter) /\ Len(c2) = 3
  <2>1. "2" \in Letter /\ "3" \in Letter /\ "i" \in Letter
    BY DEF Letter
  <2> QED BY <2>1, NameOf
<1>4. c3 \in Seq(Letter) /\ Len(c3) = 3
  <2>1. "4" \in Letter /\ "6" \in Letter /\ "i" \in Letter
    BY DEF Letter
  <2> QED BY <2>1, NameOf
<1>5. c4 \in Seq(Letter) /\ Len(c4) = 5
  <2>1. "e" \in Letter /\ "m" \in Letter /\ "n" \in Letter /\ "o" \in Letter /\ "y" \in Letter
    BY DEF Letter
  <2> QED BY <2>1, NameOf
<1>6. c5 \in Seq(Letter) /\ Len(c5) = 7
  <2>1. "a" \in Letter /\ "c" \in Letter /\ "d" \in Letter /\ "e" \in Letter /\ "i" \in Letter /\ "l" \in Letter /\ "m" \in Letter
    BY DEF Letter
  <2> QED BY <2>1, NameOf
<1>7. c6 \in Seq(Letter) /\ Len(c6) = 5
  <2>1. "a" \in Letter /\ "f" \in Letter /\ "l" \in Letter /\ "o" \in Letter /\ "t" \in Letter
    BY DEF Letter
  <2> QED BY <2>1, NameOf
<1>8. c7 \in Seq(Letter) /\ Len(c7) = 4
  <2>1. "e" \in Letter /\ "t" \in Letter /\ "x" \in Letter
    BY DEF Letter
  <2> QED BY <2>1, NameOf
<1>9. c8 \in Seq(Letter) /\ Len(c8) = 4
  <2>1. "b" \in Letter /\ "l" \in Letter /\ "o" \in Letter
    BY DEF Letter
  <2> QED BY <2>1, NameOf
<1>10. c9 \in Seq(Letter) /\ Len(c9) = 4
  <2>1. "a" \in Letter /\ "d" \in Letter /\ "e" \in Letter /\ "t" \in Letter
    BY DEF Letter
  <2> QED BY <2>1, NameOf
<1> HIDE DEF c1, c2, c3, c4, c5, c6, c7, c8, c9
<1>11. \A i \in 1 .. 9 : Candidates[i] \in {c1, c2, c3, c4, c5, c6, c7, c8, c9}
  <2> SUFFICES ASSUME NEW i \in 1 .. 9 PROVE Candidates[i] \in {c1, c2, c3, c4, c5, c6, c7, c8, c9}
    OBVIOUS
  <2>1. i = 1 \/ i = 2 \/ i = 3 \/ i = 4 \/ i = 5 \/ i = 6 \/ i = 7 \/ i = 8 \/ i = 9
    OBVIOUS
  <2> QED BY <1>1, <2>1
<1>12. \A c \in {c1, c2, c3, c4, c5, c6, c7, c8, c9} : c \in Seq(Letter) /\ c # <<>>
  <2>1. /\ c1 \in Seq(Letter) /\ c2 \in Seq(Letter) /\ c3 \in Seq(Letter) /\ c4 \in Seq(Letter)
        /\ c5 \in Seq(Letter) /\ c6 \in Seq(Letter) /\ c7 \in Seq(Letter) /\ c8 \in Seq(Letter)
        /\ c9 \in Seq(Letter)
    BY <1>2, <1>3, <1>4, <1>5, <1>6, <1>7, <1>8, <1>9, <1>10
  <2>2. c1 # <<>>
    BY <1>2, NotNothing
  <2>3. c2 # <<>>
    BY <1>3, NotNothing
  <2>4. c3 # <<>>
    BY <1>4, NotNothing
  <2>5. c4 # <<>>
    BY <1>5, NotNothing
  <2>6. c5 # <<>>
    BY <1>6, NotNothing
  <2>7. c6 # <<>>
    BY <1>7, NotNothing
  <2>8. c7 # <<>>
    BY <1>8, NotNothing
  <2>9. c8 # <<>>
    BY <1>9, NotNothing
  <2>10. c9 # <<>>
    BY <1>10, NotNothing
  <2> QED BY <2>1, <2>2, <2>3, <2>4, <2>5, <2>6, <2>7, <2>8, <2>9, <2>10, Zenon
<1>13. DOMAIN Candidates = 1 .. 9
  BY <1>1
<1> QED BY <1>11, <1>12, <1>13

(* A text of some letters is one of more letters. *)
LEMMA SeqOfMore ==
  ASSUME NEW A, NEW B, A \subseteq B, NEW s \in Seq(A)
  PROVE  s \in Seq(B)
OBVIOUS

(* A lowered text is a text.                                               *)
LEMMA LowerIs ==
  ASSUME NEW D, NEW s \in Seq(D)
  PROVE  \E C : Lower(s) \in Seq(C) /\ Letter \subseteq C
<1> DEFINE C == {LowerRune(s[i]) : i \in 1 .. Len(s)} \cup Letter
           t == [i \in 1 .. Len(s) |-> LowerRune(s[i])]
<1>1. Len(s) \in Nat /\ DOMAIN s = 1 .. Len(s)
  OBVIOUS
<1>2. \A i \in 1 .. Len(s) : LowerRune(s[i]) \in C
  OBVIOUS
<1> HIDE DEF C
<1>3. t \in [1 .. Len(s) -> C]
  BY <1>2
<1>4. t \in Seq(C)
  <2> HIDE DEF t
  <2> QED BY <1>1, <1>3
<1>5. Lower(s) = t
  BY <1>1 DEF Lower
<1>6. Letter \subseteq C
  BY DEF C
<1> QED BY <1>4, <1>5, <1>6

(* Closest finds the least distance there is, and where it is.             *)
LEMMA ClosestIs ==
  ASSUME NEW typed, NEW C, Letter \subseteq C, Lower(typed) \in Seq(C)
  PROVE  LET best == Closest(typed)
             low == Lower(typed)
         IN \E k \in 1 .. 9 :
              /\ best.name = Candidates[k] /\ best.dist = EditDistance(low, Candidates[k])
              /\ \A j \in 1 .. 9 : EditDistance(low, Candidates[k]) <= EditDistance(low, Candidates[j])
<1> DEFINE low == Lower(typed)
           dist == [k \in DOMAIN Candidates |-> EditDistance(low, Candidates[k])]
           Good(m) == \A j \in DOMAIN dist : dist[m] < dist[j] \/ (dist[m] = dist[j] /\ m <= j)
           k == CHOOSE m \in DOMAIN dist : Good(m)
<1>1. /\ DOMAIN Candidates = 1 .. 9
      /\ \A i \in 1 .. 9 : Candidates[i] \in Seq(Letter) /\ Candidates[i] # <<>>
  BY NamesAre
<1>2. \A j \in 1 .. 9 : dist[j] = EditDistance(low, Candidates[j]) /\ dist[j] \in Nat
  <2> TAKE j \in 1 .. 9
  <2>1. Candidates[j] \in Seq(C) /\ Candidates[j] # <<>>
    BY <1>1, SeqOfMore
  <2>2. EditDistance(low, Candidates[j]) \in Nat
    BY <2>1, DistanceTells
  <2> QED BY <1>1, <2>2
<1>3. DOMAIN dist = 1 .. 9
  BY <1>1
<1>4. Closest(typed) = [name |-> Candidates[k], dist |-> dist[k]]
  BY DEF Closest
<1> HIDE DEF dist, low
<1>5. \E m \in DOMAIN dist : Good(m)
  <2> DEFINE V == {dist[j] : j \in 1 .. 9}
  <2>1. V \in SUBSET Nat /\ V # {}
    <3>1. 1 \in 1 .. 9
      OBVIOUS
    <3>2. dist[1] \in V
      BY <3>1
    <3> QED BY <1>2, <3>2
  <2>2. PICK v \in V : \A x \in V : v <= x
    <3> HIDE DEF V
    <3> QED BY <2>1, LeastOf
  <2> DEFINE W == {j \in 1 .. 9 : dist[j] = v}
  <2>3. W \in SUBSET Nat /\ W # {}
    BY <2>2
  <2>4. PICK m \in W : \A x \in W : m <= x
    <3> HIDE DEF W
    <3> QED BY <2>3, LeastOf
  <2>5. m \in 1 .. 9 /\ dist[m] = v
    BY <2>4
  <2>6. ASSUME NEW j \in 1 .. 9 PROVE dist[m] < dist[j] \/ (dist[m] = dist[j] /\ m <= j)
    <3>1. v <= dist[j]
      BY <2>2
    <3>2. dist[j] = v => m <= j
      BY <2>4
    <3>3. v \in Nat /\ dist[j] \in Nat
      BY <1>2, <2>5
    <3> QED BY <2>5, <3>1, <3>2, <3>3
  <2>7. Good(m)
    BY <1>3, <2>6
  <2> QED BY <1>3, <2>5, <2>7
<1>6. k \in DOMAIN dist /\ Good(k)
  <2> HIDE DEF Good
  <2> QED BY <1>5
<1> HIDE DEF k
<1>7. k \in 1 .. 9 /\ \A j \in 1 .. 9 : dist[k] <= dist[j]
  <2>1. k \in 1 .. 9
    BY <1>3, <1>6
  <2>2. ASSUME NEW j \in 1 .. 9 PROVE dist[k] <= dist[j]
    <3>1. dist[k] < dist[j] \/ (dist[k] = dist[j] /\ k <= j)
      BY <1>3, <1>6, Zenon
    <3>2. dist[k] \in Nat /\ dist[j] \in Nat
      BY <1>2, <2>1
    <3> QED BY <3>1, <3>2
  <2> QED BY <2>1, <2>2
<1>8. Closest(typed).name = Candidates[k] /\ Closest(typed).dist = dist[k]
  BY <1>4
<1> QED BY <1>2, <1>7, <1>8 DEF low

(* What SuggestNearest says of one name.                                   *)
NearestTo(typed, suggests) ==
  IF suggests = NoName
  THEN \/ typed \in Known
       \/ \A name \in Known : TwoEdits(typed, name) => Len(typed) <= 2
  ELSE /\ suggests \in Known \ {typed}
       /\ \/ TwoEdits(typed, suggests)
          \/ Begins(typed, suggests) \/ Begins(suggests, typed)
       /\ \A name \in Known :
            /\ OneEdit(typed, name) => OneEdit(typed, suggests)
            /\ TwoEdits(typed, name) => TwoEdits(typed, suggests)
(* What Suggest answers, and what it says of every other name. *)
LEMMA SuggestTells ==
  ASSUME NEW D, NEW about \in Seq(D)
  PROVE  NearestTo(Lower(about), Suggest(about))
<1> DEFINE typed == Lower(about)
           best == Closest(about)
           E(name) == EditDistance(typed, name)
<1>1. PICK C : typed \in Seq(C) /\ Letter \subseteq C
  BY LowerIs
<1>2. /\ DOMAIN Candidates = 1 .. 9
      /\ \A i \in 1 .. 9 : Candidates[i] \in Seq(Letter) /\ Candidates[i] # <<>>
  BY NamesAre
<1>3. Known = {Candidates[i] : i \in 1 .. 9}
  BY <1>2 DEF Known
<1>4. \A name \in Known : name \in Seq(C) /\ name # <<>>
  <2> TAKE name \in Known
  <2>1. PICK i \in 1 .. 9 : name = Candidates[i]
    BY <1>3
  <2>2. name \in Seq(Letter) /\ name # <<>>
    BY <1>2, <2>1
  <2> QED BY <1>1, <2>2, SeqOfMore
<1>5. \A name \in Known :
        /\ E(name) \in Nat /\ (E(name) = 0 <=> typed = name)
        /\ (E(name) <= 1 <=> OneEdit(typed, name)) /\ (E(name) <= 2 <=> TwoEdits(typed, name))
  <2> TAKE name \in Known
  <2>1. name \in Seq(C) /\ name # <<>>
    BY <1>4
  <2> HIDE DEF typed
  <2> QED BY <1>1, <2>1, DistanceTells
<1>6. PICK k \in 1 .. 9 :
        /\ best.name = Candidates[k] /\ best.dist = E(Candidates[k])
        /\ \A j \in 1 .. 9 : E(Candidates[k]) <= E(Candidates[j])
  BY <1>1, ClosestIs
<1>7. Suggest(about) = IF CloseTo(best, typed) THEN best.name ELSE NoName
  BY DEF Suggest
<1>8. /\ best.name \in Known /\ best.name # NoName /\ best.dist = E(best.name)
      /\ \A name \in Known : E(best.name) <= E(name)
  BY <1>2, <1>3, <1>6 DEF NoName
<1>9. CloseTo(best, typed) <=>
        \/ (Begins(best.name, typed) \/ Begins(typed, best.name)) /\ best.dist > 0
        \/ best.dist \in 1 .. 2 /\ best.dist < Len(typed)
  BY DEF CloseTo
<1>10. Len(typed) \in Nat
  BY <1>1
<1> HIDE DEF typed, best, E
<1>11. CASE CloseTo(best, typed)
  <2>1. Suggest(about) = best.name /\ best.name # NoName
    BY <1>7, <1>8, <1>11
  <2>2. E(best.name) \in Nat /\ best.dist > 0
    BY <1>5, <1>8, <1>9, <1>11
  <2>3. best.name # typed
    BY <1>5, <1>8, <2>2
  <2>4. TwoEdits(typed, best.name) \/ Begins(typed, best.name) \/ Begins(best.name, typed)
    <3>1. CASE best.dist \in 1 .. 2
      <4>1. E(best.name) <= 2
        BY <1>8, <3>1
      <4> QED BY <1>5, <1>8, <4>1
    <3> QED BY <1>9, <1>11, <3>1
  <2>5. ASSUME NEW name \in Known
        PROVE  /\ OneEdit(typed, name) => OneEdit(typed, best.name)
               /\ TwoEdits(typed, name) => TwoEdits(typed, best.name)
    <3>1. E(best.name) <= E(name) /\ E(name) \in Nat /\ E(best.name) \in Nat
      BY <1>5, <1>8
    <3>2. /\ E(name) <= 1 => E(best.name) <= 1
          /\ E(name) <= 2 => E(best.name) <= 2
      BY <3>1
    <3> QED BY <1>5, <1>8, <3>2
  <2> QED BY <1>8, <2>1, <2>3, <2>4, <2>5 DEF NearestTo, typed
<1>12. CASE ~CloseTo(best, typed)
  <2>1. Suggest(about) = NoName
    BY <1>7, <1>12
  <2>2. ASSUME typed \notin Known, NEW name \in Known, TwoEdits(typed, name)
        PROVE  Len(typed) <= 2
    <3>1. E(name) <= 2 /\ E(best.name) <= E(name) /\ E(name) \in Nat /\ E(best.name) \in Nat
      BY <1>5, <1>8, <2>2
    <3>2. E(best.name) # 0
      BY <1>5, <1>8, <2>2
    <3>3. best.dist \in 1 .. 2
      BY <1>8, <3>1, <3>2
    <3>4. ~(best.dist < Len(typed))
      BY <1>9, <1>12, <3>3
    <3> QED BY <1>10, <3>3, <3>4
  <2> QED BY <2>1, <2>2 DEF NearestTo, typed
<1> QED BY <1>11, <1>12

(* What a definition by recursion on the places behind defines exists.     *)
Falls(f, last, Leaf, after, base, step) ==
  \A i \in 1 .. last : f[i] = IF i \in Leaf THEN base[i] ELSE step[<<i, f[after[i]]>>]

(* A recursion from the last token back to the first has its values. *)
LEMMA DownRecursion ==
  ASSUME NEW last \in Nat, NEW Leaf \in SUBSET (1 .. last), NEW after \in [1 .. last -> 1 .. last],
         \A i \in (1 .. last) \ Leaf : after[i] > i,
         NEW T, NEW base \in [1 .. last -> T], NEW step \in [(1 .. last) \X T -> T]
  PROVE  \E f \in [1 .. last -> T] : Falls(f, last, Leaf, after, base, step)
<1> DEFINE I == 1 .. last
           rank == [i \in I |-> last - i]
<1>1. rank \in [I -> Nat] /\ \A i \in I \ Leaf : rank[after[i]] < rank[i]
  <2>1. \A i \in I : last - i \in Nat
    OBVIOUS
  <2>2. rank \in [I -> Nat]
    BY <2>1
  <2> SUFFICES ASSUME NEW i \in I \ Leaf PROVE rank[after[i]] < rank[i]
    BY <2>2
  <2>3. after[i] \in I /\ after[i] > i
    OBVIOUS
  <2>4. rank[after[i]] = last - after[i] /\ rank[i] = last - i
    BY <2>3
  <2> QED BY <2>3, <2>4
<1>2. Leaf \in SUBSET I /\ after \in [I -> I] /\ base \in [I -> T] /\ step \in [I \X T -> T]
  OBVIOUS
<1> HIDE DEF I, rank
<1>3. PICK f \in [I -> T] : \A i \in I : Follows(f, i, Leaf, after, base, step)
  BY <1>1, <1>2, Recursion
<1> QED BY <1>3 DEF Follows, Falls, I

(* What holds of a place when it holds of all behind it holds of all.      *)
LEMMA DownInduction ==
  ASSUME NEW last \in Nat, NEW S \in SUBSET (1 .. last),
         \A i \in 1 .. last : (\A j \in 1 .. last : j > i => j \in S) => i \in S
  PROVE  1 .. last \subseteq S
<1> DEFINE U == {k \in Nat : \A i \in 1 .. last : last - i = k => i \in S}
<1>1. ASSUME NEW k \in Nat, \A j \in Nat : j < k => j \in U
      PROVE  k \in U
  <2> SUFFICES ASSUME NEW i \in 1 .. last, last - i = k PROVE i \in S
    OBVIOUS
  <2>1. ASSUME NEW j \in 1 .. last, j > i PROVE j \in S
    <3>1. last - j \in Nat /\ last - j < k
      BY <2>1
    <3>2. last - j \in U
      BY <1>1, <3>1
    <3> QED BY <3>2
  <2> QED BY <2>1
<1> HIDE DEF U
<1>2. Nat \subseteq U
  BY <1>1, StrongSetInduction
<1>3. ASSUME NEW i \in 1 .. last PROVE i \in S
  <2>1. last - i \in Nat
    OBVIOUS
  <2>2. last - i \in U
    BY <1>2, <2>1
  <2> QED BY <2>2 DEF U
<1> QED BY <1>3

(* The end of a run of runes. *)
LEMMA EndIs ==
  ASSUME NEW s, Len(s) \in Nat, NEW i \in 1 .. Len(s), NEW part
  PROVE  /\ Min(Ends(s, i, part)) \in i + 1 .. Len(s) + 1
         /\ \A j \in i + 1 .. Min(Ends(s, i, part)) - 1 : s[j] \in part
         /\ Min(Ends(s, i, part)) <= Len(s) => s[Min(Ends(s, i, part))] \notin part
<1> DEFINE last == Len(s)
           E == Ends(s, i, part)
           m == Min(E)
<1>1. last \in Nat /\ i \in 1 .. last
  OBVIOUS
<1>2. E = {j \in i + 1 .. last : s[j] \notin part} \cup {last + 1}
  BY DEF Ends
<1>3. last + 1 \in E /\ E \in SUBSET (1 .. last + 1) /\ E # {} /\ last + 1 \in Nat
  <2> HIDE DEF E, last
  <2> QED BY <1>1, <1>2
<1>4. m \in E /\ \A j \in E : m <= j
  <2> HIDE DEF E, last
  <2> QED BY <1>3, LeastGreatest
<1>5. m \in i + 1 .. last + 1 /\ (m <= last => s[m] \notin part)
  <2> HIDE DEF E, last, m
  <2> QED BY <1>1, <1>2, <1>4
<1>6. ASSUME NEW j \in i + 1 .. m - 1 PROVE s[j] \in part
  <2>1. j \notin E /\ j \in i + 1 .. last
    <3> HIDE DEF E, last, m
    <3> QED BY <1>1, <1>4, <1>5
  <2> HIDE DEF E, last, m
  <2> QED BY <1>2, <2>1
<1> QED BY <1>5, <1>6 DEF m, E, last

(* A token has a rune at least, and is within the text. *)
LEMMA TokenLengthIs ==
  ASSUME NEW s, Len(s) \in Nat, NEW i \in 1 .. Len(s)
  PROVE  TokenLength(s, i) \in Nat \ {0} /\ i + TokenLength(s, i) <= Len(s) + 1
<1> DEFINE last == Len(s)
           k == KindOf(s, i)
           t == TokenLength(s, i)
           m(part) == Min(Ends(s, i, part))
<1>1. t = CASE k = "->" -> 2 [] k = "ident" -> m(IdentPart) - i [] k = "number" -> m(Figures) - i [] OTHER -> 1
  BY DEF TokenLength
<1>2. k = "->" => i < last
  BY DEF KindOf
<1>3. m(IdentPart) \in i + 1 .. last + 1 /\ m(Figures) \in i + 1 .. last + 1
  BY EndIs
<1>4. last \in Nat /\ i \in 1 .. last
  OBVIOUS
<1> DEFINE x == m(IdentPart)
           y == m(Figures)
<1>5. x \in i + 1 .. last + 1 /\ y \in i + 1 .. last + 1
  BY <1>3
<1>6. t = CASE k = "->" -> 2 [] k = "ident" -> x - i [] k = "number" -> y - i [] OTHER -> 1
  BY <1>1
<1> HIDE DEF k, t, m, x, y, last
<1>7. t \in Nat \ {0} /\ i + t <= last + 1
  BY <1>2, <1>4, <1>5, <1>6
<1> QED BY <1>7 DEF t, last

(* The tokens from each place of a text on. *)
TokenOf(s) == {Token(s, i) : i \in 1 .. Len(s)}
Next1(s, i) == IF s[i] \in Blanks THEN i + 1 ELSE i + TokenLength(s, i)
Lexes(s, f) ==
  f = [i \in 1 .. Len(s) + 1 |->
        IF i > Len(s) THEN <<>>
        ELSE IF s[i] \in Blanks THEN f[i + 1]
        ELSE <<Token(s, i)>> \o f[i + TokenLength(s, i)]]
TokensFrom(s) == CHOOSE f : Lexes(s, f)

(* Behind a token, or a blank, there is a place of the text, or its end.   *)
LEMMA NextIs ==
  ASSUME NEW s, Len(s) \in Nat, NEW i \in 1 .. Len(s)
  PROVE  Next1(s, i) \in i + 1 .. Len(s) + 1
<1> DEFINE t == TokenLength(s, i)
           last == Len(s)
<1>1. t \in Nat \ {0} /\ i + t <= last + 1 /\ last \in Nat /\ i \in 1 .. last
  BY TokenLengthIs
<1>2. Next1(s, i) = IF s[i] \in Blanks THEN i + 1 ELSE i + t
  BY DEF Next1
<1> HIDE DEF t, last
<1>3. Next1(s, i) \in i + 1 .. last + 1
  BY <1>1, <1>2
<1> QED BY <1>3 DEF last

(* What tokenize does is defined, and makes tokens of the text. *)
LEMMA TokensFromIs ==
  ASSUME NEW s, Len(s) \in Nat
  PROVE  /\ Lexes(s, TokensFrom(s))
         /\ \A i \in 1 .. Len(s) + 1 : TokensFrom(s)[i] \in Seq(TokenOf(s))
         /\ Tokens(s) = TokensFrom(s)[1]
<1> DEFINE last == Len(s) + 1
           T == Seq(TokenOf(s))
           Leaf == {last}
           after == [i \in 1 .. last |-> IF i = last THEN last ELSE Next1(s, i)]
           base == [i \in 1 .. last |-> <<>>]
           step == [x \in (1 .. last) \X T |->
                     IF x[1] = last \/ s[x[1]] \in Blanks THEN x[2] ELSE <<Token(s, x[1])>> \o x[2]]
<1>1. last \in Nat \ {0} /\ Leaf \in SUBSET (1 .. last) /\ base \in [1 .. last -> T]
  OBVIOUS
<1>2. \A i \in 1 .. last : i # last => i \in 1 .. Len(s) /\ Next1(s, i) \in i + 1 .. last
  <2> TAKE i \in 1 .. last
  <2> HAVE i # last
  <2>1. i \in 1 .. Len(s)
    OBVIOUS
  <2> QED BY <2>1, NextIs
<1>3. after \in [1 .. last -> 1 .. last] /\ \A i \in (1 .. last) \ Leaf : after[i] > i
  <2> HIDE DEF last
  <2> QED BY <1>1, <1>2
<1>4. step \in [(1 .. last) \X T -> T]
  <2> SUFFICES ASSUME NEW x \in (1 .. last) \X T PROVE step[x] \in T
    OBVIOUS
  <2>1. x[1] \in 1 .. last /\ x[2] \in Seq(TokenOf(s))
    OBVIOUS
  <2>2. CASE x[1] = last \/ s[x[1]] \in Blanks
    BY <2>1, <2>2
  <2>3. CASE ~(x[1] = last \/ s[x[1]] \in Blanks)
    <3>1. x[1] \in 1 .. Len(s)
      BY <1>2, <2>1, <2>3
    <3>2. Token(s, x[1]) \in TokenOf(s)
      BY <3>1 DEF TokenOf
    <3> HIDE DEF last
    <3>3. <<Token(s, x[1])>> \in Seq(TokenOf(s))
      BY <3>2
    <3>4. <<Token(s, x[1])>> \o x[2] \in Seq(TokenOf(s))
      BY <2>1, <3>3, ConcatProperties
    <3> QED BY <2>1, <2>3, <3>4
  <2> QED BY <2>2, <2>3
<1>5. PICK f \in [1 .. last -> T] : Falls(f, last, Leaf, after, base, step)
  <2> HIDE DEF last, Leaf, after, base, step, T
  <2> QED BY <1>1, <1>3, <1>4, DownRecursion
<1>6. ASSUME NEW i \in 1 .. last
      PROVE  f[i] = IF i > Len(s) THEN <<>>
                    ELSE IF s[i] \in Blanks THEN f[i + 1]
                    ELSE <<Token(s, i)>> \o f[i + TokenLength(s, i)]
  <2>1. CASE i = last
    <3>1. f[i] = base[i]
      BY <1>5, <2>1 DEF Falls
    <3> QED BY <2>1, <3>1
  <2>2. CASE i # last
    <3>1. f[i] = step[<<i, f[after[i]]>>]
      BY <1>5, <2>2 DEF Falls
    <3>2. after[i] = Next1(s, i) /\ after[i] \in 1 .. last /\ f[after[i]] \in T
      BY <1>3, <2>2
    <3>3. <<i, f[after[i]]>> \in (1 .. last) \X T
      BY <3>2
    <3>4. step[<<i, f[after[i]]>>] = IF s[i] \in Blanks THEN f[after[i]] ELSE <<Token(s, i)>> \o f[after[i]]
      <4> DEFINE x == <<i, f[after[i]]>>
      <4>1. x[1] = i /\ x[2] = f[after[i]] /\ x \in (1 .. last) \X T
        BY <3>3
      <4>2. step[x] = IF x[1] = last \/ s[x[1]] \in Blanks THEN x[2] ELSE <<Token(s, x[1])>> \o x[2]
        BY <4>1
      <4> HIDE DEF x, step, last, T
      <4>3. step[x] = IF s[i] \in Blanks THEN f[after[i]] ELSE <<Token(s, i)>> \o f[after[i]]
        BY <2>2, <4>1, <4>2
      <4> QED BY <4>3 DEF x
    <3>5. ~(i > Len(s))
      BY <1>2, <2>2
    <3> HIDE DEF step, after, last, T
    <3> QED BY <3>1, <3>2, <3>4, <3>5 DEF Next1
  <2> QED BY <2>1, <2>2
<1>7. Lexes(s, f)
  <2>1. f = [i \in 1 .. last |-> f[i]]
    OBVIOUS
  <2> QED BY <1>6, <2>1 DEF Lexes
<1>8. Lexes(s, TokensFrom(s))
  BY <1>7 DEF TokensFrom
<1> DEFINE F == TokensFrom(s)
<1>9. \A i \in 1 .. last : F[i] = IF i > Len(s) THEN <<>>
                    ELSE IF s[i] \in Blanks THEN F[i + 1]
                    ELSE <<Token(s, i)>> \o F[i + TokenLength(s, i)]
  <2> HIDE DEF F
  <2>1. Lexes(s, F)
    BY <1>8 DEF F
  <2> QED BY <2>1 DEF Lexes
<1> DEFINE S == {i \in 1 .. last : F[i] = f[i]}
<1>10. ASSUME NEW i \in 1 .. last, \A j \in 1 .. last : j > i => j \in S PROVE i \in S
  <2> HIDE DEF F
  <2>1. F[i] = f[i]
    <3>1. CASE i = last
      <4>1. i > Len(s)
        BY <3>1
      <4> HIDE DEF last
      <4>2. f[i] = <<>>
        BY <1>6, <4>1
      <4>3. F[i] = <<>>
        BY <1>9, <4>1
      <4> QED BY <4>2, <4>3
    <3>2. CASE i # last
      <4>1. Next1(s, i) \in i + 1 .. last
        BY <1>2, <3>2
      <4> HIDE DEF last
      <4>2. Next1(s, i) \in S
        BY <1>1, <1>10, <4>1
      <4>3. F[Next1(s, i)] = f[Next1(s, i)]
        BY <4>2
      <4>4. F[i] = IF i > Len(s) THEN <<>>
                    ELSE IF s[i] \in Blanks THEN F[i + 1]
                    ELSE <<Token(s, i)>> \o F[i + TokenLength(s, i)]
        BY <1>9
      <4>5. f[i] = IF i > Len(s) THEN <<>>
                    ELSE IF s[i] \in Blanks THEN f[i + 1]
                    ELSE <<Token(s, i)>> \o f[i + TokenLength(s, i)]
        BY <1>6
      <4> QED BY <4>3, <4>4, <4>5 DEF Next1
    <3> QED BY <3>1, <3>2
  <2> QED BY <2>1
<1>11. 1 .. last \subseteq S
  <2> HIDE DEF S, last
  <2>1. S \in SUBSET (1 .. last)
    BY DEF S
  <2>2. \A i \in 1 .. last : (\A j \in 1 .. last : j > i => j \in S) => i \in S
    BY <1>10
  <2>3. last \in Nat
    BY <1>1
  <2> QED BY <2>1, <2>2, <2>3, DownInduction
<1>12. \A i \in 1 .. last : F[i] \in T
  BY <1>11
<1>13. Tokens(s) = F[1]
  BY DEF Tokens, Lexes, TokensFrom
<1> QED BY <1>8, <1>12, <1>13

(* What a definition by recursion from one place up defines exists.        *)
Rises(f, lo, hi, b, step) == f[lo] = b /\ \A k \in lo + 1 .. hi : f[k] = step[<<k, f[k - 1]>>]

(* A recursion from one token on to a later one has its values. *)
LEMMA RiseRecursion ==
  ASSUME NEW lo \in Nat, NEW hi \in Nat, lo <= hi, NEW T, NEW b \in T,
         NEW step \in [(lo .. hi) \X T -> T]
  PROVE  \E f \in [lo .. hi -> T] : Rises(f, lo, hi, b, step)
<1> DEFINE I == lo .. hi
           Leaf == {lo}
           rank == [i \in I |-> i - lo]
           prev == [i \in I |-> IF i = lo THEN lo ELSE i - 1]
           base == [i \in I |-> b]
<1>1. /\ Leaf \in SUBSET I /\ rank \in [I -> Nat] /\ prev \in [I -> I] /\ base \in [I -> T]
      /\ \A i \in I \ Leaf : rank[prev[i]] < rank[i]
      /\ step \in [I \X T -> T]
  OBVIOUS
<1>2. PICK f \in [I -> T] : \A i \in I : Follows(f, i, Leaf, prev, base, step)
  <2> HIDE DEF I, Leaf, rank, prev, base
  <2> QED BY <1>1, Recursion
<1>3. f[lo] = b
  <2>1. lo \in I /\ lo \in Leaf /\ base[lo] = b
    OBVIOUS
  <2>2. f[lo] = base[lo]
    BY <1>2, <2>1 DEF Follows
  <2> QED BY <2>1, <2>2
<1>4. ASSUME NEW k \in lo + 1 .. hi PROVE f[k] = step[<<k, f[k - 1]>>]
  <2>1. k \in I /\ k \notin Leaf /\ prev[k] = k - 1
    OBVIOUS
  <2>2. f[k] = step[<<k, f[prev[k]]>>]
    BY <1>2, <2>1 DEF Follows
  <2> QED BY <2>1, <2>2
<1> QED BY <1>3, <1>4 DEF Rises

(* Tokens whose texts are over D. *)
Texts(toks, D) ==
  /\ Len(toks) \in Nat /\ \A i \in 1 .. Len(toks) : toks[i].text \in Seq(D)

(* The comma, by name. *)
Comma == ","

(* What one token adds to the arguments before it. *)
Argued(before, tok) ==
  IF tok.kind = Comma THEN before
  ELSE before \o (IF before = <<>> THEN <<>> ELSE <<Comma>>) \o tok.text
Argues(toks, i, j, f) ==
  f = [k \in i .. j - 1 |->
        IF k = i THEN <<>>
        ELSE IF toks[k].kind = Comma THEN f[k - 1]
        ELSE f[k - 1] \o (IF f[k - 1] = <<>> THEN <<>> ELSE <<Comma>>) \o toks[k].text]
ArgumentsTo(toks, i, j) == CHOOSE f : Argues(toks, i, j, f)

(* What the arguments have come to at a token is a text. *)
LEMMA ArguedSeq ==
  ASSUME NEW D, Comma \in D, NEW before \in Seq(D), NEW tok, tok.text \in Seq(D)
  PROVE  Argued(before, tok) \in Seq(D)
<1> DEFINE comma == IF before = <<>> THEN <<>> ELSE <<Comma>>
           text == tok.text
<1>1. comma \in Seq(D) /\ text \in Seq(D)
  OBVIOUS
<1> HIDE DEF comma, text
<1>2. before \o comma \in Seq(D)
  BY <1>1, ConcatProperties
<1>3. before \o comma \o text \in Seq(D)
  BY <1>1, <1>2, ConcatProperties
<1> QED BY <1>3 DEF comma, text, Argued

(* The arguments of a type are made of the runes of its tokens. *)
LEMMA ArgumentsAre ==
  ASSUME NEW toks, NEW D, Comma \in D, Texts(toks, D), NEW i \in Nat \ {0}, NEW j \in Nat,
         i < j, j <= Len(toks) + 1
  PROVE  LET f == ArgumentsTo(toks, i, j)
         IN /\ \A k \in i .. j - 1 : f[k] \in Seq(D)
            /\ f[i] = <<>> /\ \A k \in i + 1 .. j - 1 : f[k] = Argued(f[k - 1], toks[k])
            /\ Arguments(toks, i, j) = f[j - 1]
<1> DEFINE last == Len(toks)
           hi == j - 1
           T == Seq(D)
           step == [x \in (i .. hi) \X T |-> Argued(x[2], toks[x[1]])]
<1>1. last \in Nat /\ \A k \in 1 .. last : toks[k].text \in Seq(D)
  BY DEF Texts
<1>2. hi \in Nat /\ i \in Nat /\ 1 <= i /\ i <= hi
  OBVIOUS
<1>15. hi <= last /\ last \in Nat
  BY <1>1
<1>16. <<>> \in T
  OBVIOUS
<1>3. step \in [(i .. hi) \X T -> T]
  <2> SUFFICES ASSUME NEW x \in (i .. hi) \X T PROVE Argued(x[2], toks[x[1]]) \in T
    OBVIOUS
  <2>1. x[1] \in i .. hi /\ x[2] \in Seq(D)
    OBVIOUS
  <2>2. x[1] \in 1 .. last
    <3> HIDE DEF hi, last
    <3> QED BY <1>15, <1>2, <2>1
  <2>3. toks[x[1]].text \in Seq(D)
    BY <1>1, <2>2
  <2> QED BY <2>1, <2>3, ArguedSeq
<1>4. PICK f \in [i .. hi -> T] : Rises(f, i, hi, <<>>, step)
  <2> HIDE DEF hi, T, step
  <2>1. i \in Nat
    OBVIOUS
  <2> QED BY <1>2, <1>16, <1>3, <2>1, RiseRecursion
<1>5. f[i] = <<>> /\ \A k \in i + 1 .. hi : f[k] = Argued(f[k - 1], toks[k])
  <2>1. f[i] = <<>> /\ \A k \in i + 1 .. hi : f[k] = step[<<k, f[k - 1]>>]
    BY <1>4 DEF Rises
  <2> SUFFICES ASSUME NEW k \in i + 1 .. hi PROVE f[k] = Argued(f[k - 1], toks[k])
    BY <2>1
  <2>2. k \in i .. hi /\ k - 1 \in i .. hi
    <3> HIDE DEF hi, last
    <3> QED BY <1>2
  <2>3. f[k - 1] \in T
    BY <2>2
  <2>4. <<k, f[k - 1]>> \in (i .. hi) \X T
    BY <2>2, <2>3
  <2>5. step[<<k, f[k - 1]>>] = Argued(f[k - 1], toks[k])
    <3> HIDE DEF T, hi
    <3> QED BY <2>4
  <2> QED BY <2>1, <2>5
<1> DEFINE Q(k) == IF k = i THEN <<>>
                   ELSE IF toks[k].kind = Comma THEN f[k - 1]
                   ELSE f[k - 1] \o (IF f[k - 1] = <<>> THEN <<>> ELSE <<Comma>>) \o toks[k].text
<1>6. Argues(toks, i, j, f)
  <2>1. f = [k \in i .. hi |-> f[k]]
    BY <1>4
  <2>2. ASSUME NEW k \in i .. hi PROVE f[k] = Q(k)
    <3>1. k = i \/ k \in i + 1 .. hi
      <4> HIDE DEF hi, last
      <4> QED BY <1>2
    <3> QED BY <1>5, <3>1 DEF Argued
  <2> HIDE DEF Q
  <2>3. f = [k \in i .. hi |-> Q(k)]
    BY <2>1, <2>2
  <2> QED BY <2>3, Zenon DEF Argues, Q, hi
<1> DEFINE F == ArgumentsTo(toks, i, j)
<1>7. Argues(toks, i, j, F)
  BY <1>6, Zenon DEF ArgumentsTo
<1>8. \A k \in i .. hi : F[k] = IF k = i THEN <<>> ELSE Argued(F[k - 1], toks[k])
  <2> HIDE DEF F
  <2> QED BY <1>7 DEF Argues, Argued
<1> DEFINE S == {k \in Nat : i + k \in i .. hi => F[i + k] = f[i + k]}
<1>9. 0 \in S
  <2>1. i + 0 = i /\ i \in i .. hi
    <3> HIDE DEF hi, last
    <3> QED BY <1>2
  <2> HIDE DEF F, hi
  <2>2. F[i] = f[i]
    BY <1>5, <1>8, <2>1
  <2> QED BY <2>1, <2>2
<1>10. ASSUME NEW k \in Nat, k \in S PROVE k + 1 \in S
  <2> HIDE DEF F
  <2> SUFFICES ASSUME i + (k + 1) \in i .. hi PROVE F[i + (k + 1)] = f[i + (k + 1)]
    OBVIOUS
  <2> DEFINE m == i + (k + 1)
  <2>1. m \in i + 1 .. hi /\ m - 1 = i + k /\ i + k \in i .. hi /\ m # i /\ m \in i .. hi
    <3> HIDE DEF hi, last
    <3> QED BY <1>2
  <2>2. F[m - 1] = f[m - 1]
    BY <1>10, <2>1
  <2> HIDE DEF m
  <2>3. F[m] = Argued(F[m - 1], toks[m]) /\ f[m] = Argued(f[m - 1], toks[m])
    BY <1>5, <1>8, <2>1
  <2>4. F[m] = f[m]
    BY <2>2, <2>3
  <2> QED BY <2>4 DEF m
<1> HIDE DEF S
<1>11. Nat \subseteq S
  BY <1>9, <1>10, NatSetInduction
<1>12. ASSUME NEW k \in i .. hi PROVE F[k] = f[k]
  <2>1. k - i \in Nat /\ i + (k - i) = k
    <3> HIDE DEF hi, last
    <3> QED BY <1>2
  <2>2. k - i \in S
    BY <1>11, <2>1
  <2> QED BY <2>1, <2>2 DEF S
<1>13. Arguments(toks, i, j) = F[hi]
  BY Zenon DEF Arguments, ArgumentsTo, Argues, hi, Comma
<1>14. /\ \A k \in i .. hi : F[k] \in Seq(D)
       /\ F[i] = <<>> /\ \A k \in i + 1 .. hi : F[k] = Argued(F[k - 1], toks[k])
  <2> HIDE DEF F, hi
  <2>1. \A k \in i .. hi : F[k] \in Seq(D)
    BY <1>4, <1>12
  <2>2. i \in i .. hi /\ \A k \in i + 1 .. hi : k \in i .. hi /\ k # i
    BY <1>2
  <2> QED BY <1>8, <2>1, <2>2
<1> QED BY <1>13, <1>14 DEF F, hi

(* The parenthesis that closes one stands behind it. *)
LEMMA ClosingIs ==
  ASSUME NEW toks, Len(toks) \in Nat, NEW i \in Nat \ {0}, At(toks, i) = "(", Closing(toks, i) # {}
  PROVE  Min(Closing(toks, i)) \in i + 1 .. Len(toks) /\ Min(Closing(toks, i)) \in Closing(toks, i)
<1> DEFINE E == Closing(toks, i)
           last == Len(toks)
           Opened(j) == {k \in i .. j : toks[k].kind = "("}
           Closed(j) == {k \in i .. j : toks[k].kind = ")"}
<1>1. E = {j \in i .. last : Cardinality(Opened(j)) = Cardinality(Closed(j))}
  BY DEF Closing
<1>2. i \notin E
  <2>1. toks[i].kind = "("
    BY DEF At
  <2>2. Opened(i) = {i} /\ Closed(i) = {}
    BY <2>1
  <2>3. Cardinality(Opened(i)) = 1 /\ Cardinality(Closed(i)) = 0
    BY <2>2, FS_Singleton, FS_EmptySet
  <2> HIDE DEF Opened, Closed, E
  <2> QED BY <1>1, <2>3
<1>3. E \in SUBSET (1 .. last) /\ E \subseteq i .. last
  <2> HIDE DEF Opened, Closed, E
  <2> QED BY <1>1
<1>7. E # {} /\ last \in Nat
  OBVIOUS
<1>4. Min(E) \in E
  <2> HIDE DEF E, last
  <2> QED BY <1>3, <1>7, LeastGreatest
<1>5. Min(E) \in i .. last /\ Min(E) # i
  <2> HIDE DEF E, last
  <2> QED BY <1>2, <1>3, <1>4
<1>6. Min(E) \in i + 1 .. last
  <2> HIDE DEF E, last
  <2> QED BY <1>5
<1> QED BY <1>4, <1>6

(* A diagnostic that proposes a name does so for a text. *)
Proposed(d) ==
  d.code = "E0015" => \E D : d.about \in Seq(D) /\ d.suggests = Suggest(d.about)
Sensible(ds) == \E S : ds \in Seq(S) /\ \A d \in S : Proposed(d)

(* The runes that texts of tokens are joined with. *)
Joining == Letter \cup {"(", ")", Comma}

(* So is the name of a decimal type. *)
LEMMA DecimalTextIs ==
  ASSUME NEW toks, NEW D, Joining \subseteq D, Texts(toks, D), NEW i \in Nat \ {0}, NEW j \in Nat,
         i + 1 < j, j <= Len(toks) + 1
  PROVE  DecimalText(toks, i, j) \in Seq(D)
<1> DEFINE args == Arguments(toks, i + 1, j)
           open == <<"(">>
           shut == <<")">>
<1>1. args \in Seq(D)
  <2>1. Comma \in D
    BY DEF Joining
  <2>2. LET f == ArgumentsTo(toks, i + 1, j)
        IN (\A k \in i + 1 .. j - 1 : f[k] \in Seq(D)) /\ args = f[j - 1]
    <3>1. i + 1 \in Nat \ {0}
      OBVIOUS
    <3> QED BY <2>1, <3>1, ArgumentsAre
  <2>3. j - 1 \in i + 1 .. j - 1
    OBVIOUS
  <2> HIDE DEF args
  <2> QED BY <2>2, <2>3
<1>2. open \in Seq(D) /\ shut \in Seq(D)
  BY DEF Joining
<1>3. DecimalWord \in Seq(D)
  <2>1. \A i1 \in 1 .. 9 : Candidates[i1] \in Seq(Letter)
    BY NamesAre
  <2>2. Candidates[5] = DecimalWord
    BY DEF Candidates
  <2>3. DecimalWord \in Seq(Letter)
    BY <2>1, <2>2
  <2>4. Letter \subseteq D
    BY DEF Joining
  <2> QED BY <2>3, <2>4, SeqOfMore
<1> HIDE DEF args, open, shut
<1>4. DecimalWord \o open \in Seq(D)
  BY <1>2, <1>3, ConcatProperties
<1>5. DecimalWord \o open \o args \in Seq(D)
  BY <1>1, <1>4, ConcatProperties
<1>6. DecimalWord \o open \o args \o shut \in Seq(D)
  BY <1>2, <1>5, ConcatProperties
<1> QED BY <1>6 DEF DecimalText, args, open, shut

(* A reading of a type: with a diagnostic at most. *)
TypeRead(type, i, last) ==
  /\ type.ok \in BOOLEAN
  /\ type.ok => type.next \in i + 1 .. last + 1
  /\ ~type.ok => \E d : type = NoReading(d)
  /\ type.diags = <<>> \/ \E d : type.diags = <<d>> /\ Proposed(d)

(* A type that was made out, as far as token next. *)
MadeOut(type, next) ==
  /\ type.ok = TRUE /\ type.next = next
  /\ type.diags = <<>> \/ \E d : type.diags = <<d>> /\ Proposed(d)

(* What a name is resolved to. *)
LEMMA ResolvedIs ==
  ASSUME NEW name, NEW D, name \in Seq(D), NEW types, NEW span, NEW next
  PROVE  MadeOut(Resolved(name, types, span, next), next)
<1> DEFINE told == Told("E0015", span, name)
           d == [told EXCEPT !.suggests = Suggest(name)]
           type == Resolved(name, types, span, next)
<1>1. d.code = "E0015" /\ d.about = name /\ d.suggests = Suggest(name)
  BY DEF Told
<1>2. Proposed(d)
  <2> HIDE DEF d
  <2> QED BY <1>1 DEF Proposed
<1>3. type.ok = TRUE /\ type.next = next /\ type.diags = IF types # {} THEN <<>> ELSE <<d>>
  <2> HIDE DEF told
  <2> QED BY DEF Resolved, told
<1> HIDE DEF d, type
<1>4. type.diags = <<>> \/ \E e : type.diags = <<e>> /\ Proposed(e)
  BY <1>2, <1>3
<1> QED BY <1>3, <1>4 DEF MadeOut, type

(* A diagnostic about what stands in the place of something else. *)
LEMMA NotProposing ==
  ASSUME NEW code, code # "E0015", NEW l, NEW t
  PROVE  Proposed(Here(code, l, t)) /\ Proposed(Whole(code, l))
BY DEF Proposed, Here, Whole, Told

(* A type that cannot be read, with its diagnostic. *)
LEMMA NoReadingIs ==
  ASSUME NEW d, Proposed(d), NEW i, NEW last
  PROVE  TypeRead(NoReading(d), i, last)
<1> DEFINE r == NoReading(d)
<1>1. r.ok = FALSE /\ r.diags = <<d>>
  BY DEF NoReading
<1>2. \E e : r = NoReading(e)
  OBVIOUS
<1> HIDE DEF r
<1>3. TypeRead(r, i, last)
  BY <1>1, <1>2 DEF TypeRead
<1> QED BY <1>3 DEF r

(* What parseType makes of the tokens from one of them on. *)
LEMMA ParseTypeIs ==
  ASSUME NEW toks, NEW D, Joining \subseteq D, Texts(toks, D), NEW i \in Nat \ {0}, NEW l
  PROVE  TypeRead(ParseType(toks, i, l), i, Len(toks))
<1> DEFINE type == ParseType(toks, i, l)
           ends == Closing(toks, i + 1)
           last == Len(toks)
<1>1. last \in Nat
  BY DEF Texts
<1>2. CASE At(toks, i) = "end"
  <2>1. type = NoReading(Whole("E0013", l))
    BY <1>2 DEF ParseType
  <2> QED BY <2>1, NoReadingIs, NotProposing
<1>3. CASE At(toks, i) # "end" /\ At(toks, i) # "ident"
  <2>1. type = NoReading(Here("E0013", l, toks[i]))
    BY <1>3 DEF ParseType
  <2> QED BY <2>1, NoReadingIs, NotProposing
<1>4. CASE At(toks, i) = "ident"
  <2>1. i \in 1 .. last
    <3>1. i <= last
      BY <1>4 DEF At
    <3> HIDE DEF last
    <3> QED BY <1>1, <3>1
  <2>2. toks[i].text \in Seq(D)
    BY <2>1 DEF Texts
  <2>3. CASE toks[i].text # DecimalWord \/ At(toks, i + 1) # "("
    <3> DEFINE name == toks[i].text
               types == Named(name)
               span == TokenSpan(l, toks[i])
    <3>1. type = Resolved(name, types, span, i + 1)
      BY <1>4, <2>3 DEF ParseType
    <3> HIDE DEF name, types, span, type
    <3>2. name \in Seq(D)
      BY <2>2 DEF name
    <3>3. MadeOut(type, i + 1)
      BY <3>1, <3>2, ResolvedIs
    <3> HIDE DEF last
    <3>4. i + 1 \in i + 1 .. last + 1
      BY <1>1, <2>1
    <3>5. TypeRead(type, i, last)
      BY <3>3, <3>4 DEF TypeRead, MadeOut
    <3> QED BY <3>5 DEF type, last
  <2>4. CASE ~(toks[i].text # DecimalWord \/ At(toks, i + 1) # "(") /\ ends = {}
    <3>1. type = NoReading(Here("E0014", l, toks[i]))
      BY <1>4, <2>4 DEF ParseType
    <3> QED BY <3>1, NoReadingIs, NotProposing
  <2>5. CASE ~(toks[i].text # DecimalWord \/ At(toks, i + 1) # "(") /\ ends # {}
    <3> DEFINE j == Min(ends)
               name == DecimalText(toks, i, j)
               types == Named(name)
               span == JoinSpans(TokenSpan(l, toks[i]), TokenSpan(l, toks[j]))
    <3>1. type = Resolved(name, types, span, j + 1)
      BY <1>4, <2>5 DEF ParseType, Parametrised
    <3>2. j \in i + 2 .. last
      <4>1. i + 1 \in Nat \ {0}
        OBVIOUS
      <4>2. j \in (i + 1) + 1 .. last
        BY <1>1, <2>5, <4>1, ClosingIs
      <4>3. (i + 1) + 1 = i + 2
        OBVIOUS
      <4> HIDE DEF j, last
      <4> QED BY <4>2, <4>3
    <3> HIDE DEF j, types, span
    <3>3. name \in Seq(D)
      <4>1. j \in Nat /\ i + 1 < j /\ j <= last + 1
        <5> HIDE DEF last
        <5> QED BY <1>1, <3>2
      <4> QED BY <4>1, DecimalTextIs
    <3> HIDE DEF name, last, type
    <3>4. MadeOut(type, j + 1)
      BY <3>1, <3>3, ResolvedIs
    <3>5. j + 1 \in i + 1 .. last + 1
      BY <1>1, <3>2
    <3>6. TypeRead(type, i, last)
      BY <3>4, <3>5 DEF TypeRead, MadeOut
    <3> QED BY <3>6 DEF type, last
  <2> QED BY <2>3, <2>4, <2>5
<1> QED BY <1>2, <1>3, <1>4

(* A comma is not the end. *)
LEMMA AfterCommaIs ==
  ASSUME NEW toks, Len(toks) \in Nat, NEW i \in 1 .. Len(toks) + 1
  PROVE  AfterComma(toks, i) \in i .. Len(toks) + 1
<1> DEFINE last == Len(toks)
           a == AfterComma(toks, i)
<1>1. a = IF At(toks, i) = Comma THEN i + 1 ELSE i
  BY Zenon DEF AfterComma, Comma
<1>2. "end" # Comma
  BY Zenon DEF Comma
<1>3. i > last => At(toks, i) = "end"
  BY DEF At
<1>4. last \in Nat /\ i \in 1 .. last + 1
  OBVIOUS
<1> HIDE DEF a, last
<1>5. a \in i .. last + 1
  BY <1>1, <1>2, <1>3, <1>4
<1> QED BY <1>5 DEF a, last

(* What the parameters are made of. *)
TypeAt(toks, k, l) == ParseType(toks, k + 2, l)
GivenOf(toks, l) == {Given(toks, k, l, TypeAt(toks, k, l)) : k \in 1 .. Len(toks)}
DiagAt(toks, k, l) == {TypeAt(toks, k, l).diags[1], Here("E0006", l, toks[k]), Here("E0007", l, toks[k])}
DiagOf(toks, l) == {d \in UNION {DiagAt(toks, k, l) : k \in 1 .. Len(toks)} : Proposed(d)}
ParamsRead(toks, l) ==
  [ok : {TRUE}, params : Seq(GivenOf(toks, l)), diags : Seq(DiagOf(toks, l)), next : 1 .. Len(toks) + 1]
ParamsFailed(toks, l) == [ok : {FALSE}, diags : Seq(DiagOf(toks, l)), next : {0}]
ParamsKnown(toks, l) == ParamsRead(toks, l) \cup ParamsFailed(toks, l)

(* One parameter, and what follows it. *)
Reads1(toks, k, l) ==
  /\ At(toks, k) \notin {"end", ")"} /\ At(toks, k) = "ident" /\ At(toks, k + 1) = ":"
  /\ TypeAt(toks, k, l).ok
After1(toks, k, l) == AfterComma(toks, TypeAt(toks, k, l).next)
Last1(toks, k, l) ==
  IF At(toks, k) \in {"end", ")"} THEN [ok |-> TRUE, params |-> <<>>, diags |-> <<>>, next |-> k]
  ELSE IF At(toks, k) # "ident" THEN NoReading(Here("E0006", l, toks[k]))
  ELSE IF At(toks, k + 1) # ":" THEN NoReading(Here("E0007", l, toks[k]))
  ELSE TypeAt(toks, k, l)
Follow1(toks, k, l, rest) == FirstParam(toks, k, l, TypeAt(toks, k, l), rest)

(* A diagnostic of the parameters. *)
LEMMA DiagIn ==
  ASSUME NEW toks, NEW l, NEW k \in 1 .. Len(toks), NEW d \in DiagAt(toks, k, l), Proposed(d)
  PROVE  d \in DiagOf(toks, l)
BY DEF DiagOf

(* Where a parameter is looked for and none is. *)
LEMMA FailedHere ==
  ASSUME NEW toks, NEW l, NEW d \in DiagOf(toks, l)
  PROVE  NoReading(d) \in ParamsKnown(toks, l)
<1> DEFINE E == DiagOf(toks, l)
<1>1. d \in E
  OBVIOUS
<1> HIDE DEF E
<1>2. <<d>> \in Seq(E)
  BY <1>1
<1>3. NoReading(d) \in [ok : {FALSE}, diags : Seq(E), next : {0}]
  BY <1>2 DEF NoReading
<1> QED BY <1>3 DEF ParamsKnown, ParamsFailed, E

(* What is behind the last token of a parameter. *)
LEMMA LastKnown ==
  ASSUME NEW toks, NEW D, Joining \subseteq D, Texts(toks, D), NEW l, NEW k \in 1 .. Len(toks) + 1,
         ~Reads1(toks, k, l)
  PROVE  Last1(toks, k, l) \in ParamsKnown(toks, l)
<1> DEFINE last == Len(toks)
<1>1. last \in Nat /\ k \in 1 .. last + 1
  BY DEF Texts
<1>2. CASE At(toks, k) \in {"end", ")"}
  <2> DEFINE E == DiagOf(toks, l)
             G == GivenOf(toks, l)
             r == [ok |-> TRUE, params |-> <<>>, diags |-> <<>>, next |-> k]
  <2>1. r \in [ok : {TRUE}, params : Seq(G), diags : Seq(E), next : 1 .. last + 1]
    <3> HIDE DEF E, G, last
    <3> QED BY <1>1
  <2>2. Last1(toks, k, l) = r
    BY <1>2 DEF Last1
  <2> QED BY <2>1, <2>2 DEF ParamsKnown, ParamsRead
<1>3. CASE At(toks, k) \notin {"end", ")"}
  <2>1. k \in 1 .. last
    <3>1. k <= last
      BY <1>3 DEF At
    <3> HIDE DEF last
    <3> QED BY <1>1, <3>1
  <2>2. CASE At(toks, k) # "ident"
    <3>1. Last1(toks, k, l) = NoReading(Here("E0006", l, toks[k]))
      BY <1>3, <2>2 DEF Last1
    <3>2. Here("E0006", l, toks[k]) \in DiagOf(toks, l)
      BY <2>1, DiagIn, NotProposing DEF DiagAt
    <3> QED BY <3>1, <3>2, FailedHere
  <2>3. CASE At(toks, k) = "ident" /\ At(toks, k + 1) # ":"
    <3>1. Last1(toks, k, l) = NoReading(Here("E0007", l, toks[k]))
      BY <1>3, <2>3 DEF Last1
    <3>2. Here("E0007", l, toks[k]) \in DiagOf(toks, l)
      BY <2>1, DiagIn, NotProposing DEF DiagAt
    <3> QED BY <3>1, <3>2, FailedHere
  <2>4. CASE At(toks, k) = "ident" /\ At(toks, k + 1) = ":"
    <3> DEFINE type == TypeAt(toks, k, l)
    <3>1. Last1(toks, k, l) = type
      BY <1>3, <2>4 DEF Last1
    <3>2. ~type.ok
      BY <1>3, <2>4 DEF Reads1
    <3>3. k + 2 \in Nat \ {0}
      BY <1>1
    <3>4. TypeRead(type, k + 2, last)
      BY <3>3, ParseTypeIs DEF TypeAt
    <3>5. PICK d : type = NoReading(d)
      BY <3>2, <3>4 DEF TypeRead
    <3>6. type.diags = <<d>>
      BY <3>5 DEF NoReading
    <3>7. Proposed(d) /\ type.diags[1] = d
      <4>1. <<d>>[1] = d /\ <<d>> # <<>>
        OBVIOUS
      <4>2. \A e : <<e>>[1] = e
        OBVIOUS
      <4>3. \E e : <<d>> = <<e>> /\ Proposed(e)
        BY <3>4, <3>6, <4>1 DEF TypeRead
      <4> QED BY <3>6, <4>1, <4>2, <4>3
    <3>8. d \in DiagOf(toks, l)
      <4>1. d \in DiagAt(toks, k, l)
        BY <3>7 DEF DiagAt
      <4> QED BY <2>1, <3>7, <4>1, DiagIn
    <3> HIDE DEF type
    <3> QED BY <3>1, <3>5, <3>8, FailedHere
  <2> QED BY <2>2, <2>3, <2>4
<1> QED BY <1>2, <1>3

(* The token a parameter is followed by is behind it. *)
LEMMA AfterParam ==
  ASSUME NEW toks, NEW D, Joining \subseteq D, Texts(toks, D), NEW l, NEW k \in 1 .. Len(toks) + 1,
         Reads1(toks, k, l)
  PROVE  /\ k \in 1 .. Len(toks) /\ After1(toks, k, l) \in k + 1 .. Len(toks) + 1
         /\ TypeAt(toks, k, l).diags \in Seq(DiagOf(toks, l))
<1> DEFINE last == Len(toks)
           type == TypeAt(toks, k, l)
           m == type.next
<1>1. last \in Nat /\ k \in 1 .. last + 1
  BY DEF Texts
<1>2. k \in 1 .. last
  <2>1. k <= last
    BY DEF At, Reads1
  <2> HIDE DEF last
  <2> QED BY <1>1, <2>1
<1>3. TypeRead(type, k + 2, last)
  <2>1. k + 2 \in Nat \ {0}
    BY <1>1
  <2> QED BY <2>1, ParseTypeIs DEF TypeAt
<1>4. m \in (k + 2) + 1 .. last + 1
  BY <1>3 DEF TypeRead, Reads1
<1>5. After1(toks, k, l) \in m .. last + 1
  <2>1. m \in 1 .. last + 1
    <3> HIDE DEF m, last
    <3> QED BY <1>1, <1>4
  <2>2. AfterComma(toks, m) \in m .. last + 1
    <3> HIDE DEF m
    <3> QED BY <1>1, <2>1, AfterCommaIs
  <2> QED BY <2>2 DEF After1
<1>6. After1(toks, k, l) \in k + 1 .. last + 1
  <2> HIDE DEF m, last
  <2> QED BY <1>1, <1>4, <1>5
<1>7. type.diags \in Seq(DiagOf(toks, l))
  <2> DEFINE E == DiagOf(toks, l)
  <2>1. CASE type.diags = <<>>
    BY <2>1
  <2>2. CASE type.diags # <<>>
    <3>1. PICK d : type.diags = <<d>> /\ Proposed(d)
      BY <1>3, <2>2 DEF TypeRead
    <3>2. type.diags[1] = d
      BY <3>1
    <3>3. d \in DiagAt(toks, k, l)
      BY <3>2 DEF DiagAt
    <3>4. d \in E
      BY <1>2, <3>1, <3>3, DiagIn
    <3> HIDE DEF E, type
    <3>5. <<d>> \in Seq(E)
      BY <3>4
    <3> QED BY <3>1, <3>5 DEF E, type
  <2> QED BY <2>1, <2>2
<1> QED BY <1>2, <1>6, <1>7

(* The parameters behind a parameter have been read already. *)
LEMMA FollowKnown ==
  ASSUME NEW toks, NEW D, Joining \subseteq D, Texts(toks, D), NEW l, NEW k \in 1 .. Len(toks) + 1,
         Reads1(toks, k, l), NEW rest \in ParamsKnown(toks, l)
  PROVE  Follow1(toks, k, l, rest) \in ParamsKnown(toks, l)
<1> DEFINE E == DiagOf(toks, l)
           G == GivenOf(toks, l)
           type == TypeAt(toks, k, l)
           g == Given(toks, k, l, type)
<1>1. type.ok
  BY DEF Reads1
<1>2. type.diags \in Seq(E) /\ k \in 1 .. Len(toks)
  BY AfterParam
<1>3. g \in G
  BY <1>2 DEF GivenOf
<1>4. rest.diags \in Seq(E)
  BY DEF ParamsKnown, ParamsRead, ParamsFailed
<1>5. CASE rest \in ParamsRead(toks, l)
  <2>1. rest.ok = TRUE /\ rest.params \in Seq(G)
    BY <1>5 DEF ParamsRead
  <2>2. Follow1(toks, k, l, rest) = [rest EXCEPT !.diags = type.diags \o @, !.params = <<g>> \o @]
    BY <1>1, <2>1 DEF Follow1, FirstParam
  <2>3. rest \in [ok : {TRUE}, params : Seq(G), diags : Seq(E), next : 1 .. Len(toks) + 1]
    BY <1>5 DEF ParamsRead
  <2> DEFINE x == type.diags \o rest.diags
             y == <<g>> \o rest.params
             N == 1 .. Len(toks) + 1
  <2> HIDE DEF E, G, type, g, N
  <2>4. x \in Seq(E) /\ y \in Seq(G)
    <3>1. <<g>> \in Seq(G)
      BY <1>3
    <3>2. y \in Seq(G)
      BY <2>1, <3>1, ConcatProperties
    <3> QED BY <1>2, <1>4, <3>2, ConcatProperties
  <2>5. [rest EXCEPT !.diags = type.diags \o @, !.params = <<g>> \o @] = [rest EXCEPT !.diags = x, !.params = y]
    BY <2>3
  <2> HIDE DEF x, y
  <2>6. [rest EXCEPT !.diags = x, !.params = y] \in [ok : {TRUE}, params : Seq(G), diags : Seq(E), next : N]
    <3>1. rest \in [ok : {TRUE}, params : Seq(G), diags : Seq(E), next : N]
      BY <2>3 DEF N
    <3> QED BY <2>4, <3>1
  <2>7. Follow1(toks, k, l, rest) \in [ok : {TRUE}, params : Seq(G), diags : Seq(E), next : N]
    BY <2>2, <2>5, <2>6
  <2> QED BY <2>7 DEF ParamsKnown, ParamsRead, E, G, N
<1>6. CASE rest \in ParamsFailed(toks, l)
  <2>1. rest.ok = FALSE /\ rest \in [ok : {FALSE}, diags : Seq(E), next : {0}]
    BY <1>6 DEF ParamsFailed
  <2>2. Follow1(toks, k, l, rest) = [rest EXCEPT !.diags = type.diags \o @]
    BY <1>1, <2>1 DEF Follow1, FirstParam
  <2> DEFINE x == type.diags \o rest.diags
  <2> HIDE DEF E, G, type, g
  <2>4. x \in Seq(E)
    BY <1>2, <1>4, ConcatProperties
  <2>5. [rest EXCEPT !.diags = type.diags \o @] = [rest EXCEPT !.diags = x]
    BY <2>1
  <2> HIDE DEF x
  <2>6. [rest EXCEPT !.diags = x] \in [ok : {FALSE}, diags : Seq(E), next : {0}]
    BY <2>1, <2>4
  <2>7. Follow1(toks, k, l, rest) \in [ok : {FALSE}, diags : Seq(E), next : {0}]
    BY <2>2, <2>5, <2>6
  <2> QED BY <2>7 DEF ParamsKnown, ParamsFailed, E
<1> QED BY <1>5, <1>6 DEF ParamsKnown

ParamsReads(toks, l, f) ==
  f = [k \in 1 .. Len(toks) + 1 |->
        IF At(toks, k) \in {"end", ")"} THEN [ok |-> TRUE, params |-> <<>>, diags |-> <<>>, next |-> k]
        ELSE IF At(toks, k) # "ident" THEN NoReading(Here("E0006", l, toks[k]))
        ELSE IF At(toks, k + 1) # ":" THEN NoReading(Here("E0007", l, toks[k]))
        ELSE LET type == ParseType(toks, k + 2, l)
             IN FirstParam(toks, k, l, type, f[AfterComma(toks, type.next)])]
ParamsFrom(toks, l) == CHOOSE f : ParamsReads(toks, l, f)

(* The parameters, by the token they are read from. *)
LEMMA ParamsFromIs ==
  ASSUME NEW toks, NEW D, Joining \subseteq D, Texts(toks, D), NEW l
  PROVE  LET F == ParamsFrom(toks, l)
         IN /\ \A k \in 1 .. Len(toks) + 1 :
                 /\ F[k] \in ParamsKnown(toks, l)
                 /\ F[k] = IF Reads1(toks, k, l) THEN Follow1(toks, k, l, F[After1(toks, k, l)])
                           ELSE Last1(toks, k, l)
            /\ \A i : Params(toks, i, l) = F[i]
<1> DEFINE last == Len(toks) + 1
           I == 1 .. last
           T == ParamsKnown(toks, l)
           nil == [ok |-> TRUE, params |-> <<>>, diags |-> <<>>, next |-> 1]
           Leaf == {k \in I : ~Reads1(toks, k, l)}
           after == [k \in I |-> IF Reads1(toks, k, l) THEN After1(toks, k, l) ELSE last]
           base == [k \in I |-> IF Reads1(toks, k, l) THEN nil ELSE Last1(toks, k, l)]
           step == [x \in I \X T |-> IF Reads1(toks, x[1], l) THEN Follow1(toks, x[1], l, x[2]) ELSE nil]
<1>1. last \in Nat \ {0} /\ Leaf \in SUBSET I /\ Len(toks) \in Nat
  BY DEF Texts
<1>2. \A k \in I : Reads1(toks, k, l) => After1(toks, k, l) \in k + 1 .. last
  <2> TAKE k \in I
  <2> HAVE Reads1(toks, k, l)
  <2> QED BY AfterParam
<1>3. after \in [I -> I] /\ \A k \in I \ Leaf : after[k] > k
  <2> HIDE DEF last
  <2> QED BY <1>1, <1>2
<1>4. nil \in T
  <2> DEFINE E == DiagOf(toks, l)
             G == GivenOf(toks, l)
  <2>1. nil \in [ok : {TRUE}, params : Seq(G), diags : Seq(E), next : I]
    <3> HIDE DEF E, G, last
    <3> QED BY <1>1
  <2> QED BY <2>1 DEF ParamsKnown, ParamsRead
<1>5. base \in [I -> T]
  <2>1. \A k \in I : ~Reads1(toks, k, l) => Last1(toks, k, l) \in T
    <3> TAKE k \in I
    <3> HAVE ~Reads1(toks, k, l)
    <3> QED BY LastKnown
  <2> HIDE DEF T, I, nil
  <2> QED BY <1>4, <2>1
<1>6. step \in [I \X T -> T]
  <2> SUFFICES ASSUME NEW x \in I \X T PROVE step[x] \in T
    OBVIOUS
  <2>1. x[1] \in I /\ x[2] \in T
    OBVIOUS
  <2>2. step[x] = IF Reads1(toks, x[1], l) THEN Follow1(toks, x[1], l, x[2]) ELSE nil
    OBVIOUS
  <2>3. Reads1(toks, x[1], l) => Follow1(toks, x[1], l, x[2]) \in T
    BY <2>1, FollowKnown
  <2> HIDE DEF step, T, nil
  <2> QED BY <1>4, <2>2, <2>3
<1>7. PICK f \in [I -> T] : Falls(f, last, Leaf, after, base, step)
  <2> HIDE DEF last, Leaf, after, base, step, T
  <2>1. last \in Nat
    BY <1>1
  <2> QED BY <1>1, <1>3, <1>5, <1>6, <2>1, DownRecursion
<1> DEFINE Turn1(g, k) == IF Reads1(toks, k, l) THEN Follow1(toks, k, l, g[After1(toks, k, l)]) ELSE Last1(toks, k, l)
<1>8. ASSUME NEW k \in I PROVE f[k] = Turn1(f, k)
  <2>0. f[k] = IF k \in Leaf THEN base[k] ELSE step[<<k, f[after[k]]>>]
    BY <1>7 DEF Falls
  <2>1. CASE ~Reads1(toks, k, l)
    <3>1. k \in Leaf /\ base[k] = Last1(toks, k, l)
      BY <2>1
    <3> HIDE DEF Leaf, base
    <3> QED BY <2>0, <2>1, <3>1
  <2>2. CASE Reads1(toks, k, l)
    <3>1. k \notin Leaf
      BY <2>2
    <3>2. after[k] = After1(toks, k, l) /\ after[k] \in I
      BY <1>3, <2>2
    <3>3. <<k, f[after[k]]>> \in I \X T
      BY <3>2
    <3> DEFINE x == <<k, f[after[k]]>>
    <3>4. x[1] = k /\ x[2] = f[after[k]] /\ x \in I \X T
      BY <3>3
    <3>5. step[x] = IF Reads1(toks, x[1], l) THEN Follow1(toks, x[1], l, x[2]) ELSE nil
      BY <3>4
    <3> HIDE DEF x, step, T, nil, I, Leaf
    <3>6. step[x] = Follow1(toks, k, l, f[after[k]])
      BY <2>2, <3>4, <3>5
    <3> HIDE DEF after
    <3>7. f[k] = step[x]
      BY <2>0, <3>1 DEF x
    <3> QED BY <2>2, <3>2, <3>6, <3>7
  <2> QED BY <2>1, <2>2
<1> DEFINE P(g, k) ==
        IF At(toks, k) \in {"end", ")"} THEN [ok |-> TRUE, params |-> <<>>, diags |-> <<>>, next |-> k]
        ELSE IF At(toks, k) # "ident" THEN NoReading(Here("E0006", l, toks[k]))
        ELSE IF At(toks, k + 1) # ":" THEN NoReading(Here("E0007", l, toks[k]))
        ELSE FirstParam(toks, k, l, ParseType(toks, k + 2, l), g[AfterComma(toks, ParseType(toks, k + 2, l).next)])
<1>9. \A g, k : P(g, k) = Turn1(g, k)
  <2> TAKE g, k
  <2>1. CASE Reads1(toks, k, l)
    <3>1. P(g, k) = FirstParam(toks, k, l, TypeAt(toks, k, l), g[After1(toks, k, l)])
      BY <2>1 DEF Reads1, TypeAt, After1
    <3> QED BY <2>1, <3>1 DEF Follow1
  <2>2. CASE ~Reads1(toks, k, l)
    <3>1. CASE At(toks, k) \notin {"end", ")"} /\ At(toks, k) = "ident" /\ At(toks, k + 1) = ":"
      <4>1. ~TypeAt(toks, k, l).ok
        BY <2>2, <3>1 DEF Reads1
      <4>2. P(g, k) = TypeAt(toks, k, l)
        BY <3>1, <4>1 DEF FirstParam, TypeAt
      <4>3. Last1(toks, k, l) = TypeAt(toks, k, l)
        BY <3>1 DEF Last1
      <4> QED BY <2>2, <4>2, <4>3
    <3>2. CASE ~(At(toks, k) \notin {"end", ")"} /\ At(toks, k) = "ident" /\ At(toks, k + 1) = ":")
      <4>1. P(g, k) = Last1(toks, k, l)
        BY <3>2 DEF Last1
      <4> QED BY <2>2, <4>1
    <3> QED BY <3>1, <3>2
  <2> QED BY <2>1, <2>2
<1>10. \A g : ParamsReads(toks, l, g) <=> g = [k \in I |-> P(g, k)]
  BY Zenon DEF ParamsReads, P, I, last
<1> HIDE DEF P
<1>11. \A g : ParamsReads(toks, l, g) <=> g = [k \in I |-> Turn1(g, k)]
  <2> TAKE g
  <2> HIDE DEF Turn1
  <2>1. [k \in I |-> P(g, k)] = [k \in I |-> Turn1(g, k)]
    BY <1>9
  <2> QED BY <1>10, <2>1
<1> HIDE DEF Turn1
<1>12. ParamsReads(toks, l, f)
  <2>1. f = [k \in I |-> f[k]]
    OBVIOUS
  <2>2. f = [k \in I |-> Turn1(f, k)]
    BY <1>8, <2>1
  <2> QED BY <1>11, <2>2
<1> DEFINE F == ParamsFrom(toks, l)
<1>13. ParamsReads(toks, l, F)
  BY <1>12, Zenon DEF ParamsFrom
<1>14. \A k \in I : F[k] = Turn1(F, k)
  <2> HIDE DEF F
  <2>1. F = [k \in I |-> Turn1(F, k)]
    BY <1>11, <1>13
  <2> QED BY <2>1
<1> DEFINE S == {k \in I : F[k] = f[k]}
<1>15. ASSUME NEW k \in I, \A j \in I : j > k => j \in S PROVE k \in S
  <2> HIDE DEF F
  <2>1. CASE ~Reads1(toks, k, l)
    <3>1. F[k] = f[k]
      BY <1>8, <1>14, <2>1 DEF Turn1
    <3> QED BY <3>1
  <2>2. CASE Reads1(toks, k, l)
    <3> DEFINE m == After1(toks, k, l)
    <3>1. m \in k + 1 .. last
      BY <1>2, <2>2
    <3>2. m \in I /\ m > k
      <4> HIDE DEF m, last
      <4> QED BY <1>1, <3>1
    <3>3. F[m] = f[m]
      BY <1>15, <3>2
    <3> HIDE DEF I
    <3>4. F[k] = f[k]
      BY <1>8, <1>14, <2>2, <3>3 DEF Turn1
    <3> QED BY <3>4
  <2> QED BY <2>1, <2>2
<1>16. I \subseteq S
  <2> HIDE DEF S, last
  <2>1. S \in SUBSET (1 .. last)
    BY DEF S
  <2>2. \A i \in 1 .. last : (\A j \in 1 .. last : j > i => j \in S) => i \in S
    BY <1>15
  <2>3. last \in Nat
    BY <1>1
  <2> QED BY <2>1, <2>2, <2>3, DownInduction
<1>17. ASSUME NEW k \in I PROVE F[k] \in T
  <2>1. F[k] = f[k]
    BY <1>16
  <2> HIDE DEF F, T, I
  <2> QED BY <2>1
<1>18. \A i : Params(toks, i, l) = F[i]
  BY Zenon DEF Params, ParamsFrom, ParamsReads
<1> QED BY <1>14, <1>17, <1>18, Zenon DEF Turn1

(* Diagnostics that propose what Suggest proposes, together. *)
LEMMA SensibleNone == Sensible(<<>>)
<1> DEFINE S == {}
<1>1. <<>> \in Seq(S) /\ \A d \in S : Proposed(d)
  OBVIOUS
<1> HIDE DEF S
<1> QED BY <1>1 DEF Sensible

(* A single diagnostic. *)
LEMMA SensibleOne ==
  ASSUME NEW d, Proposed(d)
  PROVE  Sensible(<<d>>)
<1> DEFINE S == {d}
<1>1. <<d>> \in Seq(S) /\ \A e \in S : Proposed(e)
  OBVIOUS
<1> HIDE DEF S
<1> QED BY <1>1 DEF Sensible

(* The diagnostics of one part of a signature, and of the next. *)
LEMMA SensibleBoth ==
  ASSUME NEW x, NEW y, Sensible(x), Sensible(y)
  PROVE  Sensible(x \o y)
<1>1. PICK S : x \in Seq(S) /\ \A d \in S : Proposed(d)
  BY DEF Sensible
<1>2. PICK R : y \in Seq(R) /\ \A d \in R : Proposed(d)
  BY DEF Sensible
<1> DEFINE U == S \cup R
<1>3. x \in Seq(U) /\ y \in Seq(U) /\ \A d \in U : Proposed(d)
  <2>1. S \subseteq U /\ R \subseteq U
    OBVIOUS
  <2>2. \A d \in U : Proposed(d)
    BY <1>1, <1>2
  <2> HIDE DEF U
  <2>3. x \in Seq(U)
    BY <1>1, <2>1, SeqOfMore
  <2>4. y \in Seq(U)
    BY <1>2, <2>1, SeqOfMore
  <2> QED BY <2>2, <2>3, <2>4
<1> HIDE DEF U
<1>4. x \o y \in Seq(U)
  BY <1>3, ConcatProperties
<1> QED BY <1>3, <1>4 DEF Sensible

(* One more diagnostic. *)
LEMMA SensibleMore ==
  ASSUME NEW x, NEW d, Sensible(x), Proposed(d)
  PROVE  Sensible(Append(x, d))
<1>1. PICK S : x \in Seq(S) /\ \A e \in S : Proposed(e)
  BY DEF Sensible
<1> DEFINE U == S \cup {d}
<1>2. S \subseteq U /\ d \in U /\ \A e \in U : Proposed(e)
  BY <1>1
<1> HIDE DEF U
<1>3. x \in Seq(U)
  BY <1>1, <1>2, SeqOfMore
<1>4. Append(x, d) \in Seq(U)
  BY <1>2, <1>3
<1> QED BY <1>2, <1>4 DEF Sensible

(* So are those of a type and of the parameters. *)
LEMMA SensibleType ==
  ASSUME NEW toks, NEW D, Joining \subseteq D, Texts(toks, D), NEW i \in Nat \ {0}, NEW l
  PROVE  Sensible(ParseType(toks, i, l).diags)
<1> DEFINE type == ParseType(toks, i, l)
<1>1. TypeRead(type, i, Len(toks))
  BY ParseTypeIs
<1>2. type.diags = <<>> \/ \E d : type.diags = <<d>> /\ Proposed(d)
  BY <1>1 DEF TypeRead
<1> HIDE DEF type
<1>3. CASE type.diags = <<>>
  BY <1>3, SensibleNone DEF type
<1>4. CASE \E d : type.diags = <<d>> /\ Proposed(d)
  <2>1. PICK d : type.diags = <<d>> /\ Proposed(d)
    BY <1>4
  <2> QED BY <2>1, SensibleOne DEF type
<1> QED BY <1>2, <1>3, <1>4

(* The diagnostics of the parameters. *)
LEMMA SensibleParams ==
  ASSUME NEW toks, NEW D, Joining \subseteq D, Texts(toks, D), NEW l, NEW i \in 1 .. Len(toks) + 1
  PROVE  LET ps == Params(toks, i, l)
         IN Sensible(ps.diags) /\ ps.ok \in BOOLEAN /\ (ps.ok => ps.next \in 1 .. Len(toks) + 1)
<1> DEFINE ps == Params(toks, i, l)
<1>1. ps \in ParamsKnown(toks, l)
  BY ParamsFromIs
<1> HIDE DEF ps
<1>2. ps.diags \in Seq(DiagOf(toks, l)) /\ ps.ok \in BOOLEAN /\ (ps.ok => ps.next \in 1 .. Len(toks) + 1)
  BY <1>1 DEF ParamsKnown, ParamsRead, ParamsFailed
<1>3. \A d \in DiagOf(toks, l) : Proposed(d)
  BY DEF DiagOf
<1> QED BY <1>2, <1>3 DEF Sensible, ps

(* The diagnostics of a signature that is rejected. *)
LEMMA FailedDiags ==
  ASSUME NEW ds
  PROVE  Failed(ds).diags = ds
BY DEF Failed

(* What stands behind the signature. *)
LEMMA SensibleTrailing ==
  ASSUME NEW toks, NEW i, NEW l
  PROVE  Sensible(Trailing(toks, i, l))
<1>1. CASE At(toks, i) = "end"
  BY <1>1, SensibleNone DEF Trailing
<1>2. CASE At(toks, i) # "end"
  <2>1. Sensible(<<Here("E0012", l, toks[i])>>)
    BY SensibleOne, NotProposing
  <2> QED BY <1>2, <2>1 DEF Trailing
<1> QED BY <1>1, <1>2

(* The diagnostics of what stands behind the parameters. *)
LEMMA SensibleResult ==
  ASSUME NEW toks, NEW D, Joining \subseteq D, Texts(toks, D), NEW l, NEW i \in 1 .. Len(toks) + 1,
         NEW fn, NEW diags, Sensible(diags)
  PROVE  Sensible(ParseResult(toks, i, l, fn, diags).diags)
<1> DEFINE r == ParseResult(toks, i, l, fn, diags)
           type == ParseType(toks, i + 4, l)
           behind == Trailing(toks, type.next, l)
<1>1. CASE At(toks, i) # ")"
  <2>1. r = Failed(Append(diags, Whole("E0008", l)))
    BY <1>1 DEF ParseResult
  <2> HIDE DEF r
  <2> QED BY <2>1, FailedDiags, SensibleMore, NotProposing DEF r
<1>2. CASE At(toks, i) = ")" /\ At(toks, i + 1) # "->"
  <2>1. r = Failed(Append(diags, Whole("E0009", l)))
    BY <1>2 DEF ParseResult
  <2> HIDE DEF r
  <2> QED BY <2>1, FailedDiags, SensibleMore, NotProposing DEF r
<1>3. CASE At(toks, i) = ")" /\ At(toks, i + 1) = "->" /\ At(toks, i + 2) # "ident"
  <2>1. r = Failed(Append(diags, Whole("E0010", l)))
    BY <1>3 DEF ParseResult
  <2> HIDE DEF r
  <2> QED BY <2>1, FailedDiags, SensibleMore, NotProposing DEF r
<1>4. CASE At(toks, i) = ")" /\ At(toks, i + 1) = "->" /\ At(toks, i + 2) = "ident" /\ At(toks, i + 3) # ":"
  <2>1. r = Failed(Append(diags, Here("E0011", l, toks[i + 2])))
    BY <1>4 DEF ParseResult
  <2> HIDE DEF r
  <2> QED BY <2>1, FailedDiags, SensibleMore, NotProposing DEF r
<1>5. CASE At(toks, i) = ")" /\ At(toks, i + 1) = "->" /\ At(toks, i + 2) = "ident" /\ At(toks, i + 3) = ":"
  <2>1. r = Complete(toks, i + 2, l, fn, diags, type)
    BY <1>5 DEF ParseResult
  <2>2. Sensible(diags \o type.diags)
    <3>1. i + 4 \in Nat \ {0}
      OBVIOUS
    <3>2. Sensible(type.diags)
      BY <3>1, SensibleType
    <3> QED BY <3>2, SensibleBoth
  <2>3. Sensible(diags \o type.diags \o behind)
    BY <2>2, SensibleTrailing, SensibleBoth
  <2> HIDE DEF type, behind, r
  <2>4. r.diags = IF ~type.ok THEN diags \o type.diags ELSE diags \o type.diags \o behind
    BY <2>1 DEF Complete, Failed, behind
  <2>5. Sensible(r.diags)
    BY <2>2, <2>3, <2>4
  <2> QED BY <2>5 DEF r
<1> QED BY <1>1, <1>2, <1>3, <1>4, <1>5

(* The diagnostics of a signature, by its tokens. *)
LEMMA SensibleTokens ==
  ASSUME NEW toks, NEW D, Joining \subseteq D, Texts(toks, D), NEW l, NEW mode
  PROVE  Sensible(ParseTokens(toks, l, mode).diags)
<1> DEFINE r == ParseTokens(toks, l, mode)
           ps == Params(toks, 5, l)
           fn == [mode |-> mode, name |-> toks[3].text, span |-> TokenSpan(l, toks[3]),
                  params |-> ps.params, result |-> <<>>]
           last == Len(toks)
<1>0. last \in Nat
  BY DEF Texts
<1>1. CASE last < 3
  <2>1. r = Failed(<<Whole("E0003", l)>>)
    BY <1>1 DEF ParseTokens
  <2> HIDE DEF r
  <2> QED BY <2>1, FailedDiags, SensibleOne, NotProposing DEF r
<1>2. CASE ~(last < 3) /\ At(toks, 3) # "ident"
  <2>1. r = Failed(<<Here("E0004", l, toks[3])>>)
    BY <1>2 DEF ParseTokens
  <2> HIDE DEF r
  <2> QED BY <2>1, FailedDiags, SensibleOne, NotProposing DEF r
<1>3. CASE ~(last < 3) /\ At(toks, 3) = "ident" /\ At(toks, 4) # "("
  <2>1. r = Failed(<<Here("E0005", l, toks[3])>>)
    BY <1>3 DEF ParseTokens
  <2> HIDE DEF r
  <2> QED BY <2>1, FailedDiags, SensibleOne, NotProposing DEF r
<1>4. CASE ~(last < 3) /\ At(toks, 3) = "ident" /\ At(toks, 4) = "("
  <2>1. r = Accepted(toks, l, mode, ps)
    BY <1>4 DEF ParseTokens
  <2>2. 5 \in 1 .. last + 1
    <3>1. 4 <= last
      BY <1>4 DEF At
    <3> HIDE DEF last
    <3> QED BY <1>0, <3>1
  <2>3. Sensible(ps.diags) /\ ps.ok \in BOOLEAN /\ (ps.ok => ps.next \in 1 .. last + 1)
    BY <2>2, SensibleParams
  <2>4. r = IF ~ps.ok THEN Failed(ps.diags) ELSE ParseResult(toks, ps.next, l, fn, ps.diags)
    BY <2>1 DEF Accepted
  <2> HIDE DEF r, ps, fn
  <2>5. Failed(ps.diags).diags = ps.diags
    BY FailedDiags
  <2>6. ps.ok => Sensible(ParseResult(toks, ps.next, l, fn, ps.diags).diags)
    BY <2>3, SensibleResult
  <2>7. Sensible(r.diags)
    BY <2>3, <2>4, <2>5, <2>6
  <2> QED BY <2>7 DEF r
<1> QED BY <1>1, <1>2, <1>3, <1>4

(* The runes of a text. *)
LEMMA SeqOverItself ==
  ASSUME NEW s, Len(s) \in Nat, s = [i \in 1 .. Len(s) |-> s[i]]
  PROVE  s \in Seq({s[i] : i \in 1 .. Len(s)})
OBVIOUS

(* The tokens of a text have texts of its runes. *)
LEMMA TokensTexts ==
  ASSUME NEW C, NEW s \in Seq(C)
  PROVE  Texts(Tokens(s), C \cup Joining)
<1> DEFINE D == C \cup Joining
           toks == Tokens(s)
           K == TokenOf(s)
<1>1. Len(s) \in Nat
  OBVIOUS
<1>2. toks \in Seq(K)
  <2>1. 1 \in 1 .. Len(s) + 1
    BY <1>1
  <2> QED BY <1>1, <2>1, TokensFromIs
<1>3. ASSUME NEW t \in K PROVE t.text \in Seq(D)
  <2>1. PICK i \in 1 .. Len(s) : t = Token(s, i)
    BY DEF TokenOf
  <2> DEFINE e == i + TokenLength(s, i) - 1
  <2>2. e \in i .. Len(s)
    <3> DEFINE w == TokenLength(s, i)
               last == Len(s)
    <3>1. w \in Nat \ {0} /\ i + w <= last + 1 /\ last \in Nat /\ i \in 1 .. last
      BY <1>1, TokenLengthIs
    <3> HIDE DEF w, last
    <3>2. i + w - 1 \in i .. last
      BY <3>1
    <3> QED BY <3>2 DEF w, last
  <2>3. t.text = SubSeq(s, i, e)
    BY <2>1 DEF Token
  <2> HIDE DEF e
  <2>4. SubSeq(s, i, e) \in Seq(C)
    <3>1. i \in Int /\ e \in Int
      BY <2>2
    <3>2. \A k \in i .. e : s[k] \in C
      BY <2>2
    <3> QED BY <3>1, <3>2, SubSeqProperties
  <2>5. C \subseteq D
    OBVIOUS
  <2> HIDE DEF D
  <2> QED BY <2>3, <2>4, <2>5, SeqOfMore
<1> HIDE DEF toks, K, D
<1>4. Len(toks) \in Nat /\ \A i \in 1 .. Len(toks) : toks[i] \in K
  BY <1>2
<1> QED BY <1>3, <1>4 DEF Texts, toks, D

(* A joined line has as many runes as its text, and is of the same alphabet *)
(* as that text.                                                            *)
LEMMA TextSeq ==
  ASSUME NEW l, NEW C, l.text \in Seq(C)
  PROVE  Text(l) \in Seq({Text(l)[i] : i \in 1 .. Len(Text(l))}) /\ Len(Text(l)) = Len(l.text)
<1> DEFINE s == Text(l)
           r(i) == IF l.text[i] = Gap THEN Blank ELSE LineText(lines, l.text[i][1])[l.text[i][2]]
<1>1. DOMAIN l.text = 1 .. Len(l.text) /\ Len(l.text) \in Nat
  OBVIOUS
<1>2. s = [i \in 1 .. Len(l.text) |-> r(i)]
  BY <1>1, Zenon DEF Text, Blank
<1> HIDE DEF s, r
<1>3. Len(s) = Len(l.text) /\ s = [i \in 1 .. Len(s) |-> s[i]]
  BY <1>1, <1>2
<1>4. s \in Seq({s[i] : i \in 1 .. Len(s)})
  BY <1>1, <1>3, SeqOverItself
<1> QED BY <1>3, <1>4 DEF s

(* The diagnostics of a signature, by its text. *)
LEMMA SensibleSignature ==
  ASSUME NEW l, NEW C, l.text \in Seq(C), NEW mode
  PROVE  Sensible(ParseSignature(l, mode).diags)
<1> DEFINE s == Text(l)
           toks == Tokens(s)
           U == {s[i] : i \in 1 .. Len(s)}
<1>1. s \in Seq(U)
  BY TextSeq
<1> HIDE DEF s, U
<1>2. Texts(toks, U \cup Joining)
  BY <1>1, TokensTexts
<1> DEFINE D == U \cup Joining
<1>3. Joining \subseteq D
  OBVIOUS
<1> HIDE DEF toks, D
<1>4. Texts(toks, D)
  BY <1>2 DEF D
<1>5. Sensible(ParseTokens(toks, l, mode).diags)
  BY <1>3, <1>4, SensibleTokens
<1> QED BY <1>5 DEF ParseSignature, toks, s

(* What trimming and stripping leave begins the text. *)
LEMMA IndentIs ==
  ASSUME NEW C, NEW s \in Seq(C)
  PROVE  /\ Indent(s) \in 0 .. Len(s) /\ \A i \in 1 .. Indent(s) : s[i] \in Blanks
         /\ Indent(s) < Len(s) => s[Indent(s) + 1] \notin Blanks
<1> DEFINE last == Len(s)
           E == Solid(s) \cup {last + 1}
           m == Min(E)
<1>1. last \in Nat /\ Solid(s) = {i \in 1 .. last : s[i] \notin Blanks}
  BY DEF Solid
<1> HIDE DEF last
<1>2. E \in SUBSET (1 .. last + 1) /\ E # {} /\ last + 1 \in Nat
  BY <1>1
<1> HIDE DEF E
<1>3. m \in E /\ \A i \in E : m <= i
  BY <1>2, LeastGreatest
<1>4. m \in 1 .. last + 1
  BY <1>2, <1>3
<1> HIDE DEF m
<1>5. \A i \in 1 .. m - 1 : s[i] \in Blanks
  <2> SUFFICES ASSUME NEW i \in 1 .. m - 1 PROVE s[i] \in Blanks
    OBVIOUS
  <2>1. i \in 1 .. last /\ ~(m <= i)
    BY <1>1, <1>4
  <2>2. i \notin E
    BY <1>3, <2>1
  <2> QED BY <1>1, <2>1, <2>2 DEF E
<1>6. m <= last => s[m] \notin Blanks
  <2> HAVE m <= last
  <2>1. m # last + 1
    BY <1>1, <1>4
  <2> QED BY <1>1, <1>3, <2>1 DEF E
<1>7. Indent(s) = m - 1
  BY DEF Indent, m, E, last
<1>8. Indent(s) \in 0 .. last /\ Indent(s) + 1 = m /\ (Indent(s) < last <=> m <= last)
  BY <1>1, <1>4, <1>7
<1> QED BY <1>5, <1>6, <1>7, <1>8 DEF last

(* Without the blanks at its end, a text is a beginning of itself. *)
LEMMA TrimRightIs ==
  ASSUME NEW C, NEW s \in Seq(C)
  PROVE  \E m \in 0 .. Len(s) :
           /\ TrimRight(s) = SubSeq(s, 1, m) /\ (m > 0 => s[m] \notin Blanks)
           /\ \A i \in m + 1 .. Len(s) : s[i] \in Blanks
<1> DEFINE last == Len(s)
           E == Solid(s)
           F == E \cup {0}
<1>1. last \in Nat /\ E = {i \in 1 .. last : s[i] \notin Blanks}
  BY DEF Solid
<1> HIDE DEF last
<1>2. TrimRight(s) = SubSeq(s, 1, Max(F))
  BY DEF TrimRight
<1>3. E \in SUBSET (1 .. last) /\ F \in SUBSET Int
  BY <1>1
<1>4. CASE E = {}
  <2>1. 0 \in F /\ \A i \in F : i <= 0
    BY <1>4
  <2>2. Max(F) = 0
    <3> HIDE DEF F
    <3> QED BY <1>3, <2>1, MaxIs
  <2>3. \A i \in 0 + 1 .. last : s[i] \in Blanks
    <3> HIDE DEF E, F
    <3> QED BY <1>1, <1>4
  <2>4. 0 \in 0 .. last /\ TrimRight(s) = SubSeq(s, 1, 0) /\ (0 > 0 => s[0] \notin Blanks)
    <3> HIDE DEF E, F
    <3> QED BY <1>1, <1>2, <2>2
  <2> HIDE DEF E, F
  <2> QED BY <2>3, <2>4 DEF last
<1>5. CASE E # {}
  <2> DEFINE m == Max(E)
  <2>1. m \in E /\ \A i \in E : i <= m
    <3> HIDE DEF E
    <3> QED BY <1>1, <1>3, <1>5, LeastGreatest
  <2>2. m \in 1 .. last
    <3> HIDE DEF E, m
    <3> QED BY <1>3, <2>1
  <2>3. m \in F /\ \A i \in F : i <= m
    <3> HIDE DEF E, m
    <3> QED BY <1>1, <2>1, <2>2
  <2>4. Max(F) = m
    <3> HIDE DEF F, m
    <3> QED BY <1>3, <2>3, MaxIs
  <2> HIDE DEF F, m, E
  <2>5. \A i \in m + 1 .. last : s[i] \in Blanks
    <3> SUFFICES ASSUME NEW i \in m + 1 .. last PROVE s[i] \in Blanks
      OBVIOUS
    <3>1. i \in 1 .. last /\ ~(i <= m)
      BY <1>1, <2>2
    <3> QED BY <1>1, <2>1, <3>1
  <2>6. m \in 0 .. last /\ TrimRight(s) = SubSeq(s, 1, m) /\ (m > 0 => s[m] \notin Blanks)
    BY <1>1, <1>2, <2>1, <2>2, <2>4
  <2> QED BY <2>5, <2>6 DEF last
<1> QED BY <1>4, <1>5

(* And without its comment. *)
LEMMA StripCommentIs ==
  ASSUME NEW C, NEW s \in Seq(C)
  PROVE  \E m \in 0 .. Len(s) : StripComment(s) = SubSeq(s, 1, m)
<1> DEFINE last == Len(s)
           quoted == Quoted(s)
           marks == {i \in DOMAIN s : s[i] = "#" /\ quoted[i] = "out"}
           E == marks \cup {last + 1}
           m == Min(E)
<1>1. last \in Nat /\ marks \in SUBSET (1 .. last)
  <2>1. DOMAIN s = 1 .. last /\ last \in Nat
    OBVIOUS
  <2> HIDE DEF last, quoted
  <2> QED BY <2>1
<1>2. StripComment(s) = SubSeq(s, 1, m - 1)
  BY DEF StripComment
<1> HIDE DEF last, marks
<1>3. E \in SUBSET (1 .. last + 1) /\ E # {} /\ last + 1 \in Nat
  BY <1>1
<1> HIDE DEF E
<1>4. m \in E
  BY <1>3, LeastGreatest
<1> HIDE DEF m
<1>5. m - 1 \in 0 .. last
  BY <1>1, <1>3, <1>4
<1> QED BY <1>2, <1>5 DEF last

(* What the scanner keeps of a line: the runes from its indentation on, up *)
(* to its comment, but for the blanks before that.                         *)
LEMMA ContentIs ==
  ASSUME NEW C, NEW s \in Seq(C)
  PROVE  /\ Content(s) \in Seq(C) /\ Indent(s) + Len(Content(s)) <= Len(s)
         /\ \A i \in 1 .. Len(Content(s)) : Content(s)[i] = s[Indent(s) + i]
         /\ Len(Content(s)) > 0 => Content(s)[Len(Content(s))] \notin Blanks
<1> DEFINE last == Len(s)
           h == Indent(s)
           b == SubSeq(s, h + 1, last)
           t == StripComment(b)
           u == TrimRight(t)
<1>1. last \in Nat /\ h \in 0 .. last
  BY IndentIs
<1>2. b \in Seq(C) /\ Len(b) = last - h /\ \A i \in 1 .. last - h : b[i] = s[h + i]
  <2> DEFINE p == h + 1
             k == IF p <= last THEN last - p + 1 ELSE 0
  <2>1. p \in Nat /\ 1 <= p
    <3> HIDE DEF h, last
    <3> QED BY <1>1
  <2>2. b \in Seq(C) /\ Len(b) = k /\ \A i \in 1 .. k : b[i] = s[p + i - 1]
    <3>1. b = SubSeq(s, p, last)
      OBVIOUS
    <3> HIDE DEF p, b
    <3> QED BY <2>1, <3>1, EndsWith
  <2>3. k = last - h /\ \A i \in 1 .. k : p + i - 1 = h + i
    <3> HIDE DEF h, last
    <3> QED BY <1>1
  <2> HIDE DEF b, k, p, last, h
  <2> QED BY <2>2, <2>3
<1> HIDE DEF b
<1>3. PICK x \in 0 .. Len(b) : t = SubSeq(b, 1, x)
  BY <1>2, StripCommentIs
<1>4. t \in Seq(C) /\ Len(t) = x /\ \A i \in 1 .. x : t[i] = b[i]
  BY <1>2, <1>3, StartsWith
<1> HIDE DEF t
<1>5. PICK y \in 0 .. Len(t) : u = SubSeq(t, 1, y) /\ (y > 0 => t[y] \notin Blanks)
  BY <1>4, TrimRightIs
<1>6. u \in Seq(C) /\ Len(u) = y /\ \A i \in 1 .. y : u[i] = t[i]
  BY <1>4, <1>5, StartsWith
<1> HIDE DEF u, h, last
<1>7. x \in 0 .. last - h /\ y \in 0 .. x
  BY <1>2, <1>4
<1>8. h + y <= last /\ \A i \in 1 .. y : i \in 1 .. x /\ i \in 1 .. last - h
  BY <1>1, <1>7
<1>9. \A i \in 1 .. y : u[i] = s[h + i]
  BY <1>2, <1>4, <1>6, <1>8
<1>10. y > 0 => u[y] \notin Blanks
  <2> HAVE y > 0
  <2>1. y \in 1 .. y
    BY <1>7
  <2> QED BY <1>5, <1>6, <2>1
<1>11. Content(s) = u
  BY DEF Content, u, t, b, h, last
<1> QED BY <1>6, <1>8, <1>9, <1>10, <1>11 DEF h, last

(* What the scanner asks of a line is what a physical line has. *)
LEMMA CountNat ==
  ASSUME NEW C, NEW s \in Seq(C), NEW S \in SUBSET DOMAIN s
  PROVE  Cardinality(S) \in Nat
<1>1. 1 \in Int /\ Len(s) \in Int /\ DOMAIN s = 1 .. Len(s)
  OBVIOUS
<1>2. IsFiniteSet(1 .. Len(s))
  BY <1>1, FS_Interval
<1>3. IsFiniteSet(S)
  BY <1>1, <1>2, FS_Subset
<1> QED BY <1>3, FS_CardinalityType

(* What the scanner is told of a line is a physical line of Scan's. *)
LEMMA MeasureIs ==
  ASSUME NEW C, NEW s \in Seq(C)
  PROVE  /\ PhysicalLine(Measure(s))
         /\ Measure(s).indent = Indent(s) /\ Measure(s).len = Len(Content(s))
<1> DEFINE content == Content(s)
           h == Indent(s)
           delta == ParenDelta(content)
           pipes == Cardinality({i \in DOMAIN content : content[i] = "|"})
           head == HeadOf(content)
           m == Measure(s)
<1>1. content \in Seq(C)
  BY ContentIs
<1>2. h \in Nat
  BY IndentIs
<1> HIDE DEF content
<1>3. Len(content) \in Nat /\ pipes \in Nat
  BY <1>1, CountNat
<1>4. delta \in Int
  <2> DEFINE quoted == Quoted(content)
             x == Cardinality({i \in DOMAIN content : content[i] = "(" /\ quoted[i] = "out"})
             y == Cardinality({i \in DOMAIN content : content[i] = ")" /\ quoted[i] = "out"})
  <2>1. x \in Nat /\ y \in Nat
    <3> HIDE DEF quoted
    <3> QED BY <1>1, CountNat
  <2>2. delta = x - y
    BY DEF ParenDelta
  <2> HIDE DEF x, y, delta
  <2> QED BY <2>1, <2>2
<1>5. head \in {"row", "decl", "text"}
  BY DEF HeadOf
<1> HIDE DEF delta, pipes, head, h
<1>6. m = [indent |-> h, len |-> Len(content), delta |-> delta, head |-> head, pipes |-> pipes,
           body |-> FALSE, fault |-> "none"]
  BY Zenon DEF Measure, content, h, delta, pipes, head
<1> HIDE DEF m
<1>7. PhysicalLine(m)
  BY <1>2, <1>3, <1>4, <1>5, <1>6 DEF PhysicalLine
<1>8. m.indent = h /\ m.len = Len(content)
  BY <1>6
<1> QED BY <1>7, <1>8 DEF m, h, content

Measures(ls, g) ==
  g = [k \in 0 .. Len(ls) |-> IF k = 0 THEN <<>> ELSE Append(g[k - 1], Measure(LineText(ls, k)))]
MeasuredTo(ls) == CHOOSE g : Measures(ls, g)

(* The text of a line of a file. *)
LEMMA LineTextIs ==
  ASSUME NEW C, NEW ls \in Seq(Seq(C)), NEW k \in 1 .. Len(ls)
  PROVE  /\ LineText(ls, k) \in Seq(C) /\ Len(LineText(ls, k)) <= Len(ls[k])
         /\ \A i \in 1 .. Len(LineText(ls, k)) : LineText(ls, k)[i] = ls[k][i]
<1> DEFINE s == ls[k]
           t == SubSeq(s, 1, Len(s) - 1)
           last == Len(s)
<1>1. s \in Seq(C) /\ last \in Nat
  OBVIOUS
<1>2. CASE s # <<>>
  <2>1. last > 0
    BY <1>1, <1>2
  <2>2. last - 1 \in 0 .. last
    <3> HIDE DEF last
    <3> QED BY <1>1, <2>1
  <2>3. t \in Seq(C) /\ Len(t) = last - 1 /\ \A i \in 1 .. last - 1 : t[i] = s[i]
    BY <1>1, <2>2, StartsWith
  <2> HIDE DEF t, last
  <2>4. last - 1 <= last
    BY <1>1
  <2> QED BY <1>1, <2>3, <2>4 DEF LineText, t, last
<1>3. CASE s = <<>>
  <2>1. LineText(ls, k) = s
    BY <1>3 DEF LineText
  <2> HIDE DEF s
  <2> QED BY <1>1, <2>1 DEF s
<1> QED BY <1>2, <1>3

(* The lines of a file, as the scanner is told of them. *)
LEMMA MeasuredIs ==
  ASSUME NEW C, NEW ls \in Seq(Seq(C))
  PROVE  /\ PhysicalFile(Measured(ls)) /\ Len(Measured(ls)) = Len(ls)
         /\ \A k \in 1 .. Len(ls) : Measured(ls)[k] = Measure(LineText(ls, k))
<1> DEFINE last == Len(ls)
           M == {Measure(LineText(ls, k)) : k \in 1 .. last}
           T == Seq(M)
           step == [x \in (1 .. last) \X T |-> Append(x[2], Measure(LineText(ls, x[1])))]
<1>1. last \in Nat /\ <<>> \in T
  OBVIOUS
<1>2. step \in [(1 .. last) \X T -> T]
  <2> SUFFICES ASSUME NEW x \in (1 .. last) \X T PROVE step[x] \in T
    OBVIOUS
  <2>1. x[1] \in 1 .. last /\ x[2] \in Seq(M)
    OBVIOUS
  <2>2. Measure(LineText(ls, x[1])) \in M
    BY <2>1
  <2> HIDE DEF M
  <2>3. Append(x[2], Measure(LineText(ls, x[1]))) \in Seq(M)
    BY <2>1, <2>2
  <2> QED BY <2>3
<1>3. PICK g \in [0 .. last -> T] : Climbs(g, last, <<>>, step)
  <2> HIDE DEF last, T, step
  <2> QED BY <1>1, <1>2, UpRecursion
<1> DEFINE Q(k) == IF k = 0 THEN <<>> ELSE Append(g[k - 1], Measure(LineText(ls, k)))
<1>4. ASSUME NEW k \in 0 .. last PROVE g[k] = Q(k)
  <2>1. g[0] = <<>> /\ \A i \in 1 .. last : g[i] = step[<<i, g[i - 1]>>]
    BY <1>3 DEF Climbs
  <2>2. CASE k = 0
    BY <2>1, <2>2
  <2>3. CASE k # 0
    <3>1. k \in 1 .. last /\ k - 1 \in 0 .. last
      BY <1>1, <2>3
    <3>2. g[k - 1] \in T
      BY <3>1
    <3>3. <<k, g[k - 1]>> \in (1 .. last) \X T
      BY <3>1, <3>2
    <3>4. step[<<k, g[k - 1]>>] = Append(g[k - 1], Measure(LineText(ls, k)))
      <4> HIDE DEF T, last
      <4> QED BY <3>3
    <3> QED BY <2>1, <2>3, <3>1, <3>4
  <2> QED BY <2>2, <2>3
<1>5. Measures(ls, g)
  <2>1. g = [k \in 0 .. last |-> g[k]]
    BY <1>3
  <2> HIDE DEF Q
  <2>2. g = [k \in 0 .. last |-> Q(k)]
    BY <1>4, <2>1
  <2> QED BY <2>2, Zenon DEF Measures, Q, last
<1> DEFINE F == MeasuredTo(ls)
<1>6. Measures(ls, F)
  BY <1>5, Zenon DEF MeasuredTo
<1>7. /\ F[0] = <<>>
      /\ \A k \in 1 .. last : F[k] = Append(F[k - 1], Measure(LineText(ls, k)))
  <2> HIDE DEF F
  <2>1. \A k \in 0 .. last : F[k] = IF k = 0 THEN <<>> ELSE Append(F[k - 1], Measure(LineText(ls, k)))
    BY <1>6 DEF Measures
  <2>2. 0 \in 0 .. last /\ \A k \in 1 .. last : k \in 0 .. last /\ k # 0
    <3> HIDE DEF last
    <3> QED BY <1>1
  <2> QED BY <2>1, <2>2
<1> DEFINE Good(k) == /\ F[k] \in T /\ Len(F[k]) = k
                      /\ \A i \in 1 .. k : F[k][i] = Measure(LineText(ls, i))
           S == {k \in Nat : k \in 0 .. last => Good(k)}
<1>8. 0 \in S
  <2>1. \A i : i \notin 1 .. 0
    OBVIOUS
  <2>2. <<>> \in T /\ Len(<<>>) = 0
    OBVIOUS
  <2> HIDE DEF F, T
  <2> QED BY <1>7, <2>1, <2>2
<1>9. ASSUME NEW k \in Nat, k \in S PROVE k + 1 \in S
  <2> SUFFICES ASSUME k + 1 \in 0 .. last PROVE Good(k + 1)
    OBVIOUS
  <2> DEFINE e == Measure(LineText(ls, k + 1))
             p == F[k]
             q == F[k + 1]
  <2>1. k + 1 \in 1 .. last /\ k \in 0 .. last /\ (k + 1) - 1 = k
    <3> HIDE DEF last
    <3> QED BY <1>1
  <2>2. p \in Seq(M) /\ Len(p) = k /\ \A i \in 1 .. k : p[i] = Measure(LineText(ls, i))
    BY <1>9, <2>1
  <2>3. q = Append(p, e)
    <3> HIDE DEF F
    <3> QED BY <1>7, <2>1
  <2>4. e \in M
    BY <2>1
  <2> HIDE DEF e, p, q, M, F, last
  <2>5. q \in Seq(M) /\ Len(q) = k + 1 /\ q[k + 1] = e /\ \A i \in 1 .. k : q[i] = p[i]
    BY <2>2, <2>3, <2>4
  <2>6. ASSUME NEW i \in 1 .. k + 1 PROVE q[i] = Measure(LineText(ls, i))
    <3>1. i \in 1 .. k \/ i = k + 1
      OBVIOUS
    <3> QED BY <2>2, <2>5, <3>1 DEF e
  <2> QED BY <2>5, <2>6 DEF q
<1> HIDE DEF S
<1>10. Nat \subseteq S
  BY <1>8, <1>9, NatSetInduction
<1>11. Good(last)
  <2>1. last \in 0 .. last /\ last \in S
    <3> HIDE DEF last
    <3> QED BY <1>1, <1>10
  <2> HIDE DEF Good, last
  <2> QED BY <1>1, <2>1 DEF S
<1>12. Measured(ls) = F[last]
  BY Zenon DEF Measured, MeasuredTo, Measures, last
<1> DEFINE f == Measured(ls)
<1>13. f \in Seq(M) /\ Len(f) = last /\ \A i \in 1 .. last : f[i] = Measure(LineText(ls, i))
  <2> HIDE DEF f, F, last, M
  <2> QED BY <1>11, <1>12 DEF f
<1>14. ASSUME NEW i \in 1 .. last PROVE PhysicalLine(Measure(LineText(ls, i)))
  <2>1. LineText(ls, i) \in Seq(C)
    BY LineTextIs
  <2> QED BY <2>1, MeasureIs
<1>15. f = [i \in 1 .. Len(f) |-> f[i]]
  <2> HIDE DEF f, M
  <2> QED BY <1>13
<1> HIDE DEF f, last, M
<1>16. PhysicalFile(f)
  BY <1>1, <1>13, <1>14, <1>15 DEF PhysicalFile
<1> QED BY <1>13, <1>16 DEF f, last

----------------------------------------------------------------------------
(* The invariant: the file scanned is what was measured of the input, the  *)
(* scanner's own, and what was said of the lines read.                     *)
FileInv == input \in Inputs /\ file = Measured(input.lines)
ReadInv ==
  /\ \E R : read \in Seq(R)
  /\ \A k \in 1 .. Len(read) : Sensible(read[k].diags)
SigInv == FileInv /\ ScanInv /\ ReadInv

(* The invariant holds when the file is opened. *)
LEMMA SigStart == ASSUME SignatureInit PROVE SigInv
<1>1. FileInv
  BY DEF SignatureInit, FileInv
<1>2. input.lines \in Seq(Seq(STRING))
  BY InputsAssumption DEF SignatureInit
<1>3. PhysicalFile(file)
  BY <1>2, MeasuredIs DEF SignatureInit
<1>4. ScanInv
  BY <1>3, ScanStart DEF SignatureInit
<1>5. ReadInv
  <2> DEFINE R == {}
  <2>1. read = <<>>
    BY DEF SignatureInit
  <2>2. <<>> \in Seq(R) /\ Len(<<>>) = 0
    OBVIOUS
  <2>3. \A k : k \notin 1 .. 0
    OBVIOUS
  <2> HIDE DEF R
  <2> QED BY <2>1, <2>2, <2>3 DEF ReadInv
<1> QED BY <1>1, <1>4, <1>5 DEF SigInv

(* It is kept when a line is read, if the line's diagnostics are sensible. *)
LEMMA MadeSensible ==
  ASSUME ReadInv, NEW result, read' = Append(read, result), Sensible(result.diags)
  PROVE  ReadInv'
<1>1. PICK R : read \in Seq(R)
  BY DEF ReadInv
<1> DEFINE U == R \cup {result}
<1>2. R \subseteq U /\ result \in U
  OBVIOUS
<1> HIDE DEF U
<1>3. read \in Seq(U)
  BY <1>1, <1>2, SeqOfMore
<1> DEFINE new == Append(read, result)
           last == Len(read)
<1>4. last \in Nat /\ new \in Seq(U) /\ Len(new) = last + 1 /\ new[last + 1] = result /\ \A k \in 1 .. last : new[k] = read[k]
  BY <1>2, <1>3
<1>5. \A k \in 1 .. last : Sensible(read[k].diags)
  BY DEF ReadInv
<1>6. read' = new
  OBVIOUS
<1> HIDE DEF new, last
<1>7. ASSUME NEW k \in 1 .. Len(new) PROVE Sensible(new[k].diags)
  <2>1. k \in 1 .. last \/ k = last + 1
    BY <1>4
  <2> QED BY <1>4, <1>5, <2>1
<1> QED BY <1>4, <1>6, <1>7 DEF ReadInv

(* The line that is read is one of the scanner's. *)
LEMMA UpcomingIs ==
  ASSUME SigInv, Reading
  PROVE  Upcoming \in LogicalLine /\ Len(read) + 1 \in 1 .. Len(out)
<1>1. PICK R : read \in Seq(R)
  BY DEF SigInv, ReadInv
<1>2. out \in Seq(LogicalLine)
  BY DEF SigInv, ScanInv
<1>3. Len(read) \in Nat /\ Len(out) \in Nat
  BY <1>1, <1>2
<1>4. Len(read) + 1 \in 1 .. Len(out)
  BY <1>3 DEF Reading
<1> QED BY <1>2, <1>4 DEF Upcoming

(* Every step keeps it. *)
LEMMA SigStep ==
  ASSUME SigInv, [SignatureNext]_sigVars
  PROVE  SigInv'
<1>1. CASE UNCHANGED sigVars
  <2>1. FileInv'
    BY <1>1 DEF SigInv, FileInv, sigVars, scanVars
  <2>2. ScanInv'
    BY <1>1, Zenon DEF SigInv, ScanInv, sigVars, scanVars
  <2>3. ReadInv'
    BY <1>1, Zenon DEF SigInv, ReadInv, sigVars
  <2> QED BY <2>1, <2>2, <2>3 DEF SigInv
<1>2. CASE Scanning
  <2>1. ScanInv'
    BY <1>2, ScanStep DEF SigInv, Scanning
  <2>2. FileInv'
    BY <1>2 DEF SigInv, FileInv, Scanning, ScanNext, Separate, Continue, OpenLine
  <2>3. ReadInv'
    BY <1>2, Zenon DEF SigInv, ReadInv, Scanning
  <2> QED BY <2>1, <2>2, <2>3 DEF SigInv
<1>3. ASSUME NEW result, Made(result), Sensible(result.diags) PROVE SigInv'
  <2>1. ReadInv'
    BY <1>3, MadeSensible DEF SigInv, Made
  <2>2. ScanInv'
    BY <1>3, Zenon DEF SigInv, ScanInv, Made, scanVars
  <2>3. FileInv'
    BY <1>3 DEF SigInv, FileInv, Made, scanVars
  <2> QED BY <2>1, <2>2, <2>3 DEF SigInv
<1>4. CASE ReadHead
  <2>1. PICK mode \in Modes(Text(Upcoming)) : Made(ParseSignature(Upcoming, mode))
    BY <1>4 DEF ReadHead
  <2>2. Upcoming \in LogicalLine
    BY <1>4, UpcomingIs DEF ReadHead
  <2>3. Upcoming.text \in Seq(Rune)
    BY <2>2 DEF LogicalLine
  <2>4. Sensible(ParseSignature(Upcoming, mode).diags)
    BY <2>3, SensibleSignature
  <2> QED BY <1>3, <2>1, <2>4
<1>5. CASE NotAHead
  <2> DEFINE result == Failed(<<Whole("E0002", Upcoming)>>)
  <2>1. Made(result)
    BY <1>5 DEF NotAHead
  <2>2. Sensible(result.diags)
    BY FailedDiags, SensibleOne, NotProposing
  <2> HIDE DEF result
  <2> QED BY <1>3, <2>1, <2>2
<1>6. CASE SplitRow
  <2>1. PICK cells : Made([fn |-> NoFn, diags |-> <<>>, cells |-> cells])
    BY <1>6 DEF SplitRow
  <2> DEFINE result == [fn |-> NoFn, diags |-> <<>>, cells |-> cells]
  <2>2. Sensible(result.diags)
    BY SensibleNone
  <2>3. Made(result)
    BY <2>1
  <2> HIDE DEF result
  <2> QED BY <1>3, <2>2, <2>3
<1>7. CASE OtherLine
  <2> DEFINE result == Failed(<<>>)
  <2>1. Made(result)
    BY <1>7 DEF OtherLine
  <2>2. Sensible(result.diags)
    BY FailedDiags, SensibleNone
  <2> HIDE DEF result
  <2> QED BY <1>3, <2>1, <2>2
<1>8. CASE AllRead
  BY <1>1, <1>8 DEF AllRead
<1> QED BY <1>1, <1>2, <1>4, <1>5, <1>6, <1>7, <1>8 DEF SignatureNext

(* It says what the property says. *)
LEMMA SigInvSuggests == ASSUME SigInv PROVE SuggestNearest
<1> SUFFICES ASSUME NEW k \in DOMAIN read, NEW i \in DOMAIN read[k].diags
             PROVE  LET d == read[k].diags[i]
                    IN d.code = "E0015" => NearestTo(Lower(d.about), d.suggests)
  BY Zenon DEF SuggestNearest, NearestTo
<1>1. PICK R : read \in Seq(R)
  BY DEF SigInv, ReadInv
<1>2. k \in 1 .. Len(read)
  BY <1>1
<1>3. Sensible(read[k].diags)
  BY <1>2 DEF SigInv, ReadInv
<1> DEFINE ds == read[k].diags
<1>4. PICK S : ds \in Seq(S) /\ \A d \in S : Proposed(d)
  BY <1>3 DEF Sensible
<1>5. ds[i] \in S
  BY <1>4
<1> DEFINE d == ds[i]
<1>6. Proposed(d)
  BY <1>4, <1>5
<1> HIDE DEF d
<1>7. ASSUME d.code = "E0015" PROVE NearestTo(Lower(d.about), d.suggests)
  <2>1. PICK D : d.about \in Seq(D) /\ d.suggests = Suggest(d.about)
    BY <1>6, <1>7 DEF Proposed
  <2> QED BY <2>1, SuggestTells
<1> QED BY <1>7 DEF d

(* The name that is proposed for an unknown type is the closest one there  *)
(* is (types.Suggest, types.go:114), in every diagnostic of every          *)
(* signature of every file.                                                *)
THEOREM SuggestsNearest == SignatureSpec => []SuggestNearest
<1>1. SignatureInit => SigInv
  BY SigStart
<1>2. SigInv /\ [SignatureNext]_sigVars => SigInv'
  BY SigStep
<1>3. SigInv => SuggestNearest
  BY SigInvSuggests
<1> QED BY <1>1, <1>2, <1>3, PTL DEF SignatureSpec

Sifts(s, skipped, g) ==
  g = [i \in 0 .. Len(s) |->
        IF i = 0 THEN <<>> ELSE IF s[i] \in skipped THEN g[i - 1] ELSE Append(g[i - 1], s[i])]
SiftedTo(s, skipped) == CHOOSE g : Sifts(s, skipped, g)
Sift1(before, c, skipped) == IF c \in skipped THEN before ELSE Append(before, c)

(* What is left of a text, rune by rune. *)
LEMMA SiftedToIs ==
  ASSUME NEW C, NEW s \in Seq(C), NEW skipped
  PROVE  LET g == SiftedTo(s, skipped)
         IN /\ g[0] = <<>> /\ \A i \in 1 .. Len(s) : g[i] = Sift1(g[i - 1], s[i], skipped)
            /\ \A i \in 0 .. Len(s) : g[i] \in Seq(C)
            /\ Sifted(s, skipped) = g[Len(s)]
<1> DEFINE last == Len(s)
           T == Seq(C)
           step == [x \in (1 .. last) \X T |-> Sift1(x[2], s[x[1]], skipped)]
<1>1. last \in Nat /\ <<>> \in T
  OBVIOUS
<1>2. step \in [(1 .. last) \X T -> T]
  <2> SUFFICES ASSUME NEW x \in (1 .. last) \X T PROVE step[x] \in T
    OBVIOUS
  <2>1. x[1] \in 1 .. last /\ x[2] \in Seq(C)
    OBVIOUS
  <2>2. s[x[1]] \in C
    BY <2>1
  <2>3. Append(x[2], s[x[1]]) \in Seq(C)
    BY <2>1, <2>2
  <2>4. step[x] = Sift1(x[2], s[x[1]], skipped)
    OBVIOUS
  <2> HIDE DEF step
  <2> QED BY <2>1, <2>3, <2>4 DEF Sift1
<1>3. PICK g \in [0 .. last -> T] : Climbs(g, last, <<>>, step)
  <2> HIDE DEF last, T, step
  <2> QED BY <1>1, <1>2, UpRecursion
<1> DEFINE Q(i) == IF i = 0 THEN <<>> ELSE IF s[i] \in skipped THEN g[i - 1] ELSE Append(g[i - 1], s[i])
<1>4. ASSUME NEW k \in 0 .. last PROVE g[k] = Q(k)
  <2>1. g[0] = <<>> /\ \A i \in 1 .. last : g[i] = step[<<i, g[i - 1]>>]
    BY <1>3 DEF Climbs
  <2>2. CASE k = 0
    BY <2>1, <2>2
  <2>3. CASE k # 0
    <3>1. k \in 1 .. last /\ k - 1 \in 0 .. last
      BY <1>1, <2>3
    <3>2. g[k - 1] \in T
      BY <3>1
    <3>3. <<k, g[k - 1]>> \in (1 .. last) \X T
      BY <3>1, <3>2
    <3>4. step[<<k, g[k - 1]>>] = Sift1(g[k - 1], s[k], skipped)
      <4> HIDE DEF T, last
      <4> QED BY <3>3
    <3> QED BY <2>1, <2>3, <3>1, <3>4 DEF Sift1
  <2> QED BY <2>2, <2>3
<1>5. Sifts(s, skipped, g)
  <2>1. g = [k \in 0 .. last |-> g[k]]
    BY <1>3
  <2> HIDE DEF Q
  <2>2. g = [k \in 0 .. last |-> Q(k)]
    BY <1>4, <2>1
  <2> QED BY <2>2, Zenon DEF Sifts, Q, last
<1> DEFINE F == SiftedTo(s, skipped)
<1>6. Sifts(s, skipped, F)
  BY <1>5, Zenon DEF SiftedTo
<1>7. F[0] = <<>> /\ \A k \in 1 .. last : F[k] = Sift1(F[k - 1], s[k], skipped)
  <2> HIDE DEF F
  <2>1. \A k \in 0 .. last : F[k] = IF k = 0 THEN <<>> ELSE Sift1(F[k - 1], s[k], skipped)
    BY <1>6 DEF Sifts, Sift1
  <2>2. 0 \in 0 .. last /\ \A k \in 1 .. last : k \in 0 .. last /\ k # 0
    <3> HIDE DEF last
    <3> QED BY <1>1
  <2> QED BY <2>1, <2>2
<1> DEFINE S == {k \in Nat : k \in 0 .. last => F[k] \in Seq(C)}
<1>8. 0 \in S
  <2>1. <<>> \in Seq(C)
    OBVIOUS
  <2>2. F[0] \in Seq(C)
    <3> HIDE DEF F
    <3> QED BY <1>7, <2>1
  <2> HIDE DEF F
  <2> QED BY <2>2
<1>9. ASSUME NEW k \in Nat, k \in S PROVE k + 1 \in S
  <2> SUFFICES ASSUME k + 1 \in 0 .. last PROVE F[k + 1] \in Seq(C)
    OBVIOUS
  <2>1. k + 1 \in 1 .. last /\ k \in 0 .. last /\ (k + 1) - 1 = k
    <3> HIDE DEF last
    <3> QED BY <1>1
  <2>2. F[k] \in Seq(C) /\ s[k + 1] \in C
    BY <1>9, <2>1
  <2> HIDE DEF F
  <2>3. F[k + 1] = Sift1(F[k], s[k + 1], skipped)
    BY <1>7, <2>1
  <2>4. Append(F[k], s[k + 1]) \in Seq(C)
    BY <2>2
  <2> QED BY <2>2, <2>3, <2>4 DEF Sift1
<1> HIDE DEF S
<1>10. Nat \subseteq S
  BY <1>8, <1>9, NatSetInduction
<1>11. \A k \in 0 .. last : F[k] \in Seq(C)
  <2> HIDE DEF F, last
  <2> QED BY <1>1, <1>10 DEF S
<1>12. Sifted(s, skipped) = F[last]
  BY Zenon DEF Sifted, SiftedTo, Sifts, last
<1> QED BY <1>7, <1>11, <1>12 DEF F, last

(* The beginnings of texts that begin alike. *)
LEMMA SiftedAlike ==
  ASSUME NEW C, NEW s \in Seq(C), NEW t \in Seq(C), NEW skipped,
         NEW k \in Nat, k <= Len(s), k <= Len(t), \A i \in 1 .. k : s[i] = t[i]
  PROVE  \A i \in 0 .. k : SiftedTo(s, skipped)[i] = SiftedTo(t, skipped)[i]
<1> DEFINE F == SiftedTo(s, skipped)
           G == SiftedTo(t, skipped)
           S == {i \in Nat : i \in 0 .. k => F[i] = G[i]}
<1>1. /\ F[0] = <<>> /\ \A i \in 1 .. Len(s) : F[i] = Sift1(F[i - 1], s[i], skipped)
      /\ G[0] = <<>> /\ \A i \in 1 .. Len(t) : G[i] = Sift1(G[i - 1], t[i], skipped)
  BY SiftedToIs
<1> HIDE DEF F, G
<1>2. 0 \in S
  BY <1>1
<1>3. ASSUME NEW i \in Nat, i \in S PROVE i + 1 \in S
  <2> SUFFICES ASSUME i + 1 \in 0 .. k PROVE F[i + 1] = G[i + 1]
    OBVIOUS
  <2>1. i + 1 \in 1 .. k /\ i + 1 \in 1 .. Len(s) /\ i + 1 \in 1 .. Len(t) /\ (i + 1) - 1 = i /\ i \in 0 .. k
    <3> DEFINE x == Len(s)
               y == Len(t)
    <3>1. x \in Nat /\ y \in Nat /\ k <= x /\ k <= y
      OBVIOUS
    <3> HIDE DEF x, y
    <3>2. i + 1 \in 1 .. k /\ i + 1 \in 1 .. x /\ i + 1 \in 1 .. y /\ (i + 1) - 1 = i /\ i \in 0 .. k
      BY <3>1
    <3> QED BY <3>2 DEF x, y
  <2>2. F[i + 1] = Sift1(F[i], s[i + 1], skipped) /\ G[i + 1] = Sift1(G[i], t[i + 1], skipped)
    BY <1>1, <2>1
  <2>3. F[i] = G[i] /\ s[i + 1] = t[i + 1]
    BY <1>3, <2>1
  <2> QED BY <2>2, <2>3
<1> HIDE DEF S
<1>4. Nat \subseteq S
  BY <1>2, <1>3, NatSetInduction
<1>5. ASSUME NEW i \in 0 .. k PROVE F[i] = G[i]
  <2>1. i \in S
    BY <1>4
  <2> QED BY <2>1 DEF S
<1> QED BY <1>5 DEF F, G

Chain(a, b) == a \o b

(* So a text is sifted rune by rune.                                       *)
LEMMA SiftBehind ==
  ASSUME NEW C, NEW a \in Seq(C), NEW b \in Seq(C), NEW c \in C, NEW skipped
  PROVE  Sift1(Chain(a, b), c, skipped) = Chain(a, Sift1(b, c, skipped))
<1>1. Append(a \o b, c) = a \o Append(b, c)
  <2> DEFINE e == <<c>>
  <2>1. e \in Seq(C) /\ a \o b \in Seq(C)
    BY ConcatProperties
  <2>2. Append(a \o b, c) = (a \o b) \o e /\ Append(b, c) = b \o e
    BY <2>1, AppendIsConcat
  <2> HIDE DEF e
  <2>3. (a \o b) \o e = a \o (b \o e)
    BY <2>1, ConcatAssociative
  <2> QED BY <2>2, <2>3
<1>4. \A z : Sift1(z, c, skipped) = IF c \in skipped THEN z ELSE Append(z, c)
  BY DEF Sift1
<1>2. CASE c \in skipped
  BY <1>2, <1>4, Zenon
<1>3. CASE c \notin skipped
  BY <1>1, <1>3, <1>4, Zenon DEF Chain
<1> QED BY <1>2, <1>3

(* Chaining texts.                                                         *)
LEMMA ChainIs ==
  ASSUME NEW C, NEW a \in Seq(C), NEW b \in Seq(C)
  PROVE  /\ Chain(a, b) \in Seq(C) /\ Len(Chain(a, b)) = Len(a) + Len(b)
         /\ \A i \in 1 .. Len(a) + Len(b) : Chain(a, b)[i] = IF i <= Len(a) THEN a[i] ELSE b[i - Len(a)]
BY ConcatProperties DEF Chain

(* Nothing before or behind a text leaves it as it is.                      *)
LEMMA ChainNothing ==
  ASSUME NEW C, NEW a \in Seq(C)
  PROVE  Chain(a, <<>>) = a /\ Chain(<<>>, a) = a
BY ConcatEmptySeq DEF Chain

(* Three texts in a row, whichever two are put together first.              *)
LEMMA ChainThree ==
  ASSUME NEW C, NEW a \in Seq(C), NEW b \in Seq(C), NEW c \in Seq(C)
  PROVE  Chain(Chain(a, b), c) = Chain(a, Chain(b, c))
BY ConcatAssociative DEF Chain

(* Two texts, one behind the other. *)
LEMMA SiftedBoth ==
  ASSUME NEW C, NEW s \in Seq(C), NEW t \in Seq(C), NEW skipped
  PROVE  /\ Sifted(Chain(s, t), skipped) = Chain(Sifted(s, skipped), Sifted(t, skipped))
         /\ Sifted(s, skipped) \in Seq(C)
<1> DEFINE u == s \o t
           x == Len(s)
           y == Len(t)
           F == SiftedTo(s, skipped)
           G == SiftedTo(t, skipped)
           H == SiftedTo(u, skipped)
<1>1. /\ u \in Seq(C) /\ Len(u) = x + y
      /\ \A i \in 1 .. x + y : u[i] = IF i <= x THEN s[i] ELSE t[i - x]
  BY ConcatProperties
<1>2. x \in Nat /\ y \in Nat
  OBVIOUS
<1> HIDE DEF u
<1>3. /\ \A i \in 0 .. x : F[i] \in Seq(C)
      /\ Sifted(s, skipped) = F[x]
  BY SiftedToIs
<1>4. /\ G[0] = <<>> /\ \A i \in 1 .. y : G[i] = Sift1(G[i - 1], t[i], skipped)
      /\ \A i \in 0 .. y : G[i] \in Seq(C)
      /\ Sifted(t, skipped) = G[y]
  BY SiftedToIs, Zenon
<1>5. /\ \A i \in 1 .. x + y : H[i] = Sift1(H[i - 1], u[i], skipped)
      /\ Sifted(u, skipped) = H[x + y]
  <2>1. /\ \A i \in 1 .. Len(u) : H[i] = Sift1(H[i - 1], u[i], skipped)
        /\ Sifted(u, skipped) = H[Len(u)]
    BY <1>1, SiftedToIs, Zenon
  <2>2. Len(u) = x + y
    BY <1>1
  <2> HIDE DEF H, x, y
  <2> QED BY <2>1, <2>2, Zenon
<1>6. H[x] = F[x]
  <2> HIDE DEF F, H, x, y
  <2>5. \A i \in 1 .. x : i \in 1 .. x + y /\ i <= x
    BY <1>2
  <2>6. \A i \in 1 .. x : u[i] = s[i]
    BY <1>1, <2>5
  <2>1. x <= Len(u) /\ x <= x /\ \A i \in 1 .. x : u[i] = s[i]
    <3> HIDE DEF u
    <3> QED BY <1>1, <1>2, <2>6
  <2>2. x \in 0 .. x
    BY <1>2
  <2>4. x <= Len(s)
    BY <1>2 DEF x
  <2>3. \A i \in 0 .. x : SiftedTo(u, skipped)[i] = SiftedTo(s, skipped)[i]
    <3> HIDE DEF u
    <3>1. u \in Seq(C) /\ x \in Nat /\ x <= Len(u) /\ \A i \in 1 .. x : u[i] = s[i]
      BY <1>1, <1>2, <2>1
    <3> QED BY <2>4, <3>1, SiftedAlike
  <2> QED BY <2>2, <2>3, Zenon DEF H, F
<1> DEFINE p == F[x]
           S == {j \in Nat : j \in 0 .. y => H[x + j] = Chain(p, G[j])}
<1>7. p \in Seq(C)
  BY <1>2, <1>3
<1> HIDE DEF F, G, H, x, y, p
<1>8. 0 \in S
  <2>1. x + 0 = x
    BY <1>2
  <2>2. Chain(p, <<>>) = p
    BY <1>7, ConcatEmptySeq DEF Chain
  <2> QED BY <1>4, <1>6, <2>1, <2>2 DEF p
<1>9. ASSUME NEW j \in Nat, j \in S PROVE j + 1 \in S
  <2> SUFFICES ASSUME j + 1 \in 0 .. y PROVE H[x + (j + 1)] = Chain(p, G[j + 1])
    OBVIOUS
  <2> DEFINE m == x + (j + 1)
  <2>1. /\ m \in 1 .. x + y /\ m - 1 = x + j /\ ~(m <= x) /\ m - x = j + 1
        /\ j + 1 \in 1 .. y /\ j \in 0 .. y /\ (j + 1) - 1 = j
    BY <1>2
  <2> HIDE DEF m
  <2>2. H[m] = Sift1(Chain(p, G[j]), t[j + 1], skipped)
    <3>1. u[m] = t[j + 1]
      BY <1>1, <2>1
    <3>2. H[m - 1] = Chain(p, G[j])
      BY <1>9, <2>1
    <3> QED BY <1>5, <2>1, <3>1, <3>2
  <2>3. G[j + 1] = Sift1(G[j], t[j + 1], skipped)
    BY <1>4, <2>1
  <2> DEFINE c == t[j + 1]
             q == G[j]
  <2>4. c \in C /\ q \in Seq(C)
    BY <1>4, <2>1 DEF y
  <2> HIDE DEF c, q
  <2>6. Sift1(Chain(p, q), c, skipped) = Chain(p, Sift1(q, c, skipped))
    <3> HIDE DEF S
    <3>1. p \in Seq(C) /\ q \in Seq(C) /\ c \in C
      BY <1>7, <2>4
    <3> QED BY <3>1, SiftBehind
  <2> QED BY <2>2, <2>3, <2>6 DEF c, q, m
<1> HIDE DEF S
<1>10. Nat \subseteq S
  BY <1>8, <1>9, NatSetInduction
<1>11. H[x + y] = Chain(p, G[y])
  <2>1. y \in S /\ y \in 0 .. y
    BY <1>2, <1>10
  <2> QED BY <2>1 DEF S
<1>12. Sifted(s, skipped) \in Seq(C)
  BY <1>3, <1>7 DEF p
<1>13. Sifted(u, skipped) = Chain(p, Sifted(t, skipped))
  <2> HIDE DEF S
  <2> QED BY <1>4, <1>5, <1>11, Zenon
<1>14. u = Chain(s, t) /\ p = Sifted(s, skipped)
  <2> HIDE DEF S
  <2> QED BY <1>3, Zenon DEF u, p, Chain
<1> HIDE DEF S
<1> QED BY <1>12, <1>13, <1>14, Zenon

(* A text of which nothing is left, and one rune that is. *)
LEMMA SiftedNone ==
  ASSUME NEW C, NEW s \in Seq(C), NEW skipped, \A i \in 1 .. Len(s) : s[i] \in skipped
  PROVE  Sifted(s, skipped) = <<>>
<1> DEFINE F == SiftedTo(s, skipped)
           last == Len(s)
           S == {i \in Nat : i \in 0 .. last => F[i] = <<>>}
<1>1. /\ F[0] = <<>> /\ \A i \in 1 .. last : F[i] = Sift1(F[i - 1], s[i], skipped)
      /\ Sifted(s, skipped) = F[last]
  BY SiftedToIs
<1>0. last \in Nat /\ \A i \in 1 .. last : s[i] \in skipped
  OBVIOUS
<1> HIDE DEF F, last
<1>2. 0 \in S
  BY <1>1
<1>3. ASSUME NEW i \in Nat, i \in S PROVE i + 1 \in S
  <2> SUFFICES ASSUME i + 1 \in 0 .. last PROVE F[i + 1] = <<>>
    OBVIOUS
  <2>1. i + 1 \in 1 .. last /\ (i + 1) - 1 = i /\ i \in 0 .. last
    BY <1>0
  <2>2. F[i + 1] = Sift1(F[i], s[i + 1], skipped) /\ F[i] = <<>> /\ s[i + 1] \in skipped
    BY <1>0, <1>1, <1>3, <2>1
  <2> QED BY <2>2 DEF Sift1
<1> HIDE DEF S
<1>4. Nat \subseteq S
  BY <1>2, <1>3, NatSetInduction
<1>5. last \in S
  BY <1>0, <1>4
<1> QED BY <1>0, <1>1, <1>5 DEF S

(* A rune that is not passed over is kept.                                  *)
LEMMA SiftedOne ==
  ASSUME NEW c, NEW skipped, c \notin skipped
  PROVE  Sifted(<<c>>, skipped) = <<c>>
<1> DEFINE C == {c}
           s == <<c>>
           F == SiftedTo(s, skipped)
<1>1. s \in Seq(C) /\ Len(s) = 1 /\ s[1] = c
  OBVIOUS
<1> HIDE DEF s, C
<1>2. /\ F[0] = <<>> /\ \A i \in 1 .. Len(s) : F[i] = Sift1(F[i - 1], s[i], skipped)
      /\ Sifted(s, skipped) = F[Len(s)]
  BY <1>1, SiftedToIs
<1> HIDE DEF F
<1>3. 1 \in 1 .. 1 /\ 1 - 1 = 0
  OBVIOUS
<1>4. F[1] = Sift1(<<>>, c, skipped)
  BY <1>1, <1>2, <1>3
<1>5. Append(<<>>, c) = <<c>>
  OBVIOUS
<1> QED BY <1>1, <1>2, <1>4, <1>5 DEF Sift1, s

(* A part of a text, by name.                                              *)
Part(s, m, last) == SubSeq(s, m, last)

(* A part of a text taken apart at a place.                                *)
PartsAt(C, s, a, b, e) ==
  /\ Part(s, a, e) = Chain(Part(s, a, b - 1), Part(s, b, e))
  /\ Part(s, a, b - 1) \in Seq(C) /\ Part(s, b, e) \in Seq(C)
(* A part of a text is the part up to a place in it and the part from there. *)
LEMMA PartsApart ==
  ASSUME NEW C, NEW s \in Seq(C), NEW a \in Nat, NEW b \in Nat, NEW e \in Nat,
         1 <= a, a <= b, b <= e + 1, e <= Len(s)
  PROVE  PartsAt(C, s, a, b, e)
<1> DEFINE last == e
           x == Part(s, a, b - 1)
           y == Part(s, b, last)
           z == Part(s, a, last)
<1>1. last \in Nat /\ b - 1 \in Nat /\ b - 1 <= last /\ b - 1 <= Len(s) /\ last <= Len(s) /\ 1 <= b /\ b <= last + 1
  OBVIOUS
<1>2. x \in Seq(C) /\ Len(x) = b - a /\ \A i \in 1 .. b - a : x[i] = s[a + i - 1]
  <2>1. /\ x \in Seq(C) /\ Len(x) = (IF a <= b - 1 THEN (b - 1) - a + 1 ELSE 0)
        /\ \A i \in 1 .. (IF a <= b - 1 THEN (b - 1) - a + 1 ELSE 0) : x[i] = s[a + i - 1]
    BY <1>1, PartOf DEF Part
  <2>2. (IF a <= b - 1 THEN (b - 1) - a + 1 ELSE 0) = b - a
    OBVIOUS
  <2> HIDE DEF x
  <2> QED BY <2>1, <2>2
<1>3. y \in Seq(C) /\ Len(y) = last + 1 - b /\ \A i \in 1 .. last + 1 - b : y[i] = s[b + i - 1]
  <2>1. /\ y \in Seq(C) /\ Len(y) = (IF b <= last THEN last - b + 1 ELSE 0)
        /\ \A i \in 1 .. (IF b <= last THEN last - b + 1 ELSE 0) : y[i] = s[b + i - 1]
    BY <1>1, PartOf DEF Part
  <2> HIDE DEF last
  <2>2. (IF b <= last THEN last - b + 1 ELSE 0) = last + 1 - b
    BY <1>1
  <2> HIDE DEF y
  <2> QED BY <2>1, <2>2
<1>4. z \in Seq(C) /\ Len(z) = last + 1 - a /\ \A i \in 1 .. last + 1 - a : z[i] = s[a + i - 1]
  <2>1. /\ z \in Seq(C) /\ Len(z) = (IF a <= last THEN last - a + 1 ELSE 0)
        /\ \A i \in 1 .. (IF a <= last THEN last - a + 1 ELSE 0) : z[i] = s[a + i - 1]
    BY <1>1, PartOf DEF Part
  <2> HIDE DEF last
  <2>2. (IF a <= last THEN last - a + 1 ELSE 0) = last + 1 - a
    BY <1>1
  <2> HIDE DEF z
  <2> QED BY <2>1, <2>2
<1> HIDE DEF x, y, z, last
<1>5. /\ Chain(x, y) \in Seq(C) /\ Len(Chain(x, y)) = Len(x) + Len(y)
      /\ \A i \in 1 .. Len(x) + Len(y) : Chain(x, y)[i] = IF i <= Len(x) THEN x[i] ELSE y[i - Len(x)]
  BY <1>2, <1>3, ChainIs
<1>6. Len(Chain(x, y)) = Len(z)
  BY <1>1, <1>2, <1>3, <1>4, <1>5
<1>7. ASSUME NEW i \in 1 .. Len(z) PROVE z[i] = Chain(x, y)[i]
  <2>1. i \in 1 .. last + 1 - a /\ i \in 1 .. Len(x) + Len(y)
    BY <1>1, <1>2, <1>3, <1>4
  <2>2. z[i] = s[a + i - 1]
    BY <1>4, <2>1
  <2>3. CASE i <= Len(x)
    <3>1. i \in 1 .. b - a
      BY <1>2, <2>1, <2>3
    <3> QED BY <1>2, <1>5, <2>1, <2>2, <2>3, <3>1
  <2>4. CASE ~(i <= Len(x))
    <3>1. i - (b - a) \in 1 .. last + 1 - b /\ b + (i - (b - a)) - 1 = a + i - 1
      BY <1>1, <1>2, <2>1, <2>4
    <3>2. y[i - (b - a)] = s[a + i - 1]
      BY <1>3, <3>1
    <3> QED BY <1>2, <1>5, <2>1, <2>2, <2>4, <3>2
  <2> QED BY <2>3, <2>4
<1>8. z = Chain(x, y)
  BY <1>4, <1>5, <1>6, <1>7, SeqEqual
<1>9. x \in Seq(C) /\ y \in Seq(C) /\ z = Chain(x, y)
  BY <1>2, <1>3, <1>8
<1> QED BY <1>9, Zenon DEF PartsAt, x, y, z, last

(* A text taken apart at a place.                                          *)
SplitsAt(C, s, a, b) ==
  /\ Part(s, a, Len(s)) = Chain(Part(s, a, b - 1), Part(s, b, Len(s)))
  /\ Part(s, a, b - 1) \in Seq(C) /\ Part(s, b, Len(s)) \in Seq(C)
(* A text is what stands before a place in it and what is left from there.  *)
LEMMA TakenApart ==
  ASSUME NEW C, NEW s \in Seq(C), NEW a \in Nat, NEW b \in Nat, 1 <= a, a <= b, b <= Len(s) + 1
  PROVE  SplitsAt(C, s, a, b)
<1> DEFINE e == Len(s)
<1>1. e \in Nat /\ e <= e /\ b <= e + 1
  OBVIOUS
<1> HIDE DEF e
<1>2. PartsAt(C, s, a, b, e)
  BY <1>1, PartsApart DEF e
<1> QED BY <1>2, Zenon DEF PartsAt, SplitsAt, e

(* What is left of a text from a place on.                                 *)
Left(s, i, skipped) == Sifted(Part(s, i, Len(s)), skipped)

(* What is left of a text is of its alphabet.                               *)
LEMMA LeftSeq ==
  ASSUME NEW C, NEW s \in Seq(C), NEW i \in Nat, 1 <= i, i <= Len(s) + 1, NEW skipped
  PROVE  Left(s, i, skipped) \in Seq(C)
<1> DEFINE t == Part(s, i, Len(s))
<1>1. t \in Seq(C)
  <2>1. SplitsAt(C, s, i, i)
    BY TakenApart
  <2> QED BY <2>1, Zenon DEF SplitsAt
<1> HIDE DEF t
<1>2. Sifted(t, skipped) \in Seq(C)
  BY <1>1, SiftedBoth
<1> QED BY <1>2 DEF Left, t

(* What is left is a part of it, and what is left behind that part.         *)
LEMMA LeftAt ==
  ASSUME NEW C, NEW s \in Seq(C), NEW a \in Nat, NEW b \in Nat, 1 <= a, a <= b, b <= Len(s) + 1,
         NEW skipped
  PROVE  Left(s, a, skipped) = Chain(Sifted(Part(s, a, b - 1), skipped), Left(s, b, skipped))
<1> DEFINE x == Part(s, a, b - 1)
           y == Part(s, b, Len(s))
           z == Part(s, a, Len(s))
<1>1. z = Chain(x, y) /\ x \in Seq(C) /\ y \in Seq(C)
  <2>1. SplitsAt(C, s, a, b)
    BY TakenApart
  <2> QED BY <2>1, Zenon DEF SplitsAt
<1> HIDE DEF x, y, z
<1>2. Sifted(Chain(x, y), skipped) = Chain(Sifted(x, skipped), Sifted(y, skipped))
  BY <1>1, SiftedBoth
<1> QED BY <1>1, <1>2, Zenon DEF Left, x, y, z

(* Over a gap, nothing is.                                                 *)
LEMMA LeftOver ==
  ASSUME NEW C, NEW s \in Seq(C), NEW a \in Nat, NEW b \in Nat, 1 <= a, a <= b, b <= Len(s) + 1,
         NEW skipped, \A i \in a .. b - 1 : s[i] \in skipped
  PROVE  Left(s, a, skipped) = Left(s, b, skipped)
<1> DEFINE x == Part(s, a, b - 1)
           w == Left(s, b, skipped)
           k == IF a <= b - 1 THEN (b - 1) - a + 1 ELSE 0
<1>1. x \in Seq(C) /\ Len(x) = k /\ \A i \in 1 .. k : x[i] = s[a + i - 1]
  <2>1. b - 1 \in Nat /\ b - 1 <= Len(s)
    OBVIOUS
  <2> QED BY <2>1, PartOf DEF Part
<1>2. \A i \in 1 .. k : a + i - 1 \in a .. b - 1
  OBVIOUS
<1>3. \A i \in 1 .. Len(x) : x[i] \in skipped
  <2> HIDE DEF x, k
  <2> QED BY <1>1, <1>2
<1>4. w \in Seq(C)
  BY LeftSeq
<1>5. Left(s, a, skipped) = Chain(Sifted(x, skipped), w)
  BY LeftAt
<1> HIDE DEF x, w
<1>6. Sifted(x, skipped) = <<>>
  BY <1>1, <1>3, SiftedNone
<1>7. Chain(<<>>, w) = w
  BY <1>4, ChainNothing
<1> QED BY <1>5, <1>6, <1>7 DEF w

(* Behind the last rune nothing is.                                        *)
LEMMA LeftEnd ==
  ASSUME NEW C, NEW s \in Seq(C), NEW skipped
  PROVE  Left(s, Len(s) + 1, skipped) = <<>>
<1> DEFINE t == Part(s, Len(s) + 1, Len(s))
<1>1. Len(s) \in Nat
  OBVIOUS
<1>2. t \in Seq(C) /\ Len(t) = 0
  <2>1. Len(s) + 1 \in Nat /\ 1 <= Len(s) + 1 /\ Len(s) <= Len(s) /\ ~(Len(s) + 1 <= Len(s))
    BY <1>1
  <2> QED BY <1>1, <2>1, PartOf DEF Part
<1> HIDE DEF t
<1>3. \A i \in 1 .. Len(t) : t[i] \in skipped
  BY <1>2
<1>4. Sifted(t, skipped) = <<>>
  BY <1>2, <1>3, SiftedNone
<1> QED BY <1>4 DEF Left, t

(* The place in a text of the k-th of the tokens T; behind the last one,   *)
(* its end.                                                                *)
Place(s, T, k) == IF k <= Len(T) THEN T[k].off + 1 ELSE Len(s) + 1

(* Behind the text up to i lie the tokens T, each where it says, and       *)
(* nothing between them but blanks.                                        *)
LaidAt(s, T, k) ==
  /\ Place(s, T, k) \in 1 .. Len(s) /\ s[Place(s, T, k)] \notin Blanks
  /\ T[k] = Token(s, Place(s, T, k))
  /\ Place(s, T, k) + T[k].len <= Place(s, T, k + 1)
  /\ \A j \in Place(s, T, k) + T[k].len .. Place(s, T, k + 1) - 1 : s[j] \in Blanks
Laid(s, T, i) ==
  /\ i <= Place(s, T, 1) /\ \A j \in i .. Place(s, T, 1) - 1 : s[j] \in Blanks
  /\ \A k \in 1 .. Len(T) : LaidAt(s, T, k)

(* A token stands in the text, or at its end.                               *)
LEMMA PlaceIs ==
  ASSUME NEW s, Len(s) \in Nat, NEW T, Len(T) \in Nat, NEW i, Laid(s, T, i), NEW k \in 1 .. Len(T) + 1
  PROVE  Place(s, T, k) \in 1 .. Len(s) + 1
<1>1. CASE k \in 1 .. Len(T)
  BY <1>1 DEF Laid, LaidAt
<1>2. CASE k \notin 1 .. Len(T)
  BY <1>2 DEF Place
<1> QED BY <1>1, <1>2

(* No tokens account for the end of a text.                                 *)
LEMMA LaidEnd ==
  ASSUME NEW s, Len(s) \in Nat
  PROVE  Laid(s, <<>>, Len(s) + 1)
<1>1. Place(s, <<>>, 1) = Len(s) + 1
  BY DEF Place
<1>2. Len(s) + 1 .. (Len(s) + 1) - 1 = {} /\ Len(s) + 1 <= Len(s) + 1
  <2> DEFINE x == Len(s)
  <2>1. x \in Nat
    OBVIOUS
  <2> HIDE DEF x
  <2>2. x + 1 .. (x + 1) - 1 = {} /\ x + 1 <= x + 1
    BY <2>1
  <2> QED BY <2>2 DEF x
<1>3. 1 .. Len(<<>>) = {}
  OBVIOUS
<1> QED BY <1>1, <1>2, <1>3 DEF Laid

(* A blank before them is accounted for.                                    *)
LEMMA LaidBlank ==
  ASSUME NEW s, Len(s) \in Nat, NEW T, Len(T) \in Nat, NEW i \in 1 .. Len(s), s[i] \in Blanks,
         Laid(s, T, i + 1)
  PROVE  Laid(s, T, i)
<1> DEFINE p == Place(s, T, 1)
<1>1. p \in Nat
  <2>1. 1 \in 1 .. Len(T) + 1
    OBVIOUS
  <2>2. Place(s, T, 1) \in 1 .. Len(s) + 1
    BY <2>1, PlaceIs
  <2> QED BY <2>2
<1>2. i + 1 <= p /\ \A j \in i + 1 .. p - 1 : s[j] \in Blanks
  BY DEF Laid
<1>4. \A k \in 1 .. Len(T) : LaidAt(s, T, k)
  BY DEF Laid
<1> HIDE DEF p
<1>3. i <= p /\ \A j \in i .. p - 1 : s[j] \in Blanks
  BY <1>1, <1>2
<1> QED BY <1>3, <1>4 DEF Laid, p

(* And so is a token before them.                                           *)
LEMMA LaidToken ==
  ASSUME NEW s, Len(s) \in Nat, NEW T \in Seq(TokenOf(s)), NEW i \in 1 .. Len(s), s[i] \notin Blanks,
         Laid(s, T, i + TokenLength(s, i))
  PROVE  Laid(s, <<Token(s, i)>> \o T, i)
<1> DEFINE t == Token(s, i)
           U == <<t>> \o T
           len == TokenLength(s, i)
           last == Len(T)
<1>0. last \in Nat /\ len \in Nat /\ i \in Nat
  BY TokenLengthIs
<1>1. t.off = i - 1 /\ t.len = len
  BY DEF Token
<1>2. /\ Len(U) = 1 + last /\ U[1] = t
      /\ \A k \in 1 .. last : U[k + 1] = T[k]
  <2> DEFINE u == <<t>>
  <2>1. t \in TokenOf(s)
    BY DEF TokenOf
  <2>2. u \in Seq(TokenOf(s)) /\ Len(u) = 1 /\ u[1] = t
    BY <2>1
  <2> HIDE DEF u, t
  <2>3. /\ Len(u \o T) = Len(u) + Len(T)
        /\ \A k \in 1 .. Len(u) + Len(T) : (u \o T)[k] = IF k <= Len(u) THEN u[k] ELSE T[k - Len(u)]
    BY <2>2, ConcatProperties
  <2>4. U = u \o T
    BY DEF u
  <2> HIDE DEF U, last
  <2>5. \A k \in 1 .. last : k + 1 \in 1 .. 1 + last /\ (k + 1) - 1 = k /\ ~(k + 1 <= 1)
    BY <1>0
  <2>6. 1 \in 1 .. 1 + last
    BY <1>0
  <2> QED BY <2>2, <2>3, <2>4, <2>5, <2>6 DEF last
<1> HIDE DEF t, U, len
<1>3. Place(s, U, 1) = i
  <2> HIDE DEF last
  <2>1. 1 <= Len(U)
    BY <1>0, <1>2
  <2>2. t.off + 1 = i
    BY <1>0, <1>1
  <2> QED BY <1>2, <2>1, <2>2 DEF Place
<1>4. \A k \in 1 .. last + 1 : Place(s, U, k + 1) = Place(s, T, k)
  <2> SUFFICES ASSUME NEW k \in 1 .. last + 1 PROVE Place(s, U, k + 1) = Place(s, T, k)
    OBVIOUS
  <2>1. (k + 1 <= Len(U)) <=> (k <= last)
    <3> HIDE DEF last
    <3> QED BY <1>0, <1>2
  <2>2. CASE k <= last
    <3>1. k \in 1 .. last
      <4> HIDE DEF last
      <4> QED BY <1>0, <2>2
    <3> QED BY <1>2, <2>1, <2>2, <3>1 DEF Place
  <2>3. CASE ~(k <= last)
    BY <2>1, <2>3 DEF Place
  <2> QED BY <2>2, <2>3
<1>5. /\ i + len <= Place(s, T, 1) /\ \A j \in i + len .. Place(s, T, 1) - 1 : s[j] \in Blanks
      /\ \A k \in 1 .. last : LaidAt(s, T, k)
  BY DEF Laid, len
<1>6. Place(s, U, 2) = Place(s, T, 1)
  <2>1. 1 \in 1 .. last + 1 /\ 1 + 1 = 2
    BY <1>0
  <2> QED BY <1>4, <2>1
<1>7. LaidAt(s, U, 1)
  <2>1. i \in 1 .. Len(s) /\ s[i] \notin Blanks /\ U[1] = Token(s, i) /\ U[1].len = len /\ 1 + 1 = 2
    BY <1>1, <1>2 DEF t
  <2> QED BY <1>3, <1>5, <1>6, <2>1 DEF LaidAt
<1>8. ASSUME NEW k \in 1 .. last PROVE LaidAt(s, U, k + 1)
  <2>1. k \in 1 .. last + 1 /\ k + 1 \in 1 .. last + 1
    <3> HIDE DEF last
    <3> QED BY <1>0
  <2>2. Place(s, U, k + 1) = Place(s, T, k) /\ Place(s, U, (k + 1) + 1) = Place(s, T, k + 1)
    BY <1>4, <2>1
  <2>3. LaidAt(s, T, k) /\ U[k + 1] = T[k]
    BY <1>2, <1>5
  <2> QED BY <2>2, <2>3 DEF LaidAt
<1>9. \A k \in 1 .. Len(U) : LaidAt(s, U, k)
  <2> SUFFICES ASSUME NEW k \in 1 .. Len(U) PROVE LaidAt(s, U, k)
    OBVIOUS
  <2> HIDE DEF last
  <2>1. CASE k = 1
    BY <1>7, <2>1
  <2>2. CASE k # 1
    <3>1. k - 1 \in 1 .. last /\ (k - 1) + 1 = k
      BY <1>0, <1>2, <2>2
    <3> QED BY <1>8, <3>1
  <2> QED BY <2>1, <2>2
<1>10. i <= i /\ i .. i - 1 = {}
  BY <1>0
<1> QED BY <1>3, <1>9, <1>10 DEF Laid, U, t

(* The tokens of a text lie in it, one behind the other, and nothing but   *)
(* blanks between them.                                                    *)
LEMMA TokensLaid ==
  ASSUME NEW s, Len(s) \in Nat
  PROVE  Laid(s, Tokens(s), 1) /\ Tokens(s) \in Seq(TokenOf(s))
<1> DEFINE F == TokensFrom(s)
           last == Len(s) + 1
           S == {i \in 1 .. last : Laid(s, F[i], i)}
<1>1. /\ Lexes(s, F) /\ \A i \in 1 .. last : F[i] \in Seq(TokenOf(s))
      /\ Tokens(s) = F[1]
  BY TokensFromIs
<1>2. last \in Nat /\ 1 \in 1 .. last
  OBVIOUS
<1>3. \A i \in 1 .. last : F[i] = IF i > Len(s) THEN <<>>
                    ELSE IF s[i] \in Blanks THEN F[i + 1]
                    ELSE <<Token(s, i)>> \o F[i + TokenLength(s, i)]
  <2> HIDE DEF F
  <2> QED BY <1>1 DEF Lexes
<1> HIDE DEF F
<1>4. ASSUME NEW i \in 1 .. last, \A j \in 1 .. last : j > i => j \in S PROVE i \in S
  <2>1. CASE i = last
    <3>1. i > Len(s)
      BY <2>1
    <3>2. F[i] = <<>>
      BY <1>3, <3>1
    <3> QED BY <2>1, <3>2, LaidEnd
  <2>2. CASE i # last
    <3>1. i \in 1 .. Len(s) /\ ~(i > Len(s))
      BY <2>2
    <3>2. Next1(s, i) \in i + 1 .. last
      BY <3>1, NextIs
    <3>3. Next1(s, i) \in S
      <4>1. Next1(s, i) \in 1 .. last /\ Next1(s, i) > i
        BY <3>2
      <4> QED BY <1>4, <4>1
    <3>4. CASE s[i] \in Blanks
      <4>1. Next1(s, i) = i + 1
        BY <3>4 DEF Next1
      <4>2. F[i] = F[i + 1]
        BY <1>3, <3>1, <3>4
      <4>3. Laid(s, F[i + 1], i + 1) /\ i + 1 \in 1 .. last
        BY <3>3, <4>1
      <4>4. Len(F[i + 1]) \in Nat
        <5>1. F[i + 1] \in Seq(TokenOf(s))
          BY <1>1, <4>3
        <5> QED BY <5>1
      <4> QED BY <3>1, <3>4, <4>2, <4>3, <4>4, LaidBlank
    <3>5. CASE s[i] \notin Blanks
      <4> DEFINE k == i + TokenLength(s, i)
                 T == F[k]
      <4>1. Next1(s, i) = k
        BY <3>5 DEF Next1
      <4>2. F[i] = <<Token(s, i)>> \o T
        BY <1>3, <3>1, <3>5
      <4>3. Laid(s, T, k) /\ k \in 1 .. last
        BY <3>3, <4>1
      <4>4. T \in Seq(TokenOf(s))
        BY <1>1, <4>3
      <4> HIDE DEF T
      <4>5. Laid(s, <<Token(s, i)>> \o T, i)
        BY <3>1, <3>5, <4>3, <4>4, LaidToken
      <4>6. Laid(s, F[i], i)
        BY <4>2, <4>5, Zenon
      <4> QED BY <4>6
    <3> QED BY <3>4, <3>5
  <2> QED BY <2>1, <2>2
<1>5. 1 .. last \subseteq S
  <2> HIDE DEF S, last
  <2>1. S \in SUBSET (1 .. last)
    BY DEF S
  <2>2. \A i \in 1 .. last : (\A j \in 1 .. last : j > i => j \in S) => i \in S
    BY <1>4
  <2> QED BY <1>2, <2>1, <2>2, DownInduction
<1>6. Laid(s, F[1], 1)
  <2>1. 1 \in S
    BY <1>2, <1>5
  <2> QED BY <2>1
<1> QED BY <1>1, <1>2, <1>6

Paired(s, i) == s[i] = "-" /\ i < Len(s) /\ s[i + 1] = ">"

(* The kind of a token, by its first rune.                                 *)
LEMMA KindTells ==
  ASSUME NEW s, NEW i
  PROVE  /\ KindOf(s, i) = "(" => s[i] = "("
         /\ KindOf(s, i) = ")" => s[i] = ")"
         /\ KindOf(s, i) = ":" => s[i] = ":"
         /\ KindOf(s, i) = Comma => s[i] = Comma
         /\ KindOf(s, i) = "->" => Paired(s, i)
<1>1. KindOf(s, i) = "(" => s[i] = "("
  BY Zenon DEF KindOf
<1>2. KindOf(s, i) = ")" => s[i] = ")"
  BY Zenon DEF KindOf
<1>3. KindOf(s, i) = ":" => s[i] = ":"
  BY Zenon DEF KindOf
<1>4. KindOf(s, i) = Comma => s[i] = Comma
  BY Zenon DEF KindOf, Comma
<1>5. KindOf(s, i) = "->" => Paired(s, i)
  BY Zenon DEF KindOf, Paired
<1> QED BY <1>1, <1>2, <1>3, <1>4, <1>5

(* What a token of one rune, and an arrow, have for a text.                *)
LEMMA BlanksApart ==
  ASSUME NEW c \in Blanks
  PROVE  c \notin IdentPart /\ c \notin Figures /\ c # "-"
<1>1. c = " " \/ c = "tab"
  BY Zenon DEF Blanks
<1>2. c \notin {"a", "b", "c", "d", "e", "f", "g", "h", "i", "j", "k", "l", "m",
           "n", "o", "p", "q", "r", "s", "t", "u", "v", "w", "x", "y", "z"}
  BY <1>1, Zenon
<1>3. c \notin {"A", "B", "C", "D", "E", "F", "G", "H", "I", "J", "K", "L", "M",
             "N", "O", "P", "Q", "R", "S", "T", "U", "V", "W", "X", "Y", "Z"}
  BY <1>1, Zenon
<1>4. c # "_" /\ c \notin Figures /\ c # "-"
  BY <1>1, Zenon DEF Figures
<1>5. c \notin Words
  BY <1>1, WordsAssumption, Zenon
<1>6. Range(Small) = {"a", "b", "c", "d", "e", "f", "g", "h", "i", "j", "k", "l", "m",
           "n", "o", "p", "q", "r", "s", "t", "u", "v", "w", "x", "y", "z"}
  BY DEF Range, Small
<1>7. Range(Capital) = {"A", "B", "C", "D", "E", "F", "G", "H", "I", "J", "K", "L", "M",
             "N", "O", "P", "Q", "R", "S", "T", "U", "V", "W", "X", "Y", "Z"}
  BY DEF Range, Capital
<1> QED BY <1>2, <1>3, <1>4, <1>5, <1>6, <1>7 DEF IdentPart, IdentStart

(* What the comparison passes over: blanks, and commas.                    *)
Passed == Blanks \cup {Comma}

(* A bare text is one without what is passed over.                          *)
LEMMA BareIs ==
  ASSUME NEW s
  PROVE  Bare(s) = Sifted(s, Passed)
BY Zenon DEF Bare, Passed, Comma

(* What is left of a text from its k-th token on.                          *)
Rest(s, T, k) == Left(s, Place(s, T, k), Passed)

(* The rest of a text is of its alphabet.                                   *)
LEMMA RestSeq ==
  ASSUME NEW C, NEW s \in Seq(C), NEW T, Len(T) \in Nat, NEW i, Laid(s, T, i), NEW k \in 1 .. Len(T) + 1
  PROVE  Rest(s, T, k) \in Seq(C)
<1> DEFINE p == Place(s, T, k)
<1>1. Len(s) \in Nat
  OBVIOUS
<1>2. p \in 1 .. Len(s) + 1
  BY <1>1, PlaceIs
<1> HIDE DEF p
<1>3. p \in Nat /\ 1 <= p /\ p <= Len(s) + 1
  BY <1>2
<1>4. Left(s, p, Passed) \in Seq(C)
  BY <1>3, LeftSeq
<1> QED BY <1>4 DEF Rest, p

(* And so is the bare text.                                                 *)
LEMMA BareSeq ==
  ASSUME NEW C, NEW s \in Seq(C)
  PROVE  Bare(s) \in Seq(C)
<1>1. Sifted(s, Passed) \in Seq(C)
  BY SiftedBoth
<1> QED BY <1>1, BareIs

(* Two texts are laid bare one behind the other.                            *)
LEMMA BareBoth ==
  ASSUME NEW C, NEW s \in Seq(C), NEW t \in Seq(C)
  PROVE  Bare(Chain(s, t)) = Chain(Bare(s), Bare(t))
<1>1. Sifted(Chain(s, t), Passed) = Chain(Sifted(s, Passed), Sifted(t, Passed))
  BY SiftedBoth
<1> QED BY <1>1, BareIs

(* The text of a token is the part of the line it stands for.               *)
LEMMA TokenText ==
  ASSUME NEW s, NEW p
  PROVE  /\ Token(s, p).text = Part(s, p, p + TokenLength(s, p) - 1)
         /\ Token(s, p).len = TokenLength(s, p) /\ Token(s, p).kind = KindOf(s, p)
<1> DEFINE k == KindOf(s, p)
           x == Part(s, p, p + TokenLength(s, p) - 1)
           o == p - 1
           m == TokenLength(s, p)
<1>1. Token(s, p) = [kind |-> k, text |-> x, off |-> o, len |-> m]
  BY Zenon DEF Token, Part
<1> HIDE DEF k, x, o, m
<1>2. Token(s, p).kind = k /\ Token(s, p).text = x /\ Token(s, p).len = m
  BY <1>1
<1> QED BY <1>2 DEF k, x, m

(* From a token on, what is left is the token, and what is left behind it. *)
LEMMA RestFrom ==
  ASSUME NEW C, NEW s \in Seq(C), NEW T, Len(T) \in Nat, NEW i, Laid(s, T, i), NEW k \in 1 .. Len(T)
  PROVE  Rest(s, T, k) = Chain(Bare(T[k].text), Rest(s, T, k + 1)) /\ T[k].text \in Seq(C)
<1> DEFINE p == Place(s, T, k)
           q == Place(s, T, k + 1)
           len == T[k].len
           m == p + len
<1>1. Len(s) \in Nat /\ k + 1 \in 1 .. Len(T) + 1
  OBVIOUS
<1>2. q \in 1 .. Len(s) + 1
  BY <1>1, PlaceIs
<1>3. /\ p \in 1 .. Len(s) /\ T[k] = Token(s, p) /\ m <= q
      /\ \A j \in m .. q - 1 : s[j] \in Blanks
  BY DEF Laid, LaidAt
<1>4. T[k].text = Part(s, p, p + TokenLength(s, p) - 1) /\ len = TokenLength(s, p)
  BY <1>3, TokenText
<1>5. len \in Nat \ {0} /\ m <= Len(s) + 1
  BY <1>1, <1>3, <1>4, TokenLengthIs
<1>6. T[k].text = Part(s, p, m - 1)
  <2> DEFINE tl == TokenLength(s, p)
  <2> HIDE DEF p, len, tl
  <2>1. m = p + tl /\ p \in Nat /\ tl \in Nat
    BY <1>3, <1>4, <1>5 DEF tl
  <2> HIDE DEF m
  <2>2. m - 1 = p + tl - 1
    BY <2>1
  <2> QED BY <1>4, <2>2, Zenon DEF tl
<1> HIDE DEF p, q, len
<1>7. m \in Nat /\ 1 <= m /\ m <= Len(s) + 1 /\ p \in Nat /\ 1 <= p /\ p <= m
  BY <1>1, <1>3, <1>5
<1>8. q \in Nat /\ q <= Len(s) + 1
  BY <1>2
<1> HIDE DEF m
<1>9. Left(s, p, Passed) = Chain(Sifted(Part(s, p, m - 1), Passed), Left(s, m, Passed))
  BY <1>7, LeftAt
<1>10. Left(s, m, Passed) = Left(s, q, Passed)
  <2>1. \A j \in m .. q - 1 : s[j] \in Passed
    BY <1>3 DEF Passed
  <2> QED BY <1>3, <1>7, <1>8, <2>1, LeftOver
<1>11. Part(s, p, m - 1) \in Seq(C)
  <2>1. SplitsAt(C, s, p, m)
    BY <1>7, TakenApart
  <2> QED BY <2>1 DEF SplitsAt
<1>12. Bare(T[k].text) = Sifted(Part(s, p, m - 1), Passed)
  BY <1>6, BareIs
<1> QED BY <1>6, <1>9, <1>10, <1>11, <1>12 DEF Rest, p, q

(* Behind the last token nothing is left, and from the first all of it is. *)
LEMMA RestEnd ==
  ASSUME NEW C, NEW s \in Seq(C), NEW T, Len(T) \in Nat
  PROVE  Rest(s, T, Len(T) + 1) = <<>>
<1>1. ~(Len(T) + 1 <= Len(T))
  OBVIOUS
<1>2. Place(s, T, Len(T) + 1) = Len(s) + 1
  BY <1>1 DEF Place
<1>3. Left(s, Len(s) + 1, Passed) = <<>>
  BY LeftEnd
<1> QED BY <1>2, <1>3 DEF Rest

(* From the first token on, everything is left.                             *)
LEMMA RestStart ==
  ASSUME NEW C, NEW s \in Seq(C), NEW T, Len(T) \in Nat, Laid(s, T, 1)
  PROVE  Bare(s) = Rest(s, T, 1)
<1> DEFINE p == Place(s, T, 1)
<1>1. Len(s) \in Nat /\ 1 \in 1 .. Len(T) + 1
  OBVIOUS
<1>2. p \in 1 .. Len(s) + 1
  BY <1>1, PlaceIs
<1>3. \A j \in 1 .. p - 1 : s[j] \in Blanks
  BY DEF Laid
<1> HIDE DEF p
<1>4. p \in Nat /\ 1 <= p /\ p <= Len(s) + 1 /\ 1 \in Nat /\ 1 <= 1
  BY <1>2
<1>5. \A j \in 1 .. p - 1 : s[j] \in Passed
  BY <1>3 DEF Passed
<1>6. Left(s, 1, Passed) = Left(s, p, Passed)
  BY <1>4, <1>5, LeftOver
<1>7. Part(s, 1, Len(s)) = s
  BY SubSeqFull DEF Part
<1>8. Left(s, 1, Passed) = Sifted(s, Passed)
  BY <1>7, Zenon DEF Left
<1> QED BY <1>6, <1>8, BareIs DEF Rest, p

(* A part of one rune, and of two.                                         *)
LEMMA PartOne ==
  ASSUME NEW C, NEW s \in Seq(C), NEW p \in 1 .. Len(s)
  PROVE  Part(s, p, p) = <<s[p]>>
<1> DEFINE t == Part(s, p, p)
           c == s[p]
           u == <<c>>
<1>0. p \in Nat /\ 1 <= p /\ p <= Len(s) /\ p - p + 1 = 1 /\ p + 1 - 1 = p /\ c \in C
  OBVIOUS
<1>1. /\ t \in Seq(C) /\ Len(t) = (IF p <= p THEN p - p + 1 ELSE 0)
      /\ \A i \in 1 .. (IF p <= p THEN p - p + 1 ELSE 0) : t[i] = s[p + i - 1]
  BY <1>0, PartOf DEF Part
<1>2. (IF p <= p THEN p - p + 1 ELSE 0) = 1
  BY <1>0
<1> HIDE DEF t
<1>3. Len(t) = 1 /\ t[1] = c
  <2>1. 1 \in 1 .. 1
    OBVIOUS
  <2>2. t[1] = s[p + 1 - 1]
    BY <1>1, <1>2, <2>1
  <2> QED BY <1>0, <1>1, <1>2, <2>2
<1>4. u \in Seq(C) /\ Len(u) = 1 /\ u[1] = c
  BY <1>0
<1> HIDE DEF u, c
<1>5. \A i \in 1 .. Len(t) : t[i] = u[i]
  BY <1>3, <1>4
<1>6. t = u
  BY <1>1, <1>3, <1>4, <1>5, SeqEqual
<1> QED BY <1>6 DEF t, u, c

(* A part of two runes. *)
LEMMA PartTwo ==
  ASSUME NEW C, NEW s \in Seq(C), NEW p \in 1 .. Len(s), p < Len(s)
  PROVE  Part(s, p, p + 1) = <<s[p], s[p + 1]>>
<1> DEFINE t == Part(s, p, p + 1)
           c == s[p]
           d == s[p + 1]
           u == <<c, d>>
           m == p + 1
<1>0. p \in Nat /\ m \in Nat /\ 1 <= p /\ m <= Len(s) /\ p <= m /\ m - p + 1 = 2 /\ p + 1 - 1 = p /\ p + 2 - 1 = m
  OBVIOUS
<1>1. c \in C /\ d \in C
  BY <1>0
<1> HIDE DEF m
<1>2. /\ Part(s, p, m) \in Seq(C) /\ Len(Part(s, p, m)) = (IF p <= m THEN m - p + 1 ELSE 0)
      /\ \A i \in 1 .. (IF p <= m THEN m - p + 1 ELSE 0) : Part(s, p, m)[i] = s[p + i - 1]
  BY <1>0, PartOf DEF Part
<1>3. (IF p <= m THEN m - p + 1 ELSE 0) = 2
  BY <1>0
<1>4. t \in Seq(C) /\ Len(t) = 2 /\ t[1] = c /\ t[2] = d
  <2>1. t = Part(s, p, m)
    BY DEF m
  <2> HIDE DEF t
  <2>2. 1 \in 1 .. 2 /\ 2 \in 1 .. 2
    OBVIOUS
  <2>3. t[1] = s[p + 1 - 1] /\ t[2] = s[p + 2 - 1]
    BY <1>2, <1>3, <2>1, <2>2
  <2>4. d = s[m]
    BY DEF m
  <2> QED BY <1>0, <1>2, <1>3, <2>1, <2>3, <2>4
<1> HIDE DEF t
<1>5. u \in Seq(C) /\ Len(u) = 2 /\ u[1] = c /\ u[2] = d
  BY <1>1
<1> HIDE DEF u, c, d
<1>6. \A i \in 1 .. Len(t) : t[i] = u[i]
  <2> SUFFICES ASSUME NEW i \in 1 .. Len(t) PROVE t[i] = u[i]
    OBVIOUS
  <2>1. i = 1 \/ i = 2
    BY <1>4
  <2> QED BY <1>4, <1>5, <2>1
<1>7. t = u
  BY <1>4, <1>5, <1>6, SeqEqual
<1> QED BY <1>7 DEF t, u, c, d

(* A text and its tokens, over an alphabet.                                *)
Laying(s, T, D) ==
  /\ Joining \subseteq D /\ s \in Seq(D)
  /\ Len(T) \in Nat /\ Laid(s, T, 1) /\ \A k \in 1 .. Len(T) : T[k].text \in Seq(D)

(* A token that is no name and no number, by its kind.                     *)
LEMMA LengthTells ==
  ASSUME NEW s, NEW p
  PROVE  /\ KindOf(s, p) = "(" => TokenLength(s, p) = 1
         /\ KindOf(s, p) = ")" => TokenLength(s, p) = 1
         /\ KindOf(s, p) = ":" => TokenLength(s, p) = 1
         /\ KindOf(s, p) = Comma => TokenLength(s, p) = 1
         /\ KindOf(s, p) = "->" => TokenLength(s, p) = 2
<1>1. KindOf(s, p) = "->" => TokenLength(s, p) = 2
  BY Zenon DEF TokenLength
<1>2. KindOf(s, p) # "->" /\ KindOf(s, p) # "ident" /\ KindOf(s, p) # "number" => TokenLength(s, p) = 1
  BY Zenon DEF TokenLength
<1>3. Comma # "->" /\ Comma # "ident" /\ Comma # "number"
  BY Zenon DEF Comma
<1> QED BY <1>1, <1>2, <1>3

(* What is written for a mark is told by the kind of its token.             *)
LEMMA TextTells ==
  ASSUME NEW s, NEW T, NEW D, Laying(s, T, D), NEW k \in 1 .. Len(T)
  PROVE  /\ T[k].kind = "(" => T[k].text = <<"(">>
         /\ T[k].kind = ")" => T[k].text = <<")">>
         /\ T[k].kind = ":" => T[k].text = <<":">>
         /\ T[k].kind = Comma => T[k].text = <<Comma>>
         /\ T[k].kind = "->" => T[k].text = <<"-", ">">>
<1> DEFINE p == Place(s, T, k)
           t == T[k]
           len == TokenLength(s, p)
<1>1. s \in Seq(D) /\ p \in 1 .. Len(s) /\ t = Token(s, p)
  BY DEF Laying, Laid, LaidAt
<1>2. t.text = Part(s, p, p + len - 1) /\ t.kind = KindOf(s, p)
  BY <1>1, TokenText
<1> HIDE DEF p, t, len
<1>3. ASSUME len = 1 PROVE t.text = <<s[p]>>
  <2>1. p + len - 1 = p
    BY <1>1, <1>3
  <2>2. Part(s, p, p) = <<s[p]>>
    BY <1>1, PartOne
  <2> QED BY <1>2, <2>1, <2>2
<1>4. ASSUME len = 2, Paired(s, p) PROVE t.text = <<"-", ">">>
  <2>1. p + len - 1 = p + 1
    BY <1>1, <1>4
  <2>2. p < Len(s) /\ s[p] = "-" /\ s[p + 1] = ">"
    BY <1>4 DEF Paired
  <2>3. Part(s, p, p + 1) = <<s[p], s[p + 1]>>
    BY <1>1, <2>2, PartTwo
  <2> QED BY <1>2, <2>1, <2>2, <2>3
<1>5. /\ KindOf(s, p) = "(" => s[p] = "(" /\ len = 1
      /\ KindOf(s, p) = ")" => s[p] = ")" /\ len = 1
      /\ KindOf(s, p) = ":" => s[p] = ":" /\ len = 1
      /\ KindOf(s, p) = Comma => s[p] = Comma /\ len = 1
      /\ KindOf(s, p) = "->" => Paired(s, p) /\ len = 2
  BY KindTells, LengthTells DEF len
<1>6. t.kind = "(" => t.text = <<"(">>
  BY <1>2, <1>3, <1>5
<1>7. t.kind = ")" => t.text = <<")">>
  BY <1>2, <1>3, <1>5
<1>8. t.kind = ":" => t.text = <<":">>
  BY <1>2, <1>3, <1>5
<1>9. t.kind = Comma => t.text = <<Comma>>
  BY <1>2, <1>3, <1>5
<1>10. t.kind = "->" => t.text = <<"-", ">">>
  BY <1>2, <1>4, <1>5
<1> QED BY <1>6, <1>7, <1>8, <1>9, <1>10 DEF t

(* A comma is passed over.                                                  *)
LEMMA BareComma == Bare(<<Comma>>) = <<>>
<1> DEFINE C == {Comma}
           s == <<Comma>>
<1>1. s \in Seq(C) /\ Len(s) = 1 /\ s[1] = Comma
  OBVIOUS
<1> HIDE DEF s
<1>2. \A i \in 1 .. Len(s) : s[i] \in Passed
  BY <1>1 DEF Passed
<1> HIDE DEF C
<1>3. Sifted(s, Passed) = <<>>
  BY <1>1, <1>2, SiftedNone
<1> QED BY <1>3, BareIs DEF s

(* A token's text, in what is left of the text it is from.                 *)
LEMMA RestToken ==
  ASSUME NEW s, NEW T, NEW D, Laying(s, T, D), NEW k \in 1 .. Len(T)
  PROVE  /\ Rest(s, T, k) = Chain(Bare(T[k].text), Rest(s, T, k + 1))
         /\ Bare(T[k].text) \in Seq(D) /\ T[k].text \in Seq(D)
<1>1. s \in Seq(D) /\ Len(T) \in Nat /\ Laid(s, T, 1) /\ T[k].text \in Seq(D)
  BY DEF Laying
<1>2. Rest(s, T, k) = Chain(Bare(T[k].text), Rest(s, T, k + 1))
  BY <1>1, RestFrom
<1> QED BY <1>1, <1>2, BareSeq

(* The rest of a text that tokens are laid over is of their alphabet.       *)
LEMMA RestText ==
  ASSUME NEW s, NEW T, NEW D, Laying(s, T, D), NEW k \in 1 .. Len(T) + 1
  PROVE  Rest(s, T, k) \in Seq(D)
BY RestSeq DEF Laying

(* A comma leaves nothing behind.                                          *)
LEMMA RestComma ==
  ASSUME NEW s, NEW T, NEW D, Laying(s, T, D), NEW k \in 1 .. Len(T), T[k].kind = Comma
  PROVE  Rest(s, T, k) = Rest(s, T, k + 1)
<1> DEFINE r == Rest(s, T, k + 1)
<1>1. Len(T) \in Nat
  BY DEF Laying
<1>2. k + 1 \in 1 .. Len(T) + 1
  BY <1>1
<1>3. r \in Seq(D)
  BY <1>2, RestText
<1>4. T[k].text = <<Comma>>
  BY TextTells
<1>5. Bare(T[k].text) = <<>>
  BY <1>4, BareComma
<1>6. Rest(s, T, k) = Chain(Bare(T[k].text), r)
  BY RestToken
<1> HIDE DEF r
<1>7. Chain(<<>>, r) = r
  BY <1>3, ChainNothing
<1> QED BY <1>5, <1>6, <1>7 DEF r

(* Nothing is laid bare of nothing.                                         *)
LEMMA BareNothing == Bare(<<>>) = <<>>
<1> DEFINE e == <<>>
<1>1. e \in Seq({}) /\ Len(e) = 0
  OBVIOUS
<1>2. \A i \in 1 .. Len(e) : e[i] \in Passed
  BY <1>1
<1> HIDE DEF e
<1>3. Sifted(e, Passed) = <<>>
  BY <1>1, <1>2, SiftedNone
<1> QED BY <1>3, BareIs DEF e

(* An argument adds its own text, a comma between two adds nothing.         *)
LEMMA ArguedBare ==
  ASSUME NEW D, Comma \in D, NEW b \in Seq(D), NEW tok, tok.text \in Seq(D)
  PROVE  Bare(Argued(b, tok)) = IF tok.kind = Comma THEN Bare(b) ELSE Chain(Bare(b), Bare(tok.text))
<1> DEFINE sep == IF b = <<>> THEN <<>> ELSE <<Comma>>
           t == tok.text
<1>1. CASE tok.kind = Comma
  <2>1. Argued(b, tok) = b
    BY <1>1, Zenon DEF Argued
  <2> QED BY <1>1, <2>1
<1>2. CASE tok.kind # Comma
  <2>1. Argued(b, tok) = Chain(Chain(b, sep), t)
    BY <1>2, Zenon DEF Argued, Chain
  <2>2. sep \in Seq(D) /\ Bare(sep) = <<>>
    <3>1. <<>> \in Seq(D) /\ <<Comma>> \in Seq(D)
      OBVIOUS
    <3> QED BY <3>1, BareNothing, BareComma
  <2> HIDE DEF sep, t
  <2>3. t \in Seq(D)
    BY DEF t
  <2>4. Chain(b, sep) \in Seq(D)
    BY <2>2, ChainIs
  <2>5. Bare(Chain(Chain(b, sep), t)) = Chain(Bare(Chain(b, sep)), Bare(t))
    BY <2>3, <2>4, BareBoth
  <2>6. Bare(Chain(b, sep)) = Chain(Bare(b), Bare(sep))
    BY <2>2, BareBoth
  <2>7. Chain(Bare(b), <<>>) = Bare(b)
    BY BareSeq, ChainNothing
  <2> QED BY <1>2, <2>1, <2>2, <2>5, <2>6, <2>7 DEF t
<1> QED BY <1>1, <1>2

(* The arguments of a type are all there is between its parentheses.       *)
LEMMA ArgumentsLeft ==
  ASSUME NEW s, NEW T, NEW D, Laying(s, T, D), NEW i \in Nat \ {0}, NEW j \in Nat, i < j, j <= Len(T)
  PROVE  /\ Arguments(T, i, j) \in Seq(D)
         /\ Rest(s, T, i + 1) = Chain(Bare(Arguments(T, i, j)), Rest(s, T, j))
<1> DEFINE f == ArgumentsTo(T, i, j)
           last == Len(T)
           R(k) == Rest(s, T, k)
           S == {m \in Nat : i + m <= j - 1 => R(i + 1) = Chain(Bare(f[i + m]), R(i + m + 1))}
<1>0. last \in Nat /\ j <= last
  BY DEF Laying
<1>1. Comma \in D /\ Texts(T, D) /\ \A k \in 1 .. last : T[k].text \in Seq(D)
  BY DEF Laying, Texts, Joining
<1>2. /\ \A k \in i .. j - 1 : f[k] \in Seq(D)
      /\ f[i] = <<>> /\ \A k \in i + 1 .. j - 1 : f[k] = Argued(f[k - 1], T[k])
      /\ Arguments(T, i, j) = f[j - 1]
  <2>1. j <= Len(T) + 1
    BY <1>0
  <2> QED BY <1>1, <2>1, ArgumentsAre
<1> HIDE DEF f
<1>3. \A k \in 1 .. last + 1 : R(k) \in Seq(D)
  BY RestText
<1>4. \A k \in 1 .. last : /\ R(k) = Chain(Bare(T[k].text), R(k + 1))
                           /\ Bare(T[k].text) \in Seq(D)
                           /\ T[k].kind = Comma => R(k) = R(k + 1)
  BY RestToken, RestComma
<1> HIDE DEF R, last
<1>5. 0 \in S
  <2>1. i + 0 = i /\ i + 0 + 1 = i + 1 /\ i + 1 \in 1 .. last + 1
    BY <1>0
  <2>2. Bare(<<>>) = <<>>
    BY BareNothing
  <2>3. Chain(<<>>, R(i + 1)) = R(i + 1)
    BY <1>3, <2>1, ChainNothing
  <2> QED BY <1>2, <2>1, <2>2, <2>3
<1>6. ASSUME NEW m \in Nat, m \in S PROVE m + 1 \in S
  <2> DEFINE k == i + (m + 1)
  <2> SUFFICES ASSUME k <= j - 1 PROVE R(i + 1) = Chain(Bare(f[k]), R(k + 1))
    OBVIOUS
  <2>1. /\ k \in 1 .. last /\ k \in i + 1 .. j - 1 /\ k - 1 = i + m /\ i + m + 1 = k
        /\ i + m <= j - 1 /\ k - 1 \in i .. j - 1 /\ k + 1 \in 1 .. last + 1
    BY <1>0
  <2> HIDE DEF k
  <2> DEFINE b == f[k - 1]
             t == T[k].text
  <2>2. R(i + 1) = Chain(Bare(b), R(k))
    BY <1>6, <2>1
  <2>3. b \in Seq(D) /\ t \in Seq(D) /\ f[k] = Argued(b, T[k])
    BY <1>1, <1>2, <2>1
  <2>4. Bare(f[k]) = IF T[k].kind = Comma THEN Bare(b) ELSE Chain(Bare(b), Bare(t))
    <3> HIDE DEF b
    <3> QED BY <1>1, <2>3, ArguedBare
  <2>5. R(k + 1) \in Seq(D) /\ Bare(b) \in Seq(D) /\ Bare(t) \in Seq(D)
    BY <1>3, <2>1, <2>3, BareSeq
  <2>6. R(k) = Chain(Bare(t), R(k + 1)) /\ (T[k].kind = Comma => R(k) = R(k + 1))
    BY <1>4, <2>1
  <2> HIDE DEF b, t, R
  <2>7. Chain(Chain(Bare(b), Bare(t)), R(k + 1)) = Chain(Bare(b), Chain(Bare(t), R(k + 1)))
    BY <2>5, ChainThree
  <2>8. CASE T[k].kind = Comma
    BY <2>2, <2>4, <2>6, <2>8
  <2>9. CASE T[k].kind # Comma
    BY <2>2, <2>4, <2>6, <2>7, <2>9
  <2> QED BY <2>8, <2>9
<1> HIDE DEF S
<1>7. Nat \subseteq S
  BY <1>5, <1>6, NatSetInduction
<1>8. R(i + 1) = Chain(Bare(f[j - 1]), R(j))
  <2> DEFINE m == j - 1 - i
  <2>1. m \in Nat /\ i + m = j - 1 /\ i + m + 1 = j
    OBVIOUS
  <2> HIDE DEF m
  <2>2. m \in S
    BY <1>7, <2>1
  <2> QED BY <2>1, <2>2 DEF S
<1>9. j - 1 \in i .. j - 1
  OBVIOUS
<1> QED BY <1>2, <1>8, <1>9 DEF R

(* How many tokens of a kind there are up to one of them.                  *)
CountOf(toks, i, m, x) == Cardinality({k \in i .. m : toks[k].kind = x})

(* The count of a kind of token goes on from token to token.                *)
LEMMA CountOn ==
  ASSUME NEW toks, NEW i \in Nat, NEW m \in Nat, i <= m, NEW x
  PROVE  /\ CountOf(toks, i, m, x) \in Nat
         /\ CountOf(toks, i, m + 1, x) = CountOf(toks, i, m, x) + (IF toks[m + 1].kind = x THEN 1 ELSE 0)
<1> DEFINE A == {k \in i .. m : toks[k].kind = x}
           B == {k \in i .. m + 1 : toks[k].kind = x}
           e == m + 1
<1>1. IsFiniteSet(A)
  <2>1. IsFiniteSet(i .. m)
    BY FS_Interval
  <2> QED BY <2>1, FS_Subset
<1>2. Cardinality(A) \in Nat
  BY <1>1, FS_CardinalityType
<1>3. e \notin A /\ \A k : k \in i .. e <=> (k \in i .. m \/ k = e)
  OBVIOUS
<1>4. CASE toks[e].kind = x
  <2>1. B = A \cup {e}
    BY <1>3, <1>4
  <2> HIDE DEF A, B, e
  <2>2. Cardinality(B) = Cardinality(A) + 1
    BY <1>1, <1>3, <2>1, FS_AddElement
  <2> QED BY <1>2, <1>4, <2>2 DEF CountOf, A, B, e
<1>5. CASE toks[e].kind # x
  <2>1. B = A
    BY <1>3, <1>5
  <2>2. CountOf(toks, i, e, x) = Cardinality(B) /\ CountOf(toks, i, m, x) = Cardinality(A)
    BY DEF CountOf
  <2> HIDE DEF A, B
  <2> QED BY <1>2, <1>5, <2>1, <2>2
<1> QED BY <1>4, <1>5

(* The matching parenthesis is one.                                        *)
LEMMA ClosingCloses ==
  ASSUME NEW toks, Len(toks) \in Nat, NEW i \in Nat \ {0}, At(toks, i) = "(", Closing(toks, i) # {}
  PROVE  toks[Min(Closing(toks, i))].kind = ")"
<1> DEFINE E == Closing(toks, i)
           last == Len(toks)
           j == Min(E)
           O(m) == CountOf(toks, i, m, "(")
           F(m) == CountOf(toks, i, m, ")")
           S == {d \in Nat : i + d < j => F(i + d) < O(i + d)}
<1>1. E = {m \in i .. last : O(m) = F(m)}
  BY DEF Closing, CountOf
<1>2. j \in i + 1 .. last /\ j \in E
  BY ClosingIs
<1>3. \A m \in E : j <= m
  <2>1. E \in SUBSET (1 .. last)
    <3> HIDE DEF E, O, F
    <3>1. E \subseteq i .. last
      BY <1>1
    <3> QED BY <3>1
  <2>2. last \in Nat /\ E # {}
    OBVIOUS
  <2> HIDE DEF E, last
  <2> QED BY <2>1, <2>2, LeastGreatest
<1>4. O(i) = 1 /\ F(i) = 0
  <2>1. toks[i].kind = "("
    BY DEF At
  <2>2. {k \in i .. i : toks[k].kind = "("} = {i} /\ {k \in i .. i : toks[k].kind = ")"} = {}
    BY <2>1
  <2> QED BY <2>2, FS_Singleton, FS_EmptySet DEF CountOf
<1>5. ASSUME NEW m \in Nat, i <= m
      PROVE  /\ O(m) \in Nat /\ F(m) \in Nat
             /\ O(m + 1) = O(m) + (IF toks[m + 1].kind = "(" THEN 1 ELSE 0)
             /\ F(m + 1) = F(m) + (IF toks[m + 1].kind = ")" THEN 1 ELSE 0)
  <2>1. \A x : /\ CountOf(toks, i, m, x) \in Nat
               /\ CountOf(toks, i, m + 1, x) = CountOf(toks, i, m, x) + (IF toks[m + 1].kind = x THEN 1 ELSE 0)
    BY <1>5, CountOn
  <2> QED BY <2>1, Zenon
<1>6. O(j) = F(j) /\ last \in Nat
  <2> HIDE DEF E, O, F, j
  <2> QED BY <1>1, <1>2
<1> HIDE DEF E, O, F, last, j
<1>7. 0 \in S
  <2>1. i + 0 = i
    OBVIOUS
  <2> QED BY <1>4, <2>1
<1>8. ASSUME NEW d \in Nat, d \in S PROVE d + 1 \in S
  <2> DEFINE m == i + d
             p == i + (d + 1)
  <2> SUFFICES ASSUME p < j PROVE F(p) < O(p)
    OBVIOUS
  <2>1. m \in Nat /\ i <= m /\ m + 1 = p /\ m < j /\ p \in i .. last /\ p \in Nat
    BY <1>2, <1>6
  <2>2. F(m) < O(m)
    BY <1>8, <2>1
  <2> HIDE DEF m, p
  <2>3. O(p) # F(p)
    <3>1. p \notin E
      BY <1>2, <1>3, <2>1
    <3> QED BY <1>1, <2>1, <3>1
  <2>4. /\ O(m) \in Nat /\ F(m) \in Nat
        /\ O(p) = O(m) + (IF toks[p].kind = "(" THEN 1 ELSE 0)
        /\ F(p) = F(m) + (IF toks[p].kind = ")" THEN 1 ELSE 0)
    BY <1>5, <2>1
  <2>5. CASE toks[p].kind = "("
    BY <2>2, <2>4, <2>5
  <2>6. CASE toks[p].kind # "("
    BY <2>2, <2>3, <2>4, <2>6
  <2> QED BY <2>5, <2>6
<1> HIDE DEF S
<1>9. Nat \subseteq S
  BY <1>7, <1>8, NatSetInduction
<1>10. toks[j].kind = ")"
  <2> SUFFICES ASSUME ~(toks[j].kind = ")") PROVE FALSE
    OBVIOUS
  <2> DEFINE m == j - 1
             d == m - i
  <2>1. d \in Nat /\ i + d = m /\ m < j /\ m \in Nat /\ i <= m /\ m + 1 = j
    BY <1>2, <1>6
  <2> HIDE DEF d, m
  <2>2. F(m) < O(m)
    <3>1. d \in S
      BY <1>9, <2>1
    <3> QED BY <2>1, <3>1 DEF S
  <2>3. /\ O(m) \in Nat /\ F(m) \in Nat
        /\ O(j) = O(m) + (IF toks[j].kind = "(" THEN 1 ELSE 0)
        /\ F(j) = F(m) + (IF toks[j].kind = ")" THEN 1 ELSE 0)
    BY <1>5, <2>1
  <2>4. F(j) = F(m)
    BY <2>3
  <2>5. O(m) <= O(j)
    <3>1. CASE toks[j].kind = "("
      BY <2>3, <3>1
    <3>2. CASE toks[j].kind # "("
      BY <2>3, <3>2
    <3> QED BY <3>1, <3>2
  <2>6. O(j) = F(j)
    BY <1>6
  <2> HIDE DEF O, F
  <2> QED BY <2>2, <2>3, <2>4, <2>5, <2>6
<1> QED BY <1>10 DEF j, E

(* The runes of a name and what is made of them.                           *)
LEMMA LayingTexts ==
  ASSUME NEW s, NEW T, NEW D, Laying(s, T, D)
  PROVE  /\ Joining \subseteq D /\ Texts(T, D) /\ Len(T) \in Nat /\ s \in Seq(D)
         /\ \A k \in 1 .. Len(T) : T[k].text \in Seq(D)
BY DEF Laying, Texts

(* A decimal type, without its blanks and commas.                          *)
LEMMA DecimalBare ==
  ASSUME NEW T, NEW D, Joining \subseteq D, NEW i, NEW j, Arguments(T, i + 1, j) \in Seq(D)
  PROVE  Bare(DecimalText(T, i, j)) =
           Chain(Bare(DecimalWord), Chain(Bare(<<"(">>), Chain(Bare(Arguments(T, i + 1, j)), Bare(<<")">>))))
<1> DEFINE args == Arguments(T, i + 1, j)
           open == <<"(">>
           shut == <<")">>
           word == DecimalWord
<1>1. args \in Seq(D)
  OBVIOUS
<1>2. open \in Seq(D) /\ shut \in Seq(D)
  BY DEF Joining
<1>3. word \in Seq(D)
  <2>1. \A i1 \in 1 .. 9 : Candidates[i1] \in Seq(Letter)
    BY NamesAre
  <2>2. Candidates[5] = DecimalWord
    BY DEF Candidates
  <2>3. DecimalWord \in Seq(Letter)
    BY <2>1, <2>2
  <2>4. Letter \subseteq D
    BY DEF Joining
  <2> QED BY <2>3, <2>4, SeqOfMore
<1>4. DecimalText(T, i, j) = Chain(Chain(Chain(word, open), args), shut)
  BY Zenon DEF DecimalText, Chain, args, open, shut, word
<1> HIDE DEF args, open, shut, word
<1>5. Chain(word, open) \in Seq(D)
  BY <1>2, <1>3, ChainIs
<1>6. Chain(Chain(word, open), args) \in Seq(D)
  BY <1>1, <1>5, ChainIs
<1>7. Chain(Chain(Chain(word, open), args), shut) = Chain(Chain(word, open), Chain(args, shut))
  BY <1>1, <1>2, <1>5, ChainThree
<1>8. Chain(args, shut) \in Seq(D)
  BY <1>1, <1>2, ChainIs
<1>9. Chain(Chain(word, open), Chain(args, shut)) = Chain(word, Chain(open, Chain(args, shut)))
  BY <1>2, <1>3, <1>8, ChainThree
<1>10. Chain(open, Chain(args, shut)) \in Seq(D)
  BY <1>2, <1>8, ChainIs
<1>11. Bare(Chain(word, Chain(open, Chain(args, shut)))) = Chain(Bare(word), Bare(Chain(open, Chain(args, shut))))
  BY <1>3, <1>10, BareBoth
<1>12. Bare(Chain(open, Chain(args, shut))) = Chain(Bare(open), Bare(Chain(args, shut)))
  BY <1>2, <1>8, BareBoth
<1>13. Bare(Chain(args, shut)) = Chain(Bare(args), Bare(shut))
  BY <1>1, <1>2, BareBoth
<1>14. Bare(DecimalText(T, i, j)) = Chain(Bare(word), Chain(Bare(open), Chain(Bare(args), Bare(shut))))
  BY <1>4, <1>7, <1>9, <1>11, <1>12, <1>13
<1> QED BY <1>14 DEF args, open, shut, word

(* Four texts, one behind the other.                                       *)
LEMMA ChainFour ==
  ASSUME NEW D, NEW a \in Seq(D), NEW b \in Seq(D), NEW c \in Seq(D), NEW d \in Seq(D), NEW r \in Seq(D)
  PROVE  Chain(a, Chain(b, Chain(c, Chain(d, r)))) = Chain(Chain(a, Chain(b, Chain(c, d))), r)
<1>1. Chain(c, d) \in Seq(D)
  BY ChainIs
<1>2. Chain(c, Chain(d, r)) = Chain(Chain(c, d), r)
  BY ChainThree
<1>3. Chain(b, Chain(Chain(c, d), r)) = Chain(Chain(b, Chain(c, d)), r)
  BY <1>1, ChainThree
<1>4. Chain(b, Chain(c, d)) \in Seq(D)
  BY <1>1, ChainIs
<1>5. Chain(a, Chain(Chain(b, Chain(c, d)), r)) = Chain(Chain(a, Chain(b, Chain(c, d))), r)
  BY <1>4, ChainThree
<1> QED BY <1>2, <1>3, <1>5

(* What a name is resolved to is it.                                       *)
LEMMA ResolvedName ==
  ASSUME NEW name, NEW types, NEW span, NEW next
  PROVE  Resolved(name, types, span, next).name = name /\ Resolved(name, types, span, next).next = next
BY DEF Resolved

(* All of a type is in its name.                                           *)
LEMMA TypeWhole ==
  ASSUME NEW s, NEW T, NEW D, Laying(s, T, D), NEW i \in Nat \ {0}, NEW l, ParseType(T, i, l).ok
  PROVE  LET type == ParseType(T, i, l)
         IN /\ type.next \in i + 1 .. Len(T) + 1 /\ type.name \in Seq(D)
            /\ Rest(s, T, i) = Chain(Bare(type.name), Rest(s, T, type.next))
<1> DEFINE type == ParseType(T, i, l)
           ends == Closing(T, i + 1)
           last == Len(T)
           R(k) == Rest(s, T, k)
           B(k) == Bare(T[k].text)
<1>1. last \in Nat /\ Texts(T, D) /\ Joining \subseteq D
  BY LayingTexts
<1>2. type.next \in i + 1 .. last + 1
  <2>1. TypeRead(type, i, last)
    BY <1>1, ParseTypeIs
  <2> QED BY <2>1 DEF TypeRead
<1>3. At(T, i) = "ident"
  <2>1. \A d : ~NoReading(d).ok
    BY DEF NoReading
  <2>2. CASE At(T, i) = "end"
    <3>1. type = NoReading(Whole("E0013", l))
      BY <2>2 DEF ParseType
    <3> QED BY <2>1, <3>1
  <2>3. CASE At(T, i) # "end" /\ At(T, i) # "ident"
    <3>1. type = NoReading(Here("E0013", l, T[i]))
      BY <2>3 DEF ParseType
    <3> QED BY <2>1, <3>1
  <2> QED BY <2>2, <2>3
<1>4. i \in 1 .. last
  <2>1. i <= last
    BY <1>3 DEF At
  <2> HIDE DEF last
  <2> QED BY <1>1, <2>1
<1>5. ASSUME NEW k \in 1 .. last
      PROVE  R(k) = Chain(B(k), R(k + 1)) /\ B(k) \in Seq(D) /\ T[k].text \in Seq(D)
  BY <1>5, RestToken
<1>6. \A k \in 1 .. last + 1 : R(k) \in Seq(D)
  BY RestText
<1>7. CASE T[i].text # DecimalWord \/ At(T, i + 1) # "("
  <2> DEFINE name == T[i].text
             types == Named(name)
             span == TokenSpan(l, T[i])
  <2>1. type = Resolved(name, types, span, i + 1)
    BY <1>3, <1>7 DEF ParseType
  <2> HIDE DEF types, span, type
  <2>2. type.name = name /\ type.next = i + 1
    <3> HIDE DEF name
    <3> QED BY <2>1, ResolvedName
  <2>3. R(i) = Chain(B(i), R(i + 1)) /\ name \in Seq(D)
    BY <1>4, <1>5
  <2>4. R(i) = Chain(Bare(type.name), R(type.next))
    BY <2>2, <2>3, Zenon DEF name
  <2> HIDE DEF last, R, name
  <2>5. type.name \in Seq(D)
    BY <2>2, <2>3
  <2> QED BY <1>2, <2>4, <2>5 DEF type, last, R
<1>8. CASE ~(T[i].text # DecimalWord \/ At(T, i + 1) # "(")
  <2>1. ends # {}
    <3> SUFFICES ASSUME ends = {} PROVE FALSE
      OBVIOUS
    <3>1. type = NoReading(Here("E0014", l, T[i]))
      BY <1>3, <1>8 DEF ParseType
    <3> QED BY <3>1 DEF NoReading
  <2> DEFINE j == Min(ends)
             name == DecimalText(T, i, j)
             types == Named(name)
             span == JoinSpans(TokenSpan(l, T[i]), TokenSpan(l, T[j]))
             args == Arguments(T, i + 1, j)
             word == DecimalWord
  <2>2. type = Resolved(name, types, span, j + 1)
    BY <1>3, <1>8, <2>1 DEF ParseType, Parametrised
  <2>3. i + 1 \in Nat \ {0} /\ At(T, i + 1) = "(" /\ T[i].text = DecimalWord
    BY <1>8
  <2>4. j \in (i + 1) + 1 .. last /\ T[j].kind = ")"
    BY <1>1, <2>1, <2>3, ClosingIs, ClosingCloses
  <2> HIDE DEF j, types, span, ends, type
  <2>5. type.name = name /\ type.next = j + 1
    <3> HIDE DEF name
    <3> QED BY <2>2, ResolvedName
  <2>6. /\ i + 1 \in 1 .. last /\ j \in Nat /\ i + 1 < j /\ j <= last /\ j \in 1 .. last
        /\ (i + 1) + 1 \in 1 .. last + 1 /\ j + 1 \in 1 .. last + 1
    <3> HIDE DEF last
    <3> QED BY <1>1, <1>4, <2>4
  <2>7. T[i + 1].kind = "("
    BY <2>3, <2>6 DEF At
  <2>8. T[i + 1].text = <<"(">> /\ T[j].text = <<")">>
    <3>1. T[i + 1].text = <<"(">>
      BY <2>6, <2>7, TextTells
    <3>2. T[j].text = <<")">>
      BY <2>4, <2>6, TextTells
    <3> QED BY <3>1, <3>2
  <2>9. args \in Seq(D) /\ R((i + 1) + 1) = Chain(Bare(args), R(j))
    BY <2>3, <2>6, ArgumentsLeft
  <2>10. R(i) = Chain(B(i), R(i + 1)) /\ R(i + 1) = Chain(B(i + 1), R((i + 1) + 1)) /\ R(j) = Chain(B(j), R(j + 1))
    BY <1>4, <1>5, <2>6
  <2>11. /\ B(i) \in Seq(D) /\ B(i + 1) \in Seq(D) /\ B(j) \in Seq(D) /\ R(j + 1) \in Seq(D)
    BY <1>4, <1>5, <1>6, <2>6
  <2>12. Bare(args) \in Seq(D)
    <3> HIDE DEF args
    <3> QED BY <2>9, BareSeq
  <2>13. Bare(name) = Chain(Bare(word), Chain(Bare(<<"(">>), Chain(Bare(args), Bare(<<")">>))))
    BY <1>1, <2>9, DecimalBare
  <2>14. Bare(name) = Chain(B(i), Chain(B(i + 1), Chain(Bare(args), B(j))))
    <3> HIDE DEF args, name
    <3> QED BY <2>3, <2>8, <2>13, Zenon DEF word
  <2>15. name \in Seq(D)
    <3>1. j <= last + 1
      <4> HIDE DEF last
      <4> QED BY <1>1, <2>6
    <3> QED BY <1>1, <2>6, <3>1, DecimalTextIs
  <2> HIDE DEF args, name, word, last
  <2> DEFINE x1 == B(i)
             x2 == B(i + 1)
             x3 == Bare(args)
             x4 == B(j)
             r == R(j + 1)
  <2>16. R(i) = Chain(x1, Chain(x2, Chain(x3, Chain(x4, r))))
    BY <2>9, <2>10, Zenon
  <2>17. x1 \in Seq(D) /\ x2 \in Seq(D) /\ x3 \in Seq(D) /\ x4 \in Seq(D) /\ r \in Seq(D)
    BY <2>11, <2>12
  <2> HIDE DEF x1, x2, x3, x4, r
  <2>18. Chain(x1, Chain(x2, Chain(x3, Chain(x4, r)))) = Chain(Chain(x1, Chain(x2, Chain(x3, x4))), r)
    BY <2>17, ChainFour
  <2>19. R(i) = Chain(Bare(name), R(j + 1))
    BY <2>14, <2>16, <2>18, Zenon DEF x1, x2, x3, x4, r
  <2>20. R(i) = Chain(Bare(type.name), R(type.next)) /\ type.name \in Seq(D)
    BY <2>5, <2>15, <2>19, Zenon
  <2> QED BY <1>2, <2>20, Zenon DEF type, last
<1> QED BY <1>7, <1>8

(* Three texts, one behind the other.                                      *)
LEMMA BareThree ==
  ASSUME NEW D, NEW a \in Seq(D), NEW b \in Seq(D), NEW c \in Seq(D)
  PROVE  /\ Bare(a \o b \o c) = Chain(Bare(a), Chain(Bare(b), Bare(c)))
         /\ a \o b \o c \in Seq(D)
<1>1. a \o b \o c = Chain(Chain(a, b), c)
  BY Zenon DEF Chain
<1>2. Chain(Chain(a, b), c) = Chain(a, Chain(b, c))
  BY ChainThree
<1>3. Chain(b, c) \in Seq(D)
  BY ChainIs
<1>4. Bare(Chain(a, Chain(b, c))) = Chain(Bare(a), Bare(Chain(b, c)))
  BY <1>3, BareBoth
<1>5. Bare(Chain(b, c)) = Chain(Bare(b), Bare(c))
  BY BareBoth
<1>6. Chain(a, Chain(b, c)) \in Seq(D)
  BY <1>3, ChainIs
<1> QED BY <1>1, <1>2, <1>4, <1>5, <1>6, Zenon

(* A parameter or a result is all there is up to the end of its type.      *)
LEMMA GivenWhole ==
  ASSUME NEW s, NEW T, NEW D, Laying(s, T, D), NEW k \in Nat \ {0}, NEW l,
         At(T, k) = "ident", At(T, k + 1) = ":", ParseType(T, k + 2, l).ok
  PROVE  LET type == ParseType(T, k + 2, l)
             g == Given(T, k, l, type)
         IN /\ type.next \in k + 3 .. Len(T) + 1 /\ Spelled(g) \in Seq(D)
            /\ Rest(s, T, k) = Chain(Bare(Spelled(g)), Rest(s, T, type.next))
<1> DEFINE type == ParseType(T, k + 2, l)
           g == Given(T, k, l, type)
           last == Len(T)
           name == T[k].text
           colon == <<":">>
           of == type.name
           R(m) == Rest(s, T, m)
<1>1. last \in Nat
  BY LayingTexts
<1>2. "ident" # "end" /\ ":" # "end" /\ k + 2 \in Nat \ {0} /\ (k + 1) + 1 = k + 2 /\ (k + 2) + 1 = k + 3
  OBVIOUS
<1>3. k \in 1 .. last /\ k + 1 \in 1 .. last /\ T[k + 1].kind = ":"
  <2>1. k <= last /\ k + 1 <= last /\ T[k + 1].kind = ":"
    BY <1>2 DEF At
  <2> HIDE DEF last
  <2> QED BY <1>1, <2>1
<1>4. /\ type.next \in (k + 2) + 1 .. last + 1 /\ of \in Seq(D)
      /\ R(k + 2) = Chain(Bare(of), R(type.next))
  BY <1>2, TypeWhole
<1>5. /\ R(k) = Chain(Bare(name), R(k + 1)) /\ name \in Seq(D) /\ Bare(name) \in Seq(D)
      /\ R(k + 1) = Chain(Bare(T[k + 1].text), R((k + 1) + 1)) /\ T[k + 1].text \in Seq(D)
  BY <1>3, RestToken
<1>6. T[k + 1].text = colon
  BY <1>3, TextTells
<1>7. g.name = name /\ g.typeName = of
  <2> HIDE DEF type, name
  <2> QED BY DEF Given, name
<1>8. Spelled(g) = name \o colon \o of
  <2> HIDE DEF g, name, of
  <2> QED BY <1>7, Zenon DEF Spelled, colon
<1>9. type.next \in 1 .. last + 1
  <2> HIDE DEF last, type
  <2> QED BY <1>1, <1>4
<1>10. R(type.next) \in Seq(D)
  BY <1>9, RestText
<1> HIDE DEF name, colon, of, R, type, g, last
<1>11. colon \in Seq(D)
  BY <1>5, <1>6
<1>12. Bare(name \o colon \o of) = Chain(Bare(name), Chain(Bare(colon), Bare(of))) /\ name \o colon \o of \in Seq(D)
  BY <1>4, <1>5, <1>11, BareThree
<1>13. Bare(colon) \in Seq(D) /\ Bare(of) \in Seq(D)
  BY <1>4, <1>11, BareSeq
<1>14. R(k) = Chain(Bare(name), Chain(Bare(colon), Chain(Bare(of), R(type.next))))
  BY <1>2, <1>4, <1>5, <1>6, Zenon
<1> DEFINE x == Bare(name)
           y == Bare(colon)
           z == Bare(of)
           r == R(type.next)
<1>15. x \in Seq(D) /\ y \in Seq(D) /\ z \in Seq(D) /\ r \in Seq(D)
  BY <1>5, <1>10, <1>13
<1> HIDE DEF x, y, z, r
<1>16. Chain(x, Chain(y, Chain(z, r))) = Chain(Chain(x, Chain(y, z)), r)
  <2>1. Chain(y, Chain(z, r)) = Chain(Chain(y, z), r)
    BY <1>15, ChainThree
  <2>2. Chain(y, z) \in Seq(D)
    BY <1>15, ChainIs
  <2>3. Chain(x, Chain(Chain(y, z), r)) = Chain(Chain(x, Chain(y, z)), r)
    BY <1>15, <2>2, ChainThree
  <2> QED BY <2>1, <2>3
<1>17. R(k) = Chain(Bare(Spelled(g)), R(type.next)) /\ Spelled(g) \in Seq(D)
  BY <1>8, <1>12, <1>14, <1>16, Zenon DEF x, y, z, r
<1> QED BY <1>2, <1>4, <1>17, Zenon DEF R, g, type, last

----------------------------------------------------------------------------
(* What FlattenSeq has joined after each of the sequences.                 *)
Flattens(seqs, f) ==
  f = [i \in 1 .. Len(seqs) |-> IF i = 1 THEN seqs[i] ELSE f[i - 1] \o seqs[i]]
FlatTo(seqs) == CHOOSE f : Flattens(seqs, f)

(* Texts in a row are flattened one by one.                                 *)
LEMMA FlatIs ==
  ASSUME NEW D, NEW r \in Seq(Seq(D)), r # <<>>
  PROVE  /\ FlattenSeq(r) = FlatTo(r)[Len(r)]
         /\ FlatTo(r)[1] = r[1]
         /\ \A i \in 2 .. Len(r) : FlatTo(r)[i] = Chain(FlatTo(r)[i - 1], r[i])
         /\ \A i \in 1 .. Len(r) : FlatTo(r)[i] \in Seq(D)
<1> DEFINE last == Len(r)
           I == 1 .. last
           S == Seq(D)
           step == [x \in I \X S |-> x[2] \o r[x[1]]]
<1>1. last \in Nat \ {0} /\ \A i \in I : r[i] \in S
  BY EmptySeq
<1>2. step \in [I \X S -> S]
  <2> SUFFICES ASSUME NEW x \in I \X S PROVE step[x] \in S
    OBVIOUS
  <2> DEFINE a == x[2]
             b == r[x[1]]
  <2>1. a \in S /\ b \in S /\ step[x] = a \o b
    BY <1>1
  <2> HIDE DEF a, b, step
  <2> QED BY <2>1, ConcatProperties
<1>3. 1 \in I /\ r[1] \in S
  <2>1. 1 \in I
    <3> HIDE DEF last
    <3> QED BY <1>1
  <2> QED BY <1>1, <2>1
<1>4. PICK f \in [I -> S] : Rises(f, 1, last, r[1], step)
  <2> DEFINE b == r[1]
  <2>1. 1 \in Nat /\ last \in Nat /\ 1 <= last /\ b \in S /\ step \in [(1 .. last) \X S -> S]
    <3> HIDE DEF last, S, step
    <3> QED BY <1>1, <1>2, <1>3
  <2> HIDE DEF last, S, step, b
  <2>2. \E f \in [1 .. last -> S] : Rises(f, 1, last, b, step)
    BY <2>1, RiseRecursion
  <2> QED BY <2>2 DEF b
<1> DEFINE V(g, i) == IF i = 1 THEN r[i] ELSE g[i - 1] \o r[i]
<1>5. ASSUME NEW i \in I PROVE f[i] = V(f, i)
  <2>1. CASE i = 1
    BY <1>4, <2>1 DEF Rises
  <2>2. CASE i # 1
    <3>1. i \in 1 + 1 .. last /\ i - 1 \in I
      <4> HIDE DEF last
      <4> QED BY <1>1, <2>2
    <3>2. f[i] = step[<<i, f[i - 1]>>]
      BY <1>4, <3>1 DEF Rises
    <3>3. <<i, f[i - 1]>> \in I \X S
      BY <3>1
    <3> DEFINE x == <<i, f[i - 1]>>
    <3>4. x[1] = i /\ x[2] = f[i - 1] /\ x \in I \X S
      BY <3>3
    <3>5. step[x] = x[2] \o r[x[1]]
      BY <3>4
    <3> HIDE DEF x, step
    <3>6. f[i] = f[i - 1] \o r[i]
      BY <3>2, <3>4, <3>5, Zenon DEF x
    <3> QED BY <2>2, <3>6
  <2> QED BY <2>1, <2>2
<1>6. Flattens(r, f)
  <2>1. f = [i \in I |-> f[i]]
    OBVIOUS
  <2>2. f = [i \in I |-> V(f, i)]
    <3> HIDE DEF V
    <3> QED BY <1>5, <2>1
  <2> QED BY <2>2, Zenon DEF Flattens, V, I, last
<1> DEFINE F == FlatTo(r)
<1>7. Flattens(r, F)
  BY <1>6, Zenon DEF FlatTo
<1>8. \A i \in I : F[i] = V(F, i)
  <2> HIDE DEF F
  <2>1. F = [i \in I |-> V(F, i)]
    BY <1>7, Zenon DEF Flattens, V, I, last
  <2> HIDE DEF V
  <2> QED BY <2>1
<1>9. F[1] = r[1]
  <2> HIDE DEF F, I
  <2> QED BY <1>3, <1>8
<1>10. ASSUME NEW i \in 2 .. last PROVE F[i] = Chain(F[i - 1], r[i])
  <2>1. i \in I /\ i # 1
    <3> HIDE DEF last
    <3> QED BY <1>1
  <2> HIDE DEF F, I
  <2> QED BY <1>8, <2>1, Zenon DEF Chain
<1> DEFINE Z == {m \in Nat : m + 1 \in I => F[m + 1] \in S}
<1>11. Nat \subseteq Z
  <2> HIDE DEF F, S, last
  <2>1. 0 \in Z
    <3>1. 0 + 1 = 1
      OBVIOUS
    <3> QED BY <1>3, <1>9, <3>1
  <2>2. ASSUME NEW m \in Nat, m \in Z PROVE m + 1 \in Z
    <3> SUFFICES ASSUME (m + 1) + 1 \in I PROVE F[(m + 1) + 1] \in S
      OBVIOUS
    <3> DEFINE e == (m + 1) + 1
               d == m + 1
    <3>1. e \in 2 .. last /\ e - 1 = d /\ d \in I
      BY <1>1
    <3> HIDE DEF e, d
    <3>2. F[e] = Chain(F[d], r[e])
      BY <1>10, <3>1
    <3>3. F[d] \in S
      BY <2>2, <3>1 DEF d
    <3>4. r[e] \in S
      <4>1. e \in I
        BY <1>1, <3>1
      <4> QED BY <1>1, <4>1
    <3>5. Chain(F[d], r[e]) \in S
      BY <3>3, <3>4, ChainIs DEF S
    <3> QED BY <3>2, <3>5 DEF e
  <2> HIDE DEF Z
  <2> QED BY <2>1, <2>2, NatSetInduction
<1>12. ASSUME NEW i \in I PROVE F[i] \in S
  <2>1. i - 1 \in Nat /\ (i - 1) + 1 = i
    <3> HIDE DEF last
    <3> QED BY <1>1
  <2> HIDE DEF F, S, I
  <2> QED BY <1>11, <2>1
<1>13. FlattenSeq(r) = F[last]
  BY <1>1, Zenon DEF FlattenSeq, FlatTo, Flattens, last
<1> QED BY <1>9, <1>10, <1>12, <1>13

(* No texts are flattened to nothing.                                       *)
LEMMA FlattenNone == FlattenSeq(<<>>) = <<>>
<1>1. Len(<<>>) = 0
  OBVIOUS
<1> QED BY <1>1, Zenon DEF FlattenSeq

(* Texts are flattened to a text of their alphabet.                         *)
LEMMA FlattenIn ==
  ASSUME NEW D, NEW r \in Seq(Seq(D))
  PROVE  FlattenSeq(r) \in Seq(D)
<1>1. CASE r = <<>>
  BY <1>1, FlattenNone, EmptySeq
<1>2. CASE r # <<>>
  <2> DEFINE last == Len(r)
  <2>1. last \in 1 .. last
    BY <1>2, EmptySeq
  <2>2. FlattenSeq(r) = FlatTo(r)[last] /\ FlatTo(r)[last] \in Seq(D)
    BY <1>2, <2>1, FlatIs
  <2> QED BY <2>2
<1> QED BY <1>1, <1>2

(* One sequence before the others.                                         *)
LEMMA FlattenFirst ==
  ASSUME NEW D, NEW a \in Seq(D), NEW r \in Seq(Seq(D)), NEW w \in Seq(Seq(D)),
         Len(w) = Len(r) + 1, w[1] = a, \A i \in 1 .. Len(r) : w[i + 1] = r[i]
  PROVE  FlattenSeq(w) = Chain(a, FlattenSeq(r))
<1> DEFINE last == Len(r)
           J == FlatTo(r)
           K == FlatTo(w)
<1>1. last \in Nat /\ Len(w) = last + 1 /\ w # <<>>
  BY EmptySeq
<1>2. /\ FlattenSeq(w) = K[last + 1] /\ K[1] = a
      /\ \A i \in 2 .. last + 1 : K[i] = Chain(K[i - 1], w[i])
  BY <1>1, FlatIs
<1>3. CASE r = <<>>
  <2>1. last = 0
    BY <1>3
  <2>2. FlattenSeq(r) = <<>>
    BY <1>3, FlattenNone
  <2>3. Chain(a, <<>>) = a
    BY ChainNothing
  <2> HIDE DEF last, K
  <2>4. K[last + 1] = a
    BY <1>2, <2>1
  <2> QED BY <1>2, <2>2, <2>3, <2>4
<1>4. CASE r # <<>>
  <2> DEFINE Z == {m \in Nat : m + 1 <= last => K[m + 2] = Chain(a, J[m + 1])}
  <2>1. /\ FlattenSeq(r) = J[last] /\ J[1] = r[1]
        /\ \A i \in 2 .. last : J[i] = Chain(J[i - 1], r[i])
        /\ \A i \in 1 .. last : J[i] \in Seq(D)
    BY <1>4, FlatIs
  <2>2. last \in Nat \ {0} /\ (\A i \in 1 .. last : r[i] \in Seq(D)) /\ \A i \in 1 .. last : w[i + 1] = r[i]
    BY <1>4, EmptySeq
  <2> HIDE DEF last, J, K
  <2>3. 0 \in Z
    <3>1. 2 \in 2 .. last + 1 /\ 2 - 1 = 1 /\ 1 \in 1 .. last /\ 1 + 1 = 2
      BY <2>2
    <3>2. K[2] = Chain(K[1], w[2])
      BY <1>2, <3>1
    <3>3. w[2] = r[1]
      BY <2>2, <3>1
    <3>4. K[2] = Chain(a, J[1])
      BY <1>2, <2>1, <3>2, <3>3
    <3>5. 0 + 2 = 2 /\ 0 + 1 = 1
      OBVIOUS
    <3> QED BY <3>4, <3>5
  <2>4. ASSUME NEW m \in Nat, m \in Z PROVE m + 1 \in Z
    <3> DEFINE d == m + 1
               e == m + 2
               g == m + 3
    <3>0. (m + 1) + 1 = e /\ (m + 1) + 2 = g
      OBVIOUS
    <3> SUFFICES ASSUME e <= last PROVE K[g] = Chain(a, J[e])
      <4> HIDE DEF g, e
      <4> QED BY <3>0
    <3>1. /\ d \in 1 .. last /\ e \in 2 .. last /\ e \in 1 .. last /\ g \in 2 .. last + 1 /\ g - 1 = e /\ e - 1 = d
          /\ e + 1 = g
      BY <2>2
    <3>2. K[e] = Chain(a, J[d])
      BY <2>4, <3>1
    <3> HIDE DEF d, e, g
    <3>3. K[g] = Chain(K[e], w[g])
      BY <1>2, <3>1
    <3>4. w[g] = r[e]
      BY <2>2, <3>1
    <3>5. J[e] = Chain(J[d], r[e])
      BY <2>1, <3>1
    <3>6. J[d] \in Seq(D) /\ r[e] \in Seq(D)
      BY <2>1, <2>2, <3>1
    <3>7. Chain(Chain(a, J[d]), r[e]) = Chain(a, Chain(J[d], r[e]))
      BY <3>6, ChainThree
    <3> QED BY <3>2, <3>3, <3>4, <3>5, <3>7
  <2> HIDE DEF Z
  <2>5. Nat \subseteq Z
    BY <2>3, <2>4, NatSetInduction
  <2>6. last - 1 \in Z /\ (last - 1) + 1 = last /\ (last - 1) + 2 = last + 1
    BY <2>2, <2>5
  <2>7. K[last + 1] = Chain(a, J[last])
    BY <2>2, <2>6 DEF Z
  <2> QED BY <1>2, <2>1, <2>7
<1> QED BY <1>3, <1>4

(* Parameters, as they are spelled one behind the other.                   *)
Spelt(ps) == FlattenSeq([p \in DOMAIN ps |-> Spelled(ps[p])])
Legible(ps, D) == Len(ps) \in Nat /\ DOMAIN ps = 1 .. Len(ps) /\ \A p \in 1 .. Len(ps) : Spelled(ps[p]) \in Seq(D)

(* Parameters that can be read are spelled in their alphabet.               *)
LEMMA SpeltSeq ==
  ASSUME NEW D, NEW ps, Legible(ps, D)
  PROVE  /\ Spelt(ps) \in Seq(D)
         /\ [p \in DOMAIN ps |-> Spelled(ps[p])] \in Seq(Seq(D))
         /\ Len([p \in DOMAIN ps |-> Spelled(ps[p])]) = Len(ps)
<1> DEFINE last == Len(ps)
           S == Seq(D)
           w == [p \in 1 .. last |-> Spelled(ps[p])]
<1>1. last \in Nat /\ DOMAIN ps = 1 .. last /\ \A p \in 1 .. last : Spelled(ps[p]) \in S
  BY DEF Legible
<1>2. w = [p \in DOMAIN ps |-> Spelled(ps[p])]
  BY <1>1
<1>3. w \in [1 .. last -> S]
  <2> HIDE DEF last, S
  <2> QED BY <1>1
<1>4. w \in Seq(S) /\ Len(w) = last
  <2> HIDE DEF w, S, last
  <2> QED BY <1>1, <1>3
<1> HIDE DEF w, last
<1>5. FlattenSeq(w) \in Seq(D)
  BY <1>4, FlattenIn DEF S
<1> QED BY <1>2, <1>4, <1>5 DEF Spelt, last

(* One more parameter is spelled before the others.                         *)
LEMMA SpeltFirst ==
  ASSUME NEW D, NEW G, NEW g, Spelled(g) \in Seq(D), NEW ps \in Seq(G), Legible(ps, D)
  PROVE  Legible(<<g>> \o ps, D) /\ Spelt(<<g>> \o ps) = Chain(Spelled(g), Spelt(ps))
<1> DEFINE last == Len(ps)
           S == Seq(D)
           one == <<g>>
           more == one \o ps
           r == [p \in DOMAIN ps |-> Spelled(ps[p])]
           w == [p \in DOMAIN more |-> Spelled(more[p])]
           a == Spelled(g)
<1>1. last \in Nat /\ \A p \in 1 .. last : Spelled(ps[p]) \in S
  BY DEF Legible
<1>2. /\ Len(more) = last + 1 /\ DOMAIN more = 1 .. last + 1 /\ more[1] = g
      /\ \A p \in 1 .. last : more[p + 1] = ps[p]
  <2> DEFINE U == G \cup {g}
  <2>1. one \in Seq(U) /\ ps \in Seq(U) /\ Len(one) = 1 /\ one[1] = g
    BY SeqOfMore
  <2> HIDE DEF one, U, last
  <2>6. /\ more \in Seq(U) /\ Len(more) = Len(one) + Len(ps)
        /\ \A i \in 1 .. Len(one) + Len(ps) : more[i] = IF i <= Len(one) THEN one[i] ELSE ps[i - Len(one)]
    BY <2>1, ConcatProperties, Zenon
  <2>2. /\ more \in Seq(U) /\ Len(more) = 1 + last
        /\ \A i \in 1 .. 1 + last : more[i] = IF i <= 1 THEN one[i] ELSE ps[i - 1]
    BY <2>1, <2>6, Zenon DEF last
  <2> HIDE DEF more
  <2>3. Len(more) = last + 1 /\ DOMAIN more = 1 .. last + 1
    <3>1. DOMAIN more = 1 .. Len(more)
      BY <2>2
    <3> QED BY <1>1, <2>2, <3>1
  <2>4. more[1] = g
    <3>1. 1 \in 1 .. 1 + last
      BY <1>1
    <3> QED BY <2>1, <2>2, <3>1
  <2>5. ASSUME NEW p \in 1 .. last PROVE more[p + 1] = ps[p]
    <3>1. p + 1 \in 1 .. 1 + last /\ ~(p + 1 <= 1) /\ (p + 1) - 1 = p
      BY <1>1
    <3> QED BY <2>2, <3>1
  <2> QED BY <2>3, <2>4, <2>5
<1> HIDE DEF more, last
<1>3. ASSUME NEW p \in 1 .. last + 1 PROVE Spelled(more[p]) \in S
  <2>1. CASE p = 1
    BY <1>2, <2>1
  <2>2. CASE p # 1
    <3>1. p - 1 \in 1 .. last /\ (p - 1) + 1 = p
      BY <1>1, <2>2
    <3>2. more[p] = ps[p - 1]
      BY <1>2, <3>1
    <3> QED BY <1>1, <3>1, <3>2
  <2> QED BY <2>1, <2>2
<1>4. Legible(more, D)
  <2>1. last + 1 \in Nat
    BY <1>1
  <2> QED BY <1>2, <1>3, <2>1 DEF Legible
<1>5. w \in Seq(S) /\ Len(w) = last + 1
  <2> HIDE DEF w
  <2> QED BY <1>2, <1>4, SpeltSeq DEF w
<1>6. r \in Seq(S) /\ Len(r) = last
  <2> HIDE DEF r
  <2> QED BY SpeltSeq DEF r, last
<1>7. w[1] = a
  BY <1>1, <1>2
<1>8. ASSUME NEW i \in 1 .. last PROVE w[i + 1] = r[i]
  <2>1. i + 1 \in DOMAIN more
    BY <1>1, <1>2
  <2>2. w[i + 1] = Spelled(more[i + 1])
    BY <2>1
  <2>3. i \in DOMAIN ps
    BY DEF Legible, last
  <2>4. r[i] = Spelled(ps[i])
    BY <2>3
  <2> HIDE DEF w, r
  <2> QED BY <1>2, <2>2, <2>4
<1> HIDE DEF w, r
<1>9. FlattenSeq(w) = Chain(a, FlattenSeq(r))
  <2>1. a \in Seq(D)
    OBVIOUS
  <2> HIDE DEF a
  <2> QED BY <1>5, <1>6, <1>7, <1>8, <2>1, FlattenFirst DEF S
<1>10. Spelt(more) = FlattenSeq(w) /\ Spelt(ps) = FlattenSeq(r)
  BY Zenon DEF Spelt, w, r
<1> QED BY <1>4, <1>9, <1>10 DEF more

(* The parameters from a token on, read whole.                             *)
ReadWhole(s, T, D, k, ps) ==
  ps.ok =>
    /\ Legible(ps.params, D) /\ ps.next \in k .. Len(T) + 1
    /\ Rest(s, T, k) = Chain(Bare(Spelt(ps.params)), Rest(s, T, ps.next))

(* A comma between two parameters is passed over.                          *)
LEMMA AfterCommaLeft ==
  ASSUME NEW s, NEW T, NEW D, Laying(s, T, D), NEW i \in 1 .. Len(T) + 1
  PROVE  /\ Rest(s, T, i) = Rest(s, T, AfterComma(T, i))
         /\ AfterComma(T, i) \in i .. Len(T) + 1
<1> DEFINE last == Len(T)
<1>1. last \in Nat
  BY LayingTexts
<1>2. AfterComma(T, i) \in i .. last + 1
  BY <1>1, AfterCommaIs
<1>3. AfterComma(T, i) = IF At(T, i) = Comma THEN i + 1 ELSE i
  BY Zenon DEF AfterComma, Comma
<1>4. CASE At(T, i) = Comma
  <2>1. "end" # Comma
    BY Zenon DEF Comma
  <2>2. i <= last /\ T[i].kind = Comma
    BY <1>4, <2>1 DEF At
  <2>3. i \in 1 .. last
    <3> HIDE DEF last
    <3> QED BY <1>1, <2>2
  <2>4. Rest(s, T, i) = Rest(s, T, i + 1)
    BY <2>2, <2>3, RestComma
  <2>5. AfterComma(T, i) = i + 1
    BY <1>3, <1>4, Zenon
  <2> QED BY <1>2, <2>4, <2>5, Zenon DEF last
<1>5. CASE At(T, i) # Comma
  <2>5. AfterComma(T, i) = i
    BY <1>3, <1>5, Zenon
  <2> QED BY <1>2, <2>5, Zenon DEF last
<1> QED BY <1>4, <1>5

(* A parameter, and those behind it.                                       *)
LEMMA FollowWhole ==
  ASSUME NEW s, NEW T, NEW D, Laying(s, T, D), NEW l, NEW k \in 1 .. Len(T) + 1, Reads1(T, k, l),
         NEW rest \in ParamsKnown(T, l), ReadWhole(s, T, D, After1(T, k, l), rest)
  PROVE  ReadWhole(s, T, D, k, Follow1(T, k, l, rest)) /\ After1(T, k, l) \in k + 1 .. Len(T) + 1
<1> DEFINE type == ParseType(T, k + 2, l)
           g == Given(T, k, l, type)
           last == Len(T)
           m == type.next
           n1 == AfterComma(T, m)
           q == Follow1(T, k, l, rest)
           R(i) == Rest(s, T, i)
<1>1. last \in Nat /\ k \in Nat \ {0} /\ Texts(T, D) /\ Joining \subseteq D
  BY LayingTexts
<1>2. type.ok /\ At(T, k) = "ident" /\ At(T, k + 1) = ":"
  BY DEF Reads1, TypeAt
<1>3. m \in k + 3 .. last + 1 /\ Spelled(g) \in Seq(D) /\ R(k) = Chain(Bare(Spelled(g)), R(m))
  BY <1>1, <1>2, GivenWhole
<1>4. m \in 1 .. last + 1
  <2> HIDE DEF m, last
  <2> QED BY <1>1, <1>3
<1>5. R(m) = R(n1) /\ n1 \in m .. last + 1
  <2> HIDE DEF m
  <2> QED BY <1>4, AfterCommaLeft
<1>6. After1(T, k, l) = n1
  BY DEF After1, TypeAt
<1>7. n1 \in k + 1 .. last + 1
  <2> HIDE DEF m, n1, last
  <2> QED BY <1>1, <1>3, <1>5
<1>8. q = FirstParam(T, k, l, type, rest)
  BY DEF Follow1, TypeAt
<1>9. CASE rest.ok
  <2>1. rest \in ParamsRead(T, l)
    <3>1. \A f \in ParamsFailed(T, l) : ~f.ok
      BY DEF ParamsFailed
    <3> QED BY <1>9, <3>1 DEF ParamsKnown
  <2> DEFINE G == GivenOf(T, l)
             ps == rest.params
             x == type.diags \o rest.diags
             y == <<g>> \o ps
  <2>2. rest \in [ok : {TRUE}, params : Seq(G), diags : Seq(DiagOf(T, l)), next : 1 .. last + 1]
    BY <2>1 DEF ParamsRead
  <2>3. ps \in Seq(G) /\ rest.ok = TRUE
    BY <2>2
  <2>4. q = [rest EXCEPT !.diags = x, !.params = y]
    <3> HIDE DEF type, g
    <3>1. q = [rest EXCEPT !.diags = type.diags \o @, !.params = <<g>> \o @]
      BY <1>2, <1>8, <2>3 DEF FirstParam, type, g
    <3> HIDE DEF q
    <3> QED BY <2>2, <3>1
  <2> HIDE DEF x, y, q, type, ps, g, m, n1, last
  <2>5. q.params = y /\ q.next = rest.next /\ q.ok = TRUE
    BY <2>2, <2>3, <2>4
  <2>6. /\ Legible(ps, D) /\ rest.next \in n1 .. last + 1
        /\ R(n1) = Chain(Bare(Spelt(ps)), R(rest.next))
    BY <1>6, <1>9 DEF ReadWhole, ps, last
  <2>7. Legible(y, D) /\ Spelt(y) = Chain(Spelled(g), Spelt(ps))
    BY <1>3, <2>3, <2>6, SpeltFirst DEF y
  <2>8. Spelt(ps) \in Seq(D)
    BY <2>6, SpeltSeq
  <2>9. Bare(Spelt(y)) = Chain(Bare(Spelled(g)), Bare(Spelt(ps)))
    BY <1>3, <2>7, <2>8, BareBoth
  <2>10. rest.next \in k .. last + 1 /\ rest.next \in 1 .. last + 1
    <3>1. \A e : e \in n1 .. last + 1 => e \in k .. last + 1 /\ e \in 1 .. last + 1
      BY <1>1, <1>7
    <3> QED BY <2>6, <3>1
  <2> DEFINE a == Bare(Spelled(g))
             b == Bare(Spelt(ps))
             c == R(rest.next)
  <2>11. a \in Seq(D) /\ b \in Seq(D) /\ c \in Seq(D)
    <3>1. a \in Seq(D) /\ b \in Seq(D)
      BY <1>3, <2>8, BareSeq
    <3>2. c \in Seq(D)
      BY <2>10, RestText DEF last
    <3> QED BY <3>1, <3>2
  <2>12. R(k) = Chain(a, Chain(b, c))
    BY <1>3, <1>5, <2>6, Zenon
  <2> HIDE DEF a, b, c, R
  <2>13. Chain(a, Chain(b, c)) = Chain(Chain(a, b), c)
    BY <2>11, ChainThree
  <2>14. R(k) = Chain(Bare(Spelt(y)), R(rest.next))
    BY <2>9, <2>12, <2>13, Zenon DEF a, b, c
  <2>15. ReadWhole(s, T, D, k, q)
    BY <2>5, <2>7, <2>10, <2>14, Zenon DEF ReadWhole, R, last
  <2> QED BY <1>6, <1>7, <2>15 DEF q, last
<1>10. CASE ~rest.ok
  <2>1. rest \in ParamsFailed(T, l)
    <3>1. \A f \in ParamsRead(T, l) : f.ok
      BY DEF ParamsRead
    <3> QED BY <1>10, <3>1 DEF ParamsKnown
  <2> DEFINE E == DiagOf(T, l)
             x == type.diags \o rest.diags
  <2>2. rest \in [ok : {FALSE}, diags : Seq(E), next : {0}]
    BY <2>1 DEF ParamsFailed
  <2>3. q = [rest EXCEPT !.diags = x]
    <3> HIDE DEF type, g, E
    <3>1. q = [rest EXCEPT !.diags = type.diags \o @]
      BY <1>2, <1>8, <1>10 DEF FirstParam, type
    <3> HIDE DEF q
    <3> QED BY <2>2, <3>1
  <2> HIDE DEF x, q, type, E
  <2>4. q.ok = FALSE
    BY <2>2, <2>3
  <2> HIDE DEF m, n1, last
  <2> QED BY <1>6, <1>7, <2>4 DEF ReadWhole, q, last
<1> QED BY <1>9, <1>10

(* The parameters of a signature are all there is up to the parenthesis.   *)
LEMMA ParamsWhole ==
  ASSUME NEW s, NEW T, NEW D, Laying(s, T, D), NEW l, NEW k \in 1 .. Len(T) + 1
  PROVE  ReadWhole(s, T, D, k, Params(T, k, l))
<1> DEFINE last == Len(T) + 1
           I == 1 .. last
           F == ParamsFrom(T, l)
           S == {i \in I : ReadWhole(s, T, D, i, F[i])}
<1>1. last \in Nat /\ Len(T) \in Nat /\ Texts(T, D) /\ Joining \subseteq D
  BY LayingTexts
<1>2. /\ \A i \in I :
           /\ F[i] \in ParamsKnown(T, l)
           /\ F[i] = IF Reads1(T, i, l) THEN Follow1(T, i, l, F[After1(T, i, l)]) ELSE Last1(T, i, l)
      /\ \A i : Params(T, i, l) = F[i]
  BY <1>1, ParamsFromIs
<1> HIDE DEF F
<1>3. ASSUME NEW i \in I, \A j \in I : j > i => j \in S PROVE i \in S
  <2>1. CASE Reads1(T, i, l)
    <3> DEFINE a == After1(T, i, l)
               f == F[a]
    <3>1. a \in i + 1 .. last
      BY <1>1, <2>1, AfterParam
    <3>2. a \in I /\ a > i
      <4> HIDE DEF a, last
      <4> QED BY <1>1, <3>1
    <3>3. ReadWhole(s, T, D, a, f) /\ f \in ParamsKnown(T, l)
      BY <1>2, <1>3, <3>2
    <3>4. F[i] = Follow1(T, i, l, f)
      BY <1>2, <2>1
    <3> HIDE DEF f
    <3>5. ReadWhole(s, T, D, i, Follow1(T, i, l, f))
      BY <2>1, <3>3, FollowWhole
    <3> QED BY <3>4, <3>5
  <2>2. CASE ~Reads1(T, i, l)
    <3> DEFINE f == Last1(T, i, l)
    <3>1. F[i] = f
      BY <1>2, <2>2
    <3>2. CASE At(T, i) \in {"end", ")"}
      <4> DEFINE ps == <<>>
      <4>1. f.ok = TRUE /\ f.params = ps /\ f.next = i
        BY <3>2 DEF Last1
      <4> HIDE DEF f
      <4>2. Legible(ps, D)
        BY DEF Legible
      <4>3. Spelt(ps) = <<>>
        <5>1. [p \in DOMAIN ps |-> Spelled(ps[p])] = <<>>
          OBVIOUS
        <5> QED BY <5>1, FlattenNone, Zenon DEF Spelt
      <4>4. Bare(Spelt(ps)) = <<>>
        BY <4>3, BareNothing
      <4> HIDE DEF ps
      <4>5. Rest(s, T, i) = Chain(<<>>, Rest(s, T, i))
        <5>1. Rest(s, T, i) \in Seq(D)
          BY RestText
        <5> QED BY <5>1, ChainNothing
      <4>6. i \in i .. Len(T) + 1
        BY <1>1
      <4>7. ReadWhole(s, T, D, i, f)
        BY <4>1, <4>2, <4>4, <4>5, <4>6, Zenon DEF ReadWhole
      <4> QED BY <3>1, <4>7
    <3>3. CASE At(T, i) \notin {"end", ")"}
      <4>1. ~f.ok
        <5>1. \A d : ~NoReading(d).ok
          BY DEF NoReading
        <5>2. CASE At(T, i) # "ident"
          <6>1. f = NoReading(Here("E0006", l, T[i]))
            BY <3>3, <5>2 DEF Last1
          <6> QED BY <5>1, <6>1
        <5>3. CASE At(T, i) = "ident" /\ At(T, i + 1) # ":"
          <6>1. f = NoReading(Here("E0007", l, T[i]))
            BY <3>3, <5>3 DEF Last1
          <6> QED BY <5>1, <6>1
        <5>4. CASE At(T, i) = "ident" /\ At(T, i + 1) = ":"
          <6>1. f = TypeAt(T, i, l)
            BY <3>3, <5>4 DEF Last1
          <6> QED BY <2>2, <3>3, <5>4, <6>1 DEF Reads1
        <5> QED BY <5>2, <5>3, <5>4
      <4> HIDE DEF f
      <4> QED BY <3>1, <4>1 DEF ReadWhole
    <3> QED BY <3>2, <3>3
  <2> QED BY <2>1, <2>2
<1> HIDE DEF S
<1>4. I \subseteq S
  <2>1. S \in SUBSET I
    BY DEF S
  <2> HIDE DEF last
  <2> QED BY <1>1, <1>3, <2>1, DownInduction
<1>5. k \in S
  BY <1>4
<1> QED BY <1>2, <1>5 DEF S

(* The beginning of a declaration: its mode, a blank, `fn`, and a blank if *)
(* there is more.                                                          *)
Heads(s, mode) ==
  /\ 3 <= Len(s) /\ s[1] = mode /\ s[2] = Blank /\ s[3] = "fn"
  /\ 4 <= Len(s) => s[4] = Blank

(* A line with a mode starts with the mode and `fn`.                        *)
LEMMA HeadTells ==
  ASSUME NEW C, NEW s \in Seq(C), NEW mode, mode \in Modes(s)
  PROVE  Heads(s, mode) /\ mode \in {"frozen", "live"}
<1> DEFINE last == Len(s)
           m == Min({4, last})
           t == SubSeq(s, 1, m)
<1>1. last \in Nat /\ m \in Nat /\ m <= 4 /\ m <= last /\ (m = 4 \/ m = last)
  BY MinTwo
<1>2. t = <<mode, Blank, "fn">> \/ t = <<mode, Blank, "fn", Blank>>
  BY Zenon DEF Modes, Take, Blank, t, m, last
<1>3. Len(t) = m /\ \A i \in 1 .. m : t[i] = s[i]
  <2> HIDE DEF m
  <2>1. 1 .. m \subseteq DOMAIN s
    BY <1>1
  <2>2. Len(t) = m
    BY <1>1
  <2> QED BY <1>1, <2>1, <2>2
<1>4. mode \in {"frozen", "live"}
  BY Zenon DEF Modes
<1>5. \/ Len(t) = 3 /\ t[1] = mode /\ t[2] = Blank /\ t[3] = "fn"
      \/ Len(t) = 4 /\ t[1] = mode /\ t[2] = Blank /\ t[3] = "fn" /\ t[4] = Blank
  <2> HIDE DEF t
  <2>1. CASE t = <<mode, Blank, "fn">>
    BY <2>1
  <2>2. CASE t = <<mode, Blank, "fn", Blank>>
    BY <2>2
  <2> QED BY <1>2, <2>1, <2>2
<1> HIDE DEF t, m
<1>6. Heads(s, mode)
  <2> HIDE DEF last
  <2>1. CASE Len(t) = 3 /\ t[1] = mode /\ t[2] = Blank /\ t[3] = "fn"
    <3>1. m = 3 /\ last = 3
      BY <1>1, <1>3, <2>1
    <3>2. s[1] = mode /\ s[2] = Blank /\ s[3] = "fn"
      BY <1>3, <2>1, <3>1
    <3> QED BY <3>1, <3>2 DEF Heads, last
  <2>2. CASE Len(t) = 4 /\ t[1] = mode /\ t[2] = Blank /\ t[3] = "fn" /\ t[4] = Blank
    <3>1. m = 4 /\ 4 <= last
      BY <1>1, <1>3, <2>2
    <3>2. s[1] = mode /\ s[2] = Blank /\ s[3] = "fn" /\ s[4] = Blank
      BY <1>3, <2>2, <3>1
    <3>3. 3 <= last
      BY <1>1, <3>1
    <3> QED BY <3>1, <3>2, <3>3 DEF Heads, last
  <2> QED BY <1>5, <2>1, <2>2
<1> QED BY <1>4, <1>6

(* A rune by itself is a token of its own.                                 *)
LEMMA AloneIs ==
  ASSUME NEW s, Len(s) \in Nat, NEW p \in 1 .. Len(s), s[p] # "-", p < Len(s) => s[p + 1] \in Blanks
  PROVE  TokenLength(s, p) = 1
<1> DEFINE last == Len(s)
           x == Min(Ends(s, p, IdentPart))
           y == Min(Ends(s, p, Figures))
<1>1. KindOf(s, p) # "->"
  BY KindTells DEF Paired
<1>2. /\ x \in p + 1 .. last + 1 /\ \A j \in p + 1 .. x - 1 : s[j] \in IdentPart
      /\ y \in p + 1 .. last + 1 /\ \A j \in p + 1 .. y - 1 : s[j] \in Figures
  BY EndIs
<1>3. last \in Nat /\ p \in 1 .. last
  OBVIOUS
<1>4. p < last => s[p + 1] \notin IdentPart /\ s[p + 1] \notin Figures
  BY BlanksApart
<1> HIDE DEF x, y, last
<1>5. x = p + 1
  <2> SUFFICES ASSUME x # p + 1 PROVE FALSE
    OBVIOUS
  <2>1. p + 1 \in p + 1 .. x - 1 /\ p < last
    BY <1>2, <1>3
  <2> QED BY <1>2, <1>4, <2>1
<1>6. y = p + 1
  <2> SUFFICES ASSUME y # p + 1 PROVE FALSE
    OBVIOUS
  <2>1. p + 1 \in p + 1 .. y - 1 /\ p < last
    BY <1>2, <1>3
  <2> QED BY <1>2, <1>4, <2>1
<1>7. x - p = 1 /\ y - p = 1
  BY <1>3, <1>5, <1>6
<1> DEFINE k == KindOf(s, p)
           xl == x - p
           yl == y - p
<1>8. TokenLength(s, p) = CASE k = "->" -> 2 [] k = "ident" -> xl [] k = "number" -> yl [] OTHER -> 1
  BY Zenon DEF TokenLength, x, y
<1> HIDE DEF k, xl, yl
<1>9. TokenLength(s, p) = 1
  BY <1>1, <1>7, <1>8 DEF k, xl, yl
<1> QED BY <1>9

(* The first two tokens of a declaration are its mode and `fn`.            *)
LEMMA HeadTokens ==
  ASSUME NEW s, NEW T, NEW D, Laying(s, T, D), 2 <= Len(T), NEW mode \in {"frozen", "live"}, Heads(s, mode)
  PROVE  T[1].text = <<mode>> /\ T[2].text = <<"fn">>
<1> DEFINE last == Len(s)
           p == Place(s, T, 1)
           q == Place(s, T, 2)
<1>1. s \in Seq(D) /\ last \in Nat /\ Len(T) \in Nat /\ Laid(s, T, 1)
  BY DEF Laying
<1>2. 3 <= last /\ s[1] = mode /\ s[2] = Blank /\ s[3] = "fn" /\ (4 <= last => s[4] = Blank)
  BY DEF Heads
<1>3. Blank \in Blanks /\ "fn" \notin Blanks /\ mode \notin Blanks /\ "fn" # "-" /\ mode # "-"
  BY Zenon DEF Blanks, Blank
<1>4. 1 \in 1 .. Len(T) /\ 2 \in 1 .. Len(T) /\ 1 + 1 = 2
  BY <1>1
<1>5. LaidAt(s, T, 1) /\ LaidAt(s, T, 2) /\ 1 <= p /\ \A j \in 1 .. p - 1 : s[j] \in Blanks
  BY <1>1, <1>4 DEF Laid
<1>6. /\ p \in 1 .. last /\ q \in 1 .. last /\ s[q] \notin Blanks
      /\ T[1] = Token(s, p) /\ T[2] = Token(s, q)
      /\ p + T[1].len <= q /\ \A j \in p + T[1].len .. q - 1 : s[j] \in Blanks
  BY <1>4, <1>5 DEF LaidAt
<1> HIDE DEF p, q, last
<1>7. p = 1
  <2> SUFFICES ASSUME p # 1 PROVE FALSE
    OBVIOUS
  <2>1. 1 \in 1 .. p - 1
    BY <1>5, <1>6
  <2>2. s[1] \in Blanks
    BY <1>5, <2>1
  <2> QED BY <1>2, <1>3, <2>2, Zenon
<1>8. TokenLength(s, 1) = 1
  <2>1. 1 \in 1 .. last /\ 1 + 1 = 2
    BY <1>1, <1>2
  <2>2. s[1 + 1] \in Blanks /\ s[1] # "-"
    BY <1>2, <1>3, <2>1, Zenon
  <2> QED BY <1>1, <2>1, <2>2, AloneIs DEF last
<1>9. T[1].len = 1 /\ T[1].text = Part(s, 1, 1 + 1 - 1)
  <2>1. T[1].len = TokenLength(s, 1) /\ T[1].text = Part(s, 1, 1 + TokenLength(s, 1) - 1)
    BY <1>6, <1>7, TokenText
  <2> QED BY <1>8, <2>1, Zenon
<1>10. q = 3
  <2>1. 1 + 1 = 2 /\ 2 <= q
    BY <1>6, <1>7, <1>9
  <2>2. q # 2
    BY <1>2, <1>3, <1>6, Zenon
  <2>3. \A j \in 2 .. q - 1 : s[j] \in Blanks
    BY <1>6, <1>7, <1>9, <2>1
  <2> SUFFICES ASSUME q # 3 PROVE FALSE
    OBVIOUS
  <2>4. 3 \in 2 .. q - 1
    BY <1>1, <1>6, <2>1, <2>2
  <2>5. s[3] \in Blanks
    BY <2>3, <2>4
  <2> QED BY <1>2, <1>3, <2>5, Zenon
<1>11. TokenLength(s, 3) = 1
  <2>1. 3 \in 1 .. last /\ 3 + 1 = 4 /\ (3 < last => 4 <= last)
    BY <1>1, <1>2
  <2>2. (3 < last => s[3 + 1] \in Blanks) /\ s[3] # "-"
    BY <1>2, <1>3, <2>1, Zenon
  <2> QED BY <1>1, <2>1, <2>2, AloneIs DEF last
<1>12. T[2].text = Part(s, 3, 3 + 1 - 1)
  <2>1. T[2].text = Part(s, 3, 3 + TokenLength(s, 3) - 1)
    BY <1>6, <1>10, TokenText
  <2> QED BY <1>11, <2>1, Zenon
<1>13. 1 + 1 - 1 = 1 /\ 3 + 1 - 1 = 3 /\ 1 \in 1 .. last /\ 3 \in 1 .. last
  BY <1>1, <1>2
<1>14. Part(s, 1, 1) = <<s[1]>> /\ Part(s, 3, 3) = <<s[3]>>
  BY <1>1, <1>13, PartOne DEF last
<1>15. T[1].text = <<s[1]>> /\ T[2].text = <<s[3]>>
  BY <1>9, <1>12, <1>13, <1>14
<1> QED BY <1>2, <1>15, Zenon

(* No token is of the kind that stands for the end.                        *)
LEMMA NotTheEnd ==
  ASSUME NEW s, NEW T, NEW D, Laying(s, T, D), NEW i \in 1 .. Len(T) + 1, At(T, i) = "end"
  PROVE  i = Len(T) + 1
<1> DEFINE p == Place(s, T, i)
           k == KindOf(s, p)
<1>1. Len(T) \in Nat
  BY LayingTexts
<1>2. k # "end"
  <2>1. KindOf(s, p) = "end" => s[p] \in {"(", ")", ":", ","} /\ s[p] = "end"
    BY Zenon DEF KindOf
  <2> QED BY <2>1, Zenon
<1>3. ASSUME i \in 1 .. Len(T) PROVE FALSE
  <2>1. LaidAt(s, T, i)
    BY <1>3 DEF Laying, Laid
  <2>2. T[i] = Token(s, p)
    BY <2>1 DEF LaidAt
  <2>3. T[i].kind = k
    BY <2>2, TokenText
  <2>4. At(T, i) = T[i].kind
    BY <1>3 DEF At
  <2> HIDE DEF k
  <2> QED BY <1>2, <2>3, <2>4
<1> QED BY <1>1, <1>3

(* Where nothing is left of two sequences, nothing is of either.           *)
LEMMA NothingBoth ==
  ASSUME NEW S, NEW a \in Seq(S), NEW b \in Seq(S), a \o b = <<>>
  PROVE  a = <<>> /\ b = <<>>
<1>1. Len(a) + Len(b) = Len(a \o b) /\ Len(<<>>) = 0
  BY ConcatProperties
<1>2. Len(a) = 0 /\ Len(b) = 0
  BY <1>1
<1> QED BY <1>2, EmptySeq

(* The end of a signature: its result, and nothing behind it.              *)
Concludes(s, T, D, i, fn) ==
  /\ Spelled(fn.result) \in Seq(D) /\ <<")", "-", ">">> \in Seq(D)
  /\ Rest(s, T, i) = Chain(Bare(<<")", "-", ">">>), Bare(Spelled(fn.result)))

(* A signature that is accepted behind its parameters is spelled by its result. *)
LEMMA ResultWhole ==
  ASSUME NEW s, NEW T, NEW D, Laying(s, T, D), NEW i \in Nat \ {0}, NEW l, NEW fn,
         fn = [mode |-> fn.mode, name |-> fn.name, span |-> fn.span, params |-> fn.params, result |-> fn.result],
         NEW S, NEW diags \in Seq(S),
         ParseResult(T, i, l, fn, diags).fn # NoFn, ParseResult(T, i, l, fn, diags).diags = <<>>
  PROVE  LET r == ParseResult(T, i, l, fn, diags)
         IN /\ Concludes(s, T, D, i, r.fn)
            /\ r.fn.mode = fn.mode /\ r.fn.name = fn.name /\ r.fn.params = fn.params
<1> DEFINE r == ParseResult(T, i, l, fn, diags)
           k == i + 2
           type == ParseType(T, k + 2, l)
           last == Len(T)
           R(m) == Rest(s, T, m)
           g == Given(T, k, l, type)
           tail == Trailing(T, type.next, l)
<1>1. last \in Nat /\ k \in Nat \ {0} /\ i + 4 = k + 2 /\ i + 3 = k + 1 /\ (i + 1) + 1 = k
  BY LayingTexts
<1>2. \A d : Failed(d).fn = NoFn
  BY DEF Failed
<1>3. /\ At(T, i) = ")" /\ At(T, i + 1) = "->" /\ At(T, k) = "ident" /\ At(T, k + 1) = ":"
      /\ r = Complete(T, k, l, fn, diags, type)
  <2>1. r = IF At(T, i) # ")" THEN Failed(Append(diags, Whole("E0008", l)))
            ELSE IF At(T, i + 1) # "->" THEN Failed(Append(diags, Whole("E0009", l)))
            ELSE IF At(T, k) # "ident" THEN Failed(Append(diags, Whole("E0010", l)))
            ELSE IF At(T, k + 1) # ":" THEN Failed(Append(diags, Here("E0011", l, T[k])))
            ELSE Complete(T, k, l, fn, diags, type)
    BY <1>1, Zenon DEF ParseResult
  <2> HIDE DEF r, k, type
  <2>2. r.fn # NoFn
    BY DEF r
  <2> QED BY <1>2, <2>1, <2>2
<1>4. type.ok /\ r.fn = [fn EXCEPT !.result = g] /\ r.diags = diags \o type.diags \o tail
  <2>1. r = IF ~type.ok THEN Failed(diags \o type.diags)
            ELSE [fn |-> [fn EXCEPT !.result = g], diags |-> diags \o type.diags \o tail, cells |-> <<>>]
    BY <1>3, Zenon DEF Complete
  <2>2. r.fn # NoFn
    OBVIOUS
  <2> HIDE DEF r, type, g, tail
  <2>3. type.ok
    BY <1>2, <2>1, <2>2
  <2> QED BY <2>1, <2>3
<1>5. TypeRead(type, k + 2, last)
  <2>1. k + 2 \in Nat \ {0}
    BY <1>1
  <2> QED BY <2>1, LayingTexts, ParseTypeIs
<1>6. tail = <<>>
  <2> DEFINE U == S \cup {type.diags[1]} \cup {tail[1]}
             ds == type.diags
  <2>1. diags \in Seq(U)
    <3> HIDE DEF type, tail
    <3>1. S \subseteq U
      OBVIOUS
    <3> HIDE DEF U
    <3> QED BY <3>1, SeqOfMore
  <2>2. ds \in Seq(U)
    <3>1. ds = <<>> \/ \E d : ds = <<d>>
      BY <1>5 DEF TypeRead
    <3>2. ds[1] \in U
      OBVIOUS
    <3> HIDE DEF ds, U
    <3>3. CASE ds = <<>>
      BY <3>3
    <3>4. CASE \E d : ds = <<d>>
      <4>1. PICK d : ds = <<d>>
        BY <3>4
      <4>2. d \in U
        BY <3>2, <4>1
      <4>3. <<d>> \in Seq(U)
        BY <4>2
      <4> QED BY <4>1, <4>3
    <3> QED BY <3>1, <3>3, <3>4
  <2>3. tail \in Seq(U)
    <3>1. tail = <<>> \/ \E d : tail = <<d>>
      BY DEF Trailing
    <3>2. tail[1] \in U
      OBVIOUS
    <3> HIDE DEF tail, U
    <3>3. CASE tail = <<>>
      BY <3>3
    <3>4. CASE \E d : tail = <<d>>
      <4>1. PICK d : tail = <<d>>
        BY <3>4
      <4>2. d \in U
        BY <3>2, <4>1
      <4>3. <<d>> \in Seq(U)
        BY <4>2
      <4> QED BY <4>1, <4>3
    <3> QED BY <3>1, <3>3, <3>4
  <2>4. r.diags = <<>>
    OBVIOUS
  <2>5. (diags \o ds) \o tail = <<>>
    <3> HIDE DEF r, type, tail
    <3> QED BY <1>4, <2>4
  <2> HIDE DEF U, ds, tail
  <2>6. diags \o ds \in Seq(U)
    BY <2>1, <2>2, ConcatProperties
  <2> QED BY <2>3, <2>5, <2>6, NothingBoth
<1>7. At(T, type.next) = "end"
  <2> DEFINE d == Here("E0012", l, T[type.next])
  <2>1. tail = IF At(T, type.next) = "end" THEN <<>> ELSE <<d>>
    BY Zenon DEF Trailing
  <2>2. <<d>> # <<>>
    OBVIOUS
  <2> HIDE DEF tail, d, type
  <2> QED BY <1>6, <2>1, <2>2
<1>8. /\ type.next \in k + 3 .. last + 1 /\ Spelled(g) \in Seq(D)
      /\ R(k) = Chain(Bare(Spelled(g)), R(type.next))
  BY <1>1, <1>3, <1>4, GivenWhole
<1>9. type.next = last + 1
  <2>1. type.next \in 1 .. last + 1
    <3> HIDE DEF type, last
    <3> QED BY <1>1, <1>8
  <2> HIDE DEF type
  <2> QED BY <1>7, <2>1, NotTheEnd
<1>10. R(type.next) = <<>>
  <2>1. R(last + 1) = <<>>
    BY RestEnd DEF Laying
  <2> HIDE DEF type, R, last
  <2> QED BY <1>9, <2>1
<1>11. R(k) = Bare(Spelled(g))
  <2> DEFINE x == Spelled(g)
  <2>1. Bare(x) \in Seq(D)
    <3> HIDE DEF x
    <3> QED BY <1>8, BareSeq DEF x
  <2>2. R(k) = Chain(Bare(x), <<>>)
    BY <1>8, <1>10, Zenon
  <2> HIDE DEF x, R
  <2>3. Chain(Bare(x), <<>>) = Bare(x)
    BY <2>1, ChainNothing
  <2> QED BY <2>2, <2>3 DEF x
<1>12. /\ i \in 1 .. last /\ i + 1 \in 1 .. last /\ T[i].kind = ")" /\ T[i + 1].kind = "->"
  <2>1. i <= last /\ i + 1 <= last /\ T[i].kind = ")" /\ T[i + 1].kind = "->"
    BY <1>3 DEF At
  <2> HIDE DEF last
  <2> QED BY <1>1, <2>1
<1> DEFINE shut == <<")">>
           arrow == <<"-", ">">>
           both == <<")", "-", ">">>
           x == Bare(shut)
           y == Bare(arrow)
           z == Bare(Spelled(g))
<1>13. T[i].text = shut /\ T[i + 1].text = arrow
  <2>1. T[i].text = shut
    BY <1>12, TextTells
  <2>2. T[i + 1].text = arrow
    BY <1>12, TextTells
  <2> QED BY <2>1, <2>2
<1>14. shut \in Seq(D) /\ arrow \in Seq(D)
  <2>1. T[i].text \in Seq(D) /\ T[i + 1].text \in Seq(D)
    BY <1>12, LayingTexts
  <2> HIDE DEF shut, arrow
  <2> QED BY <1>13, <2>1
<1>15. both = Chain(shut, arrow)
  <2>1. <<")", "-", ">">> = <<")">> \o <<"-", ">">>
    OBVIOUS
  <2> QED BY <2>1, Zenon DEF Chain
<1>16. R(i) = Chain(x, Chain(y, R(k)))
  <2>1. R(i) = Chain(Bare(T[i].text), R(i + 1)) /\ R(i + 1) = Chain(Bare(T[i + 1].text), R((i + 1) + 1))
    BY <1>12, RestToken
  <2> QED BY <1>1, <1>13, <2>1, Zenon
<1> HIDE DEF shut, arrow, both
<1>17. x \in Seq(D) /\ y \in Seq(D) /\ z \in Seq(D)
  <2>1. z \in Seq(D)
    <3> DEFINE e == Spelled(g)
    <3>1. e \in Seq(D)
      BY <1>8
    <3> HIDE DEF e
    <3>2. Bare(e) \in Seq(D)
      BY <3>1, BareSeq
    <3> QED BY <3>2 DEF e
  <2> QED BY <1>14, <2>1, BareSeq
<1>18. Bare(both) = Chain(x, y) /\ both \in Seq(D)
  <2>1. Bare(Chain(shut, arrow)) = Chain(Bare(shut), Bare(arrow))
    BY <1>14, BareBoth
  <2>2. Chain(shut, arrow) \in Seq(D)
    BY <1>14, ChainIs
  <2> QED BY <1>15, <2>1, <2>2, Zenon
<1>19. R(i) = Chain(Bare(both), z)
  <2>1. R(i) = Chain(x, Chain(y, z))
    BY <1>11, <1>16, Zenon
  <2> HIDE DEF x, y, z, R
  <2>2. Chain(x, Chain(y, z)) = Chain(Chain(x, y), z)
    BY <1>17, ChainThree
  <2> QED BY <1>18, <2>1, <2>2, Zenon
<1>20. r.fn.result = g /\ r.fn.mode = fn.mode /\ r.fn.name = fn.name /\ r.fn.params = fn.params
  <2> HIDE DEF r, g
  <2> QED BY <1>4
<1>21. Concludes(s, T, D, i, r.fn)
  <2>1. Spelled(r.fn.result) \in Seq(D)
    <3> HIDE DEF r, g
    <3> QED BY <1>8, <1>20
  <2>2. R(i) = Chain(Bare(both), Bare(Spelled(r.fn.result)))
    <3> HIDE DEF r, g
    <3> QED BY <1>19, <1>20, Zenon
  <2> QED BY <1>18, <2>1, <2>2, Zenon DEF Concludes, R, both
<1> QED BY <1>20, <1>21, Zenon

(* A text and its tokens.                                                  *)
LEMMA LayingIs ==
  ASSUME NEW C, NEW s \in Seq(C)
  PROVE  Laying(s, Tokens(s), C \cup Joining)
<1> DEFINE D == C \cup Joining
           T == Tokens(s)
<1>1. Joining \subseteq D /\ C \subseteq D
  OBVIOUS
<1> HIDE DEF D
<1>2. s \in Seq(D)
  BY <1>1, SeqOfMore
<1>3. Laid(s, T, 1) /\ Len(T) \in Nat
  <2>1. Laid(s, T, 1) /\ T \in Seq(TokenOf(s))
    BY <1>2, TokensLaid
  <2> HIDE DEF T
  <2> QED BY <2>1
<1> HIDE DEF T
<1>4. \A k \in 1 .. Len(T) : T[k].text \in Seq(D)
  BY <1>2, <1>3, RestFrom
<1>5. Laying(s, T, D)
  BY <1>1, <1>2, <1>3, <1>4 DEF Laying
<1> QED BY <1>5 DEF D, T

(* Seven texts, one behind the other.                                      *)
LEMMA ChainSeven ==
  ASSUME NEW D, NEW x, \A i \in 1 .. 7 : x[i] \in Seq(D)
  PROVE  Chain(x[1], Chain(x[2], Chain(x[3], Chain(x[4], Chain(x[5], Chain(x[6], x[7])))))) =
         Chain(Chain(Chain(Chain(Chain(Chain(x[1], x[2]), x[3]), x[4]), x[5]), x[6]), x[7])
<1> DEFINE a == x[1]
           b == x[2]
           c == x[3]
           d == x[4]
           e == x[5]
           f == x[6]
           g == x[7]
<1>0. /\ a \in Seq(D) /\ b \in Seq(D) /\ c \in Seq(D) /\ d \in Seq(D) /\ e \in Seq(D)
      /\ f \in Seq(D) /\ g \in Seq(D)
  OBVIOUS
<1> HIDE DEF a, b, c, d, e, f, g
<1> DEFINE ab == Chain(a, b)
           abc == Chain(ab, c)
           abcd == Chain(abc, d)
           abcde == Chain(abcd, e)
           fg == Chain(f, g)
           efg == Chain(e, fg)
           defg == Chain(d, efg)
           cdefg == Chain(c, defg)
<1>1. ab \in Seq(D) /\ fg \in Seq(D)
  BY <1>0, ChainIs
<1>2. abc \in Seq(D) /\ efg \in Seq(D)
  <2> HIDE DEF ab, fg
  <2> QED BY <1>0, <1>1, ChainIs
<1>3. abcd \in Seq(D) /\ defg \in Seq(D)
  <2> HIDE DEF abc, efg
  <2> QED BY <1>0, <1>2, ChainIs
<1>4. abcde \in Seq(D) /\ cdefg \in Seq(D)
  <2> HIDE DEF abcd, defg
  <2> QED BY <1>0, <1>3, ChainIs
<1>5. Chain(a, Chain(b, cdefg)) = Chain(ab, cdefg)
  <2> HIDE DEF cdefg
  <2> QED BY <1>4, <1>0, ChainThree
<1>6. Chain(ab, Chain(c, defg)) = Chain(abc, defg)
  <2> HIDE DEF defg, ab
  <2> QED BY <1>1, <1>3, <1>0, ChainThree
<1>7. Chain(abc, Chain(d, efg)) = Chain(abcd, efg)
  <2> HIDE DEF efg, abc
  <2> QED BY <1>2, <1>0, ChainThree
<1>8. Chain(abcd, Chain(e, fg)) = Chain(abcde, fg)
  <2> HIDE DEF fg, abcd
  <2> QED BY <1>1, <1>3, <1>0, ChainThree
<1>9. Chain(abcde, Chain(f, g)) = Chain(Chain(abcde, f), g)
  <2> HIDE DEF abcde
  <2> QED BY <1>4, <1>0, ChainThree
<1>10. Chain(a, Chain(b, cdefg)) = Chain(Chain(abcde, f), g)
  BY <1>5, <1>6, <1>7, <1>8, <1>9, Zenon
<1> QED BY <1>10, Zenon DEF a, b, c, d, e, f, g

(* One text behind another, of which it is known what is left.             *)
LEMMA BareMore ==
  ASSUME NEW D, NEW a \in Seq(D), NEW x, Bare(a) = x, NEW b \in Seq(D)
  PROVE  Chain(a, b) \in Seq(D) /\ Bare(Chain(a, b)) = Chain(x, Bare(b))
BY BareBoth, ChainIs, Zenon

(* A declaration that is accepted is all of its signature.                 *)
LEMMA SignatureWhole ==
  ASSUME NEW C, NEW l, Text(l) \in Seq(C), NEW mode, mode \in Modes(Text(l)),
         ParseSignature(l, mode).fn # NoFn, ParseSignature(l, mode).diags = <<>>
  PROVE  Bare(SpellingOf(ParseSignature(l, mode).fn)) = Bare(Text(l))
<1> DEFINE s == Text(l)
           T == Tokens(s)
           D == C \cup Joining
           ps == Params(T, 5, l)
           r == ParseSignature(l, mode)
           last == Len(T)
           fn0 == [mode |-> mode, name |-> T[3].text, span |-> TokenSpan(l, T[3]), params |-> ps.params,
                   result |-> <<>>]
           R(m) == Rest(s, T, m)
           B(m) == Bare(T[m].text)
<1>1. Laying(s, T, D) /\ Heads(s, mode) /\ mode \in {"frozen", "live"}
  <2> HIDE DEF s
  <2>1. s \in Seq(C) /\ mode \in Modes(s)
    BY DEF s
  <2> QED BY <2>1, LayingIs, HeadTells
<1>2. r = ParseTokens(T, l, mode)
  BY Zenon DEF ParseSignature
<1>3. \A d : Failed(d).fn = NoFn
  BY DEF Failed
<1>4. r.fn # NoFn /\ r.diags = <<>>
  OBVIOUS
<1> HIDE DEF s, T, D, r
<1>5. last \in Nat /\ Texts(T, D) /\ Joining \subseteq D
  BY <1>1, LayingTexts
<1>6. 3 <= last /\ At(T, 3) = "ident" /\ At(T, 4) = "(" /\ r = Accepted(T, l, mode, ps)
  <2>1. r = IF last < 3 THEN Failed(<<Whole("E0003", l)>>)
            ELSE IF At(T, 3) # "ident" THEN Failed(<<Here("E0004", l, T[3])>>)
            ELSE IF At(T, 4) # "(" THEN Failed(<<Here("E0005", l, T[3])>>)
            ELSE Accepted(T, l, mode, ps)
    BY <1>2, Zenon DEF ParseTokens
  <2> HIDE DEF last, ps
  <2>2. ~(last < 3) /\ At(T, 3) = "ident" /\ At(T, 4) = "(" /\ r = Accepted(T, l, mode, ps)
    BY <1>3, <1>4, <2>1
  <2> QED BY <1>5, <2>2
<1>7. 4 <= last /\ T[4].kind = "("
  BY <1>6 DEF At
<1>8. 1 \in 1 .. last /\ 2 \in 1 .. last /\ 3 \in 1 .. last /\ 4 \in 1 .. last /\ 5 \in 1 .. last + 1
  <2> HIDE DEF last
  <2> QED BY <1>5, <1>7
<1>9. ps.ok /\ r = ParseResult(T, ps.next, l, fn0, ps.diags)
  <2>1. r = IF ~ps.ok THEN Failed(ps.diags) ELSE ParseResult(T, ps.next, l, fn0, ps.diags)
    BY <1>6, Zenon DEF Accepted
  <2> HIDE DEF ps, fn0
  <2> QED BY <1>3, <1>4, <2>1
<1>10. /\ Legible(ps.params, D) /\ ps.next \in 5 .. last + 1
       /\ R(5) = Chain(Bare(Spelt(ps.params)), R(ps.next))
  <2>1. ReadWhole(s, T, D, 5, ps)
    BY <1>1, <1>8, ParamsWhole
  <2> QED BY <1>9, <2>1 DEF ReadWhole
<1>11. \E S : ps.diags \in Seq(S)
  <2>1. ps \in ParamsKnown(T, l)
    <3>1. LET F == ParamsFrom(T, l)
          IN /\ \A k \in 1 .. Len(T) + 1 : F[k] \in ParamsKnown(T, l)
             /\ \A i : Params(T, i, l) = F[i]
      BY <1>5, ParamsFromIs
    <3> QED BY <1>8, <3>1
  <2> HIDE DEF ps
  <2> QED BY <2>1 DEF ParamsKnown, ParamsRead, ParamsFailed
<1>12. PICK S : ps.diags \in Seq(S)
  BY <1>11
<1>13. /\ Concludes(s, T, D, ps.next, r.fn)
       /\ r.fn.mode = mode /\ r.fn.name = T[3].text /\ r.fn.params = ps.params
  <2> DEFINE i == ps.next
             ds == ps.diags
  <2>1. i \in Nat \ {0}
    <3> HIDE DEF i, last
    <3>1. i \in 5 .. last + 1
      BY <1>10 DEF i
    <3> QED BY <1>5, <3>1
  <2>2. /\ fn0 = [mode |-> fn0.mode, name |-> fn0.name, span |-> fn0.span, params |-> fn0.params,
                  result |-> fn0.result]
        /\ fn0.mode = mode /\ fn0.name = T[3].text /\ fn0.params = ps.params
    <3> DEFINE span == TokenSpan(l, T[3])
               prms == ps.params
    <3> HIDE DEF span, prms
    <3>1. fn0 = [mode |-> mode, name |-> T[3].text, span |-> span, params |-> prms, result |-> <<>>]
      BY Zenon DEF span, prms
    <3> HIDE DEF fn0
    <3>2. /\ fn0 = [mode |-> fn0.mode, name |-> fn0.name, span |-> fn0.span, params |-> fn0.params,
                  result |-> fn0.result]
          /\ fn0.mode = mode /\ fn0.name = T[3].text /\ fn0.params = prms
      BY <3>1
    <3> QED BY <3>2, Zenon DEF prms
  <2> HIDE DEF i, ds, fn0
  <2>3. ds \in Seq(S)
    BY <1>12 DEF ds
  <2>4. r = ParseResult(T, i, l, fn0, ds)
    BY <1>9 DEF i, ds
  <2>5. ParseResult(T, i, l, fn0, ds).fn # NoFn /\ ParseResult(T, i, l, fn0, ds).diags = <<>>
    BY <1>4, <2>4
  <2>6. /\ Concludes(s, T, D, i, ParseResult(T, i, l, fn0, ds).fn)
        /\ ParseResult(T, i, l, fn0, ds).fn.mode = fn0.mode /\ ParseResult(T, i, l, fn0, ds).fn.name = fn0.name
        /\ ParseResult(T, i, l, fn0, ds).fn.params = fn0.params
    BY <1>1, <2>1, <2>2, <2>3, <2>5, ResultWhole
  <2> QED BY <2>2, <2>4, <2>6, Zenon DEF i
<1>14. T[1].text = <<mode>> /\ T[2].text = <<"fn">> /\ T[4].text = <<"(">>
  <2>1. 2 <= last
    <3> HIDE DEF last
    <3> QED BY <1>5, <1>7
  <2>2. T[1].text = <<mode>> /\ T[2].text = <<"fn">>
    BY <1>1, <2>1, HeadTokens
  <2>3. T[4].text = <<"(">>
    BY <1>1, <1>7, <1>8, TextTells
  <2> QED BY <2>2, <2>3
<1> DEFINE fn == r.fn
           t1 == <<mode>>
           t2 == <<"fn">>
           t3 == fn.name
           t4 == <<"(">>
           t5 == Spelt(fn.params)
           t6 == <<")", "-", ">">>
           t7 == Spelled(fn.result)
           t12 == <<fn.mode, "fn">>
<1>15. /\ t1 \in Seq(D) /\ t2 \in Seq(D) /\ t3 \in Seq(D) /\ t4 \in Seq(D) /\ t5 \in Seq(D)
       /\ t6 \in Seq(D) /\ t7 \in Seq(D)
  <2>1. \A k \in 1 .. last : T[k].text \in Seq(D)
    BY <1>1, LayingTexts
  <2>2. t1 \in Seq(D) /\ t2 \in Seq(D) /\ t3 \in Seq(D) /\ t4 \in Seq(D)
    <3> HIDE DEF t1, t2, t4, fn, last
    <3>1. T[1].text \in Seq(D) /\ T[2].text \in Seq(D) /\ T[3].text \in Seq(D) /\ T[4].text \in Seq(D)
      BY <1>8, <2>1
    <3>2. t1 = T[1].text /\ t2 = T[2].text /\ t3 = T[3].text /\ t4 = T[4].text
      BY <1>13, <1>14, Zenon DEF t1, t2, t3, t4, fn
    <3> QED BY <3>1, <3>2
  <2>3. t5 \in Seq(D)
    <3> HIDE DEF ps
    <3>1. fn.params = ps.params
      BY <1>13
    <3> HIDE DEF fn
    <3> QED BY <1>10, <3>1, SpeltSeq
  <2>4. t6 \in Seq(D) /\ t7 \in Seq(D)
    BY <1>13, Zenon DEF Concludes, t6, t7, fn
  <2> HIDE DEF t1, t2, t3, t4, t5, t6, t7
  <2> QED BY <2>2, <2>3, <2>4
<1>16. Bare(s) = Chain(Bare(t1), Chain(Bare(t2), Chain(Bare(t3), Chain(Bare(t4), Chain(Bare(t5), Chain(Bare(t6), Bare(t7)))))))
  <2>1. Bare(s) = R(1)
    BY <1>1, RestStart DEF Laying
  <2>2. ASSUME NEW k \in 1 .. last PROVE R(k) = Chain(B(k), R(k + 1))
    BY <1>1, RestToken
  <2>3. R(1) = Chain(B(1), R(2)) /\ R(2) = Chain(B(2), R(3)) /\ R(3) = Chain(B(3), R(4)) /\ R(4) = Chain(B(4), R(5))
    <3>1. 1 + 1 = 2 /\ 2 + 1 = 3 /\ 3 + 1 = 4 /\ 4 + 1 = 5
      OBVIOUS
    <3> HIDE DEF R, B, last
    <3> QED BY <1>8, <2>2, <3>1
  <2>4. R(5) = Chain(Bare(t5), R(ps.next))
    <3> HIDE DEF R, ps
    <3> QED BY <1>10, <1>13, Zenon DEF t5, fn
  <2>5. R(ps.next) = Chain(Bare(t6), Bare(t7))
    <3> HIDE DEF ps
    <3> QED BY <1>13, Zenon DEF Concludes, R, t6, t7, fn
  <2>6. B(1) = Bare(t1) /\ B(2) = Bare(t2) /\ B(3) = Bare(t3) /\ B(4) = Bare(t4)
    BY <1>13, <1>14, Zenon DEF B, t1, t2, t3, t4, fn
  <2> HIDE DEF R, B, t1, t2, t3, t4, t5, t6, t7, ps, s
  <2> QED BY <2>1, <2>3, <2>4, <2>5, <2>6, Zenon
<1>17. SpellingOf(fn) = Chain(Chain(Chain(Chain(Chain(t12, t3), t4), t5), t6), t7)
  BY Zenon DEF SpellingOf, Spelt, Chain, t12, t3, t4, t5, t6, t7
<1>18. t12 = Chain(t1, t2)
  <2>1. fn.mode = mode
    BY <1>13
  <2> HIDE DEF fn
  <2>2. <<mode, "fn">> = <<mode>> \o <<"fn">>
    OBVIOUS
  <2> QED BY <2>1, <2>2, Zenon DEF Chain, t12, t1, t2
<1> HIDE DEF t1, t2, t3, t4, t5, t6, t7, t12, fn
<1> DEFINE x1 == Bare(t1)
           x2 == Bare(t2)
           x3 == Bare(t3)
           x4 == Bare(t4)
           x5 == Bare(t5)
           x6 == Bare(t6)
           x7 == Bare(t7)
           c2 == Chain(t1, t2)
           c3 == Chain(c2, t3)
           c4 == Chain(c3, t4)
           c5 == Chain(c4, t5)
           c6 == Chain(c5, t6)
           c7 == Chain(c6, t7)
           y2 == Chain(x1, x2)
           y3 == Chain(y2, x3)
           y4 == Chain(y3, x4)
           y5 == Chain(y4, x5)
           y6 == Chain(y5, x6)
           y7 == Chain(y6, x7)
<1>19. c2 \in Seq(D) /\ Bare(c2) = y2
  BY <1>15, BareMore
<1> HIDE DEF c2, y2
<1>20. c3 \in Seq(D) /\ Bare(c3) = y3
  BY <1>15, <1>19, BareMore
<1> HIDE DEF c3, y3
<1>21. c4 \in Seq(D) /\ Bare(c4) = y4
  BY <1>15, <1>20, BareMore
<1> HIDE DEF c4, y4
<1>22. c5 \in Seq(D) /\ Bare(c5) = y5
  BY <1>15, <1>21, BareMore
<1> HIDE DEF c5, y5
<1>23. c6 \in Seq(D) /\ Bare(c6) = y6
  BY <1>15, <1>22, BareMore
<1> HIDE DEF c6, y6
<1>24. Bare(c7) = y7
  BY <1>15, <1>23, BareMore
<1>25. /\ x1 \in Seq(D) /\ x2 \in Seq(D) /\ x3 \in Seq(D) /\ x4 \in Seq(D) /\ x5 \in Seq(D)
       /\ x6 \in Seq(D) /\ x7 \in Seq(D)
  BY <1>15, BareSeq
<1> HIDE DEF x1, x2, x3, x4, x5, x6, x7
<1> HIDE DEF y7
<1>30. y7 = Chain(Chain(Chain(Chain(Chain(Chain(x1, x2), x3), x4), x5), x6), x7)
  BY DEF y2, y3, y4, y5, y6, y7
<1>26. Chain(x1, Chain(x2, Chain(x3, Chain(x4, Chain(x5, Chain(x6, x7)))))) = y7
  <2> DEFINE u == Chain(x1, Chain(x2, Chain(x3, Chain(x4, Chain(x5, Chain(x6, x7))))))
             v == Chain(Chain(Chain(Chain(Chain(Chain(x1, x2), x3), x4), x5), x6), x7)
  <2> DEFINE xs == <<x1, x2, x3, x4, x5, x6, x7>>
  <2>4. xs[1] = x1 /\ xs[2] = x2 /\ xs[3] = x3 /\ xs[4] = x4 /\ xs[5] = x5 /\ xs[6] = x6 /\ xs[7] = x7
    OBVIOUS
  <2> HIDE DEF xs
  <2>5. \A i \in 1 .. 7 : xs[i] \in Seq(D)
    <3>1. \A i \in 1 .. 7 : i = 1 \/ i = 2 \/ i = 3 \/ i = 4 \/ i = 5 \/ i = 6 \/ i = 7
      OBVIOUS
    <3> QED BY <1>25, <2>4, <3>1
  <2>6. Chain(xs[1], Chain(xs[2], Chain(xs[3], Chain(xs[4], Chain(xs[5], Chain(xs[6], xs[7])))))) =
        Chain(Chain(Chain(Chain(Chain(Chain(xs[1], xs[2]), xs[3]), xs[4]), xs[5]), xs[6]), xs[7])
    BY <2>5, ChainSeven
  <2>1. u = v
    BY <2>4, <2>6
  <2> HIDE DEF u, v
  <2>2. y7 = v
    BY <1>30, Zenon DEF v
  <2>3. u = y7
    BY <2>1, <2>2
  <2> QED BY <2>3 DEF u
<1>27. SpellingOf(fn) = c7
  BY <1>17, <1>18, Zenon DEF c2, c3, c4, c5, c6, c7
<1>28. Bare(s) = y7
  BY <1>16, <1>26, Zenon DEF x1, x2, x3, x4, x5, x6, x7
<1>29. Bare(SpellingOf(fn)) = Bare(s)
  BY <1>24, <1>27, <1>28, Zenon
<1> QED BY <1>29, Zenon DEF fn, r, s

(* All of a text is it.                                                    *)
LEMMA PartWhole ==
  ASSUME NEW C, NEW s \in Seq(C)
  PROVE  Part(s, 1, Len(s)) = s
<1> DEFINE h == Len(s)
           t == SubSeq(s, 1, h)
<1>1. h \in 0 .. Len(s)
  OBVIOUS
<1>2. t \in Seq(C) /\ Len(t) = h /\ \A i \in 1 .. h : t[i] = s[i]
  BY <1>1, StartsWith
<1> HIDE DEF t
<1>3. t = s
  BY <1>2, SeqEqual
<1> QED BY <1>3 DEF Part, t

(* Two texts lose their blanks one behind the other.                        *)
LEMMA SolidBoth ==
  ASSUME NEW C, NEW s \in Seq(C), NEW t \in Seq(C)
  PROVE  Solidly(Chain(s, t)) = Chain(Solidly(s), Solidly(t)) /\ Solidly(s) \in Seq(C)
BY SiftedBoth DEF Solidly

(* Blanks at the end or at the beginning do not count.                     *)
LEMMA SolidTrim ==
  ASSUME NEW C, NEW s \in Seq(C)
  PROVE  TrimRight(s) \in Seq(C) /\ Solidly(TrimRight(s)) = Solidly(s)
<1> DEFINE last == Len(s)
<1>1. PICK m \in 0 .. last : TrimRight(s) = SubSeq(s, 1, m) /\ \A i \in m + 1 .. last : s[i] \in Blanks
  BY TrimRightIs
<1> DEFINE x == Part(s, 1, m)
           y == Part(s, m + 1, last)
           t == TrimRight(s)
<1>2. t = x
  BY <1>1, Zenon DEF Part
<1>3. last \in Nat /\ m \in Nat /\ m + 1 \in Nat /\ (m + 1) - 1 = m /\ 1 <= m + 1 /\ m + 1 <= last + 1 /\ 1 <= 1 /\ last <= last
  BY <1>1
<1>4. s = Part(s, 1, last)
  BY PartWhole
<1>5. Part(s, 1, last) = Chain(Part(s, 1, (m + 1) - 1), y) /\ Part(s, 1, (m + 1) - 1) \in Seq(C) /\ y \in Seq(C)
  <2>1. PartsAt(C, s, 1, m + 1, last)
    BY <1>3, PartsApart
  <2> QED BY <2>1, Zenon DEF PartsAt
<1>6. s = Chain(x, y) /\ x \in Seq(C) /\ y \in Seq(C)
  BY <1>3, <1>4, <1>5
<1>7. Solidly(y) = <<>>
  <2> DEFINE k == IF m + 1 <= last THEN last - (m + 1) + 1 ELSE 0
  <2>1. Len(y) = k /\ \A i \in 1 .. k : y[i] = s[(m + 1) + i - 1]
    BY <1>3, PartOf DEF Part
  <2> HIDE DEF y, last
  <2>2. \A i \in 1 .. k : (m + 1) + i - 1 \in m + 1 .. last
    BY <1>3
  <2>3. \A i \in 1 .. Len(y) : y[i] \in Blanks
    <3> HIDE DEF k
    <3> QED BY <1>1, <2>1, <2>2
  <2> QED BY <1>6, <2>3, SiftedNone DEF Solidly
<1> HIDE DEF x, y, t
<1>8. Solidly(Chain(x, y)) = Chain(Solidly(x), Solidly(y)) /\ Solidly(x) \in Seq(C)
  BY <1>6, SolidBoth
<1>9. Chain(Solidly(x), <<>>) = Solidly(x)
  <2> DEFINE u == Solidly(x)
  <2>1. u \in Seq(C)
    BY <1>8
  <2> HIDE DEF u
  <2>2. Chain(u, <<>>) = u
    BY <2>1, ChainNothing
  <2> QED BY <2>2 DEF u
<1>10. Solidly(s) = Solidly(x)
  BY <1>6, <1>7, <1>8, <1>9, Zenon
<1> QED BY <1>2, <1>6, <1>10 DEF t

(* Blanks at the beginning do not count.                                    *)
LEMMA SolidBehind ==
  ASSUME NEW C, NEW s \in Seq(C), NEW h \in 0 .. Len(s), \A i \in 1 .. h : s[i] \in Blanks
  PROVE  Part(s, h + 1, Len(s)) \in Seq(C) /\ Solidly(Part(s, h + 1, Len(s))) = Solidly(s)
<1> DEFINE last == Len(s)
           x == Part(s, 1, h)
           y == Part(s, h + 1, last)
<1>3. last \in Nat /\ h \in Nat /\ h <= last /\ h + 1 \in Nat /\ (h + 1) - 1 = h /\ 1 <= h + 1 /\ h + 1 <= last + 1 /\ 1 <= 1 /\ last <= last
  OBVIOUS
<1>4. s = Part(s, 1, last)
  BY PartWhole
<1>5. Part(s, 1, last) = Chain(Part(s, 1, (h + 1) - 1), y) /\ Part(s, 1, (h + 1) - 1) \in Seq(C) /\ y \in Seq(C)
  <2>1. PartsAt(C, s, 1, h + 1, last)
    BY <1>3, PartsApart
  <2> QED BY <2>1, Zenon DEF PartsAt
<1>6. s = Chain(x, y) /\ x \in Seq(C) /\ y \in Seq(C)
  BY <1>3, <1>4, <1>5
<1>7. Solidly(x) = <<>>
  <2>1. Len(x) = h /\ \A i \in 1 .. h : x[i] = s[i]
    BY StartsWith DEF Part
  <2> HIDE DEF x, y, last
  <2>3. \A i \in 1 .. Len(x) : x[i] \in Blanks
    BY <2>1
  <2> QED BY <1>6, <2>3, SiftedNone DEF Solidly
<1> HIDE DEF x, y
<1>8. Solidly(Chain(x, y)) = Chain(Solidly(x), Solidly(y)) /\ Solidly(y) \in Seq(C)
  BY <1>6, SolidBoth
<1>9. Chain(<<>>, Solidly(y)) = Solidly(y)
  <2> DEFINE u == Solidly(y)
  <2>1. u \in Seq(C)
    BY <1>8
  <2> HIDE DEF u
  <2>2. Chain(<<>>, u) = u
    BY <2>1, ChainNothing
  <2> QED BY <2>2 DEF u
<1>10. Solidly(s) = Solidly(y)
  BY <1>6, <1>7, <1>8, <1>9, Zenon
<1> QED BY <1>6, <1>10 DEF y, last

(* A cell is what stands between its pipes, but for blanks.                *)
LEMMA CellSolid ==
  ASSUME NEW C, NEW s \in Seq(C), NEW i \in Nat, NEW j \in Nat, i < j, j <= Len(s) + 1
  PROVE  /\ Cell(s, i, j).text \in Seq(C) /\ Part(s, i + 1, j - 1) \in Seq(C)
         /\ Solidly(Cell(s, i, j).text) = Solidly(Part(s, i + 1, j - 1))
<1> DEFINE raw == Part(s, i + 1, j - 1)
           h == Indent(raw)
           rest == Part(raw, h + 1, Len(raw))
           text == TrimRight(rest)
<1>1. raw \in Seq(C)
  <2>1. i + 1 \in Nat /\ j - 1 \in Nat /\ 1 <= i + 1 /\ j - 1 <= Len(s)
    OBVIOUS
  <2> QED BY <2>1, PartOf DEF Part
<1>2. Cell(s, i, j).text = text
  <2> DEFINE a == i + h
             m == Len(text)
  <2>1. Cell(s, i, j) = IF text = <<>> THEN [text |-> text, off |-> i, len |-> 1]
                        ELSE [text |-> text, off |-> a, len |-> m]
    BY Zenon DEF Cell, Part
  <2> HIDE DEF text, a, m
  <2> QED BY <2>1
<1> HIDE DEF raw
<1>3. h \in 0 .. Len(raw) /\ \A k \in 1 .. h : raw[k] \in Blanks
  BY <1>1, IndentIs
<1> HIDE DEF h
<1>4. rest \in Seq(C) /\ Solidly(rest) = Solidly(raw)
  BY <1>1, <1>3, SolidBehind
<1> HIDE DEF rest
<1>5. text \in Seq(C) /\ Solidly(text) = Solidly(rest)
  BY <1>4, SolidTrim
<1> HIDE DEF text
<1> QED BY <1>1, <1>2, <1>4, <1>5 DEF raw

(* The pipes of a text, up to each of its runes.                           *)
Bar == "|"
Piping(s, g) ==
  g = [i \in 0 .. Len(s) |-> IF i = 0 THEN <<>> ELSE IF s[i] = Bar THEN Append(g[i - 1], i) ELSE g[i - 1]]
PipesTo(s) == CHOOSE g : Piping(s, g)
Pipe1(before, c, i) == IF c = Bar THEN Append(before, i) ELSE before

(* The pipes of a row are found rune by rune.                               *)
LEMMA PipesToIs ==
  ASSUME NEW s, Len(s) \in Nat
  PROVE  LET g == PipesTo(s)
         IN /\ g[0] = <<>> /\ \A i \in 1 .. Len(s) : g[i] = Pipe1(g[i - 1], s[i], i)
            /\ Pipes(s) = g[Len(s)]
<1> DEFINE last == Len(s)
           T == Seq(Nat)
           step == [x \in (1 .. last) \X T |-> Pipe1(x[2], s[x[1]], x[1])]
<1>1. last \in Nat /\ <<>> \in T
  OBVIOUS
<1>2. step \in [(1 .. last) \X T -> T]
  <2> SUFFICES ASSUME NEW x \in (1 .. last) \X T PROVE step[x] \in T
    OBVIOUS
  <2>1. x[1] \in Nat /\ x[2] \in Seq(Nat)
    OBVIOUS
  <2>3. Append(x[2], x[1]) \in Seq(Nat)
    BY <2>1
  <2>4. step[x] = Pipe1(x[2], s[x[1]], x[1])
    OBVIOUS
  <2> HIDE DEF step
  <2> QED BY <2>1, <2>3, <2>4 DEF Pipe1
<1>3. PICK g \in [0 .. last -> T] : Climbs(g, last, <<>>, step)
  <2> HIDE DEF last, T, step
  <2> QED BY <1>1, <1>2, UpRecursion
<1> DEFINE Q(f, i) == IF i = 0 THEN <<>> ELSE IF s[i] = Bar THEN Append(f[i - 1], i) ELSE f[i - 1]
<1>4. ASSUME NEW k \in 0 .. last PROVE g[k] = Q(g, k)
  <2>1. g[0] = <<>> /\ \A i \in 1 .. last : g[i] = step[<<i, g[i - 1]>>]
    BY <1>3 DEF Climbs
  <2>2. CASE k = 0
    BY <2>1, <2>2
  <2>3. CASE k # 0
    <3>1. k \in 1 .. last /\ k - 1 \in 0 .. last
      BY <1>1, <2>3
    <3>2. g[k - 1] \in T
      BY <3>1
    <3>3. <<k, g[k - 1]>> \in (1 .. last) \X T
      BY <3>1, <3>2
    <3>4. step[<<k, g[k - 1]>>] = Pipe1(g[k - 1], s[k], k)
      <4> HIDE DEF T, last
      <4> QED BY <3>3
    <3> QED BY <2>1, <2>3, <3>1, <3>4 DEF Pipe1
  <2> QED BY <2>2, <2>3
<1>5. Piping(s, g)
  <2>1. g = [k \in 0 .. last |-> g[k]]
    BY <1>3
  <2> HIDE DEF Q
  <2>2. g = [k \in 0 .. last |-> Q(g, k)]
    BY <1>4, <2>1
  <2> QED BY <2>2, Zenon DEF Piping, Q, last
<1> DEFINE F == PipesTo(s)
<1>6. Piping(s, F)
  BY <1>5, Zenon DEF PipesTo
<1>7. \A k \in 0 .. last : F[k] = Q(F, k)
  <2> HIDE DEF F
  <2>1. F = [k \in 0 .. last |-> Q(F, k)]
    BY <1>6, Zenon DEF Piping, Q, last
  <2> HIDE DEF Q
  <2> QED BY <2>1
<1>8. F[0] = <<>>
  <2> HIDE DEF F, last
  <2>1. 0 \in 0 .. last
    BY <1>1
  <2> QED BY <1>7, <2>1
<1>9. ASSUME NEW i \in 1 .. last PROVE F[i] = Pipe1(F[i - 1], s[i], i)
  <2> HIDE DEF F, last
  <2>1. i \in 0 .. last /\ i # 0
    BY <1>1
  <2> QED BY <1>7, <2>1 DEF Pipe1
<1>10. Pipes(s) = F[last]
  BY Zenon DEF Pipes, PipesTo, Piping, Bar, last
<1> QED BY <1>8, <1>9, <1>10

(* P are the places of the pipes among the first k runes, in order.        *)
Standing(s, k, P) ==
  /\ P \in Seq(Nat) /\ \A m \in 1 .. Len(P) : P[m] \in 1 .. k /\ s[P[m]] = Bar
  /\ \A m, q \in 1 .. Len(P) : m < q => P[m] < P[q]
  /\ \A j \in 1 .. k : s[j] = Bar => \E m \in 1 .. Len(P) : P[m] = j

(* One rune more, and the pipes that were found stand where they stood.     *)
LEMMA StandingOn ==
  ASSUME NEW s, NEW k \in Nat, NEW P, Standing(s, k, P)
  PROVE  Standing(s, k + 1, Pipe1(P, s[k + 1], k + 1))
<1> DEFINE e == k + 1
           last == Len(P)
           Q == Append(P, e)
<1>1. /\ P \in Seq(Nat) /\ \A m \in 1 .. last : P[m] \in 1 .. k /\ s[P[m]] = Bar
      /\ \A m, q \in 1 .. last : m < q => P[m] < P[q]
      /\ \A j \in 1 .. k : s[j] = Bar => \E m \in 1 .. last : P[m] = j
  BY DEF Standing
<1>2. last \in Nat /\ e \in Nat /\ 1 .. e = (1 .. k) \cup {e} /\ e \notin 1 .. k
  BY <1>1
<1>3. CASE s[e] = Bar
  <2>1. Q \in Seq(Nat) /\ Len(Q) = last + 1 /\ Q[last + 1] = e /\ \A i \in 1 .. last : Q[i] = P[i]
    BY <1>1, <1>2, AppendProperties
  <2> HIDE DEF Q, last, e
  <2>2. 1 .. last + 1 = (1 .. last) \cup {last + 1} /\ \A m \in 1 .. last : m < last + 1
    BY <1>2
  <2>3. \A m \in 1 .. last + 1 : Q[m] \in 1 .. e /\ s[Q[m]] = Bar
    BY <1>1, <1>2, <1>3, <2>1, <2>2
  <2>4. ASSUME NEW m \in 1 .. last + 1, NEW q \in 1 .. last + 1, m < q PROVE Q[m] < Q[q]
    <3>1. m \in 1 .. last
      BY <1>2, <2>4
    <3>2. CASE q \in 1 .. last
      BY <1>1, <2>1, <2>4, <3>1, <3>2
    <3>3. CASE q = last + 1
      <4>1. P[m] \in 1 .. k /\ Q[m] = P[m] /\ Q[q] = e
        BY <1>1, <2>1, <3>1, <3>3
      <4> QED BY <4>1 DEF e
    <3> QED BY <2>2, <3>2, <3>3
  <2>5. ASSUME NEW j \in 1 .. e, s[j] = Bar PROVE \E m \in 1 .. last + 1 : Q[m] = j
    <3>1. CASE j = e
      <4>1. last + 1 \in 1 .. last + 1
        BY <1>2
      <4> QED BY <2>1, <3>1, <4>1
    <3>2. CASE j \in 1 .. k
      <4>1. PICK m \in 1 .. last : P[m] = j
        BY <1>1, <2>5, <3>2
      <4>2. m \in 1 .. last + 1 /\ Q[m] = j
        BY <2>1, <2>2, <4>1
      <4> QED BY <4>2
    <3> QED BY <1>2, <3>1, <3>2
  <2>6. Standing(s, e, Q)
    BY <2>1, <2>3, <2>4, <2>5 DEF Standing
  <2>7. Pipe1(P, s[e], e) = Q
    BY <1>3 DEF Pipe1, Q
  <2> QED BY <2>6, <2>7 DEF e
<1>4. CASE s[e] # Bar
  <2> HIDE DEF last, e
  <2>1. \A m \in 1 .. last : P[m] \in 1 .. e /\ s[P[m]] = Bar
    BY <1>1, <1>2
  <2>2. \A j \in 1 .. e : s[j] = Bar => \E m \in 1 .. last : P[m] = j
    BY <1>1, <1>2, <1>4
  <2>3. Standing(s, e, P)
    BY <1>1, <2>1, <2>2 DEF Standing, last
  <2>4. Pipe1(P, s[e], e) = P
    BY <1>4 DEF Pipe1
  <2> QED BY <2>3, <2>4 DEF e
<1> QED BY <1>3, <1>4

(* Pipes is all the pipes, in order.                                       *)
LEMMA PipesStand ==
  ASSUME NEW s, Len(s) \in Nat
  PROVE  Standing(s, Len(s), Pipes(s))
<1> DEFINE F == PipesTo(s)
           last == Len(s)
           S == {k \in Nat : k <= last => Standing(s, k, F[k])}
<1>1. /\ F[0] = <<>> /\ \A i \in 1 .. last : F[i] = Pipe1(F[i - 1], s[i], i)
      /\ Pipes(s) = F[last] /\ last \in Nat
  BY PipesToIs
<1> HIDE DEF F, last
<1>2. 0 \in S
  <2>1. <<>> \in Seq(Nat) /\ Len(<<>>) = 0 /\ 1 .. 0 = {}
    OBVIOUS
  <2>2. Standing(s, 0, <<>>)
    BY <2>1 DEF Standing
  <2> QED BY <1>1, <2>2
<1>3. ASSUME NEW k \in Nat, k \in S PROVE k + 1 \in S
  <2> SUFFICES ASSUME k + 1 <= last PROVE Standing(s, k + 1, F[k + 1])
    OBVIOUS
  <2>1. k <= last /\ k + 1 \in 1 .. last /\ (k + 1) - 1 = k
    BY <1>1
  <2>2. F[k + 1] = Pipe1(F[k], s[k + 1], k + 1)
    BY <1>1, <2>1
  <2>3. Standing(s, k, F[k])
    BY <1>3, <2>1
  <2> QED BY <2>2, <2>3, StandingOn
<1> HIDE DEF S
<1>4. Nat \subseteq S
  BY <1>2, <1>3, NatSetInduction
<1>5. last \in S /\ last <= last
  BY <1>1, <1>4
<1>6. Standing(s, last, F[last])
  BY <1>5 DEF S
<1> QED BY <1>1, <1>6 DEF last

(* Of a row, the first is where it begins, and the last the last there is. *)
LEMMA PipesOfRow ==
  ASSUME NEW C, NEW s \in Seq(C), s # <<>>, s[1] = Bar
  PROVE  LET P == Pipes(s)
         IN /\ Len(P) \in Nat \ {0} /\ P[1] = 1
            /\ \A m \in 1 .. Len(P) : P[m] \in 1 .. Len(s) /\ s[P[m]] = Bar
            /\ \A m \in 1 .. Len(P) - 1 : P[m] < P[m + 1]
            /\ P[Len(P)] = Max({i \in DOMAIN s : s[i] = Bar})
<1> DEFINE P == Pipes(s)
           last == Len(P)
           len == Len(s)
           E == {i \in DOMAIN s : s[i] = Bar}
<1>1. len \in Nat \ {0} /\ DOMAIN s = 1 .. len
  BY EmptySeq
<1>2. Standing(s, len, P)
  BY PipesStand
<1> HIDE DEF P, len
<1>3. /\ P \in Seq(Nat) /\ \A m \in 1 .. last : P[m] \in 1 .. len /\ s[P[m]] = Bar
      /\ \A m, q \in 1 .. last : m < q => P[m] < P[q]
      /\ \A j \in 1 .. len : s[j] = Bar => \E m \in 1 .. last : P[m] = j
  BY <1>2 DEF Standing
<1>4. last \in Nat
  BY <1>3
<1> HIDE DEF last
<1>5. PICK h \in 1 .. last : P[h] = 1
  BY <1>1, <1>3
<1>6. last \in Nat \ {0} /\ 1 \in 1 .. last /\ last \in 1 .. last
  BY <1>4, <1>5
<1>7. P[1] = 1
  <2>1. h # 1 => P[1] < P[h]
    BY <1>3, <1>4, <1>6
  <2>2. P[1] \in 1 .. len
    BY <1>3, <1>6
  <2> QED BY <1>1, <1>5, <2>1, <2>2
<1>8. ASSUME NEW m \in 1 .. last - 1 PROVE P[m] < P[m + 1]
  <2>1. m \in 1 .. last /\ m + 1 \in 1 .. last /\ m < m + 1
    BY <1>4
  <2> QED BY <1>3, <2>1
<1>9. P[last] = Max(E)
  <2>1. P[last] \in E
    BY <1>1, <1>3, <1>6
  <2>2. E \in SUBSET Int
    BY <1>1
  <2>3. ASSUME NEW i \in E PROVE i <= P[last]
    <3>1. PICK m \in 1 .. last : P[m] = i
      BY <1>1, <1>3
    <3>2. m = last \/ m < last
      BY <1>4
    <3>3. P[m] \in Nat /\ P[last] \in Nat
      BY <1>1, <1>3, <1>6
    <3> QED BY <1>3, <1>6, <3>1, <3>2, <3>3
  <2> HIDE DEF E
  <2> QED BY <2>1, <2>2, <2>3, MaxIs
<1> QED BY <1>3, <1>6, <1>7, <1>8, <1>9 DEF P, last, len

(* The cells of a row, each with the pipe behind it.                       *)
Closed(c) == [i \in DOMAIN c |-> Append(c[i].text, Bar)]

(* From one pipe on, what is up to the next is the cell between them.      *)
LEMMA CellClosed ==
  ASSUME NEW C, NEW s \in Seq(C), Bar \in C, NEW a \in 1 .. Len(s), NEW b \in 1 .. Len(s), a < b, s[b] = Bar
  PROVE  /\ Append(Cell(s, a, b).text, Bar) \in Seq(C)
         /\ Part(s, 1, a) \in Seq(C) /\ Part(s, 1, b) \in Seq(C)
         /\ Solidly(Part(s, 1, b)) = Chain(Solidly(Part(s, 1, a)), Solidly(Append(Cell(s, a, b).text, Bar)))
<1> DEFINE text == Cell(s, a, b).text
           raw == Part(s, a + 1, b - 1)
           bar == <<Bar>>
           x == Part(s, 1, a)
           y == Part(s, a + 1, b)
           z == Part(s, 1, b)
           w == Append(text, Bar)
<1>1. /\ a \in Nat /\ b \in Nat /\ a <= Len(s) /\ b <= Len(s) /\ a + 1 \in Nat /\ (a + 1) - 1 = a
      /\ 1 <= 1 /\ 1 <= a + 1 /\ a + 1 <= b + 1 /\ a + 1 <= b /\ b <= b + 1 /\ b <= Len(s) + 1
  OBVIOUS
<1>2. text \in Seq(C) /\ raw \in Seq(C) /\ Solidly(text) = Solidly(raw)
  BY <1>1, CellSolid
<1>3. z = Chain(x, y) /\ x \in Seq(C) /\ y \in Seq(C)
  <2>1. PartsAt(C, s, 1, a + 1, b)
    BY <1>1, PartsApart
  <2>2. z = Chain(Part(s, 1, (a + 1) - 1), y) /\ Part(s, 1, (a + 1) - 1) \in Seq(C) /\ y \in Seq(C)
    BY <2>1, Zenon DEF PartsAt
  <2> HIDE DEF y, z
  <2> QED BY <1>1, <2>2
<1>4. Part(s, b, b) = bar
  BY PartOne
<1>5. y = Chain(raw, bar)
  <2>1. PartsAt(C, s, a + 1, b, b)
    BY <1>1, PartsApart
  <2>2. y = Chain(raw, Part(s, b, b))
    BY <2>1, Zenon DEF PartsAt
  <2> QED BY <1>4, <2>2, Zenon
<1>6. bar \in Seq(C)
  OBVIOUS
<1>7. z \in Seq(C)
  <2> HIDE DEF x, y, z
  <2> QED BY <1>3, ChainIs
<1> HIDE DEF text, raw, x, y, z
<1>8. w = Chain(text, bar) /\ w \in Seq(C)
  <2>1. Append(text, Bar) = text \o <<Bar>>
    BY <1>2, AppendIsConcat
  <2>2. Append(text, Bar) \in Seq(C)
    BY <1>2, AppendProperties
  <2> QED BY <2>1, <2>2, Zenon DEF Chain, w, bar
<1> HIDE DEF bar, w
<1>9. Solidly(w) = Chain(Solidly(text), Solidly(bar))
  BY <1>2, <1>6, <1>8, SolidBoth
<1>10. Solidly(y) = Chain(Solidly(raw), Solidly(bar))
  BY <1>2, <1>5, <1>6, SolidBoth
<1>11. Solidly(z) = Chain(Solidly(x), Solidly(y))
  BY <1>3, SolidBoth
<1>12. Solidly(z) = Chain(Solidly(x), Solidly(w))
  BY <1>2, <1>9, <1>10, <1>11, Zenon
<1> QED BY <1>3, <1>7, <1>8, <1>12 DEF text, x, z, w

(* A row is its first pipe, and its cells each with the pipe behind it.    *)
LEMMA RowWhole ==
  ASSUME NEW C, Bar \in C, NEW s \in Seq(C), s # <<>>, s[1] = Bar
  PROVE  Solidly(UpToLastPipe(s)) = Chain(<<Bar>>, Solidly(FlattenSeq(Closed(Cells(s)))))
<1> DEFINE P == Pipes(s)
           last == Len(P)
           u == last - 1
           c == Cells(s)
           w == Closed(c)
           J == FlatTo(w)
           upTo(m) == Part(s, 1, P[m])
           bar == <<Bar>>
           len == Len(s)
<1>1. /\ last \in Nat \ {0} /\ P[1] = 1
      /\ \A m \in 1 .. last : P[m] \in 1 .. len /\ s[P[m]] = Bar
      /\ \A m \in 1 .. last - 1 : P[m] < P[m + 1]
      /\ P[last] = Max({i \in DOMAIN s : s[i] = Bar})
  BY PipesOfRow
<1>2. UpToLastPipe(s) = upTo(last)
  BY <1>1, Zenon DEF UpToLastPipe, Part, Bar
<1>3. Solidly(upTo(1)) = bar /\ bar \in Seq(C)
  <2>1. 1 \in 1 .. len
    BY EmptySeq
  <2>2. upTo(1) = <<s[1]>>
    <3>1. Part(s, 1, 1) = <<s[1]>>
      BY <2>1, PartOne
    <3> HIDE DEF P
    <3> QED BY <1>1, <3>1
  <2>3. s[1] \notin Blanks
    BY Zenon DEF Bar, Blanks
  <2>4. Sifted(<<s[1]>>, Blanks) = <<s[1]>>
    BY <2>3, SiftedOne
  <2>5. bar \in Seq(C)
    OBVIOUS
  <2> HIDE DEF P
  <2> QED BY <2>2, <2>4, <2>5, Zenon DEF Solidly, bar
<1> HIDE DEF P, bar, len
<1>4. u \in Nat /\ u + 1 = last
  BY <1>1
<1>5. DOMAIN c = 1 .. u /\ Len(c) = u /\ \A k \in 1 .. u : c[k] = Cell(s, P[k], P[k + 1])
  <2>1. c = [k \in 1 .. u |-> Cell(s, P[k], P[k + 1])]
    BY Zenon DEF Cells, P, last, u
  <2> HIDE DEF c, u
  <2>2. Len(c) = u
    BY <1>4, <2>1
  <2> QED BY <2>1, <2>2
<1> HIDE DEF c, u
<1>6. ASSUME NEW k \in 1 .. u
      PROVE  /\ w[k] \in Seq(C)
             /\ upTo(k) \in Seq(C) /\ upTo(k + 1) \in Seq(C)
             /\ Solidly(upTo(k + 1)) = Chain(Solidly(upTo(k)), Solidly(w[k]))
  <2>1. k \in 1 .. last /\ k + 1 \in 1 .. last /\ k \in 1 .. last - 1
    BY <1>4, <1>6
  <2> DEFINE a == P[k]
             b == P[k + 1]
             t == Append(Cell(s, a, b).text, Bar)
  <2>2. a \in 1 .. len /\ b \in 1 .. len /\ a < b /\ s[b] = Bar
    BY <1>1, <2>1
  <2>3. w[k] = t
    <3>1. w[k] = Append(c[k].text, Bar)
      BY <1>5, <1>6 DEF Closed
    <3>2. c[k] = Cell(s, P[k], P[k + 1])
      BY <1>5, <1>6
    <3> QED BY <3>1, <3>2, Zenon
  <2> HIDE DEF a, b
  <2>4. /\ t \in Seq(C) /\ Part(s, 1, a) \in Seq(C) /\ Part(s, 1, b) \in Seq(C)
        /\ Solidly(Part(s, 1, b)) = Chain(Solidly(Part(s, 1, a)), Solidly(t))
    BY <2>2, CellClosed DEF len
  <2> HIDE DEF t, w
  <2> QED BY <2>3, <2>4, Zenon DEF a, b
<1>7. w \in Seq(Seq(C)) /\ Len(w) = u
  <2> DEFINE S == Seq(C)
             v == [k \in 1 .. u |-> Append(c[k].text, Bar)]
  <2>1. w = v
    BY <1>5, Zenon DEF Closed
  <2>2. v \in [1 .. u -> S]
    <3>1. \A k \in 1 .. u : v[k] \in S
      <4> HIDE DEF v, w, S
      <4> QED BY <1>6, <2>1 DEF S
    <3>2. v = [k \in 1 .. u |-> v[k]]
      OBVIOUS
    <3> HIDE DEF v, S
    <3> QED BY <3>1, <3>2
  <2> HIDE DEF v, w, S
  <2>3. v \in Seq(S) /\ Len(v) = u
    BY <1>4, <2>2
  <2> QED BY <2>1, <2>3 DEF S
<1> HIDE DEF w, J
<1>8. CASE u = 0
  <2>1. w = <<>>
    BY <1>7, <1>8, EmptySeq
  <2>2. FlattenSeq(w) = <<>>
    BY <2>1, FlattenNone
  <2>3. Solidly(<<>>) = <<>>
    <3> DEFINE e == <<>>
    <3>1. e \in Seq({}) /\ Len(e) = 0
      OBVIOUS
    <3>2. \A i \in 1 .. Len(e) : e[i] \in Blanks
      BY <3>1
    <3> HIDE DEF e
    <3>3. Sifted(e, Blanks) = <<>>
      BY <3>1, <3>2, SiftedNone
    <3> QED BY <3>3 DEF Solidly, e
  <2>4. Chain(bar, <<>>) = bar
    BY <1>3, ChainNothing
  <2>5. last = 1
    BY <1>4, <1>8
  <2> QED BY <1>2, <1>3, <2>2, <2>3, <2>4, <2>5, Zenon DEF bar, w, c
<1>9. CASE u # 0
  <2>1. /\ FlattenSeq(w) = J[u] /\ J[1] = w[1]
        /\ \A i \in 2 .. u : J[i] = Chain(J[i - 1], w[i])
        /\ \A i \in 1 .. u : J[i] \in Seq(C)
    <3>1. w # <<>>
      BY <1>7, <1>9, EmptySeq
    <3> QED BY <1>7, <3>1, FlatIs DEF J
  <2> DEFINE Z == {m \in Nat : m + 1 <= u => Solidly(upTo(m + 2)) = Chain(bar, Solidly(J[m + 1]))}
  <2> HIDE DEF last, upTo
  <2>2. 0 \in Z
    <3>1. 1 \in 1 .. u /\ 1 + 1 = 2
      BY <1>4, <1>9
    <3>2. Solidly(upTo(1 + 1)) = Chain(Solidly(upTo(1)), Solidly(w[1]))
      BY <1>6, <3>1
    <3>3. Solidly(upTo(2)) = Chain(bar, Solidly(J[1]))
      BY <1>3, <2>1, <3>1, <3>2
    <3>4. 0 + 2 = 2 /\ 0 + 1 = 1
      OBVIOUS
    <3> QED BY <3>3, <3>4
  <2>3. ASSUME NEW m \in Nat, m \in Z PROVE m + 1 \in Z
    <3> DEFINE d == m + 1
               e == m + 2
               g == m + 3
    <3>0. (m + 1) + 1 = e /\ (m + 1) + 2 = g
      OBVIOUS
    <3> SUFFICES ASSUME e <= u PROVE Solidly(upTo(g)) = Chain(bar, Solidly(J[e]))
      <4> HIDE DEF g, e
      <4> QED BY <3>0
    <3>1. /\ d \in 1 .. u /\ e \in 2 .. u /\ e \in 1 .. u /\ e - 1 = d /\ e + 1 = g
      BY <1>4
    <3>2. Solidly(upTo(e)) = Chain(bar, Solidly(J[d]))
      BY <2>3, <3>1
    <3> HIDE DEF d, e, g
    <3>3. Solidly(upTo(g)) = Chain(Solidly(upTo(e)), Solidly(w[e])) /\ w[e] \in Seq(C)
      BY <1>6, <3>1
    <3>4. J[e] = Chain(J[d], w[e]) /\ J[d] \in Seq(C)
      BY <2>1, <3>1
    <3> DEFINE x == J[d]
               y == w[e]
    <3>5. x \in Seq(C) /\ y \in Seq(C)
      BY <3>3, <3>4
    <3> HIDE DEF x, y
    <3>6. Solidly(Chain(x, y)) = Chain(Solidly(x), Solidly(y)) /\ Solidly(x) \in Seq(C) /\ Solidly(y) \in Seq(C)
      BY <3>5, SolidBoth
    <3> DEFINE sx == Solidly(x)
               sy == Solidly(y)
    <3>7. sx \in Seq(C) /\ sy \in Seq(C)
      BY <3>6
    <3> HIDE DEF sx, sy
    <3>8. Chain(Chain(bar, sx), sy) = Chain(bar, Chain(sx, sy))
      BY <1>3, <3>7, ChainThree
    <3>9. Solidly(upTo(g)) = Chain(Chain(bar, sx), sy) /\ Solidly(J[e]) = Chain(sx, sy)
      BY <3>2, <3>3, <3>4, <3>6, Zenon DEF sx, sy, x, y
    <3> QED BY <3>8, <3>9
  <2> HIDE DEF Z
  <2>4. Nat \subseteq Z
    BY <2>2, <2>3, NatSetInduction
  <2>5. u - 1 \in Z /\ (u - 1) + 1 = u /\ (u - 1) + 2 = last
    BY <1>4, <1>9, <2>4
  <2>6. Solidly(upTo(last)) = Chain(bar, Solidly(J[u]))
    <3>1. u <= u
      BY <1>4
    <3>2. (u - 1) + 1 <= u => Solidly(upTo((u - 1) + 2)) = Chain(bar, Solidly(J[(u - 1) + 1]))
      BY <2>5 DEF Z
    <3> QED BY <2>5, <3>1, <3>2
  <2> QED BY <1>2, <2>1, <2>6, Zenon DEF bar, w, c
<1> QED BY <1>8, <1>9

----------------------------------------------------------------------------
(* The invariant for AcceptedWhole: a line is never empty, nothing is read  *)
(* before the file is scanned, and what was made of a line loses nothing.   *)
Keeps(s, indent, r) ==
  /\ r.fn # NoFn /\ r.diags = <<>> => Bare(SpellingOf(r.fn)) = Bare(s)
  /\ s[1] = "|" /\ indent > 0 =>
       Solidly(UpToLastPipe(s)) =
         <<"|">> \o Solidly(FlattenSeq([i \in DOMAIN r.cells |-> Append(r.cells[i].text, "|")]))
NoneEmpty == \A k \in 1 .. Len(out) : Len(out[k].text) > 0
AllKept ==
  /\ Len(read) <= Len(out) /\ (~Scanned => Len(read) = 0)
  /\ \A k \in 1 .. Len(read) : Keeps(Text(out[k]), out[k].indent, read[k])
WholeInv == SigInv /\ NoneEmpty /\ AllKept

(* The scanner makes no empty line.                                         *)
LEMMA NoneEmptyStep ==
  ASSUME ScanInv, NoneEmpty, ScanNext
  PROVE  NoneEmpty'
<1>0. /\ PhysicalFile(file) /\ n \in Nat \ {0} /\ cur \in 0 .. Len(out)
      /\ out \in Seq(LogicalLine) /\ Len(out) \in Nat
      /\ \A k \in 1 .. Len(out) : Sound(out[k])
  BY LenProperties DEF ScanInv
<1>1. Len(file) \in Nat
  BY <1>0 DEF PhysicalFile
<1>2. CASE Separate
  BY <1>2, Zenon DEF Separate, NoneEmpty
<1>3. CASE Continue
  <2>1. /\ n \in 1 .. Len(file) /\ cur \in 1 .. Len(out)
        /\ out' = [out EXCEPT ![cur] = Joined(out[cur], n)]
    BY <1>0, <1>1, <1>3 DEF Continue
  <2> DEFINE J == Joined(out[cur], n)
             t == out[cur].text
             more == <<Gap>> \o Body(n)
  <2>2. Sound(J)
    BY <1>0, <2>1, JoinedSound
  <2>3. J \in LogicalLine
    BY <2>2 DEF Sound
  <2>4. Len(J.text) > 0
    <3>0. out[cur] \in LogicalLine
      BY <1>0, <2>1
    <3>1. t \in Seq(Rune) /\ out[cur] \in LogicalLine
      BY <3>0 DEF LogicalLine
    <3>2. Body(n) \in Seq(Rune) /\ <<Gap>> \in Seq(Rune) /\ Len(<<Gap>>) = 1
      BY <1>0, <2>1, BodyType DEF Gap, Rune
    <3>3. J.text = t \o more
      BY <3>1 DEF Joined, LogicalLine
    <3> DEFINE b == Body(n)
               g == <<Gap>>
    <3> HIDE DEF b, g, t, J
    <3>4. b \in Seq(Rune) /\ g \in Seq(Rune) /\ Len(g) = 1
      BY <3>2 DEF b, g
    <3>5. Len(t \o (g \o b)) = Len(t) + 1 + Len(b)
      BY <3>1, <3>4, JoinRunes
    <3>6. Len(t) \in Nat /\ Len(b) \in Nat
      BY <3>1, <3>4
    <3>7. J.text = t \o (g \o b)
      BY <3>3, Zenon DEF g, b
    <3> QED BY <3>5, <3>6, <3>7
  <2> HIDE DEF J
  <2>5. Len(out') = Len(out) /\ \A k \in 1 .. Len(out) : out'[k] = IF k = cur THEN J ELSE out[k]
    BY <1>0, <2>1, <2>3, ExceptSeq DEF J
  <2> QED BY <2>4, <2>5 DEF NoneEmpty
<1>4. CASE OpenLine
  <2>1. n \in 1 .. Len(file) /\ out' = Append(out, Fresh(n)) /\ file[n].len > 0
    BY <1>0, <1>1, <1>4 DEF OpenLine
  <2> DEFINE F == Fresh(n)
  <2>2. Sound(F)
    BY <1>0, <2>1, FreshSound
  <2>3. F \in LogicalLine
    BY <2>2 DEF Sound
  <2>4. Len(F.text) > 0
    <3>1. F.text = Body(n) /\ file[n].len \in Nat
      BY <1>0, <2>1, LineType DEF Fresh
    <3>2. Len(Body(n)) = file[n].len
      BY <3>1 DEF Body
    <3> QED BY <2>1, <3>1, <3>2
  <2> HIDE DEF F
  <2>5. /\ Len(out') = Len(out) + 1 /\ out'[Len(out) + 1] = F
        /\ \A k \in 1 .. Len(out) : out'[k] = out[k]
    BY <1>0, <2>1, <2>3 DEF F
  <2> QED BY <1>0, <2>4, <2>5 DEF NoneEmpty
<1> QED BY <1>2, <1>3, <1>4 DEF ScanNext

(* What is said of one more line keeps the rest.                            *)
LEMMA MadeKept ==
  ASSUME WholeInv, Reading, NEW result, Made(result),
         Keeps(Text(Upcoming), Upcoming.indent, result)
  PROVE  NoneEmpty' /\ AllKept'
<1>1. PICK R : read \in Seq(R)
  BY DEF WholeInv, SigInv, ReadInv
<1> DEFINE U == R \cup {result}
<1>2. R \subseteq U /\ result \in U
  OBVIOUS
<1> HIDE DEF U
<1>3. read \in Seq(U)
  BY <1>1, <1>2, SeqOfMore
<1> DEFINE new == Append(read, result)
           last == Len(read)
<1>4. /\ last \in Nat /\ Len(new) = last + 1 /\ new[last + 1] = result
      /\ \A k \in 1 .. last : new[k] = read[k]
  BY <1>2, <1>3
<1>5. read' = new /\ out' = out /\ input' = input /\ n' = n /\ file' = file
  BY DEF Made, scanVars
<1>6. Len(out) \in Nat /\ last < Len(out) /\ Scanned
  BY DEF WholeInv, SigInv, ScanInv, Reading
<1>7. \A k \in 1 .. last : Keeps(Text(out[k]), out[k].indent, read[k])
  BY DEF WholeInv, AllKept
<1>8. Keeps(Text(out[last + 1]), out[last + 1].indent, result)
  BY Zenon DEF Upcoming, last
<1> HIDE DEF new
<1>9. \A k \in 1 .. Len(new) : Keeps(Text(out[k]), out[k].indent, new[k])
  <2> SUFFICES ASSUME NEW k \in 1 .. Len(new) PROVE Keeps(Text(out[k]), out[k].indent, new[k])
    OBVIOUS
  <2> HIDE DEF last
  <2>1. k \in 1 .. last \/ k = last + 1
    BY <1>4
  <2> QED BY <1>4, <1>7, <1>8, <2>1
<1>10. (\A k \in 1 .. Len(read) : Keeps(Text(out[k]), out[k].indent, read[k]))'
  BY <1>5, <1>9, Zenon DEF Text, lines
<1>11. Len(new) <= Len(out)
  <2> HIDE DEF last
  <2> QED BY <1>4, <1>6
<1>12. AllKept'
  <2>1. Scanned'
    BY <1>5, <1>6 DEF Scanned
  <2>2. (Len(read) <= Len(out))'
    BY <1>5, <1>11
  <2> QED BY <1>10, <2>1, <2>2, Zenon DEF AllKept
<1>13. NoneEmpty'
  BY <1>5, Zenon DEF NoneEmpty, WholeInv
<1> QED BY <1>12, <1>13

(* The signature that is made of a line keeps it.                           *)
LEMMA SignatureKept ==
  ASSUME NEW C, NEW l, l.text \in Seq(C), l.indent = 0, NEW mode, mode \in Modes(Text(l))
  PROVE  Keeps(Text(l), l.indent, ParseSignature(l, mode))
<1> DEFINE s == Text(l)
           r == ParseSignature(l, mode)
           D == {s[i] : i \in 1 .. Len(s)}
<1>1. s \in Seq(D)
  BY TextSeq
<1> HIDE DEF D
<1>2. r.fn # NoFn /\ r.diags = <<>> => Bare(SpellingOf(r.fn)) = Bare(s)
  BY <1>1, SignatureWhole
<1>3. ~(l.indent > 0)
  OBVIOUS
<1> HIDE DEF s, r
<1>4. Keeps(s, l.indent, r)
  BY <1>2, <1>3, Zenon DEF Keeps
<1> QED BY <1>4 DEF s, r

(* The cells of a row keep it.                                              *)
LEMMA RowKept ==
  ASSUME NEW s, NEW C, s \in Seq(C), s # <<>>, s[1] = Bar, NEW indent, NEW spans, NEW r,
         r = [fn |-> NoFn, diags |-> <<>>,
              cells |-> [k \in DOMAIN Cells(s) |-> [text |-> Cells(s)[k].text, span |-> spans[k]]]]
  PROVE  Keeps(s, indent, r)
<1> DEFINE D == C \cup {Bar}
           c == Cells(s)
           rc == r.cells
<1>1. C \subseteq D /\ Bar \in D
  OBVIOUS
<1> HIDE DEF D
<1>2. s \in Seq(D)
  BY <1>1, SeqOfMore
<1>3. Solidly(UpToLastPipe(s)) = Chain(<<Bar>>, Solidly(FlattenSeq(Closed(c))))
  BY <1>1, <1>2, RowWhole
<1> HIDE DEF c
<1>4. r.fn = NoFn /\ rc = [k \in DOMAIN c |-> [text |-> c[k].text, span |-> spans[k]]]
  BY DEF c
<1> HIDE DEF rc
<1>5. DOMAIN rc = DOMAIN c /\ \A i \in DOMAIN c : rc[i].text = c[i].text
  BY <1>4
<1>6. [i \in DOMAIN rc |-> Append(rc[i].text, Bar)] = Closed(c)
  BY <1>5, Zenon DEF Closed
<1> DEFINE ends == [i \in DOMAIN rc |-> Append(rc[i].text, Bar)]
<1>7. Solidly(UpToLastPipe(s)) = Chain(<<Bar>>, Solidly(FlattenSeq(ends)))
  BY <1>3, <1>6, Zenon
<1>8. Solidly(UpToLastPipe(s)) =
        <<"|">> \o Solidly(FlattenSeq([i \in DOMAIN r.cells |-> Append(r.cells[i].text, "|")]))
  BY <1>7, Zenon DEF Chain, Bar, rc
<1> QED BY <1>4, <1>8, Zenon DEF Keeps

(* What is only said of a line keeps it, if it is no row.                   *)
LEMMA FailedKept ==
  ASSUME NEW s, NEW indent, NEW ds, ~(s[1] = "|" /\ indent > 0)
  PROVE  Keeps(s, indent, Failed(ds))
<1>1. Failed(ds).fn = NoFn
  BY DEF Failed
<1> QED BY <1>1, Zenon DEF Keeps

(* The invariant holds when the file is opened.                             *)
LEMMA WholeStart == ASSUME SignatureInit PROVE WholeInv
<1>1. SigInv
  BY SigStart
<1>2. out = <<>> /\ read = <<>>
  BY DEF SignatureInit, Unscanned
<1> DEFINE e == <<>>
<1>3. Len(e) = 0 /\ \A k : k \notin 1 .. 0
  OBVIOUS
<1>4. NoneEmpty
  <2> HIDE DEF e
  <2> QED BY <1>2, <1>3 DEF NoneEmpty, e
<1>5. AllKept
  <2> HIDE DEF e
  <2>1. Len(read) = 0 /\ Len(out) = 0
    BY <1>2, <1>3 DEF e
  <2> QED BY <1>3, <2>1 DEF AllKept
<1> QED BY <1>1, <1>4, <1>5 DEF WholeInv

(* Every step keeps it.                                                     *)
LEMMA WholeStep ==
  ASSUME WholeInv, [SignatureNext]_sigVars
  PROVE  WholeInv'
<1>1. SigInv'
  BY SigStep DEF WholeInv
<1> SUFFICES NoneEmpty' /\ AllKept'
  BY <1>1 DEF WholeInv
<1>2. CASE UNCHANGED sigVars
  <2>1. out' = out /\ read' = read /\ input' = input /\ n' = n /\ file' = file
    BY <1>2 DEF sigVars, scanVars
  <2>2. NoneEmpty'
    BY <2>1, Zenon DEF NoneEmpty, WholeInv
  <2>3. AllKept'
    BY <2>1, Zenon DEF AllKept, WholeInv, Scanned, Text, lines
  <2> QED BY <2>2, <2>3
<1>3. CASE Scanning
  <2>1. NoneEmpty'
    BY <1>3, NoneEmptyStep DEF Scanning, WholeInv, SigInv
  <2>2. ~Scanned
    <3>1. n \in Nat /\ Len(file) \in Nat
      BY DEF WholeInv, SigInv, ScanInv, PhysicalFile
    <3>2. n <= Len(file)
      BY <1>3 DEF Scanning, ScanNext, Separate, Continue, OpenLine
    <3> QED BY <3>1, <3>2 DEF Scanned
  <2>3. Len(read) = 0 /\ read' = read
    BY <1>3, <2>2 DEF WholeInv, AllKept, Scanning
  <2>4. Len(out') \in Nat
    BY <1>1 DEF SigInv, ScanInv
  <2>5. Len(read') = 0 /\ Len(read') <= Len(out') /\ \A k : k \notin 1 .. 0
    BY <2>3, <2>4
  <2>6. AllKept'
    BY <2>5, Zenon DEF AllKept
  <2> QED BY <2>1, <2>6
<1>4. ASSUME Reading PROVE Upcoming.text \in Seq(Rune) /\ Len(Upcoming.text) > 0
  <2>1. Upcoming \in LogicalLine /\ Len(read) + 1 \in 1 .. Len(out)
    BY <1>4, UpcomingIs DEF WholeInv
  <2> QED BY <2>1 DEF LogicalLine, Upcoming, WholeInv, NoneEmpty
<1>5. CASE ReadHead
  <2>1. PICK mode \in Modes(Text(Upcoming)) : Made(ParseSignature(Upcoming, mode))
    BY <1>5 DEF ReadHead
  <2>2. Reading /\ Upcoming.indent = 0
    BY <1>5 DEF ReadHead
  <2>3. Upcoming.text \in Seq(Rune)
    BY <1>4, <2>2
  <2>4. Keeps(Text(Upcoming), Upcoming.indent, ParseSignature(Upcoming, mode))
    BY <2>2, <2>3, SignatureKept
  <2> QED BY <2>1, <2>2, <2>4, MadeKept
<1>6. CASE NotAHead
  <2> DEFINE ds == <<Whole("E0002", Upcoming)>>
  <2>1. Made(Failed(ds)) /\ Reading /\ Upcoming.indent = 0
    BY <1>6, Zenon DEF NotAHead
  <2>2. ~(Upcoming.indent > 0)
    BY <2>1
  <2> HIDE DEF ds
  <2>3. Keeps(Text(Upcoming), Upcoming.indent, Failed(ds))
    BY <2>2, FailedKept
  <2> QED BY <2>1, <2>3, MadeKept
<1>7. CASE SplitRow
  <2> DEFINE s == Text(Upcoming)
             c == Cells(s)
             spans == [k \in DOMAIN c |-> SpanOf(Upcoming, c[k].off, c[k].len)]
             r == [fn |-> NoFn, diags |-> <<>>,
                   cells |-> [k \in DOMAIN c |-> [text |-> c[k].text, span |-> spans[k]]]]
             q == [fn |-> NoFn, diags |-> <<>>,
                   cells |-> [k \in DOMAIN c |-> [text |-> c[k].text, span |-> SpanOf(Upcoming, c[k].off, c[k].len)]]]
             D == {s[i] : i \in 1 .. Len(s)}
  <2>1. Made(q) /\ Reading /\ s[1] = Bar
    BY <1>7, Zenon DEF SplitRow, Bar
  <2>2. s \in Seq(D) /\ Len(s) > 0
    BY <1>4, <2>1, TextSeq
  <2> HIDE DEF s, D
  <2>3. s # <<>>
    BY <2>2
  <2>4. r = q
    <3> HIDE DEF c
    <3> QED BY Zenon
  <2>5. Made(r)
    BY <2>1, <2>4, Zenon
  <2>6. r = [fn |-> NoFn, diags |-> <<>>,
             cells |-> [k \in DOMAIN Cells(s) |-> [text |-> Cells(s)[k].text, span |-> spans[k]]]]
    BY Zenon
  <2> HIDE DEF r, spans, q, c
  <2>7. Keeps(s, Upcoming.indent, r)
    BY <2>1, <2>2, <2>3, <2>6, RowKept, Zenon
  <2> QED BY <2>1, <2>5, <2>7, MadeKept DEF s
<1>8. CASE OtherLine
  <2> DEFINE ds == <<>>
  <2>1. Made(Failed(ds)) /\ Reading /\ ~(Text(Upcoming)[1] = "|" /\ Upcoming.indent > 0)
    BY <1>8, Zenon DEF OtherLine
  <2> HIDE DEF ds
  <2>3. Keeps(Text(Upcoming), Upcoming.indent, Failed(ds))
    BY <2>1, FailedKept, Zenon
  <2> QED BY <2>1, <2>3, MadeKept
<1>9. CASE AllRead
  BY <1>2, <1>9 DEF AllRead
<1> QED BY <1>2, <1>3, <1>5, <1>6, <1>7, <1>8, <1>9 DEF SignatureNext

(* It says what the property says.                                          *)
LEMMA WholeInvAccepts == ASSUME WholeInv PROVE AcceptedWhole
<1>1. PICK R : read \in Seq(R)
  BY DEF WholeInv, SigInv, ReadInv
<1>2. DOMAIN read = 1 .. Len(read)
  BY <1>1
<1>3. \A k \in DOMAIN read : Keeps(Text(out[k]), out[k].indent, read[k])
  BY <1>2, Zenon DEF WholeInv, AllKept
<1> QED BY <1>3, Zenon DEF Keeps, AcceptedWhole

(* Nothing of a line that is accepted is lost: a signature without a        *)
(* diagnostic spells every rune of its line but the blanks and the optional *)
(* commas, and the cells of a row every rune up to its last pipe but the    *)
(* blanks (parseSignature, parse.go; splitRow), in every file.              *)
THEOREM AcceptsWhole == SignatureSpec => []AcceptedWhole
<1>1. SignatureInit => WholeInv
  BY WholeStart
<1>2. WholeInv /\ [SignatureNext]_sigVars => WholeInv'
  BY WholeStep
<1>3. WholeInv => AcceptedWhole
  BY WholeInvAccepts
<1> QED BY <1>1, <1>2, <1>3, PTL DEF SignatureSpec
==============================================================================
