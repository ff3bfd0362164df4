----------------------------- MODULE CaretsProofs ----------------------------
(***************************************************************************)
(* Proofs about Signature: every caret stands under what it is about, in   *)
(* every file.  A caret is a place in a line of the file, a token one in   *)
(* the text of a logical line, and SpanAt takes the one to the other: what *)
(* a line of the file weighs comes first, then the span of a part of it    *)
(* and the carets drawn under it, then the pieces of a logical line, with  *)
(* the tokens and the cells that stand in them.  The spans of a signature  *)
(* follow one another because its tokens do (Shows).                       *)
(***************************************************************************)
EXTENDS SignatureProofs

----------------------------------------------------------------------------
(* Where things stand in the file.  Bytes first: a longer beginning of a   *)
(* text has more of them.                                                  *)
LEMMA BytesGrow ==
  ASSUME NEW C, NEW s \in Seq(C), NEW t \in Seq(C), Len(s) <= Len(t), \A i \in 1 .. Len(s) : s[i] = t[i]
  PROVE  /\ BytesOf(s) \in Nat /\ BytesOf(t) \in Nat /\ BytesOf(s) <= BytesOf(t)
         /\ Len(s) < Len(t) => BytesOf(s) < BytesOf(t)
<1> DEFINE S == {i \in DOMAIN s : s[i] \in TwoBytes}
           T == {i \in DOMAIN t : t[i] \in TwoBytes}
           a == Len(s)
           b == Len(t)
<1>1. /\ a \in Nat /\ b \in Nat /\ DOMAIN s = 1 .. a /\ DOMAIN t = 1 .. b
      /\ \A i \in 1 .. a : i \in 1 .. b
  OBVIOUS
<1>2. S \in SUBSET T /\ T \in SUBSET (1 .. b)
  BY <1>1
<1>3. BytesOf(s) = a + Cardinality(S) /\ BytesOf(t) = b + Cardinality(T)
  BY DEF BytesOf
<1> HIDE DEF S, T, a, b
<1>4. IsFiniteSet(T)
  <2>1. IsFiniteSet(1 .. b)
    BY <1>1, FS_Interval
  <2> QED BY <1>2, <2>1, FS_Subset
<1>5. IsFiniteSet(S) /\ Cardinality(S) <= Cardinality(T)
  BY <1>2, <1>4, FS_Subset
<1>6. Cardinality(S) \in Nat /\ Cardinality(T) \in Nat
  BY <1>4, <1>5, FS_CardinalityType
<1> QED BY <1>1, <1>3, <1>5, <1>6 DEF a, b

(* The sums of the bytes of lines, each with its newline.                  *)
Weights(ls, m) == [k \in 1 .. m |-> BytesOf(ls[k]) + 1]
Weighs(ls, m, f) ==
  f = [T \in SUBSET (1 .. m) |->
         IF T = {} THEN 0
         ELSE LET x == CHOOSE x \in T : TRUE IN (BytesOf(ls[x]) + 1) + f[T \ {x}]]
WeightOf(ls, m) == CHOOSE f : Weighs(ls, m, f)

(* A line starts behind the sum of those before it.                        *)
LEMMA StartSum ==
  \A ls, k : LineStart(ls, k) = WeightOf(ls, k - 1)[1 .. k - 1]
BY Zenon DEF LineStart, MapThenSumSet, MapThenFoldSet, WeightOf, Weighs

(* What it means to be such a sum, said once with the terms as a function. *)
LEMMA WeighsSums ==
  ASSUME NEW ls, NEW m, NEW f
  PROVE  Weighs(ls, m, f) <=> Sums(f, Weights(ls, m))
<1> DEFINE D == 1 .. m
           g == Weights(ls, m)
           p == [T \in SUBSET D |-> IF T = {} THEN 0 ELSE (BytesOf(ls[Some(T)]) + 1) + f[T \ {Some(T)}]]
           q == [T \in SUBSET D |-> IF T = {} THEN 0 ELSE g[Some(T)] + f[T \ {Some(T)}]]
<1>1. DOMAIN g = D /\ \A i \in D : g[i] = BytesOf(ls[i]) + 1
  BY DEF Weights
<1> HIDE DEF g, D
<1>2. \A T \in SUBSET D : T # {} => Some(T) \in D
  BY DEF Some
<1>3. \A T \in SUBSET D : (IF T = {} THEN 0 ELSE g[Some(T)] + f[T \ {Some(T)}])
                        = (IF T = {} THEN 0 ELSE (BytesOf(ls[Some(T)]) + 1) + f[T \ {Some(T)}])
  BY <1>1, <1>2, Zenon
<1>4. p = q
  BY <1>3, Zenon
<1>5. Weighs(ls, m, f) <=> f = p
  BY Zenon DEF Weighs, Some, D
<1>6. Sums(f, g) <=> f = q
  BY <1>1, Zenon DEF Sums
<1> QED BY <1>4, <1>5, <1>6 DEF g

(* There is one, and it does not matter which line is taken first.         *)
Adds(ls, m, f) ==
  /\ f[{}] = 0 /\ \A T \in SUBSET (1 .. m) : f[T] \in Int
  /\ \A T \in SUBSET (1 .. m) : \A x \in T : f[T] = (BytesOf(ls[x]) + 1) + f[T \ {x}]
(* What the weight of the lines so far comes to.                            *)
LEMMA WeightIs ==
  ASSUME NEW C, NEW ls \in Seq(Seq(C)), NEW m \in 0 .. Len(ls)
  PROVE  Adds(ls, m, WeightOf(ls, m))
<1> DEFINE D == 1 .. m
           g == Weights(ls, m)
           f == WeightOf(ls, m)
<1>1. m \in Nat /\ \A k \in D : k \in 1 .. Len(ls)
  OBVIOUS
<1>2. IsFiniteSet(D)
  BY <1>1, FS_Interval
<1>3. \A k \in D : BytesOf(ls[k]) \in Nat
  <2> TAKE k \in D
  <2>1. ls[k] \in Seq(C)
    BY <1>1
  <2>2. Len(ls[k]) <= Len(ls[k])
    BY <2>1
  <2> QED BY <2>1, <2>2, BytesGrow
<1>4. g \in [D -> Int] /\ \A k \in D : g[k] = BytesOf(ls[k]) + 1
  BY <1>3 DEF Weights
<1>5. PICK h : Sums(h, g)
  <2> HIDE DEF g, D
  <2> QED BY <1>2, <1>4, SumExists
<1>6. Weighs(ls, m, h)
  BY <1>5, WeighsSums
<1>7. Weighs(ls, m, f)
  BY <1>6, Zenon DEF WeightOf
<1>8. Sums(f, g)
  BY <1>7, WeighsSums
<1> HIDE DEF g, f, D
<1>9. f[{}] = 0 /\ \A T \in SUBSET D : f[T] \in Int /\ AnyFirst(f, g, T)
  BY <1>2, <1>4, <1>8, SumAny
<1>10. \A T \in SUBSET D : \A x \in T : f[T] = (BytesOf(ls[x]) + 1) + f[T \ {x}]
  BY <1>4, <1>9 DEF AnyFirst
<1>11. Adds(ls, m, f)
  BY <1>9, <1>10 DEF Adds, D
<1> QED BY <1>11 DEF f

(* A line more does not change the sums of those before.                   *)
LEMMA WeightAlike ==
  ASSUME NEW C, NEW ls \in Seq(Seq(C)), NEW m \in Nat, m + 1 <= Len(ls)
  PROVE  \A T \in SUBSET (1 .. m) : WeightOf(ls, m)[T] = WeightOf(ls, m + 1)[T]
<1> DEFINE D == 1 .. m
           f == WeightOf(ls, m)
           h == WeightOf(ls, m + 1)
           Q == {T \in SUBSET D : f[T] = h[T]}
<1>1. m \in 0 .. Len(ls) /\ m + 1 \in 0 .. Len(ls) /\ D \subseteq 1 .. m + 1
  OBVIOUS
<1>2. f[{}] = 0 /\ \A T \in SUBSET D : \A x \in T : f[T] = (BytesOf(ls[x]) + 1) + f[T \ {x}]
  <2>1. Adds(ls, m, f)
    BY <1>1, WeightIs, Zenon
  <2> HIDE DEF f
  <2> QED BY <2>1 DEF Adds
<1>3. h[{}] = 0 /\ \A T \in SUBSET (1 .. m + 1) : \A x \in T : h[T] = (BytesOf(ls[x]) + 1) + h[T \ {x}]
  <2>1. Adds(ls, m + 1, h)
    BY <1>1, WeightIs, Zenon
  <2> HIDE DEF h
  <2> QED BY <2>1 DEF Adds
<1>4. IsFiniteSet(D)
  BY FS_Interval
<1> HIDE DEF f, h, D
<1>5. {} \in Q
  BY <1>2, <1>3
<1>6. ASSUME NEW T \in SUBSET D, T # {}, \A x \in T : T \ {x} \in Q PROVE T \in Q
  <2>1. PICK x \in T : TRUE
    BY <1>6
  <2>2. f[T \ {x}] = h[T \ {x}]
    BY <1>6, <2>1
  <2>3. f[T] = (BytesOf(ls[x]) + 1) + f[T \ {x}]
    BY <1>2, <2>1
  <2>4. h[T] = (BytesOf(ls[x]) + 1) + h[T \ {x}]
    BY <1>1, <1>3, <2>1
  <2> QED BY <2>2, <2>3, <2>4
<1> HIDE DEF Q
<1>7. SUBSET D \subseteq Q
  BY <1>4, <1>5, <1>6, SizedInduction
<1> QED BY <1>7 DEF Q, D, f, h

(* A line starts one byte behind the last of the line before it.           *)
LEMMA StartNext ==
  ASSUME NEW C, NEW ls \in Seq(Seq(C)), NEW k \in 1 .. Len(ls)
  PROVE  LineStart(ls, k + 1) = LineStart(ls, k) + BytesOf(ls[k]) + 1 /\ LineStart(ls, k) \in Int
<1> DEFINE m == k - 1
           f == WeightOf(ls, k)
           w == BytesOf(ls[k])
<1>1. /\ k \in Nat /\ m \in Nat /\ m + 1 = k /\ k \in 0 .. Len(ls) /\ m \in 0 .. Len(ls) /\ m + 1 <= Len(ls)
      /\ (k + 1) - 1 = k
  OBVIOUS
<1>2. w \in Nat
  <2>1. ls[k] \in Seq(C) /\ Len(ls[k]) <= Len(ls[k])
    OBVIOUS
  <2> QED BY <2>1, BytesGrow
<1>3. LineStart(ls, k + 1) = f[1 .. k] /\ LineStart(ls, k) = WeightOf(ls, m)[1 .. m]
  BY <1>1, StartSum
<1>4. k \in 1 .. k /\ (1 .. k) \ {k} = 1 .. m /\ 1 .. k \in SUBSET (1 .. k) /\ 1 .. m \in SUBSET (1 .. m)
  BY <1>1
<1>5. f[1 .. k] = (w + 1) + f[1 .. m]
  <2>0. Adds(ls, k, f)
    BY <1>1, WeightIs, Zenon
  <2> HIDE DEF f
  <2>1. \A T \in SUBSET (1 .. k) : \A x \in T : f[T] = (BytesOf(ls[x]) + 1) + f[T \ {x}]
    BY <2>0 DEF Adds
  <2>2. f[1 .. k] = (BytesOf(ls[k]) + 1) + f[(1 .. k) \ {k}]
    BY <1>4, <2>1
  <2> QED BY <1>4, <2>2
<1>6. f[1 .. m] = WeightOf(ls, m)[1 .. m] /\ WeightOf(ls, m)[1 .. m] \in Int
  <2>1. \A T \in SUBSET (1 .. m) : WeightOf(ls, m)[T] = WeightOf(ls, m + 1)[T]
    BY <1>1, WeightAlike
  <2>2. \A T \in SUBSET (1 .. m) : WeightOf(ls, m)[T] \in Int
    <3>1. Adds(ls, m, WeightOf(ls, m))
      BY <1>1, WeightIs, Zenon
    <3> HIDE DEF m
    <3> QED BY <3>1 DEF Adds
  <2> HIDE DEF m
  <2> QED BY <1>1, <1>4, <2>1, <2>2
<1>7. LineStart(ls, k) = f[1 .. m] /\ f[1 .. m] \in Int
  <2> HIDE DEF f, m
  <2> QED BY <1>3, <1>6
<1>8. LineStart(ls, k + 1) = (w + 1) + f[1 .. m]
  <2> HIDE DEF f, m, w
  <2> QED BY <1>3, <1>5
<1> DEFINE x == f[1 .. m]
<1>9. x \in Int /\ LineStart(ls, k) = x /\ LineStart(ls, k + 1) = (w + 1) + x
  BY <1>7, <1>8, Zenon
<1> HIDE DEF x, w
<1>10. (w + 1) + x = x + w + 1
  BY <1>2, <1>9
<1> QED BY <1>9, <1>10, Zenon DEF w

(* So a line starts behind every byte of the lines before.                 *)
LEMMA StartsRise ==
  ASSUME NEW C, NEW ls \in Seq(Seq(C)), NEW a \in 1 .. Len(ls), NEW b \in 1 .. Len(ls), a < b
  PROVE  LineStart(ls, a) + BytesOf(ls[a]) < LineStart(ls, b) /\ LineStart(ls, a) \in Int
<1> DEFINE at(k) == LineStart(ls, k)
           w == BytesOf(ls[a])
           S == {d \in Nat : a + 1 + d <= Len(ls) => at(a) + w < at(a + 1 + d)}
<1>1. \A k \in 1 .. Len(ls) : at(k + 1) = at(k) + BytesOf(ls[k]) + 1 /\ at(k) \in Int
  BY StartNext
<1>2. \A k \in 1 .. Len(ls) : BytesOf(ls[k]) \in Nat
  <2> TAKE k \in 1 .. Len(ls)
  <2>1. ls[k] \in Seq(C) /\ Len(ls[k]) <= Len(ls[k])
    OBVIOUS
  <2> QED BY <2>1, BytesGrow
<1>3. Len(ls) \in Nat
  OBVIOUS
<1> HIDE DEF at
<1>4. 0 \in S
  <2>1. a + 1 + 0 = a + 1 /\ at(a + 1) = at(a) + w + 1 /\ at(a) \in Int /\ w \in Nat
    BY <1>1, <1>2
  <2> HIDE DEF w
  <2> QED BY <2>1
<1>5. ASSUME NEW d \in Nat, d \in S PROVE d + 1 \in S
  <2> SUFFICES ASSUME a + 1 + (d + 1) <= Len(ls) PROVE at(a) + w < at(a + 1 + (d + 1))
    OBVIOUS
  <2> DEFINE e == a + 1 + d
  <2>1. e \in 1 .. Len(ls) /\ a + 1 + (d + 1) = e + 1 /\ a + 1 + d <= Len(ls)
    BY <1>3
  <2>2. at(a) + w < at(e)
    BY <1>5, <2>1
  <2> HIDE DEF e
  <2>3. at(e + 1) = at(e) + BytesOf(ls[e]) + 1 /\ at(e) \in Int /\ BytesOf(ls[e]) \in Nat
    BY <1>1, <1>2, <2>1
  <2>4. at(a) \in Int /\ w \in Nat
    BY <1>1, <1>2
  <2> HIDE DEF w
  <2>5. at(a) + w < at(e + 1)
    BY <2>2, <2>3, <2>4
  <2> QED BY <2>1, <2>5
<1> HIDE DEF S
<1>6. Nat \subseteq S
  BY <1>4, <1>5, NatSetInduction
<1> DEFINE d == b - (a + 1)
<1>7. d \in Nat /\ a + 1 + d = b
  BY <1>3
<1>8. at(a) + w < at(b)
  <2> HIDE DEF d
  <2>1. d \in S
    BY <1>6, <1>7
  <2>2. a + 1 + d <= Len(ls)
    BY <1>7
  <2>3. at(a) + w < at(a + 1 + d)
    BY <2>1, <2>2, Zenon DEF S
  <2> QED BY <1>7, <2>3
<1> QED BY <1>1, <1>8 DEF at, w

(* Where a rune of a line stands in the file, in bytes. *)
Where(ls, k, c) == LineStart(ls, k) + BytesOf(Part(LineText(ls, k), 1, c))

(* A text has bytes. *)
LEMMA BytesNat ==
  ASSUME NEW C, NEW s \in Seq(C)
  PROVE  BytesOf(s) \in Nat
<1>1. Len(s) <= Len(s) /\ \A i \in 1 .. Len(s) : s[i] = s[i]
  OBVIOUS
<1> QED BY <1>1, BytesGrow

(* The beginning of a text, and its bytes. *)
LEMMA BeginningBytes ==
  ASSUME NEW C, NEW t \in Seq(C), NEW c \in 0 .. Len(t)
  PROVE  /\ Part(t, 1, c) \in Seq(C) /\ Len(Part(t, 1, c)) = c /\ \A i \in 1 .. c : Part(t, 1, c)[i] = t[i]
         /\ BytesOf(Part(t, 1, c)) \in Nat /\ BytesOf(Part(t, 1, c)) <= BytesOf(t)
<1>1. Part(t, 1, c) \in Seq(C) /\ Len(Part(t, 1, c)) = c /\ \A i \in 1 .. c : Part(t, 1, c)[i] = t[i]
  BY StartsWith DEF Part
<1> DEFINE s == Part(t, 1, c)
<1> HIDE DEF s
<1>2. s \in Seq(C) /\ Len(s) = c /\ \A i \in 1 .. Len(s) : s[i] = t[i]
  BY <1>1 DEF s
<1>3. Len(s) <= Len(t)
  BY <1>2
<1>4. BytesOf(s) \in Nat /\ BytesOf(s) <= BytesOf(t)
  BY <1>2, <1>3, BytesGrow
<1> QED BY <1>1, <1>4 DEF s

(* Where a line starts is a number. *)
LEMMA WhereInt ==
  ASSUME NEW C, NEW ls \in Seq(Seq(C)), NEW k \in 1 .. Len(ls), NEW c \in 0 .. Len(LineText(ls, k))
  PROVE  Where(ls, k, c) \in Int
<1>1. LineText(ls, k) \in Seq(C)
  BY LineTextIs
<1>2. BytesOf(Part(LineText(ls, k), 1, c)) \in Nat
  BY <1>1, BeginningBytes
<1>3. LineStart(ls, k) \in Int
  BY StartNext
<1> QED BY <1>2, <1>3 DEF Where

(* The offsets of a line's runes rise. *)
LEMMA WhereRises ==
  ASSUME NEW C, NEW ls \in Seq(Seq(C)), NEW k \in 1 .. Len(ls),
         NEW c \in 0 .. Len(LineText(ls, k)), NEW d \in 0 .. Len(LineText(ls, k)), c < d
  PROVE  Where(ls, k, c) < Where(ls, k, d)
<1> DEFINE t == LineText(ls, k)
           u == Part(t, 1, c)
           v == Part(t, 1, d)
<1>1. t \in Seq(C)
  BY LineTextIs
<1>2. c \in 0 .. Len(t) /\ d \in 0 .. Len(t)
  OBVIOUS
<1> HIDE DEF t
<1>3. u \in Seq(C) /\ Len(u) = c /\ \A i \in 1 .. c : u[i] = t[i]
  BY <1>1, <1>2, BeginningBytes
<1>4. v \in Seq(C) /\ Len(v) = d /\ \A i \in 1 .. d : v[i] = t[i]
  BY <1>1, <1>2, BeginningBytes
<1> HIDE DEF u, v
<1>5. Len(u) <= Len(v) /\ Len(u) < Len(v) /\ \A i \in 1 .. Len(u) : u[i] = v[i]
  <2>1. c \in Nat /\ d \in Nat /\ c < d /\ \A i \in 1 .. c : i \in 1 .. d
    BY <1>2
  <2>2. \A i \in 1 .. c : u[i] = v[i]
    BY <1>3, <1>4, <2>1
  <2> QED BY <1>3, <1>4, <2>1, <2>2
<1>6. BytesOf(u) \in Nat /\ BytesOf(v) \in Nat /\ BytesOf(u) < BytesOf(v)
  BY <1>3, <1>4, <1>5, BytesGrow
<1>7. LineStart(ls, k) \in Int
  BY StartNext
<1> QED BY <1>6, <1>7 DEF Where, u, v, t

(* And those of a line come before those of the next ones.                 *)
LEMMA WhereLater ==
  ASSUME NEW C, NEW ls \in Seq(Seq(C)), NEW a \in 1 .. Len(ls), NEW b \in 1 .. Len(ls), a < b,
         NEW c \in 0 .. Len(LineText(ls, a)), NEW d \in 0 .. Len(LineText(ls, b))
  PROVE  Where(ls, a, c) < Where(ls, b, d)
<1> DEFINE t == LineText(ls, a)
           u == Part(t, 1, c)
           v == Part(LineText(ls, b), 1, d)
           s == ls[a]
<1>1. t \in Seq(C) /\ Len(t) <= Len(s) /\ \A i \in 1 .. Len(t) : t[i] = s[i]
  BY LineTextIs
<1>2. LineText(ls, b) \in Seq(C)
  BY LineTextIs
<1>3. BytesOf(v) \in Nat
  BY <1>2, BeginningBytes
<1>4. s \in Seq(C)
  OBVIOUS
<1>5. c \in 0 .. Len(t)
  OBVIOUS
<1>6. LineStart(ls, a) + BytesOf(s) < LineStart(ls, b) /\ LineStart(ls, a) \in Int
  BY StartsRise
<1>7. LineStart(ls, b) \in Int
  BY StartNext
<1> HIDE DEF t, s
<1>8. BytesOf(u) \in Nat /\ BytesOf(u) <= BytesOf(t)
  BY <1>1, <1>5, BeginningBytes
<1>9. BytesOf(t) \in Nat /\ BytesOf(s) \in Nat /\ BytesOf(t) <= BytesOf(s)
  BY <1>1, <1>4, BytesGrow
<1> HIDE DEF u, v
<1>10. LineStart(ls, a) + BytesOf(u) < LineStart(ls, b) + BytesOf(v)
  <2> DEFINE at == LineStart(ls, a)
             to == LineStart(ls, b)
             ub == BytesOf(u)
             vb == BytesOf(v)
             tb == BytesOf(t)
             sb == BytesOf(s)
  <2>1. /\ at \in Int /\ to \in Int /\ at + sb < to
        /\ ub \in Nat /\ vb \in Nat /\ tb \in Nat /\ sb \in Nat /\ ub <= tb /\ tb <= sb
    BY <1>3, <1>6, <1>7, <1>8, <1>9
  <2> HIDE DEF at, to, ub, vb, tb, sb
  <2>2. at + ub < to + vb
    BY <2>1
  <2> QED BY <2>2 DEF at, to, ub, vb
<1> QED BY <1>10, Zenon DEF Where, u, v, t

(* Sub takes a part of a line.                                             *)
Underlines(ls, span, k, c, wid) ==
  /\ span.start.line = k /\ span.start.col = c + 1 /\ span.start.offset = Where(ls, k, c)
  /\ span.end.line = k /\ span.end.col = c + 1 + wid
  /\ span.end.offset \in Int /\ span.start.offset <= span.end.offset
(* What it takes starts and ends where it was cut.                          *)
LEMMA SubMarks ==
  ASSUME NEW C, NEW ls \in Seq(Seq(C)), NEW k \in 1 .. Len(ls), NEW c \in 0 .. Len(LineText(ls, k)),
         NEW wid \in Nat
  PROVE  Underlines(ls, Sub(ls, LineSpan(ls, k), c, wid), k, c, wid)
<1> DEFINE t == LineText(ls, k)
           s == LineSpan(ls, k)
           at == s.start.col - 1 + c
           covered == IF at + wid <= Len(t) THEN BytesOf(SubSeq(t, at + 1, at + wid)) ELSE 0
           skipped == BytesOf(SubSeq(t, s.start.col, at))
           start == Pos(s.start.offset + skipped, s.start.line, s.start.col + c)
           r == Sub(ls, s, c, wid)
<1>1. t \in Seq(C) /\ c \in 0 .. Len(t) /\ Len(t) \in Nat
  BY LineTextIs
<1>2. s.start.offset = LineStart(ls, k) /\ s.start.line = k /\ s.start.col = 1
  BY DEF LineSpan, Span, Pos
<1>3. LineStart(ls, k) \in Int
  BY StartNext
<1> HIDE DEF s
<1>4. r = IF at > Len(t) THEN s ELSE Span(start, Pos(start.offset + covered, start.line, start.col + wid))
  BY <1>2, Zenon DEF Sub
<1>5. at = c /\ ~(at > Len(t))
  BY <1>1, <1>2
<1>6. covered \in Nat
  <2>1. CASE at + wid <= Len(t)
    <3> DEFINE u == SubSeq(t, at + 1, at + wid)
    <3>1. at + 1 \in Nat /\ at + wid \in Nat /\ 1 <= at + 1
      BY <1>1, <1>5
    <3> HIDE DEF t, at
    <3>2. u \in Seq(C)
      BY <1>1, <2>1, <3>1, PartOf
    <3> HIDE DEF u
    <3>3. BytesOf(u) \in Nat
      BY <3>2, BytesNat
    <3> QED BY <2>1, <3>3 DEF u
  <2>2. CASE ~(at + wid <= Len(t))
    BY <2>2
  <2> QED BY <2>1, <2>2
<1>7. skipped = BytesOf(Part(t, 1, c))
  BY <1>2, <1>5 DEF Part
<1>8. BytesOf(Part(t, 1, c)) \in Nat
  BY <1>1, BeginningBytes
<1> DEFINE end == Pos(start.offset + covered, start.line, start.col + wid)
<1>9. r = Span(start, end)
  BY <1>4, <1>5
<1> HIDE DEF r, covered, skipped, t, at
<1>10. start.offset = LineStart(ls, k) + skipped /\ start.line = k /\ start.col = 1 + c
  BY <1>2 DEF Pos
<1>11. start.offset = Where(ls, k, c)
  BY <1>7, <1>10, Zenon DEF Where, t
<1>12. start.offset \in Int
  BY <1>3, <1>7, <1>8, <1>10
<1>13. start.col = c + 1
  BY <1>1, <1>10
<1> HIDE DEF start
<1>14. end.offset = start.offset + covered /\ end.line = k /\ end.col = c + 1 + wid
  BY <1>10, <1>13 DEF Pos
<1> HIDE DEF end
<1>15. r.start = start /\ r.end = end
  BY <1>9 DEF Span
<1>16. end.offset \in Int /\ start.offset <= end.offset
  BY <1>6, <1>12, <1>14
<1>17. Underlines(ls, r, k, c, wid)
  BY <1>10, <1>11, <1>13, <1>14, <1>15, <1>16 DEF Underlines
<1> QED BY <1>17 DEF r, s

(* A whole line.                                                           *)
LEMMA LineMarks ==
  ASSUME NEW C, NEW ls \in Seq(Seq(C)), NEW k \in 1 .. Len(ls)
  PROVE  Underlines(ls, LineSpan(ls, k), k, 0, Len(LineText(ls, k)))
<1> DEFINE t == LineText(ls, k)
           s == LineSpan(ls, k)
           at == LineStart(ls, k)
           z == Part(t, 1, 0)
<1>1. t \in Seq(C) /\ Len(t) \in Nat
  BY LineTextIs
<1>2. at \in Int
  BY StartNext
<1>3. BytesOf(t) \in Nat
  BY <1>1, BytesNat
<1> HIDE DEF t
<1>4. z = <<>>
  <2>1. 0 \in 0 .. Len(t)
    BY <1>1
  <2>2. z \in Seq(C) /\ Len(z) = 0
    BY <1>1, <2>1, BeginningBytes
  <2> HIDE DEF z
  <2> QED BY <2>2
<1> HIDE DEF z
<1>5. BytesOf(z) = 0
  <2>1. {i \in DOMAIN z : z[i] \in TwoBytes} = {} /\ Len(z) = 0
    BY <1>4
  <2> QED BY <2>1, FS_EmptySet DEF BytesOf
<1>6. Where(ls, k, 0) = at
  <2>1. Where(ls, k, 0) = at + BytesOf(z)
    BY Zenon DEF Where, z, t
  <2> QED BY <1>2, <1>5, <2>1
<1>7. s = Span(Pos(at, k, 1), Pos(at + BytesOf(t), k, Len(t) + 1))
  BY Zenon DEF LineSpan, t
<1> HIDE DEF s, at
<1>8. /\ s.start.line = k /\ s.start.col = 1 /\ s.start.offset = at
      /\ s.end.line = k /\ s.end.col = Len(t) + 1 /\ s.end.offset = at + BytesOf(t)
  BY <1>7 DEF Span, Pos
<1>9. 0 + 1 = 1 /\ 0 + 1 + Len(t) = Len(t) + 1 /\ at + BytesOf(t) \in Int /\ at <= at + BytesOf(t)
  BY <1>1, <1>2, <1>3 DEF at
<1>10. Underlines(ls, s, k, 0, Len(t))
  BY <1>6, <1>8, <1>9 DEF Underlines, at
<1> QED BY <1>10 DEF s, t

(* The carets under a part of a line, as many as there is room for.        *)
Covers(t, span, k, c, wid) ==
  /\ span.start.line = k /\ span.start.col = c + 1
  /\ IF span.end.line = k THEN span.end.col = c + 1 + wid ELSE wid = Len(t) - c
(* They begin under its first column.                                       *)
LEMMA CaretsAre ==
  ASSUME NEW C, NEW ls \in Seq(Seq(C)), NEW k \in 1 .. Len(ls), NEW c \in Nat, c < Len(LineText(ls, k)),
         NEW wid \in Nat \ {0}, NEW span, Covers(LineText(ls, k), span, k, c, wid)
  PROVE  /\ Len(Carets(ls, span).lead) = c
         /\ Carets(ls, span).width = IF wid <= Len(LineText(ls, k)) - c THEN wid ELSE Len(LineText(ls, k)) - c
<1> DEFINE t == LineText(ls, k)
           room == Len(t) - span.start.col + 1
           wanted == IF span.end.line # span.start.line THEN room ELSE span.end.col - span.start.col
           got == Min({wanted, room})
           m == Min({span.start.col - 1, Len(t)})
           lead == [i \in 1 .. m |-> IF t[i] = "tab" THEN "tab" ELSE " "]
           w == IF wid <= room THEN wid ELSE room
<1>1. t \in Seq(C) /\ Len(t) \in Nat /\ c < Len(t)
  BY LineTextIs
<1>3. /\ span.start.line = k /\ span.start.col = c + 1
      /\ (span.end.line = k => span.end.col = c + 1 + wid) /\ (span.end.line # k => wid = Len(t) - c)
  BY DEF Covers
<1>2. Carets(ls, span) = [lead |-> lead, width |-> Max({1, got})]
  BY <1>3, Zenon DEF Carets
<1> HIDE DEF t
<1>4. room = Len(t) - c /\ span.start.col - 1 = c /\ room \in Nat /\ room >= 1
  <2> DEFINE all == Len(t)
             col == span.start.col
  <2>1. all \in Nat /\ c < all /\ col = c + 1
    BY <1>1, <1>3
  <2> HIDE DEF all, col
  <2>2. all - col + 1 = all - c /\ col - 1 = c /\ all - c \in Nat /\ all - c >= 1
    BY <2>1
  <2> QED BY <2>2, Zenon DEF all, col
<1>5. wanted = wid
  <2>1. CASE span.end.line = k
    <3>1. wanted = span.end.col - span.start.col
      BY <1>3, <2>1
    <3>2. span.end.col - span.start.col = (c + 1 + wid) - (c + 1)
      BY <1>3, <2>1
    <3>3. (c + 1 + wid) - (c + 1) = wid
      OBVIOUS
    <3> QED BY <3>1, <3>2, <3>3
  <2>2. CASE span.end.line # k
    <3>1. wanted = room
      BY <1>3, <2>2
    <3> QED BY <1>3, <1>4, <2>2, <3>1
  <2> QED BY <2>1, <2>2
<1>6. m = c
  <2>1. c <= Len(t) /\ c \in Int /\ Len(t) \in Int
    BY <1>1
  <2>2. Min({c, Len(t)}) = c
    BY <2>1, MinOf
  <2> QED BY <1>4, <2>2
<1> HIDE DEF wanted, room, m
<1>7. got = w
  <2>1. CASE wid <= room
    <3>1. wid \in Int /\ room \in Int
      BY <1>4
    <3>2. Min({wid, room}) = wid
      BY <2>1, <3>1, MinOf
    <3> QED BY <1>5, <2>1, <3>2
  <2>2. CASE ~(wid <= room)
    <3>1. wid \in Int /\ room \in Int /\ room <= wid /\ {wid, room} = {room, wid}
      BY <1>4, <2>2
    <3>2. Min({room, wid}) = room
      BY <3>1, MinOf
    <3> QED BY <1>5, <2>2, <3>1, <3>2
  <2> QED BY <2>1, <2>2
<1>8. w \in Nat /\ 1 <= w
  BY <1>4
<1> HIDE DEF got, w
<1>9. Max({1, got}) = w
  <2>1. 1 \in Int /\ w \in Int
    BY <1>8
  <2>2. Max({1, w}) = w
    BY <1>8, <2>1, MaxOf
  <2> QED BY <1>7, <2>2
<1>10. Len(lead) = c
  BY <1>6
<1> HIDE DEF lead
<1>11. Len(Carets(ls, span).lead) = c /\ Carets(ls, span).width = w
  BY <1>2, <1>9, <1>10
<1> QED BY <1>4, <1>11 DEF w, t

(* What rises from each place to the next rises from any to any later one. *)
LEMMA RisesAll ==
  ASSUME NEW last \in Nat, NEW f, \A i \in 1 .. last : f[i] \in Int,
         \A i \in 1 .. last - 1 : f[i] < f[i + 1]
  PROVE  \A a, b \in 1 .. last : a < b => f[a] < f[b]
<1> SUFFICES ASSUME NEW a \in 1 .. last, NEW b \in 1 .. last, a < b PROVE f[a] < f[b]
  OBVIOUS
<1> DEFINE S == {d \in Nat : a + 1 + d <= last => f[a] < f[a + 1 + d]}
<1>1. 0 \in S
  <2>1. a \in 1 .. last - 1 /\ a + 1 + 0 = a + 1
    OBVIOUS
  <2>2. f[a] < f[a + 1]
    BY <2>1
  <2> QED BY <2>1, <2>2
<1>2. ASSUME NEW d \in Nat, d \in S PROVE d + 1 \in S
  <2> SUFFICES ASSUME a + 1 + (d + 1) <= last PROVE f[a] < f[a + 1 + (d + 1)]
    OBVIOUS
  <2> DEFINE e == a + 1 + d
  <2>1. e \in 1 .. last - 1 /\ e \in 1 .. last /\ e + 1 \in 1 .. last /\ e <= last /\ a + 1 + (d + 1) = e + 1
    OBVIOUS
  <2>2. f[a] < f[e]
    BY <1>2, <2>1
  <2> HIDE DEF e
  <2>3. f[e] < f[e + 1] /\ f[a] \in Int /\ f[e] \in Int /\ f[e + 1] \in Int
    BY <2>1
  <2>4. f[a] < f[e + 1]
    BY <2>2, <2>3
  <2> QED BY <2>1, <2>4
<1> HIDE DEF S
<1>3. Nat \subseteq S
  BY <1>1, <1>2, NatSetInduction
<1> DEFINE d == b - (a + 1)
<1>4. d \in Nat /\ a + 1 + d = b /\ b <= last
  OBVIOUS
<1> HIDE DEF d
<1>5. d \in S
  BY <1>3, <1>4
<1>6. a + 1 + d <= last
  BY <1>4
<1>7. f[a] < f[a + 1 + d]
  BY <1>5, <1>6 DEF S
<1> QED BY <1>4, <1>7

(* A logical line of the file that is read. *)
OnFile(l) ==
  /\ lines \in Seq(Seq(STRING)) /\ file = Measured(lines)
  /\ Sound(l) /\ Built(file, l) /\ Ascending(l, n)

(* Its text, rune by rune. *)
LEMMA TextAt ==
  ASSUME NEW l, NEW C, l.text \in Seq(C), NEW i \in 1 .. Len(l.text)
  PROVE  Text(l)[i] = IF l.text[i] = Gap THEN Blank ELSE LineText(lines, l.text[i][1])[l.text[i][2]]
<1>1. i \in DOMAIN l.text
  OBVIOUS
<1> QED BY <1>1, Zenon DEF Text, Blank

(* A piece of it is a part of a line, rune by rune, with a blank behind.   *)
PieceOn(l, p) ==
  /\ p.line \in 1 .. Len(lines) /\ p.col \in Nat \ {0} /\ p.len \in Nat \ {0} /\ p.start \in Nat
  /\ LineText(lines, p.line) \in Seq(STRING) /\ p.col - 1 + p.len <= Len(LineText(lines, p.line))
  /\ p.start + p.len <= Len(l.text) /\ Len(l.text) \in Nat
  /\ \A d \in 0 .. p.len - 1 : /\ l.text[p.start + d + 1] = <<p.line, p.col + d>>
                               /\ Text(l)[p.start + d + 1] = LineText(lines, p.line)[p.col + d]
  /\ p.start + p.len < Len(l.text) => Text(l)[p.start + p.len + 1] = Blank
(* Every piece of a line of the file is.                                    *)
LEMMA PieceIs ==
  ASSUME NEW l, OnFile(l), NEW q \in 1 .. Len(l.pieces)
  PROVE  PieceOn(l, l.pieces[q]) /\ Len(l.pieces) \in Nat /\ l.text \in Seq(Rune)
<1> DEFINE p == l.pieces[q]
           k == p.line
           t == LineText(lines, k)
           len == Len(l.text)
           last == Len(l.pieces)
<1>1. l \in LogicalLine /\ Located(l) /\ len \in Nat /\ last \in Nat /\ l.text \in Seq(Rune)
  BY DEF OnFile, Sound, LogicalLine
<1>2. p \in APiece
  BY <1>1 DEF LogicalLine
<1>3. p.start \in Nat /\ p.len \in Nat /\ p.col \in Nat
  BY <1>2 DEF APiece
<1>4. OfLine(file, p)
  BY DEF OnFile, Built
<1>5. k \in 1 .. Len(lines) /\ file[k] = Measure(t)
  <2>1. lines \in Seq(Seq(STRING)) /\ file = Measured(lines)
    BY DEF OnFile
  <2>2. Len(Measured(lines)) = Len(lines) /\ \A j \in 1 .. Len(lines) : Measured(lines)[j] = Measure(LineText(lines, j))
    BY <2>1, MeasuredIs
  <2>3. k \in 1 .. Len(file)
    BY <1>4 DEF OfLine
  <2> HIDE DEF k
  <2> QED BY <2>1, <2>2, <2>3
<1>6. t \in Seq(STRING) /\ Len(t) \in Nat
  BY <1>5, LineTextIs DEF OnFile
<1>7. p.len = Len(Content(t)) /\ p.col = Indent(t) + 1 /\ p.len > 0
  <2>1. p.len = file[k].len /\ p.len > 0 /\ p.col = file[k].indent + 1
    BY <1>4 DEF OfLine
  <2>2. Measure(t).indent = Indent(t) /\ Measure(t).len = Len(Content(t))
    BY <1>6, MeasureIs
  <2> QED BY <1>5, <2>1, <2>2
<1>8. Indent(t) + Len(Content(t)) <= Len(t) /\ Indent(t) \in Nat
  BY <1>6, ContentIs, IndentIs
<1>9. p.col - 1 + p.len <= Len(t) /\ p.col \in Nat \ {0} /\ p.len \in Nat \ {0}
  BY <1>3, <1>7, <1>8
<1>10. p.start + p.len <= len
  BY <1>1 DEF Located
<1> HIDE DEF p
<1>11. ASSUME NEW d \in 0 .. p.len - 1
       PROVE  /\ l.text[p.start + d + 1] = <<p.line, p.col + d>>
              /\ Text(l)[p.start + d + 1] = t[p.col + d]
  <2> DEFINE i == p.start + d + 1
  <2>1. l.text[i] = <<k, p.col + d>>
    BY <1>1 DEF Located, p
  <2>2. i \in 1 .. len
    BY <1>1, <1>3, <1>10
  <2> HIDE DEF i, k
  <2>3. Text(l)[i] = IF l.text[i] = Gap THEN Blank ELSE LineText(lines, l.text[i][1])[l.text[i][2]]
    BY <1>1, <2>2, TextAt
  <2>4. l.text[i] # Gap /\ l.text[i][1] = k /\ l.text[i][2] = p.col + d
    BY <1>5, <2>1 DEF Gap
  <2> QED BY <2>1, <2>3, <2>4 DEF i, k
<1>12. ASSUME p.start + p.len < len PROVE Text(l)[p.start + p.len + 1] = Blank
  <2> DEFINE i == p.start + p.len + 1
  <2>1. i \in 1 .. len
    BY <1>1, <1>3, <1>12
  <2>2. q # last
    BY <1>3, <1>12 DEF OnFile, Built, Abut, LastPiece, p
  <2>3. q \in 1 .. last - 1
    BY <1>1, <2>2
  <2>4. l.pieces[q + 1].start = i /\ l.text[l.pieces[q + 1].start] = Gap
    BY <2>3 DEF OnFile, Built, Abut, p
  <2> HIDE DEF i
  <2>5. Text(l)[i] = IF l.text[i] = Gap THEN Blank ELSE LineText(lines, l.text[i][1])[l.text[i][2]]
    BY <1>1, <2>1, TextAt
  <2> QED BY <2>4, <2>5 DEF i
<1> HIDE DEF t, len
<1>13. PieceOn(l, p)
  BY <1>1, <1>3, <1>5, <1>6, <1>9, <1>10, <1>11, <1>12 DEF PieceOn, t, k, len
<1> QED BY <1>1, <1>13 DEF p, last

(* The piece that holds an offset, and the column it stands at.            *)
InPiece(p, off) == p.start <= off /\ off < p.start + p.len
Column(p, off) == p.col - 1 + (off - p.start)
Reach(p, off, len) == IF len <= p.len - (off - p.start) THEN len ELSE p.len - (off - p.start)
(* That column is on the line, and what is taken there stays in the piece.  *)
LEMMA ColumnIs ==
  ASSUME NEW l, NEW p, PieceOn(l, p), NEW off \in Nat, InPiece(p, off), NEW len \in Nat \ {0}
  PROVE  /\ Column(p, off) \in Nat /\ Column(p, off) < Len(LineText(lines, p.line))
         /\ Reach(p, off, len) \in Nat \ {0}
         /\ Column(p, off) + Reach(p, off, len) <= Len(LineText(lines, p.line))
         /\ off + Reach(p, off, len) <= Len(l.text)
<1>1. /\ p.col \in Nat \ {0} /\ p.len \in Nat \ {0} /\ p.start \in Nat
      /\ p.col - 1 + p.len <= Len(LineText(lines, p.line)) /\ Len(LineText(lines, p.line)) \in Nat
      /\ p.start + p.len <= Len(l.text) /\ Len(l.text) \in Nat
  BY DEF PieceOn
<1>2. p.start <= off /\ off < p.start + p.len
  BY DEF InPiece
<1> DEFINE t == Len(LineText(lines, p.line))
           room == p.len - (off - p.start)
           got == Reach(p, off, len)
           c == Column(p, off)
           last == Len(l.text)
<1>3. room \in Nat \ {0}
  BY <1>1, <1>2
<1>4. c \in Nat /\ c + room = p.col - 1 + p.len /\ off + room = p.start + p.len
  <2> DEFINE x == p.start
             y == p.len
             z == p.col
  <2>1. x \in Nat /\ y \in Nat /\ z \in Nat /\ z >= 1 /\ x <= off
    BY <1>1, <1>2
  <2> HIDE DEF x, y, z
  <2>2. z - 1 + (off - x) \in Nat /\ z - 1 + (off - x) + (y - (off - x)) = z - 1 + y /\ off + (y - (off - x)) = x + y
    BY <2>1
  <2> QED BY <2>2 DEF x, y, z, Column
<1>5. got \in Nat \ {0} /\ got <= room
  <2>1. got = IF len <= room THEN len ELSE room
    BY DEF Reach
  <2> HIDE DEF room, got
  <2> QED BY <1>3, <2>1
<1>6. t \in Nat /\ last \in Nat /\ c + room <= t /\ off + room <= last
  <2> HIDE DEF room, c
  <2> QED BY <1>1, <1>4
<1> HIDE DEF room, got, c, t, last
<1>7. c < t /\ c + got <= t /\ off + got <= last
  BY <1>3, <1>4, <1>5, <1>6
<1> QED BY <1>4, <1>5, <1>7 DEF got, c, t, last

(* Some runes of a text, from behind a place on. *)
LEMMA PartIs ==
  ASSUME NEW C, NEW s \in Seq(C), NEW c \in Nat, NEW wid \in Nat, c + wid <= Len(s)
  PROVE  /\ Part(s, c + 1, c + wid) \in Seq(C) /\ Len(Part(s, c + 1, c + wid)) = wid
         /\ \A i \in 1 .. wid : Part(s, c + 1, c + wid)[i] = s[c + i]
<1> DEFINE m == c + 1
           last == c + wid
           t == SubSeq(s, m, last)
           k == IF m <= last THEN last - m + 1 ELSE 0
<1>1. m \in Nat /\ last \in Nat /\ 1 <= m /\ last <= Len(s) /\ k = wid
  OBVIOUS
<1>2. \A i \in 1 .. wid : m + i - 1 = c + i
  OBVIOUS
<1> HIDE DEF m, last
<1>3. t \in Seq(C) /\ Len(t) = k /\ \A i \in 1 .. k : t[i] = s[m + i - 1]
  BY <1>1, PartOf
<1> HIDE DEF t, k
<1>4. \A i \in 1 .. wid : t[i] = s[c + i]
  BY <1>1, <1>2, <1>3
<1> QED BY <1>1, <1>3, <1>4 DEF t, Part, m, last

(* The span of an offset stands where the piece that holds it does.        *)
LEMMA SpanOfIs ==
  ASSUME NEW l, OnFile(l), NEW off \in Nat, off < Len(l.text), l.text[off + 1] # Gap, NEW len \in Nat \ {0}
  PROVE  \E q \in 1 .. Len(l.pieces) :
           LET p == l.pieces[q]
           IN InPiece(p, off) /\ Underlines(lines, SpanOf(l, off, len), p.line, Column(p, off), Reach(p, off, len))
<1> DEFINE H == Holding(l, off)
           q == Min(H)
           p == l.pieces[q]
<1>1. l \in LogicalLine /\ Covered(l) /\ Len(l.text) \in Nat /\ Len(l.pieces) \in Nat
  BY DEF OnFile, Sound, LogicalLine
<1>2. off + 1 \in 1 .. Len(l.text) /\ (off + 1) - 1 = off
  BY <1>1
<1>3. H # {} /\ H \in SUBSET Nat
  <2>1. \E x \in 1 .. Len(l.pieces) :
          l.pieces[x].start <= (off + 1) - 1 /\ (off + 1) - 1 < l.pieces[x].start + l.pieces[x].len
    BY <1>1, <1>2 DEF Covered
  <2> QED BY <1>1, <1>2, <2>1 DEF Holding
<1> HIDE DEF H
<1>4. q \in H
  <2>1. PICK m \in H : \A x \in H : m <= x
    BY <1>3, LeastOf
  <2>2. H \in SUBSET Int
    BY <1>3
  <2>3. q = m
    BY <2>1, <2>2, MinIs
  <2> QED BY <2>1, <2>3
<1>5. q \in 1 .. Len(l.pieces) /\ InPiece(p, off)
  BY <1>4 DEF Holding, H, InPiece
<1>6. PieceOn(l, p)
  BY <1>5, PieceIs
<1>7. SpanOf(l, off, len) = Within(p, off - p.start, len)
  BY <1>3, Zenon DEF SpanOf, H
<1> HIDE DEF p
<1> DEFINE c == Column(p, off)
           r == Reach(p, off, len)
           room == p.len - (off - p.start)
<1>8. p.start \in Nat /\ p.len \in Nat /\ p.col \in Nat /\ p.start <= off /\ off < p.start + p.len
  BY <1>5, <1>6 DEF PieceOn, InPiece
<1>9. /\ c \in Nat /\ c < Len(LineText(lines, p.line)) /\ r \in Nat \ {0}
  BY <1>5, <1>6, ColumnIs
<1>10. room \in Int /\ Min({len, room}) = r
  <2>1. room \in Int
    BY <1>8
  <2>2. r = IF len <= room THEN len ELSE room
    BY DEF Reach
  <2> HIDE DEF room, r
  <2>3. CASE len <= room
    <3>1. Min({len, room}) = len
      BY <2>1, <2>3, MinOf
    <3> QED BY <2>1, <2>2, <2>3, <3>1
  <2>4. CASE ~(len <= room)
    <3>1. room <= len /\ {len, room} = {room, len} /\ len \in Int
      BY <2>1, <2>4
    <3>2. Min({room, len}) = room
      BY <2>1, <3>1, MinOf
    <3> QED BY <2>1, <2>2, <2>4, <3>1, <3>2
  <2> QED BY <2>3, <2>4
<1>11. Max({1, Min({len, room})}) = r
  <2> HIDE DEF r
  <2>1. 1 \in Int /\ r \in Int /\ 1 <= r
    BY <1>9
  <2>2. Max({1, r}) = r
    BY <2>1, MaxOf
  <2> QED BY <1>10, <2>2
<1>12. Within(p, off - p.start, len) = Sub(lines, LineSpan(lines, p.line), c, r)
  BY <1>11, Zenon DEF Within, Column, room
<1> HIDE DEF c, r
<1>13. Underlines(lines, Sub(lines, LineSpan(lines, p.line), c, r), p.line, c, r)
  <2>1. lines \in Seq(Seq(STRING)) /\ p.line \in 1 .. Len(lines)
    BY <1>6 DEF OnFile, PieceOn
  <2>2. Len(LineText(lines, p.line)) \in Nat
    BY <1>6 DEF PieceOn
  <2>3. c \in 0 .. Len(LineText(lines, p.line)) /\ r \in Nat
    BY <1>9, <2>2
  <2> QED BY <2>1, <2>3, SubMarks
<1>14. Underlines(lines, SpanOf(l, off, len), p.line, c, r)
  BY <1>7, <1>12, <1>13, Zenon
<1> QED BY <1>5, <1>14 DEF c, r, p

(* The carets under a part of a line of the file, and what is above them.  *)
LEMMA OpensDrawn ==
  ASSUME lines \in Seq(Seq(STRING)), NEW k \in 1 .. Len(lines), NEW c \in Nat, c < Len(LineText(lines, k)),
         NEW wid \in Nat \ {0}, NEW span, Covers(LineText(lines, k), span, k, c, wid)
  PROVE  LET room == Len(LineText(lines, k)) - c
         IN /\ Len(Carets(lines, span).lead) = c
            /\ Carets(lines, span).width = IF wid <= room THEN wid ELSE room
            /\ wid <= room => Drawn(span) = Part(LineText(lines, k), c + 1, c + wid)
<1> DEFINE t == LineText(lines, k)
           room == Len(t) - c
           carets == Carets(lines, span)
<1>1. t \in Seq(STRING) /\ Len(t) \in Nat
  BY LineTextIs
<1>2. Len(carets.lead) = c
  BY CaretsAre
<1>3. carets.width = IF wid <= room THEN wid ELSE room
  BY CaretsAre
<1>4. LineText(lines, span.start.line) = t
  BY DEF Covers
<1>5. c < Len(t)
  OBVIOUS
<1> HIDE DEF carets, t
<1>6. ASSUME wid <= room PROVE Drawn(span) = Part(t, c + 1, c + wid)
  <2> DEFINE u == Part(t, c + 1, c + wid)
             v == [i \in 1 .. wid |-> t[c + i]]
  <2>1. carets.width = wid
    BY <1>3, <1>6
  <2>2. Drawn(span) = [i \in 1 .. carets.width |-> LineText(lines, span.start.line)[Len(carets.lead) + i]]
    BY DEF Drawn, carets
  <2>3. Drawn(span) = v
    BY <1>2, <1>4, <2>1, <2>2
  <2>4. c + wid <= Len(t) /\ wid \in Nat
    BY <1>1, <1>6
  <2>5. u \in Seq(STRING) /\ Len(u) = wid /\ \A i \in 1 .. wid : u[i] = t[c + i]
    BY <1>1, <2>4, PartIs
  <2> HIDE DEF u
  <2>6. u = v
    <3>1. DOMAIN u = 1 .. wid /\ u = [i \in 1 .. wid |-> u[i]]
      BY <2>5
    <3> QED BY <2>5, <3>1
  <2> QED BY <2>3, <2>6 DEF u
<1> QED BY <1>2, <1>3, <1>6 DEF t, carets

(* A span that starts in a line of the file is placed, and its carets are  *)
(* drawn under what it covers.                                             *)
Opens(span, k, c) == span.start.line = k /\ span.start.col = c + 1 /\ span.start.offset = Where(lines, k, c)
DrawnFrom(span, k, c, wid) ==
  LET room == Len(LineText(lines, k)) - c
  IN /\ Carets(lines, span).width = IF wid <= room THEN wid ELSE room
     /\ wid <= room => Drawn(span) = Part(LineText(lines, k), c + 1, c + wid)
(* Where it starts in a piece of the line, it is and they are.              *)
LEMMA OpensPlaced ==
  ASSUME NEW l, OnFile(l), NEW q \in 1 .. Len(l.pieces),
         NEW c \in Nat, c < Len(LineText(lines, l.pieces[q].line)), NEW wid \in Nat \ {0}, NEW span,
         Opens(span, l.pieces[q].line, c), Covers(LineText(lines, l.pieces[q].line), span, l.pieces[q].line, c, wid)
  PROVE  Placed(l, span) /\ DrawnFrom(span, l.pieces[q].line, c, wid)
<1> DEFINE k == l.pieces[q].line
           t == LineText(lines, k)
           lead == Carets(lines, span).lead
<1>1. PieceOn(l, l.pieces[q]) /\ Len(l.pieces) \in Nat
  BY PieceIs
<1>2. k \in 1 .. Len(lines) /\ lines \in Seq(Seq(STRING))
  BY <1>1 DEF PieceOn, OnFile
<1>3. span.start.line = k /\ span.start.col = c + 1 /\ span.start.offset = Where(lines, k, c)
  BY DEF Opens
<1>4. c < Len(t) /\ Covers(t, span, k, c, wid)
  OBVIOUS
<1>5. q \in DOMAIN l.pieces
  <2>1. l \in LogicalLine
    BY DEF OnFile, Sound
  <2>2. l.pieces \in Seq(APiece)
    BY <2>1 DEF LogicalLine
  <2> QED BY <2>2
<1>6. \E p \in DOMAIN l.pieces : l.pieces[p].line = span.start.line
  BY <1>3, <1>5
<1> HIDE DEF k
<1>7. Len(lead) = c /\ DrawnFrom(span, k, c, wid)
  BY <1>2, <1>4, OpensDrawn DEF DrawnFrom
<1>8. Placed(l, span)
  <2>1. span.start.col - 1 = c
    BY <1>3
  <2>2. span.start.offset = LineStart(lines, k) + BytesOf(SubSeq(t, 1, c))
    BY <1>3, Zenon DEF Where, Part
  <2>3. Len(lead) = span.start.col - 1
    BY <1>7, <2>1
  <2>4. span.start.offset = LineStart(lines, span.start.line) + BytesOf(SubSeq(LineText(lines, span.start.line), 1, span.start.col - 1))
    BY <1>3, <2>1, <2>2
  <2> QED BY <1>6, <2>3, <2>4, Zenon DEF Placed
<1> QED BY <1>7, <1>8 DEF k

(* Within a piece, the line and the logical line have the same text.       *)
LEMMA SameRunes ==
  ASSUME NEW l, NEW C, Text(l) \in Seq(C), Len(Text(l)) = Len(l.text), NEW p, PieceOn(l, p),
         NEW off \in Nat, InPiece(p, off), NEW wid \in Nat, off + wid <= p.start + p.len
  PROVE  Part(LineText(lines, p.line), Column(p, off) + 1, Column(p, off) + wid) = Part(Text(l), off + 1, off + wid)
<1> DEFINE t == LineText(lines, p.line)
           s == Text(l)
           c == Column(p, off)
           u == Part(t, c + 1, c + wid)
           v == Part(s, off + 1, off + wid)
           x == p.start
           y == p.len
           z == p.col
           B == STRING \cup C
<1>1. /\ t \in Seq(STRING) /\ x \in Nat /\ y \in Nat /\ z \in Nat \ {0} /\ z - 1 + y <= Len(t) /\ x + y <= Len(s)
      /\ Len(s) \in Nat
      /\ \A d \in 0 .. y - 1 : s[x + d + 1] = t[z + d]
  BY DEF PieceOn
<1>2. x <= off /\ off < x + y /\ off + wid <= x + y /\ c = z - 1 + (off - x)
  BY DEF InPiece, Column
<1>3. t \in Seq(B) /\ s \in Seq(B)
  BY <1>1, SeqOfMore
<1> HIDE DEF t, s, c, x, y, z, B
<1>4. /\ c \in Nat /\ c + wid <= Len(t) /\ off + wid <= Len(s)
  <2>1. Len(t) \in Nat
    BY <1>1
  <2> QED BY <1>1, <1>2, <2>1
<1>6. u \in Seq(B) /\ Len(u) = wid /\ \A i \in 1 .. wid : u[i] = t[c + i]
  BY <1>3, <1>4, PartIs
<1>7. v \in Seq(B) /\ Len(v) = wid /\ \A i \in 1 .. wid : v[i] = s[off + i]
  BY <1>3, <1>4, PartIs
<1> HIDE DEF u, v
<1>8. ASSUME NEW i \in 1 .. wid PROVE u[i] = v[i]
  <2> DEFINE d == off - x + i - 1
  <2>1. d \in 0 .. y - 1
    BY <1>1, <1>2
  <2>2. c + i = z + d /\ off + i = x + d + 1
    BY <1>1, <1>2
  <2> HIDE DEF d
  <2>3. s[x + d + 1] = t[z + d]
    BY <1>1, <2>1
  <2>4. u[i] = t[z + d]
    BY <1>6, <2>2
  <2>5. v[i] = s[x + d + 1]
    BY <1>7, <2>2
  <2> QED BY <2>3, <2>4, <2>5
<1>9. Len(u) = Len(v) /\ \A i \in 1 .. Len(u) : u[i] = v[i]
  BY <1>6, <1>7, <1>8
<1>10. u = v
  BY <1>6, <1>7, <1>9, SameText
<1> QED BY <1>10 DEF u, v, t, s, c

(* There is no blank in a token. *)
LEMMA TokenSolid ==
  ASSUME NEW s, Len(s) \in Nat, NEW i \in 1 .. Len(s), s[i] \notin Blanks,
         NEW j \in i .. i + TokenLength(s, i) - 1
  PROVE  s[j] \notin Blanks
<1> DEFINE k == KindOf(s, i)
           t == TokenLength(s, i)
           x == Min(Ends(s, i, IdentPart))
           y == Min(Ends(s, i, Figures))
<1>1. t = CASE k = "->" -> 2 [] k = "ident" -> x - i [] k = "number" -> y - i [] OTHER -> 1
  BY DEF TokenLength
<1>2. x \in i + 1 .. Len(s) + 1 /\ \A m \in i + 1 .. x - 1 : s[m] \in IdentPart
  BY EndIs
<1>3. y \in i + 1 .. Len(s) + 1 /\ \A m \in i + 1 .. y - 1 : s[m] \in Figures
  BY EndIs
<1>4. k = "->" => Paired(s, i)
  BY KindTells
<1>5. t \in Nat
  BY TokenLengthIs
<1> HIDE DEF k, t, x, y
<1>6. t = 1 \/ (t = 2 /\ k = "->") \/ t = x - i \/ t = y - i
  BY <1>1, Zenon
<1>7. CASE j = i
  BY <1>7
<1>8. CASE j # i
  <2>1. j \in i + 1 .. i + t - 1 /\ j \in Nat
    BY <1>5, <1>8 DEF t
  <2>2. CASE t = 1
    BY <2>1, <2>2
  <2>3. CASE t = 2 /\ k = "->"
    <3>1. j = i + 1
      BY <2>1, <2>3
    <3>2. s[j] = ">"
      BY <1>4, <2>3, <3>1 DEF Paired
    <3> QED BY <3>2, Zenon DEF Blanks
  <2>4. CASE t = x - i
    <3>1. j \in i + 1 .. x - 1
      BY <1>2, <2>1, <2>4
    <3>2. s[j] \in IdentPart
      BY <1>2, <3>1
    <3> QED BY <3>2, BlanksApart
  <2>5. CASE t = y - i
    <3>1. j \in i + 1 .. y - 1
      BY <1>3, <2>1, <2>5
    <3>2. s[j] \in Figures
      BY <1>3, <3>1
    <3> QED BY <3>2, BlanksApart
  <2> QED BY <1>6, <2>2, <2>3, <2>4, <2>5
<1> QED BY <1>7, <1>8

(* The tokens of a logical line of the file. *)
Tied(l, T, D) == OnFile(l) /\ Laying(Text(l), T, D) /\ Len(Text(l)) = Len(l.text)

(* A token stands in one piece of it.                                      *)
Stands(l, t, q) ==
  LET p == l.pieces[q]
  IN /\ InPiece(p, t.off) /\ t.off + t.len <= p.start + p.len
     /\ Underlines(lines, TokenSpan(l, t), p.line, Column(p, t.off), t.len)
(* A token is its text, without a blank, in the text of the line.           *)
LEMMA TokenPlace ==
  ASSUME NEW l, NEW T, NEW D, Tied(l, T, D), NEW k \in 1 .. Len(T)
  PROVE  /\ T[k].off \in Nat /\ T[k].len \in Nat \ {0} /\ T[k].off + T[k].len <= Len(Text(l))
         /\ T[k].off + 1 = Place(Text(l), T, k)
         /\ \A j \in T[k].off + 1 .. T[k].off + T[k].len : Text(l)[j] \notin Blanks
         /\ T[k].text = Part(Text(l), T[k].off + 1, T[k].off + T[k].len)
<1> DEFINE s == Text(l)
           i == Place(s, T, k)
           t == T[k]
<1>1. LaidAt(s, T, k) /\ s \in Seq(D) /\ Len(s) \in Nat /\ Len(T) \in Nat
  BY DEF Tied, Laying, Laid
<1>2. i \in 1 .. Len(s) /\ s[i] \notin Blanks /\ t = Token(s, i)
  BY <1>1 DEF LaidAt
<1>3. i = t.off + 1
  BY <1>1 DEF Place
<1>4. t.len = TokenLength(s, i) /\ t.text = Part(s, i, i + TokenLength(s, i) - 1)
  BY <1>2, TokenText
<1>5. TokenLength(s, i) \in Nat \ {0} /\ i + TokenLength(s, i) <= Len(s) + 1
  BY <1>1, <1>2, TokenLengthIs
<1>6. \A j \in i .. i + TokenLength(s, i) - 1 : s[j] \notin Blanks
  BY <1>1, <1>2, TokenSolid
<1>7. t.off = i - 1
  <2>1. t.off = i - 1
    BY <1>2 DEF Token
  <2> QED BY <2>1
<1> DEFINE off == t.off
           len == t.len
           x == TokenLength(s, i)
<1> HIDE DEF i, s, off, len, x
<1>8. off \in Nat /\ len \in Nat \ {0} /\ off + len <= Len(s) /\ off + 1 = i /\ i + x - 1 = off + len
  <2>1. len = x /\ off = i - 1 /\ x \in Nat \ {0} /\ i + x <= Len(s) + 1
    BY <1>4, <1>5, <1>7 DEF len, off, x
  <2> QED BY <1>1, <1>2, <2>1
<1>9. \A j \in off + 1 .. off + len : s[j] \notin Blanks
  <2>1. \A j \in i .. i + x - 1 : s[j] \notin Blanks
    BY <1>6 DEF x
  <2> QED BY <1>8, <2>1
<1>10. t.text = Part(s, off + 1, off + len)
  <2>1. t.text = Part(s, i, i + x - 1)
    BY <1>4 DEF x
  <2> QED BY <1>8, <2>1
<1> QED BY <1>8, <1>9, <1>10 DEF off, len, i, s

(* Having no blank in it, it is in one piece, and underlined there.         *)
LEMMA TokenStands ==
  ASSUME NEW l, NEW T, NEW D, Tied(l, T, D), NEW k \in 1 .. Len(T)
  PROVE  \E q \in 1 .. Len(l.pieces) : Stands(l, T[k], q)
<1> DEFINE s == Text(l)
           off == T[k].off
           len == T[k].len
<1>1. /\ off \in Nat /\ len \in Nat \ {0} /\ off + len <= Len(s)
      /\ \A j \in off + 1 .. off + len : s[j] \notin Blanks
  BY TokenPlace
<1>2. OnFile(l) /\ Len(s) = Len(l.text) /\ l.text \in Seq(Rune) /\ Len(l.text) \in Nat
  BY DEF Tied, OnFile, Sound, LogicalLine
<1>3. SpanOf(l, off, len) = TokenSpan(l, T[k])
  BY Zenon DEF TokenSpan
<1> HIDE DEF off, len
<1>4. off < Len(l.text) /\ off + 1 \in 1 .. Len(l.text) /\ off + 1 \in off + 1 .. off + len
  BY <1>1, <1>2
<1>5. l.text[off + 1] # Gap
  <2>1. s[off + 1] = IF l.text[off + 1] = Gap THEN Blank ELSE LineText(lines, l.text[off + 1][1])[l.text[off + 1][2]]
    BY <1>2, <1>4, TextAt
  <2>2. Blank \in Blanks
    BY Zenon DEF Blank, Blanks
  <2>3. s[off + 1] \notin Blanks
    BY <1>1, <1>4
  <2> QED BY <2>1, <2>2, <2>3
<1>6. PICK q \in 1 .. Len(l.pieces) :
        InPiece(l.pieces[q], off) /\
        Underlines(lines, SpanOf(l, off, len), l.pieces[q].line, Column(l.pieces[q], off), Reach(l.pieces[q], off, len))
  BY <1>1, <1>2, <1>4, <1>5, SpanOfIs
<1> DEFINE p == l.pieces[q]
<1>7. PieceOn(l, p)
  BY <1>2, PieceIs
<1> HIDE DEF p, s
<1>8. off + len <= p.start + p.len
  <2> SUFFICES ASSUME ~(off + len <= p.start + p.len) PROVE FALSE
    OBVIOUS
  <2> DEFINE e == p.start + p.len
  <2>1. p.start \in Nat /\ p.len \in Nat /\ off < e /\ e \in Nat
    <3>1. p.start \in Nat /\ p.len \in Nat
      BY <1>7 DEF PieceOn
    <3>2. InPiece(p, off)
      BY <1>6 DEF p
    <3> QED BY <3>1, <3>2 DEF InPiece
  <2>2. e < Len(l.text) => s[e + 1] = Blank
    BY <1>7 DEF PieceOn, s
  <2>3. ~(off + len <= e)
    OBVIOUS
  <2> HIDE DEF e
  <2>4. e < Len(l.text) /\ e + 1 \in off + 1 .. off + len
    BY <1>1, <1>2, <2>1, <2>3
  <2>5. Blank \in Blanks
    BY Zenon DEF Blank, Blanks
  <2> QED BY <1>1, <2>2, <2>4, <2>5
<1>9. Reach(p, off, len) = len
  <2>1. p.start \in Nat /\ p.len \in Nat
    BY <1>7 DEF PieceOn
  <2>2. len <= p.len - (off - p.start)
    BY <1>1, <1>8, <2>1
  <2> QED BY <2>2 DEF Reach
<1>10. Underlines(lines, TokenSpan(l, T[k]), p.line, Column(p, off), len)
  BY <1>3, <1>6, <1>9, Zenon DEF p
<1>11. InPiece(p, off)
  BY <1>6 DEF p
<1> QED BY <1>8, <1>10, <1>11 DEF Stands, p, off, len

(* A token is underlined, whole.                                           *)
LEMMA TokenPoints ==
  ASSUME NEW l, NEW T, NEW D, Tied(l, T, D), NEW k \in 1 .. Len(T)
  PROVE  /\ Points(l, TokenSpan(l, T[k]), T[k].text) /\ T[k].text # <<>>
         /\ Drawn(TokenSpan(l, T[k])) = T[k].text
<1> DEFINE s == Text(l)
           off == T[k].off
           len == T[k].len
           span == TokenSpan(l, T[k])
<1>1. PICK q \in 1 .. Len(l.pieces) : Stands(l, T[k], q)
  BY TokenStands
<1> DEFINE p == l.pieces[q]
           c == Column(p, off)
<1>2. off \in Nat /\ len \in Nat \ {0} /\ off + len <= Len(s) /\ T[k].text = Part(s, off + 1, off + len)
  BY TokenPlace
<1>3. OnFile(l) /\ Len(s) = Len(l.text) /\ s \in Seq(D)
  BY DEF Tied, Laying
<1>4. PieceOn(l, p)
  BY <1>3, PieceIs
<1>5. InPiece(p, off) /\ off + len <= p.start + p.len /\ Underlines(lines, span, p.line, c, len)
  BY <1>1 DEF Stands
<1>6. /\ span.start.line = p.line /\ span.start.col = c + 1 /\ span.start.offset = Where(lines, p.line, c)
      /\ span.end.line = p.line /\ span.end.col = c + 1 + len
  BY <1>5 DEF Underlines
<1>7. Opens(span, p.line, c) /\ Covers(LineText(lines, p.line), span, p.line, c, len)
  BY <1>6 DEF Opens, Covers
<1> HIDE DEF off, len, s, p, c, span
<1>8. c \in Nat /\ c < Len(LineText(lines, p.line))
  BY <1>2, <1>4, <1>5, ColumnIs DEF c
<1>9. len <= Len(LineText(lines, p.line)) - c
  <2>1. Reach(p, off, len) = len
    <3>1. p.start \in Nat /\ p.len \in Nat
      BY <1>4 DEF PieceOn
    <3>2. len <= p.len - (off - p.start)
      BY <1>2, <1>5, <3>1
    <3> QED BY <3>2 DEF Reach
  <2>2. c + Reach(p, off, len) <= Len(LineText(lines, p.line))
    BY <1>2, <1>4, <1>5, ColumnIs DEF c
  <2>3. Len(LineText(lines, p.line)) \in Nat
    BY <1>4 DEF PieceOn
  <2> QED BY <1>2, <1>8, <2>1, <2>2, <2>3
<1>10. Placed(l, span) /\ DrawnFrom(span, p.line, c, len)
  BY <1>2, <1>3, <1>7, <1>8, OpensPlaced DEF p
<1>11. Drawn(span) = Part(LineText(lines, p.line), c + 1, c + len)
  BY <1>9, <1>10 DEF DrawnFrom
<1>12. Part(LineText(lines, p.line), c + 1, c + len) = Part(s, off + 1, off + len)
  <2>1. len \in Nat
    BY <1>2
  <2> QED BY <1>2, <1>3, <1>4, <1>5, <2>1, SameRunes DEF c, s
<1>13. T[k].text # <<>>
  <2>1. s \in Seq(D) /\ off \in Nat /\ len \in Nat /\ off + len <= Len(s)
    BY <1>2, <1>3
  <2>2. Len(Part(s, off + 1, off + len)) = len
    BY <2>1, PartIs, Zenon
  <2> DEFINE u == T[k].text
  <2>3. Len(u) = len
    BY <1>2, <2>2
  <2> HIDE DEF u
  <2>4. u # <<>>
    BY <1>2, <2>3
  <2> QED BY <2>4 DEF u
<1>14. Points(l, span, T[k].text)
  BY <1>2, <1>6, <1>10, <1>11, <1>12, <1>13, Zenon DEF Points
<1> QED BY <1>2, <1>11, <1>12, <1>13, <1>14 DEF span

(* Pieces follow one another, in the line and in the file.                 *)
LEMMA PiecesApart ==
  ASSUME NEW l, OnFile(l), NEW a \in 1 .. Len(l.pieces), NEW b \in 1 .. Len(l.pieces), a < b
  PROVE  /\ l.pieces[a].start + l.pieces[a].len < l.pieces[b].start
         /\ l.pieces[a].line < l.pieces[b].line
<1> DEFINE last == Len(l.pieces)
           f == [q \in 1 .. last |-> l.pieces[q].start]
           g == [q \in 1 .. last |-> l.pieces[q].line]
<1>1. last \in Nat
  BY PieceIs
<1>2. \A q \in 1 .. last : l.pieces[q].start \in Nat /\ l.pieces[q].len \in Nat /\ l.pieces[q].line \in Nat
  <2> TAKE q \in 1 .. last
  <2>1. PieceOn(l, l.pieces[q])
    BY PieceIs
  <2> QED BY <2>1 DEF PieceOn
<1>3. \A q \in 1 .. last - 1 : l.pieces[q + 1].start = l.pieces[q].start + l.pieces[q].len + 1
  BY DEF OnFile, Built, Abut
<1>4. \A q \in 1 .. last - 1 : l.pieces[q].line < l.pieces[q + 1].line
  BY DEF OnFile, Ascending
<1> HIDE DEF last
<1>5. \A q \in 1 .. last - 1 : q \in 1 .. last /\ q + 1 \in 1 .. last
  BY <1>1
<1>6. \A q \in 1 .. last : f[q] \in Int /\ g[q] \in Int
  BY <1>2
<1>7. \A q \in 1 .. last - 1 : f[q] < f[q + 1]
  <2> TAKE q \in 1 .. last - 1
  <2>1. q \in 1 .. last /\ q + 1 \in 1 .. last
    BY <1>5
  <2>2. l.pieces[q].start \in Nat /\ l.pieces[q].len \in Nat /\ l.pieces[q + 1].start = l.pieces[q].start + l.pieces[q].len + 1
    BY <1>2, <1>3, <2>1
  <2>3. f[q] = l.pieces[q].start /\ f[q + 1] = l.pieces[q + 1].start
    BY <2>1
  <2> HIDE DEF f
  <2> QED BY <2>2, <2>3
<1>8. \A q \in 1 .. last - 1 : g[q] < g[q + 1]
  BY <1>4, <1>5
<1>9. a \in 1 .. last /\ b \in 1 .. last /\ f[a] = l.pieces[a].start /\ f[b] = l.pieces[b].start
      /\ g[a] = l.pieces[a].line /\ g[b] = l.pieces[b].line
  BY DEF last
<1> HIDE DEF f, g
<1>10. \A x, y \in 1 .. last : x < y => f[x] < f[y]
  BY <1>1, <1>6, <1>7, RisesAll
<1>11. \A x, y \in 1 .. last : x < y => g[x] < g[y]
  BY <1>1, <1>6, <1>8, RisesAll
<1>12. l.pieces[a].line < l.pieces[b].line
  BY <1>9, <1>11
<1>13. l.pieces[a].start + l.pieces[a].len < l.pieces[b].start
  <2> DEFINE m == a + 1
  <2>1. a \in 1 .. last - 1 /\ m \in 1 .. last /\ (m = b \/ m < b)
    BY <1>1, <1>9
  <2>2. l.pieces[m].start = l.pieces[a].start + l.pieces[a].len + 1
    BY <1>3, <2>1
  <2> HIDE DEF m
  <2>3. f[m] <= f[b] /\ f[m] \in Int /\ f[b] \in Int
    <3>1. f[m] \in Int /\ f[b] \in Int
      BY <1>6, <1>9, <2>1
    <3>2. m < b => f[m] < f[b]
      BY <1>9, <1>10, <2>1
    <3> QED BY <2>1, <3>1, <3>2
  <2>4. f[m] = l.pieces[m].start
    BY <2>1 DEF f
  <2>5. l.pieces[a].start \in Nat /\ l.pieces[a].len \in Nat
    BY <1>2, <1>9
  <2> QED BY <1>9, <2>2, <2>3, <2>4, <2>5
<1> QED BY <1>12, <1>13

(* What is held at an earlier offset is held by no later piece.            *)
LEMMA PiecesKeep ==
  ASSUME NEW l, OnFile(l), NEW a \in 1 .. Len(l.pieces), NEW b \in 1 .. Len(l.pieces),
         NEW x \in Nat, NEW y \in Nat, x <= y, InPiece(l.pieces[a], x), InPiece(l.pieces[b], y)
  PROVE  a <= b
<1> SUFFICES ASSUME ~(a <= b) PROVE FALSE
  OBVIOUS
<1>1. b < a
  <2>1. Len(l.pieces) \in Nat
    BY PieceIs
  <2> QED BY <2>1
<1>2. l.pieces[b].start + l.pieces[b].len < l.pieces[a].start
  BY <1>1, PiecesApart
<1>3. PieceOn(l, l.pieces[a]) /\ PieceOn(l, l.pieces[b])
  BY PieceIs
<1> DEFINE p == l.pieces[a]
           r == l.pieces[b]
<1>4. p.start \in Nat /\ r.start \in Nat /\ r.len \in Nat
  BY <1>3 DEF PieceOn
<1>5. p.start <= x /\ y < r.start + r.len /\ r.start + r.len < p.start
  BY <1>2 DEF InPiece
<1> HIDE DEF p, r
<1> QED BY <1>4, <1>5

(* The offsets of what is held rise through the file.                      *)
LEMMA OffsetsRise ==
  ASSUME NEW l, OnFile(l), NEW a \in 1 .. Len(l.pieces), NEW b \in 1 .. Len(l.pieces),
         NEW x \in Nat, NEW y \in Nat, x < y, InPiece(l.pieces[a], x), InPiece(l.pieces[b], y)
  PROVE  /\ Where(lines, l.pieces[a].line, Column(l.pieces[a], x)) < Where(lines, l.pieces[b].line, Column(l.pieces[b], y))
         /\ Where(lines, l.pieces[a].line, Column(l.pieces[a], x)) \in Int
         /\ Where(lines, l.pieces[b].line, Column(l.pieces[b], y)) \in Int
<1> DEFINE p == l.pieces[a]
           r == l.pieces[b]
           c == Column(p, x)
           d == Column(r, y)
<1>1. PieceOn(l, p) /\ PieceOn(l, r)
  BY PieceIs
<1>2. /\ p.line \in 1 .. Len(lines) /\ r.line \in 1 .. Len(lines) /\ lines \in Seq(Seq(STRING))
      /\ Len(LineText(lines, p.line)) \in Nat /\ Len(LineText(lines, r.line)) \in Nat
  <2>1. lines \in Seq(Seq(STRING))
    BY DEF OnFile
  <2> HIDE DEF p, r
  <2>2. p.line \in 1 .. Len(lines) /\ LineText(lines, p.line) \in Seq(STRING)
    BY <1>1 DEF PieceOn
  <2>3. r.line \in 1 .. Len(lines) /\ LineText(lines, r.line) \in Seq(STRING)
    BY <1>1 DEF PieceOn
  <2> DEFINE u == LineText(lines, p.line)
             v == LineText(lines, r.line)
  <2>4. Len(u) \in Nat /\ Len(v) \in Nat
    <3> HIDE DEF u, v
    <3>1. u \in Seq(STRING) /\ v \in Seq(STRING)
      BY <2>2, <2>3 DEF u, v
    <3> QED BY <3>1
  <2> QED BY <2>1, <2>2, <2>3, <2>4
<1>3. 1 \in Nat \ {0}
  OBVIOUS
<1>4. c \in Nat /\ c < Len(LineText(lines, p.line))
  BY <1>1, <1>3, ColumnIs
<1>5. d \in Nat /\ d < Len(LineText(lines, r.line))
  BY <1>1, <1>3, ColumnIs
<1>6. a <= b /\ (a < b => p.line < r.line)
  <2>1. x <= y
    OBVIOUS
  <2>2. a <= b
    BY <2>1, PiecesKeep
  <2>3. ASSUME a < b PROVE p.line < r.line
    <3>1. l.pieces[a].line < l.pieces[b].line
      BY <2>3, PiecesApart
    <3> QED BY <3>1
  <2> QED BY <2>2, <2>3
<1>7. a = b => p.line = r.line /\ c < d
  <2> SUFFICES ASSUME a = b PROVE p.line = r.line /\ c < d
    OBVIOUS
  <2>1. p = r
    OBVIOUS
  <2> DEFINE at == p.start
             col == p.col
  <2>2. at \in Nat /\ col \in Nat
    BY <1>1 DEF PieceOn
  <2>3. c = col - 1 + (x - at)
    BY Zenon DEF Column
  <2>4. d = col - 1 + (y - at)
    BY <2>1, Zenon DEF Column
  <2>5. c < d
    <3> HIDE DEF at, col, c, d, p, r
    <3> QED BY <2>2, <2>3, <2>4
  <2> HIDE DEF p, r, c, d
  <2> QED BY <2>1, <2>5
<1> HIDE DEF p, r, c, d
<1>8. c \in 0 .. Len(LineText(lines, p.line)) /\ d \in 0 .. Len(LineText(lines, r.line))
  <2> DEFINE x1 == Len(LineText(lines, p.line))
             y1 == Len(LineText(lines, r.line))
  <2>1. x1 \in Nat /\ y1 \in Nat /\ c \in Nat /\ c < x1 /\ d \in Nat /\ d < y1
    BY <1>2, <1>4, <1>5, Zenon
  <2> HIDE DEF x1, y1
  <2>2. c \in 0 .. x1 /\ d \in 0 .. y1
    BY <2>1
  <2> QED BY <2>2 DEF x1, y1
<1>9. Where(lines, p.line, c) \in Int /\ Where(lines, r.line, d) \in Int
  BY <1>2, <1>8, WhereInt
<1>10. CASE a = b
  <2>1. Where(lines, p.line, c) < Where(lines, p.line, d)
    BY <1>2, <1>7, <1>8, <1>10, WhereRises
  <2> QED BY <1>7, <1>9, <1>10, <2>1 DEF p, r, c, d
<1>11. CASE a # b
  <2>1. p.line < r.line
    <3>1. a < b
      BY <1>6, <1>11
    <3> QED BY <1>6, <3>1
  <2>2. Where(lines, p.line, c) < Where(lines, r.line, d)
    BY <1>2, <1>8, <2>1, WhereLater
  <2> QED BY <1>9, <2>2 DEF p, r, c, d
<1> QED BY <1>10, <1>11

(* Tokens follow one another, in the line and in the file.                 *)
Start(l, T, k) == TokenSpan(l, T[k]).start.offset
(* In the line, by their offsets.                                           *)
LEMMA TokensApart ==
  ASSUME NEW l, NEW T, NEW D, Tied(l, T, D), NEW k \in 1 .. Len(T), NEW m \in 1 .. Len(T), k < m
  PROVE  T[k].off < T[m].off
<1> DEFINE s == Text(l)
           last == Len(T)
           f == [i \in 1 .. last |-> T[i].off]
<1>1. last \in Nat /\ Laid(s, T, 1)
  BY DEF Tied, Laying
<1>2. \A i \in 1 .. last : T[i].off \in Nat /\ T[i].len \in Nat \ {0} /\ T[i].off + 1 = Place(s, T, i)
  <2> TAKE i \in 1 .. last
  <2> QED BY TokenPlace
<1>3. \A i \in 1 .. last : Place(s, T, i) + T[i].len <= Place(s, T, i + 1)
  BY <1>1 DEF Laid, LaidAt
<1> HIDE DEF s, last
<1>4. \A i \in 1 .. last : f[i] \in Int
  BY <1>2
<1>5. ASSUME NEW i \in 1 .. last - 1 PROVE f[i] < f[i + 1]
  <2>1. i \in 1 .. last /\ i + 1 \in 1 .. last
    BY <1>1
  <2> DEFINE j == i + 1
  <2>2. j \in 1 .. last
    BY <2>1
  <2>3. Place(s, T, i) + T[i].len <= Place(s, T, j)
    BY <1>3, <2>1
  <2> HIDE DEF j
  <2>4. T[i].off + 1 + T[i].len <= T[j].off + 1 /\ T[i].off \in Nat /\ T[j].off \in Nat /\ T[i].len \in Nat \ {0}
    BY <1>2, <2>1, <2>2, <2>3
  <2> DEFINE x == T[i].off
             y == T[i].len
             z == T[j].off
  <2>5. x < z
    <3>1. x + 1 + y <= z + 1 /\ x \in Nat /\ z \in Nat /\ y \in Nat \ {0}
      BY <2>4
    <3> HIDE DEF x, y, z
    <3> QED BY <3>1
  <2>6. f[i] = T[i].off /\ f[j] = T[j].off
    BY <2>1, <2>2
  <2> HIDE DEF f
  <2> QED BY <2>5, <2>6 DEF j
<1>6. f[k] = T[k].off /\ f[m] = T[m].off /\ k \in 1 .. last /\ m \in 1 .. last
  BY DEF last
<1> HIDE DEF f
<1>7. \A x, y \in 1 .. last : x < y => f[x] < f[y]
  BY <1>1, <1>4, <1>5, RisesAll
<1> QED BY <1>6, <1>7

(* In the file, by the offsets of their spans.                              *)
LEMMA StartsApart ==
  ASSUME NEW l, NEW T, NEW D, Tied(l, T, D), NEW k \in 1 .. Len(T), NEW m \in 1 .. Len(T), k < m
  PROVE  Start(l, T, k) < Start(l, T, m) /\ Start(l, T, k) \in Int /\ Start(l, T, m) \in Int
<1>1. PICK a \in 1 .. Len(l.pieces) : Stands(l, T[k], a)
  BY TokenStands
<1>2. PICK b \in 1 .. Len(l.pieces) : Stands(l, T[m], b)
  BY TokenStands
<1> DEFINE x == T[k].off
           y == T[m].off
<1>3. x < y
  BY TokensApart
<1>4. x \in Nat
  BY TokenPlace
<1>5. y \in Nat
  BY TokenPlace
<1>6. OnFile(l)
  BY DEF Tied
<1>7. InPiece(l.pieces[a], x) /\ InPiece(l.pieces[b], y)
  BY <1>1, <1>2 DEF Stands
<1>8. Start(l, T, k) = Where(lines, l.pieces[a].line, Column(l.pieces[a], x))
  BY <1>1 DEF Stands, Start, Underlines
<1>9. Start(l, T, m) = Where(lines, l.pieces[b].line, Column(l.pieces[b], y))
  BY <1>2 DEF Stands, Start, Underlines
<1> HIDE DEF x, y
<1>10. /\ Where(lines, l.pieces[a].line, Column(l.pieces[a], x)) < Where(lines, l.pieces[b].line, Column(l.pieces[b], y))
       /\ Where(lines, l.pieces[a].line, Column(l.pieces[a], x)) \in Int
       /\ Where(lines, l.pieces[b].line, Column(l.pieces[b], y)) \in Int
  BY <1>3, <1>4, <1>5, <1>6, <1>7, OffsetsRise
<1> QED BY <1>8, <1>9, <1>10

(* What stands before the same text, and makes the same of it, is the same. *)
LEMMA ChainCut ==
  ASSUME NEW D, NEW x \in Seq(D), NEW y \in Seq(D), NEW r \in Seq(D), Chain(x, r) = Chain(y, r)
  PROVE  x = y
<1> DEFINE a == Len(x)
           b == Len(y)
           c == Len(r)
<1>1. a \in Nat /\ b \in Nat /\ c \in Nat
  OBVIOUS
<1>2. Len(x \o r) = a + c /\ \A i \in 1 .. a : (x \o r)[i] = x[i]
  OBVIOUS
<1>3. Len(y \o r) = b + c /\ \A i \in 1 .. b : (y \o r)[i] = y[i]
  OBVIOUS
<1>4. x \o r = y \o r
  BY Zenon DEF Chain
<1> DEFINE u == x \o r
           v == y \o r
<1>5. Len(u) = a + c /\ Len(v) = b + c /\ u = v /\ (\A i \in 1 .. a : u[i] = x[i]) /\ \A i \in 1 .. b : v[i] = y[i]
  BY <1>2, <1>3, <1>4
<1> HIDE DEF u, v, a, b, c
<1>6. a = b
  BY <1>1, <1>5
<1>7. \A i \in 1 .. a : x[i] = y[i]
  BY <1>5, <1>6
<1> QED BY <1>6, <1>7, SameText DEF a, b

(* From one token to a later one.                                          *)
LEMMA JoinIs ==
  ASSUME NEW l, NEW T, NEW D, Tied(l, T, D), NEW i \in 1 .. Len(T), NEW j \in 1 .. Len(T), i < j
  PROVE  LET a == TokenSpan(l, T[i])
             b == TokenSpan(l, T[j])
         IN JoinSpans(a, b).start = a.start /\ JoinSpans(a, b).end = b.end
<1> DEFINE a == TokenSpan(l, T[i])
           b == TokenSpan(l, T[j])
           x == a.start.offset
           y == b.start.offset
           z == b.end.offset
<1>1. x < y /\ x \in Int /\ y \in Int
  BY StartsApart DEF Start
<1>2. PICK q \in 1 .. Len(l.pieces) : Stands(l, T[j], q)
  BY TokenStands
<1>3. z \in Int /\ y <= z
  BY <1>2 DEF Stands, Underlines
<1> HIDE DEF a, b, x, y, z
<1>4. ~(z < x)
  BY <1>1, <1>3
<1>5. JoinSpans(a, b) = Span(a.start, b.end)
  BY <1>4 DEF JoinSpans, x, z
<1> QED BY <1>5 DEF Span, a, b

(* If both are on one line, all between them is underlined.                *)
LEMMA JoinAlong ==
  ASSUME NEW l, NEW T, NEW D, Tied(l, T, D), NEW i \in 1 .. Len(T), NEW j \in 1 .. Len(T), i < j,
         NEW q \in 1 .. Len(l.pieces), Stands(l, T[i], q), Stands(l, T[j], q)
  PROVE  LET span == JoinSpans(TokenSpan(l, T[i]), TokenSpan(l, T[j]))
         IN /\ Placed(l, span) /\ span.end.line = span.start.line
            /\ Drawn(span) = Part(Text(l), T[i].off + 1, T[j].off + T[j].len)
<1> DEFINE s == Text(l)
           p == l.pieces[q]
           k == p.line
           t == LineText(lines, k)
           x == T[i].off
           y == T[j].off
           w == T[j].len
           c == Column(p, x)
           d == Column(p, y)
           wid == y + w - x
           span == JoinSpans(TokenSpan(l, T[i]), TokenSpan(l, T[j]))
<1>1. x \in Nat
  BY TokenPlace
<1>2. y \in Nat /\ w \in Nat \ {0} /\ y + w <= Len(s)
  BY TokenPlace
<1>3. x < y
  BY TokensApart
<1>4. OnFile(l) /\ Len(s) = Len(l.text) /\ s \in Seq(D)
  BY DEF Tied, Laying
<1>5. PieceOn(l, p)
  BY <1>4, PieceIs
<1>6. InPiece(p, x) /\ InPiece(p, y) /\ y + w <= p.start + p.len
  BY DEF Stands
<1>7. span.start = TokenSpan(l, T[i]).start /\ span.end = TokenSpan(l, T[j]).end
  BY JoinIs
<1>8. Opens(span, k, c)
  BY <1>7 DEF Stands, Underlines, Opens
<1>9. span.end.line = k /\ span.end.col = d + 1 + w
  BY <1>7 DEF Stands, Underlines
<1> HIDE DEF s, t, x, y, w, span, p
<1>10. p.start \in Nat /\ p.len \in Nat /\ p.col \in Nat \ {0} /\ p.col - 1 + p.len <= Len(t) /\ t \in Seq(STRING)
  BY <1>5 DEF PieceOn, t
<1>11. p.start <= x /\ p.start <= y /\ x < p.start + p.len
  BY <1>6 DEF InPiece
<1> DEFINE ps == p.start
           pl == p.len
           pc == p.col
<1>12. wid \in Nat \ {0} /\ d + 1 + w = c + 1 + wid /\ x + wid = y + w /\ c + wid <= Len(t) /\ c \in Nat /\ c < Len(t)
  <2>1. Len(t) \in Nat
    BY <1>10
  <2>2. c = pc - 1 + (x - ps) /\ d = pc - 1 + (y - ps)
    BY DEF Column
  <2>3. ps \in Nat /\ pl \in Nat /\ pc \in Nat \ {0} /\ pc - 1 + pl <= Len(t) /\ ps <= x /\ ps <= y /\ x < ps + pl /\ y + w <= ps + pl
    BY <1>6, <1>10, <1>11
  <2> DEFINE lt == Len(t)
  <2> HIDE DEF c, d, ps, pl, pc, lt
  <2>4. lt \in Nat /\ pc - 1 + pl <= lt
    BY <2>1, <2>3 DEF lt
  <2>5. wid \in Nat \ {0} /\ d + 1 + w = c + 1 + wid /\ x + wid = y + w
    BY <1>1, <1>2, <1>3, <2>2, <2>3
  <2>6. c + wid <= lt /\ c \in Nat /\ c < lt
    BY <1>1, <1>2, <1>3, <2>2, <2>3, <2>4
  <2> QED BY <2>5, <2>6 DEF lt
<1> HIDE DEF wid, c, d, k
<1>13. Covers(t, span, k, c, wid)
  <2>1. span.end.col = c + 1 + wid
    BY <1>9, <1>12
  <2> QED BY <1>8, <1>9, <2>1 DEF Covers, Opens
<1>14. Placed(l, span) /\ DrawnFrom(span, k, c, wid)
  BY <1>4, <1>8, <1>12, <1>13, OpensPlaced DEF k, t, p
<1>15. Drawn(span) = Part(t, c + 1, c + wid)
  <2>1. wid <= Len(t) - c
    <3>1. Len(t) \in Nat
      BY <1>10
    <3> QED BY <1>12, <3>1
  <2> QED BY <1>14, <2>1 DEF DrawnFrom, t
<1>16. Part(t, c + 1, c + wid) = Part(s, x + 1, x + wid)
  <2>1. wid \in Nat /\ x + wid <= p.start + p.len
    BY <1>6, <1>12
  <2> QED BY <1>1, <1>4, <1>5, <1>6, <2>1, SameRunes DEF c, t, k, s
<1>17. Drawn(span) = Part(s, x + 1, y + w)
  BY <1>12, <1>15, <1>16
<1>18. span.end.line = span.start.line
  BY <1>8, <1>9 DEF Opens
<1> QED BY <1>14, <1>17, <1>18 DEF span, s, x, y, w

(* If not, all from the first to the end of its line is.                   *)
LEMMA JoinOver ==
  ASSUME NEW l, NEW T, NEW D, Tied(l, T, D), NEW i \in 1 .. Len(T), NEW j \in 1 .. Len(T), i < j,
         NEW a \in 1 .. Len(l.pieces), NEW b \in 1 .. Len(l.pieces), a # b,
         Stands(l, T[i], a), Stands(l, T[j], b)
  PROVE  LET span == JoinSpans(TokenSpan(l, T[i]), TokenSpan(l, T[j]))
         IN /\ Placed(l, span) /\ span.end.line # span.start.line
            /\ Begins(T[i].text, Drawn(span))
<1> DEFINE s == Text(l)
           p == l.pieces[a]
           k == p.line
           t == LineText(lines, k)
           x == T[i].off
           w == T[i].len
           c == Column(p, x)
           wid == Len(t) - c
           span == JoinSpans(TokenSpan(l, T[i]), TokenSpan(l, T[j]))
<1>1. x \in Nat /\ w \in Nat \ {0} /\ x + w <= Len(s) /\ T[i].text = Part(s, x + 1, x + w)
  BY TokenPlace
<1>2. OnFile(l) /\ Len(s) = Len(l.text) /\ s \in Seq(D) /\ Len(l.pieces) \in Nat
  BY PieceIs DEF Tied, Laying
<1>3. PieceOn(l, p)
  BY <1>2, PieceIs
<1>4. PieceOn(l, l.pieces[b])
  BY <1>2, PieceIs
<1>5. InPiece(p, x) /\ x + w <= p.start + p.len
  BY DEF Stands
<1>6. span.start = TokenSpan(l, T[i]).start /\ span.end = TokenSpan(l, T[j]).end
  BY JoinIs
<1>7. Opens(span, k, c)
  BY <1>6 DEF Stands, Underlines, Opens
<1>8. span.end.line = l.pieces[b].line
  BY <1>6 DEF Stands, Underlines
<1>9. l.pieces[b].line # k
  <2>1. a < b \/ b < a
    BY <1>2
  <2>2. a < b => k < l.pieces[b].line
    BY <1>2, PiecesApart
  <2>3. b < a => l.pieces[b].line < k
    BY <1>2, PiecesApart
  <2>4. k \in Nat /\ l.pieces[b].line \in Nat
    <3> DEFINE r == l.pieces[b]
    <3> HIDE DEF p, r
    <3>1. p.line \in 1 .. Len(lines)
      BY <1>3 DEF PieceOn
    <3>2. r.line \in 1 .. Len(lines)
      BY <1>4 DEF PieceOn, r
    <3> QED BY <3>1, <3>2 DEF r
  <2> QED BY <2>1, <2>2, <2>3, <2>4
<1>10. t \in Seq(STRING)
  BY <1>3 DEF PieceOn
<1> HIDE DEF s, t, x, w, span, p
<1>11. c \in Nat /\ c < Len(t)
  BY <1>1, <1>3, <1>5, ColumnIs DEF t
<1>12. c + w <= Len(t)
  <2>1. c + Reach(p, x, w) <= Len(t)
    BY <1>1, <1>3, <1>5, ColumnIs DEF t
  <2>2. Reach(p, x, w) = w
    <3>1. p.start \in Nat /\ p.len \in Nat
      BY <1>3 DEF PieceOn
    <3>2. w <= p.len - (x - p.start)
      BY <1>1, <1>5, <3>1
    <3> QED BY <3>2 DEF Reach
  <2> QED BY <2>1, <2>2
<1>13. Len(t) \in Nat
  BY <1>10
<1>14. wid \in Nat \ {0} /\ wid <= Len(t) - c /\ c + wid = Len(t) /\ w <= wid
  <2> DEFINE lt == Len(t)
  <2>1. lt \in Nat /\ c \in Nat /\ c < lt /\ c + w <= lt /\ w \in Nat /\ wid = lt - c
    BY <1>1, <1>11, <1>12, <1>13
  <2> HIDE DEF lt, wid, c
  <2>2. wid \in Nat \ {0} /\ wid <= lt - c /\ c + wid = lt /\ w <= wid
    BY <2>1
  <2> QED BY <2>2 DEF lt
<1> HIDE DEF c, k
<1>15. Covers(t, span, k, c, wid)
  BY <1>7, <1>8, <1>9 DEF Covers, Opens
<1> HIDE DEF wid
<1>16. Placed(l, span) /\ DrawnFrom(span, k, c, wid)
  BY <1>2, <1>7, <1>11, <1>14, <1>15, OpensPlaced DEF k, t, p
<1>17. Drawn(span) = Part(t, c + 1, c + wid)
  BY <1>14, <1>16 DEF DrawnFrom, t
<1>18. Part(t, c + 1, c + w) = Part(s, x + 1, x + w)
  <2>1. w \in Nat
    BY <1>1
  <2> QED BY <1>1, <1>2, <1>3, <1>5, <2>1, SameRunes DEF c, t, k, s
<1> DEFINE u == Part(t, c + 1, c + wid)
           v == Part(t, c + 1, c + w)
<1>19. u \in Seq(STRING) /\ Len(u) = wid /\ \A m \in 1 .. wid : u[m] = t[c + m]
  <2>1. c \in Nat /\ wid \in Nat /\ c + wid <= Len(t)
    BY <1>11, <1>13, <1>14
  <2> QED BY <1>10, <2>1, PartIs
<1>20. v \in Seq(STRING) /\ Len(v) = w /\ \A m \in 1 .. w : v[m] = t[c + m]
  <2>1. c \in Nat /\ w \in Nat /\ c + w <= Len(t)
    BY <1>1, <1>11, <1>12
  <2> QED BY <1>10, <2>1, PartIs
<1> HIDE DEF u, v
<1>21. Begins(v, u)
  <2> DEFINE z == SubSeq(u, 1, Len(v))
  <2>1. Len(v) \in 0 .. Len(u) /\ Len(v) <= Len(u)
    BY <1>1, <1>14, <1>19, <1>20
  <2>2. z \in Seq(STRING) /\ Len(z) = Len(v) /\ \A m \in 1 .. Len(v) : z[m] = u[m]
    BY <1>19, <2>1, StartsWith
  <2> HIDE DEF z
  <2>3. \A m \in 1 .. Len(v) : v[m] = u[m]
    BY <1>14, <1>19, <1>20
  <2>4. z = v
    BY <1>20, <2>2, <2>3, SameText
  <2> QED BY <2>1, <2>4 DEF Begins, z
<1>22. Begins(T[i].text, Drawn(span))
  BY <1>1, <1>17, <1>18, <1>21 DEF u, v
<1>23. span.end.line # span.start.line
  BY <1>7, <1>8, <1>9 DEF Opens
<1> QED BY <1>16, <1>22, <1>23 DEF span

(* The whole of a logical line is underlined from its first rune on.       *)
LEMMA WholePoints ==
  ASSUME NEW l, OnFile(l)
  PROVE  Points(l, WholeSpan(l), <<>>)
<1> DEFINE p == l.pieces[1]
           k == p.line
           t == LineText(lines, k)
           c == l.indent
           wid == Len(l.text)
           span == WholeSpan(l)
<1>1. 1 \in 1 .. Len(l.pieces) /\ p.start = 0 /\ l.line = k /\ l.indent = file[l.line].indent /\ OfLine(file, p)
  <2>1. Len(l.pieces) \in Nat /\ Len(l.pieces) >= 1
    BY DEF OnFile, Sound, LogicalLine, Built
  <2>2. 1 \in 1 .. Len(l.pieces)
    BY <2>1
  <2> QED BY <2>2 DEF OnFile, Built
<1>2. PieceOn(l, p)
  BY <1>1, PieceIs
<1>3. /\ p.col \in Nat \ {0} /\ p.len \in Nat \ {0} /\ t \in Seq(STRING) /\ p.col - 1 + p.len <= Len(t)
      /\ wid \in Nat /\ p.start + p.len <= wid /\ k \in 1 .. Len(lines)
      /\ l.text[p.start + 0 + 1] = <<k, p.col + 0>>
  <2> HIDE DEF p
  <2>1. /\ p.col \in Nat \ {0} /\ p.len \in Nat \ {0} /\ t \in Seq(STRING) /\ p.col - 1 + p.len <= Len(t)
        /\ wid \in Nat /\ p.start + p.len <= wid /\ k \in 1 .. Len(lines)
    BY <1>2 DEF PieceOn
  <2>2. \A d \in 0 .. p.len - 1 : l.text[p.start + d + 1] = <<k, p.col + d>>
    BY <1>2 DEF PieceOn
  <2> DEFINE m == p.len
  <2>3. 0 \in 0 .. m - 1
    <3>1. m \in Nat \ {0}
      BY <2>1
    <3> HIDE DEF m
    <3> QED BY <3>1
  <2>4. l.text[p.start + 0 + 1] = <<k, p.col + 0>>
    BY <2>2, <2>3
  <2> QED BY <2>1, <2>4
<1>4. p.col = c + 1
  BY <1>1 DEF OfLine
<1> DEFINE pl == p.len
           pc == p.col
           lt == Len(t)
<1>5. lt \in Nat
  BY <1>3
<1>6. c \in Nat
  <2>1. c \in Nat
    BY DEF OnFile, Sound, LogicalLine
  <2> QED BY <2>1
<1> HIDE DEF c, wid, span
<1>7. pl \in Nat \ {0} /\ pc = c + 1 /\ pc - 1 + pl <= lt /\ pl <= wid
  BY <1>1, <1>3, <1>4
<1>8. l.text[1] = <<k, c + 1>>
  <2>1. p.start + 0 + 1 = 1 /\ p.col + 0 = c + 1
    BY <1>1, <1>4, <1>6
  <2> QED BY <1>3, <2>1
<1> HIDE DEF pl, pc, lt
<1>9. c < lt /\ c \in 0 .. lt /\ wid \in Nat \ {0} /\ pl <= lt - c /\ 1 <= wid
  BY <1>3, <1>5, <1>6, <1>7
<1>10. Max({1, wid}) = wid
  <2>1. 1 \in Int /\ wid \in Int
    BY <1>9
  <2> QED BY <1>9, <2>1, MaxOf
<1>11. span = Sub(lines, LineSpan(lines, k), c, wid)
  BY <1>1, <1>10, Zenon DEF WholeSpan, span, c, wid
<1>12. lines \in Seq(Seq(STRING)) /\ OnFile(l)
  BY DEF OnFile
<1>13. Underlines(lines, span, k, c, wid)
  <2>1. c \in 0 .. Len(LineText(lines, k)) /\ wid \in Nat
    BY <1>9 DEF lt
  <2> HIDE DEF k
  <2>2. Underlines(lines, Sub(lines, LineSpan(lines, k), c, wid), k, c, wid)
    BY <1>3, <1>12, <2>1, SubMarks
  <2> QED BY <1>11, <2>2
<1>14. Opens(span, k, c) /\ Covers(t, span, k, c, wid)
  BY <1>13 DEF Underlines, Opens, Covers
<1>15. c < Len(LineText(lines, k))
  BY <1>9 DEF lt
<1>16. Placed(l, span) /\ DrawnFrom(span, k, c, wid)
  BY <1>1, <1>6, <1>9, <1>12, <1>14, <1>15, OpensPlaced
<1>17. Carets(lines, span).width >= pl
  <2> DEFINE got == Carets(lines, span).width
  <2>1. got = IF wid <= lt - c THEN wid ELSE lt - c
    BY <1>16 DEF DrawnFrom, lt
  <2> DEFINE room == lt - c
  <2>2. pl <= room /\ pl <= wid
    BY <1>7, <1>9
  <2>3. got = IF wid <= room THEN wid ELSE room
    BY <2>1
  <2> HIDE DEF got, room
  <2>4. got >= pl
    <3>1. CASE wid <= room
      BY <1>7, <2>2, <2>3, <3>1
    <3>2. CASE ~(wid <= room)
      BY <1>7, <2>2, <2>3, <3>2
    <3> QED BY <3>1, <3>2
  <2> QED BY <2>4 DEF got
<1>18. <<span.start.line, span.start.col>> = l.text[1]
  BY <1>8, <1>14 DEF Opens
<1> DEFINE e == <<>>
<1>19. Points(l, span, e)
  BY <1>16, <1>17, <1>18, Zenon DEF Points, e, pl
<1> QED BY <1>19 DEF span, e

(* A type that goes from one token to a later one is.                      *)
LEMMA SpannedPoints ==
  ASSUME NEW l, NEW T, NEW D, Tied(l, T, D), NEW i \in 1 .. Len(T), NEW j \in 1 .. Len(T), i < j,
         T[i].text = DecimalWord, NEW name \in Seq(D), name # <<>>, Begins(DecimalWord, name),
         Rest(Text(l), T, i) = Chain(Bare(name), Rest(Text(l), T, j + 1))
  PROVE  Points(l, JoinSpans(TokenSpan(l, T[i]), TokenSpan(l, T[j])), name)
<1> DEFINE s == Text(l)
           span == JoinSpans(TokenSpan(l, T[i]), TokenSpan(l, T[j]))
           x == T[i].off
           y == T[j].off
           w == T[j].len
<1>1. PICK a \in 1 .. Len(l.pieces) : Stands(l, T[i], a)
  BY TokenStands
<1>2. PICK b \in 1 .. Len(l.pieces) : Stands(l, T[j], b)
  BY TokenStands
<1>3. CASE a # b
  <2>1. Placed(l, span) /\ span.end.line # span.start.line /\ Begins(T[i].text, Drawn(span))
    BY <1>1, <1>2, <1>3, JoinOver
  <2>2. Begins(DecimalWord, Drawn(span))
    BY <2>1
  <2> HIDE DEF span
  <2>3. Points(l, span, name)
    BY <2>1, <2>2, Zenon DEF Points
  <2> QED BY <2>3 DEF span
<1>4. CASE a = b
  <2>1. Placed(l, span) /\ span.end.line = span.start.line /\ Drawn(span) = Part(s, x + 1, y + w)
    <3>1. Stands(l, T[j], a)
      BY <1>2, <1>4
    <3> QED BY <1>1, <3>1, JoinAlong
  <2>2. x \in Nat /\ x + 1 = Place(s, T, i)
    BY TokenPlace
  <2>3. y \in Nat /\ w \in Nat \ {0} /\ y + w <= Len(s) /\ y + 1 = Place(s, T, j)
    BY TokenPlace
  <2>4. x < y
    BY TokensApart
  <2>5. s \in Seq(D) /\ Len(s) \in Nat /\ Len(T) \in Nat /\ Laid(s, T, 1) /\ Laying(s, T, D)
    BY DEF Tied, Laying
  <2>6. j + 1 \in 1 .. Len(T) + 1
    BY <2>5
  <2> DEFINE p == x + 1
             m == y + 1 + w
             q == Place(s, T, j + 1)
             r == Rest(s, T, j + 1)
             part == Part(s, p, m - 1)
  <2>7. q \in 1 .. Len(s) + 1
    BY <2>5, <2>6, PlaceIs
  <2>8. Place(s, T, j) + w <= q /\ \A h \in Place(s, T, j) + w .. q - 1 : s[h] \in Blanks
    BY <2>5 DEF Laid, LaidAt
  <2>9. r \in Seq(D)
    BY <2>5, <2>6, RestText
  <2> HIDE DEF s, x, y, w, span, q
  <2>10. p \in Nat /\ m \in Nat /\ 1 <= p /\ p <= m /\ m <= Len(s) + 1 /\ m - 1 = y + w /\ 1 <= m
    BY <2>2, <2>3, <2>4, <2>5
  <2>11. m <= q /\ \A h \in m .. q - 1 : s[h] \in Blanks
    BY <2>3, <2>8
  <2>12. q \in Nat /\ q <= Len(s) + 1
    BY <2>7
  <2>13. Drawn(span) = part
    BY <2>1, <2>10
  <2>14. Rest(s, T, i) = Left(s, p, Passed)
    BY <2>2 DEF Rest
  <2> HIDE DEF p, m
  <2>15. Left(s, p, Passed) = Chain(Sifted(part, Passed), Left(s, m, Passed))
    BY <2>5, <2>10, LeftAt
  <2>16. Left(s, m, Passed) = Left(s, q, Passed)
    <3>1. \A h \in m .. q - 1 : s[h] \in Passed
      BY <2>11 DEF Passed
    <3> QED BY <2>5, <2>10, <2>11, <2>12, <3>1, LeftOver
  <2>17. Left(s, q, Passed) = r
    BY DEF Rest, q
  <2>18. part \in Seq(D)
    <3>1. SplitsAt(D, s, p, m)
      BY <2>5, <2>10, TakenApart
    <3> QED BY <3>1 DEF SplitsAt
  <2>19. Chain(Bare(part), r) = Chain(Bare(name), r)
    <3>1. Rest(s, T, i) = Chain(Bare(name), r)
      BY DEF s
    <3>2. Bare(part) = Sifted(part, Passed)
      BY BareIs
    <3> HIDE DEF r, part
    <3> QED BY <2>14, <2>15, <2>16, <2>17, <3>1, <3>2
  <2> HIDE DEF part, r
  <2>20. Bare(part) \in Seq(D) /\ Bare(name) \in Seq(D)
    BY <2>18, BareSeq
  <2>21. Bare(part) = Bare(name)
    BY <2>9, <2>19, <2>20, ChainCut
  <2>22. Points(l, span, name)
    BY <2>1, <2>13, <2>21, Zenon DEF Points
  <2> QED BY <2>22 DEF span
<1> QED BY <1>3, <1>4

(* The name of a decimal type begins with its word.                        *)
LEMMA DecimalBegins ==
  ASSUME NEW T, NEW D, Joining \subseteq D, NEW i, NEW j, Arguments(T, i + 1, j) \in Seq(D)
  PROVE  DecimalText(T, i, j) # <<>> /\ Begins(DecimalWord, DecimalText(T, i, j))
<1> DEFINE args == Arguments(T, i + 1, j)
           open == <<"(">>
           shut == <<")">>
           word == DecimalWord
           name == DecimalText(T, i, j)
<1>1. args \in Seq(D) /\ open \in Seq(D) /\ shut \in Seq(D)
  BY DEF Joining
<1>2. word \in Seq(Letter) /\ Len(word) = 7
  <2>1. \A i1 \in 1 .. 9 : Candidates[i1] \in Seq(Letter)
    BY NamesAre
  <2>2. Candidates[5] = DecimalWord
    BY DEF Candidates
  <2>3. Len(DecimalWord) = 7
    BY DEF DecimalWord
  <2> QED BY <2>1, <2>2, <2>3
<1>3. Letter \subseteq D
  BY DEF Joining
<1>4. name = Chain(Chain(Chain(word, open), args), shut)
  BY Zenon DEF DecimalText, Chain, args, open, shut, word
<1> HIDE DEF args, open, shut, word, name
<1>5. word \in Seq(D)
  BY <1>2, <1>3, SeqOfMore
<1> DEFINE r == Chain(open, Chain(args, shut))
<1>6. Chain(args, shut) \in Seq(D) /\ Chain(word, open) \in Seq(D)
  BY <1>1, <1>5, ChainIs
<1>7. r \in Seq(D)
  BY <1>1, <1>6, ChainIs
<1>8. Chain(Chain(Chain(word, open), args), shut) = Chain(Chain(word, open), Chain(args, shut))
  BY <1>1, <1>6, ChainThree
<1>9. Chain(Chain(word, open), Chain(args, shut)) = Chain(word, r)
  BY <1>1, <1>5, <1>6, ChainThree
<1> HIDE DEF r
<1>10. name = word \o r
  BY <1>4, <1>8, <1>9, Zenon DEF Chain
<1>11. name \in Seq(D) /\ Len(name) = 7 + Len(r) /\ Len(r) \in Nat /\ \A h \in 1 .. 7 : name[h] = word[h]
  <2> DEFINE v == word \o r
  <2>1. v \in Seq(D) /\ Len(v) = Len(word) + Len(r) /\ \A h \in 1 .. Len(word) : v[h] = word[h]
    BY <1>5, <1>7
  <2>2. Len(r) \in Nat
    BY <1>7
  <2> HIDE DEF v
  <2>3. name = v
    BY <1>10 DEF v
  <2> QED BY <1>2, <2>1, <2>2, <2>3
<1> DEFINE z == SubSeq(name, 1, 7)
<1>12. 7 \in 0 .. Len(name) /\ name # <<>>
  BY <1>11
<1>13. z \in Seq(D) /\ Len(z) = 7 /\ \A h \in 1 .. 7 : z[h] = name[h]
  BY <1>11, <1>12, StartsWith
<1> HIDE DEF z
<1>14. z = word
  BY <1>2, <1>5, <1>11, <1>13, SameText
<1>15. Begins(word, name)
  BY <1>2, <1>11, <1>14 DEF Begins, z
<1> QED BY <1>12, <1>15 DEF word, name

(* Diagnostics whose carets stand where they should, together.             *)
Aims(l, d) == Points(l, d.span, d.about)
Aiming(l, ds) == \E S : ds \in Seq(S) /\ \A d \in S : Aims(l, d)

(* None does. *)
LEMMA AimingNone ==
  ASSUME NEW l
  PROVE  Aiming(l, <<>>)
<1> DEFINE S == {}
<1>1. <<>> \in Seq(S) /\ \A d \in S : Aims(l, d)
  OBVIOUS
<1> HIDE DEF S
<1> QED BY <1>1 DEF Aiming

(* One does. *)
LEMMA AimingOne ==
  ASSUME NEW l, NEW d, Aims(l, d)
  PROVE  Aiming(l, <<d>>)
<1> DEFINE S == {d}
<1>1. <<d>> \in Seq(S) /\ \A e \in S : Aims(l, e)
  OBVIOUS
<1> HIDE DEF S
<1> QED BY <1>1 DEF Aiming

(* Those of one part of a signature do, and of the next. *)
LEMMA AimingBoth ==
  ASSUME NEW l, NEW x, NEW y, Aiming(l, x), Aiming(l, y)
  PROVE  Aiming(l, x \o y)
<1>1. PICK S : x \in Seq(S) /\ \A d \in S : Aims(l, d)
  BY DEF Aiming
<1>2. PICK R : y \in Seq(R) /\ \A d \in R : Aims(l, d)
  BY DEF Aiming
<1> DEFINE U == S \cup R
<1>3. x \in Seq(U) /\ y \in Seq(U) /\ \A d \in U : Aims(l, d)
  <2>1. S \subseteq U /\ R \subseteq U
    OBVIOUS
  <2>2. \A d \in U : Aims(l, d)
    BY <1>1, <1>2
  <2> HIDE DEF U
  <2>3. x \in Seq(U)
    BY <1>1, <2>1, SeqOfMore
  <2>4. y \in Seq(U)
    BY <1>2, <2>1, SeqOfMore
  <2> QED BY <2>2, <2>3, <2>4
<1> HIDE DEF U
<1>4. x \o y \in Seq(U)
  BY <1>3, ConcatProperties
<1> QED BY <1>3, <1>4 DEF Aiming

(* And one more. *)
LEMMA AimingMore ==
  ASSUME NEW l, NEW x, NEW d, Aiming(l, x), Aims(l, d)
  PROVE  Aiming(l, Append(x, d))
<1>1. PICK S : x \in Seq(S) /\ \A e \in S : Aims(l, e)
  BY DEF Aiming
<1> DEFINE U == S \cup {d}
<1>2. S \subseteq U /\ d \in U /\ \A e \in U : Aims(l, e)
  BY <1>1
<1> HIDE DEF U
<1>3. x \in Seq(U)
  BY <1>1, <1>2, SeqOfMore
<1>4. Append(x, d) \in Seq(U)
  BY <1>2, <1>3
<1> QED BY <1>2, <1>4 DEF Aiming

(* A diagnostic about a token stands under it, one about the line under    *)
(* all of it.                                                              *)
LEMMA HereAims ==
  ASSUME NEW l, NEW T, NEW D, Tied(l, T, D), NEW k \in 1 .. Len(T), NEW code
  PROVE  Aims(l, Here(code, l, T[k]))
<1> DEFINE span == TokenSpan(l, T[k])
           about == T[k].text
           d == Here(code, l, T[k])
<1>1. Points(l, span, about)
  BY TokenPoints
<1> HIDE DEF span, about
<1>2. d.span = span /\ d.about = about
  BY DEF Here, Told, span, about
<1> HIDE DEF d
<1>3. Aims(l, d)
  BY <1>1, <1>2, Zenon DEF Aims
<1> QED BY <1>3 DEF d

(* A diagnostic about a whole line. *)
LEMMA WholeAims ==
  ASSUME NEW l, OnFile(l), NEW code
  PROVE  Aims(l, Whole(code, l))
<1> DEFINE span == WholeSpan(l)
           about == <<>>
           d == Whole(code, l)
<1>1. Points(l, span, about)
  BY WholePoints
<1> HIDE DEF span
<1>2. d.span = span /\ d.about = about
  BY DEF Whole, Told, span
<1> HIDE DEF d, about
<1>3. Aims(l, d)
  BY <1>1, <1>2, Zenon DEF Aims
<1> QED BY <1>3 DEF d

(* What is found of a type, and what is said if there is none such.        *)
LEMMA ResolvedAims ==
  ASSUME NEW l, NEW name, NEW types, NEW span, NEW next, Points(l, span, name)
  PROVE  LET type == Resolved(name, types, span, next)
         IN type.ok = TRUE /\ type.span = span /\ type.name = name /\ Aiming(l, type.diags)
<1> DEFINE told == Told("E0015", span, name)
           d == [told EXCEPT !.suggests = Suggest(name)]
           type == Resolved(name, types, span, next)
<1>1. d.span = span /\ d.about = name
  BY DEF Told
<1>2. type.ok = TRUE /\ type.span = span /\ type.name = name /\ type.diags = IF types # {} THEN <<>> ELSE <<d>>
  <2> HIDE DEF told
  <2> QED BY DEF Resolved, told
<1> HIDE DEF d, type
<1>3. Aims(l, d)
  BY <1>1, Zenon DEF Aims
<1>4. Aiming(l, type.diags)
  <2>1. CASE types # {}
    BY <1>2, <2>1, AimingNone
  <2>2. CASE types = {}
    BY <1>2, <1>3, <2>2, AimingOne
  <2> QED BY <2>1, <2>2
<1> QED BY <1>2, <1>4 DEF type

(* What could not be read says where.                                      *)
LEMMA NoReadingAims ==
  ASSUME NEW l, NEW d, Aims(l, d)
  PROVE  NoReading(d).ok = FALSE /\ Aiming(l, NoReading(d).diags)
<1>1. NoReading(d).ok = FALSE /\ NoReading(d).diags = <<d>>
  BY DEF NoReading
<1> QED BY <1>1, AimingOne

(* A type is underlined, and so is what is said of it.                     *)
Marked(l, T, i, type) ==
  /\ type.ok \in BOOLEAN /\ Aiming(l, type.diags)
  /\ type.ok => /\ i \in 1 .. Len(T) /\ Points(l, type.span, type.name)
                /\ type.span.start.offset = Start(l, T, i)
(* ParseType does both.                                                     *)
LEMMA TypeAims ==
  ASSUME NEW l, NEW T, NEW D, Tied(l, T, D), NEW i \in Nat \ {0}
  PROVE  Marked(l, T, i, ParseType(T, i, l))
<1> DEFINE type == ParseType(T, i, l)
           ends == Closing(T, i + 1)
           last == Len(T)
           s == Text(l)
<1>1. last \in Nat /\ Texts(T, D) /\ Joining \subseteq D /\ Laying(s, T, D) /\ OnFile(l)
  BY LayingTexts DEF Tied
<1>2. ASSUME NEW d, type = NoReading(d), Aims(l, d) PROVE Marked(l, T, i, type)
  <2>1. type.ok = FALSE /\ Aiming(l, type.diags)
    <3>1. NoReading(d).ok = FALSE /\ Aiming(l, NoReading(d).diags)
      BY <1>2, NoReadingAims
    <3> HIDE DEF type
    <3> QED BY <1>2, <3>1
  <2> HIDE DEF type
  <2> QED BY <2>1 DEF Marked
<1>3. CASE At(T, i) = "end"
  <2>1. type = NoReading(Whole("E0013", l))
    BY <1>3 DEF ParseType
  <2> HIDE DEF type
  <2>2. Aims(l, Whole("E0013", l))
    BY <1>1, WholeAims
  <2> QED BY <1>2, <2>1, <2>2 DEF type
<1>4. ASSUME At(T, i) # "end" PROVE i \in 1 .. last
  <2>1. i <= last
    BY <1>4 DEF At
  <2> HIDE DEF last
  <2> QED BY <1>1, <2>1
<1>5. CASE At(T, i) # "end" /\ At(T, i) # "ident"
  <2>1. type = NoReading(Here("E0013", l, T[i]))
    BY <1>5 DEF ParseType
  <2> HIDE DEF type
  <2>2. Aims(l, Here("E0013", l, T[i]))
    BY <1>4, <1>5, HereAims
  <2> QED BY <1>2, <2>1, <2>2 DEF type
<1>6. CASE At(T, i) = "ident"
  <2>1. i \in 1 .. last
    BY <1>4, <1>6
  <2>2. CASE T[i].text # DecimalWord \/ At(T, i + 1) # "("
    <3> DEFINE name == T[i].text
               types == Named(name)
               span == TokenSpan(l, T[i])
    <3>1. type = Resolved(name, types, span, i + 1)
      BY <1>6, <2>2 DEF ParseType
    <3>2. Points(l, span, name)
      BY <2>1, TokenPoints
    <3>3. span.start.offset = Start(l, T, i)
      BY DEF Start
    <3> HIDE DEF name, types, span, type
    <3>4. type.ok = TRUE /\ type.span = span /\ type.name = name /\ Aiming(l, type.diags)
      <4> DEFINE other == Resolved(name, types, span, i + 1)
      <4>1. other.ok = TRUE /\ other.span = span /\ other.name = name /\ Aiming(l, other.diags)
        BY <3>2, ResolvedAims
      <4> HIDE DEF other
      <4> QED BY <3>1, <4>1 DEF other
    <3>5. Marked(l, T, i, type)
      BY <2>1, <3>2, <3>3, <3>4 DEF Marked
    <3> QED BY <3>5 DEF type
  <2>3. CASE ~(T[i].text # DecimalWord \/ At(T, i + 1) # "(") /\ ends = {}
    <3>1. type = NoReading(Here("E0014", l, T[i]))
      BY <1>6, <2>3 DEF ParseType
    <3> HIDE DEF type
    <3>2. Aims(l, Here("E0014", l, T[i]))
      BY <2>1, HereAims
    <3> QED BY <1>2, <3>1, <3>2 DEF type
  <2>4. CASE ~(T[i].text # DecimalWord \/ At(T, i + 1) # "(") /\ ends # {}
    <3> DEFINE j == Min(ends)
               name == DecimalText(T, i, j)
               types == Named(name)
               span == JoinSpans(TokenSpan(l, T[i]), TokenSpan(l, T[j]))
               args == Arguments(T, i + 1, j)
    <3>1. type = Resolved(name, types, span, j + 1)
      BY <1>6, <2>4 DEF ParseType, Parametrised
    <3>2. j \in i + 2 .. last
      <4>1. i + 1 \in Nat \ {0} /\ At(T, i + 1) = "(" /\ ends # {}
        BY <2>4
      <4>2. j \in (i + 1) + 1 .. last
        BY <1>1, <4>1, ClosingIs
      <4>3. (i + 1) + 1 = i + 2
        OBVIOUS
      <4> HIDE DEF j, last
      <4> QED BY <4>2, <4>3
    <3> HIDE DEF j, types, span
    <3>3. j \in 1 .. last /\ i < j /\ j \in Nat /\ i + 1 < j /\ j <= last /\ j <= last + 1
      <4> HIDE DEF last
      <4> QED BY <1>1, <2>1, <3>2
    <3>4. args \in Seq(D)
      <4>1. i + 1 \in Nat \ {0}
        OBVIOUS
      <4> QED BY <1>1, <3>3, <4>1, ArgumentsLeft
    <3>5. name # <<>> /\ Begins(DecimalWord, name)
      BY <1>1, <3>4, DecimalBegins
    <3> HIDE DEF name, args
    <3>6. type.ok = TRUE /\ type.name = name /\ type.next = j + 1
      <4> DEFINE other == Resolved(name, types, span, j + 1)
      <4>1. other.ok = TRUE /\ other.name = name /\ other.next = j + 1
        BY DEF Resolved
      <4> HIDE DEF other, type
      <4> QED BY <3>1, <4>1 DEF other
    <3>7. name \in Seq(D) /\ Rest(s, T, i) = Chain(Bare(name), Rest(s, T, j + 1))
      <4>1. type.ok
        BY <3>6
      <4>2. type.name \in Seq(D) /\ Rest(s, T, i) = Chain(Bare(type.name), Rest(s, T, type.next))
        BY <1>1, <4>1, TypeWhole
      <4> HIDE DEF type, s
      <4> QED BY <3>6, <4>2
    <3>8. T[i].text = DecimalWord
      BY <2>4
    <3>9. Points(l, span, name)
      BY <2>1, <3>3, <3>5, <3>7, <3>8, SpannedPoints DEF span
    <3>10. span.start.offset = Start(l, T, i)
      BY <2>1, <3>3, JoinIs DEF Start, span
    <3> HIDE DEF type, s
    <3>11. type.ok = TRUE /\ type.span = span /\ type.name = name /\ Aiming(l, type.diags)
      <4> DEFINE other == Resolved(name, types, span, j + 1)
      <4>1. other.ok = TRUE /\ other.span = span /\ other.name = name /\ Aiming(l, other.diags)
        BY <3>9, ResolvedAims
      <4> HIDE DEF other
      <4> QED BY <3>1, <4>1 DEF other
    <3>12. Marked(l, T, i, type)
      BY <2>1, <3>9, <3>10, <3>11 DEF Marked
    <3> QED BY <3>12 DEF type
  <2> QED BY <2>2, <2>3, <2>4
<1> QED BY <1>3, <1>5, <1>6

(* A span that starts where one of the tokens from k up to m does.         *)
StartsIn(l, T, k, m, d) == \E j \in 1 .. Len(T) : k <= j /\ j < m /\ d.span.start.offset = Start(l, T, j)

(* Spans with the texts they are about, in the order of the tokens from k  *)
(* up to m.                                                                *)
Shows(l, T, k, m, x) ==
  /\ Aiming(l, x)
  /\ \A i \in 1 .. Len(x) : StartsIn(l, T, k, m, x[i])
  /\ \A i \in 1 .. Len(x) - 1 : x[i].span.start.offset < x[i + 1].span.start.offset

(* Nothing is in order. *)
LEMMA ShowsNone ==
  ASSUME NEW l, NEW T, NEW k, NEW m
  PROVE  Shows(l, T, k, m, <<>>)
<1> DEFINE x == <<>>
<1>1. Len(x) = 0
  OBVIOUS
<1>2. Aiming(l, x)
  BY AimingNone
<1> HIDE DEF x
<1>3. 1 .. Len(x) = {} /\ 1 .. Len(x) - 1 = {}
  BY <1>1
<1>4. Shows(l, T, k, m, x)
  BY <1>2, <1>3 DEF Shows
<1> QED BY <1>4 DEF x

(* One span alone is. *)
LEMMA ShowsOne ==
  ASSUME NEW l, NEW T, NEW k, NEW m, NEW d, Aims(l, d), StartsIn(l, T, k, m, d)
  PROVE  Shows(l, T, k, m, <<d>>)
<1> DEFINE x == <<d>>
<1>1. Len(x) = 1 /\ x[1] = d
  OBVIOUS
<1>2. Aiming(l, x)
  BY AimingOne
<1> HIDE DEF x
<1>3. 1 .. Len(x) = {1} /\ 1 .. Len(x) - 1 = {}
  BY <1>1
<1>4. Shows(l, T, k, m, x)
  BY <1>1, <1>2, <1>3 DEF Shows
<1> QED BY <1>4 DEF x

(* Two that start at tokens in order do so in the file. *)
LEMMA StartsOrder ==
  ASSUME NEW l, NEW T, NEW D, Tied(l, T, D), NEW k \in Nat, NEW m \in Nat, NEW q \in Nat, NEW d, NEW e,
         StartsIn(l, T, k, m, d), StartsIn(l, T, m, q, e)
  PROVE  d.span.start.offset < e.span.start.offset
<1>1. PICK i \in 1 .. Len(T) : k <= i /\ i < m /\ d.span.start.offset = Start(l, T, i)
  BY DEF StartsIn
<1>2. PICK j \in 1 .. Len(T) : m <= j /\ j < q /\ e.span.start.offset = Start(l, T, j)
  BY DEF StartsIn
<1>3. i < j
  BY <1>1, <1>2
<1>4. Start(l, T, i) < Start(l, T, j)
  BY <1>3, StartsApart
<1> QED BY <1>1, <1>2, <1>4

(* Those of the tokens up to m and those from m on are in order together. *)
LEMMA ShowsBoth ==
  ASSUME NEW l, NEW T, NEW D, Tied(l, T, D), NEW k \in Nat, NEW m \in Nat, NEW q \in Nat, k <= m, m <= q,
         NEW x, NEW y, Shows(l, T, k, m, x), Shows(l, T, m, q, y)
  PROVE  Shows(l, T, k, q, Chain(x, y))
<1> DEFINE z == x \o y
           a == Len(x)
           b == Len(y)
<1>1. Aiming(l, x) /\ Aiming(l, y)
  BY DEF Shows
<1>2. Aiming(l, z)
  BY <1>1, AimingBoth
<1>3. PICK S : x \in Seq(S) /\ \A d \in S : Aims(l, d)
  BY <1>1 DEF Aiming
<1>4. PICK R : y \in Seq(R) /\ \A d \in R : Aims(l, d)
  BY <1>1 DEF Aiming
<1>5. /\ a \in Nat /\ b \in Nat /\ Len(z) = a + b
      /\ (\A i \in 1 .. a : z[i] = x[i]) /\ \A i \in a + 1 .. a + b : z[i] = y[i - a]
  <2> DEFINE U == S \cup R
  <2>1. x \in Seq(U) /\ y \in Seq(U)
    <3>1. S \subseteq U /\ R \subseteq U
      OBVIOUS
    <3> HIDE DEF U
    <3>2. x \in Seq(U)
      BY <1>3, <3>1, SeqOfMore
    <3>3. y \in Seq(U)
      BY <1>4, <3>1, SeqOfMore
    <3> QED BY <3>2, <3>3
  <2> HIDE DEF U
  <2>2. Len(z) = a + b /\ \A i \in 1 .. a + b : z[i] = IF i <= a THEN x[i] ELSE y[i - a]
    BY <2>1, ConcatProperties, Zenon
  <2>3. a \in Nat /\ b \in Nat
    BY <2>1
  <2> HIDE DEF z, a, b
  <2>4. \A i \in 1 .. a : z[i] = x[i]
    <3> TAKE i \in 1 .. a
    <3>1. i \in 1 .. a + b /\ i <= a
      BY <2>3
    <3> QED BY <2>2, <3>1
  <2>5. \A i \in a + 1 .. a + b : z[i] = y[i - a]
    <3> TAKE i \in a + 1 .. a + b
    <3>1. i \in 1 .. a + b /\ ~(i <= a)
      BY <2>3
    <3> QED BY <2>2, <3>1
  <2> QED BY <2>2, <2>3, <2>4, <2>5
<1>6. /\ \A i \in 1 .. a : StartsIn(l, T, k, m, x[i])
      /\ \A i \in 1 .. a - 1 : x[i].span.start.offset < x[i + 1].span.start.offset
  BY DEF Shows
<1>7. /\ \A i \in 1 .. b : StartsIn(l, T, m, q, y[i])
      /\ \A i \in 1 .. b - 1 : y[i].span.start.offset < y[i + 1].span.start.offset
  BY DEF Shows
<1> HIDE DEF z, a, b
<1>8. ASSUME NEW i \in 1 .. Len(z) PROVE StartsIn(l, T, k, q, z[i])
  <2>1. CASE i <= a
    <3>1. i \in 1 .. a /\ z[i] = x[i]
      BY <1>5, <2>1
    <3>2. StartsIn(l, T, k, m, z[i])
      BY <1>6, <3>1
    <3> QED BY <3>2 DEF StartsIn
  <2>2. CASE ~(i <= a)
    <3>1. i \in a + 1 .. a + b /\ i - a \in 1 .. b
      BY <1>5, <2>2
    <3>2. StartsIn(l, T, m, q, z[i])
      BY <1>5, <1>7, <3>1
    <3> QED BY <3>2 DEF StartsIn
  <2> QED BY <2>1, <2>2
<1>9. ASSUME NEW i \in 1 .. Len(z) - 1 PROVE z[i].span.start.offset < z[i + 1].span.start.offset
  <2>1. CASE i < a
    <3>1. i \in 1 .. a /\ i + 1 \in 1 .. a /\ i \in 1 .. a - 1
      BY <1>5, <2>1
    <3>2. z[i] = x[i] /\ z[i + 1] = x[i + 1]
      BY <1>5, <3>1
    <3> QED BY <1>6, <3>1, <3>2
  <2>2. CASE i = a
    <3> DEFINE j == i + 1
    <3>1. i \in 1 .. a /\ j \in a + 1 .. a + b /\ 1 \in 1 .. b /\ j - a = 1
      BY <1>5, <2>2
    <3> HIDE DEF j
    <3>2. z[i] = x[i] /\ z[j] = y[1]
      BY <1>5, <3>1
    <3>3. StartsIn(l, T, k, m, x[i]) /\ StartsIn(l, T, m, q, y[1])
      BY <1>6, <1>7, <3>1
    <3>4. x[i].span.start.offset < y[1].span.start.offset
      BY <3>3, StartsOrder
    <3> QED BY <3>2, <3>4 DEF j
  <2>3. CASE i > a
    <3> DEFINE j == i + 1
               e == i - a
    <3>1. i \in a + 1 .. a + b /\ j \in a + 1 .. a + b /\ e \in 1 .. b - 1 /\ j - a = e + 1
      BY <1>5, <2>3
    <3>2. z[i] = y[e]
      BY <1>5, <3>1
    <3> HIDE DEF j, e
    <3>3. z[j] = y[e + 1]
      BY <1>5, <3>1
    <3> QED BY <1>7, <3>1, <3>2, <3>3 DEF j
  <2> QED BY <1>5, <2>1, <2>2, <2>3
<1>10. Shows(l, T, k, q, z)
  BY <1>2, <1>8, <1>9 DEF Shows
<1> QED BY <1>10, Zenon DEF z, Chain

(* What is shown of some tokens is shown of more. *)
LEMMA ShowsMore ==
  ASSUME NEW l, NEW T, NEW k \in Int, NEW m \in Int, NEW q \in Int, m <= q, NEW x, Shows(l, T, k, m, x)
  PROVE  Shows(l, T, k, q, x)
<1>1. \A i \in 1 .. Len(x) : StartsIn(l, T, k, q, x[i])
  <2> TAKE i \in 1 .. Len(x)
  <2>1. StartsIn(l, T, k, m, x[i])
    BY DEF Shows
  <2>2. PICK j \in 1 .. Len(T) : k <= j /\ j < m /\ x[i].span.start.offset = Start(l, T, j)
    BY <2>1 DEF StartsIn
  <2>3. j < q
    BY <2>2
  <2> QED BY <2>2, <2>3 DEF StartsIn
<1> QED BY <1>1 DEF Shows

(* The two spans of a name and its type, and those of parameters, one      *)
(* behind the other.                                                       *)
NameMark(g) == [span |-> g.span, about |-> g.name]
TypeMark(g) == [span |-> g.typeSpan, about |-> g.typeName]
Pair(g) == <<NameMark(g), TypeMark(g)>>
PairsOf(ps) == FlattenSeq([p \in DOMAIN ps |-> Pair(ps[p])])

(* The spans of one more parameter stand before those of the others.       *)
LEMMA PairsFirst ==
  ASSUME NEW G, NEW g \in G, NEW ps \in Seq(G)
  PROVE  PairsOf(<<g>> \o ps) = Chain(Pair(g), PairsOf(ps))
<1> DEFINE M == {NameMark(e) : e \in G} \cup {TypeMark(e) : e \in G}
           S == Seq(M)
           last == Len(ps)
           one == <<g>>
           more == one \o ps
           r == [p \in 1 .. last |-> Pair(ps[p])]
           w == [p \in 1 .. last + 1 |-> Pair(more[p])]
           a == Pair(g)
<1>1. \A e \in G : Pair(e) \in S
  <2> TAKE e \in G
  <2>1. NameMark(e) \in M /\ TypeMark(e) \in M
    OBVIOUS
  <2> HIDE DEF M
  <2> QED BY <2>1 DEF Pair
<1>2. last \in Nat /\ DOMAIN ps = 1 .. last /\ \A p \in 1 .. last : ps[p] \in G
  OBVIOUS
<1>3. /\ more \in Seq(G) /\ Len(more) = last + 1 /\ DOMAIN more = 1 .. last + 1 /\ more[1] = g
      /\ \A p \in 1 .. last : more[p + 1] = ps[p]
  <2>1. one \in Seq(G) /\ Len(one) = 1 /\ one[1] = g
    OBVIOUS
  <2> HIDE DEF one, last
  <2>2. /\ more \in Seq(G) /\ Len(more) = Len(one) + Len(ps)
        /\ \A i \in 1 .. Len(one) + Len(ps) : more[i] = IF i <= Len(one) THEN one[i] ELSE ps[i - Len(one)]
    BY <2>1, ConcatProperties, Zenon
  <2>3. /\ more \in Seq(G) /\ Len(more) = 1 + last
        /\ \A i \in 1 .. 1 + last : more[i] = IF i <= 1 THEN one[i] ELSE ps[i - 1]
    BY <2>1, <2>2, Zenon DEF last
  <2> HIDE DEF more
  <2>4. Len(more) = last + 1 /\ DOMAIN more = 1 .. last + 1
    <3>1. DOMAIN more = 1 .. Len(more)
      BY <2>3
    <3> QED BY <1>2, <2>3, <3>1
  <2>5. more[1] = g
    <3>1. 1 \in 1 .. 1 + last
      BY <1>2
    <3> QED BY <2>1, <2>3, <3>1
  <2>6. ASSUME NEW p \in 1 .. last PROVE more[p + 1] = ps[p]
    <3>1. p + 1 \in 1 .. 1 + last /\ ~(p + 1 <= 1) /\ (p + 1) - 1 = p
      BY <1>2
    <3> QED BY <2>3, <3>1
  <2> QED BY <2>3, <2>4, <2>5, <2>6
<1>4. r = [p \in DOMAIN ps |-> Pair(ps[p])] /\ w = [p \in DOMAIN more |-> Pair(more[p])]
  <2>1. r = [p \in DOMAIN ps |-> Pair(ps[p])]
    BY <1>2
  <2> HIDE DEF more
  <2>2. w = [p \in DOMAIN more |-> Pair(more[p])]
    BY <1>3
  <2> QED BY <2>1, <2>2 DEF more
<1> HIDE DEF more, last, S
<1>5. r \in Seq(S) /\ Len(r) = last
  <2>1. r \in [1 .. last -> S]
    BY <1>1, <1>2
  <2> HIDE DEF r
  <2> QED BY <1>2, <2>1
<1>6. w \in Seq(S) /\ Len(w) = last + 1
  <2>1. \A p \in 1 .. last + 1 : more[p] \in G
    BY <1>3
  <2>2. w \in [1 .. last + 1 -> S]
    BY <1>1, <2>1
  <2>3. last + 1 \in Nat
    BY <1>2
  <2> HIDE DEF w
  <2> QED BY <2>2, <2>3
<1>7. w[1] = a
  BY <1>2, <1>3
<1>8. ASSUME NEW i \in 1 .. last PROVE w[i + 1] = r[i]
  <2>1. i + 1 \in 1 .. last + 1
    BY <1>2
  <2>2. w[i + 1] = Pair(more[i + 1])
    BY <2>1
  <2>3. r[i] = Pair(ps[i])
    OBVIOUS
  <2> HIDE DEF w, r
  <2> QED BY <1>3, <2>2, <2>3
<1>9. a \in S
  BY <1>1
<1> HIDE DEF w, r, a
<1>10. FlattenSeq(w) = Chain(a, FlattenSeq(r))
  BY <1>5, <1>6, <1>7, <1>8, <1>9, FlattenFirst DEF S
<1>11. PairsOf(more) = FlattenSeq(w) /\ PairsOf(ps) = FlattenSeq(r)
  BY <1>4, Zenon DEF PairsOf
<1> QED BY <1>10, <1>11 DEF more, one, a

(* No parameters have no spans. *)
LEMMA PairsNone == PairsOf(<<>>) = <<>>
<1> DEFINE ps == <<>>
<1>1. [p \in DOMAIN ps |-> Pair(ps[p])] = <<>>
  OBVIOUS
<1>2. PairsOf(ps) = <<>>
  BY <1>1, FlattenNone, Zenon DEF PairsOf
<1> QED BY <1>2

(* Two, one behind the other. *)
LEMMA TwoTogether ==
  ASSUME NEW a, NEW b
  PROVE  <<a>> \o <<b>> = <<a, b>>
<1> DEFINE S == {a, b}
           x == <<a>>
           y == <<b>>
           z == <<a, b>>
           w == x \o y
<1>1. /\ x \in Seq(S) /\ y \in Seq(S) /\ z \in Seq(S) /\ Len(x) = 1 /\ Len(y) = 1 /\ Len(z) = 2
      /\ x[1] = a /\ y[1] = b /\ z[1] = a /\ z[2] = b
  OBVIOUS
<1> HIDE DEF x, y, z, S
<1>2. /\ w \in Seq(S) /\ Len(w) = 1 + 1
      /\ \A i \in 1 .. 1 + 1 : w[i] = IF i <= 1 THEN x[i] ELSE y[i - 1]
  <2>1. /\ w \in Seq(S) /\ Len(w) = Len(x) + Len(y)
        /\ \A i \in 1 .. Len(x) + Len(y) : w[i] = IF i <= Len(x) THEN x[i] ELSE y[i - Len(x)]
    BY <1>1, ConcatProperties, Zenon
  <2> HIDE DEF w
  <2> QED BY <1>1, <2>1
<1> HIDE DEF w
<1>3. w[1] = z[1] /\ w[2] = z[2]
  <2>1. 1 \in 1 .. 1 + 1 /\ 2 \in 1 .. 1 + 1 /\ 2 - 1 = 1 /\ ~(2 <= 1)
    OBVIOUS
  <2>2. w[1] = x[1]
    BY <1>2, <2>1
  <2>3. w[2] = y[1]
    BY <1>2, <2>1
  <2> QED BY <1>1, <2>2, <2>3
<1>4. \A i \in 1 .. Len(w) : w[i] = z[i]
  <2>1. 1 .. Len(w) = {1, 2}
    BY <1>2
  <2> QED BY <1>3, <2>1
<1>5. Len(w) = Len(z)
  BY <1>1, <1>2
<1>6. w = z
  BY <1>1, <1>2, <1>4, <1>5, SeqEqual
<1> QED BY <1>6, Zenon DEF w, x, y, z

(* A name and its type are shown, the one before the other. *)
LEMMA GivenShows ==
  ASSUME NEW l, NEW T, NEW D, Tied(l, T, D), NEW k \in Nat \ {0},
         At(T, k) = "ident", At(T, k + 1) = ":", ParseType(T, k + 2, l).ok
  PROVE  LET type == ParseType(T, k + 2, l)
         IN type.next \in k + 3 .. Len(T) + 1 /\ Shows(l, T, k, type.next, Pair(Given(T, k, l, type)))
<1> DEFINE type == ParseType(T, k + 2, l)
           g == Given(T, k, l, type)
           last == Len(T)
           m == type.next
           j == k + 2
           d == NameMark(g)
           e == TypeMark(g)
<1>1. Laying(Text(l), T, D) /\ last \in Nat
  BY LayingTexts DEF Tied
<1>2. m \in k + 3 .. last + 1
  BY <1>1, GivenWhole
<1>3. Marked(l, T, j, type)
  <2>1. j \in Nat \ {0}
    OBVIOUS
  <2> QED BY <2>1, TypeAims
<1>4. type.ok
  OBVIOUS
<1>5. /\ d.span = TokenSpan(l, T[k]) /\ d.about = T[k].text
      /\ e.span = type.span /\ e.about = type.name
  <2> HIDE DEF type
  <2> QED BY DEF Given, NameMark, TypeMark
<1> HIDE DEF type, m, last, j
<1>6. j \in 1 .. last /\ Points(l, type.span, type.name) /\ type.span.start.offset = Start(l, T, j)
  BY <1>3, <1>4 DEF Marked, last
<1>7. k \in 1 .. last /\ k < j
  BY <1>1, <1>6 DEF j
<1>8. k + 2 < m /\ m \in Nat /\ k <= j /\ j < m /\ k < m
  BY <1>1, <1>2 DEF j
<1> HIDE DEF d, e
<1>9. Aims(l, d)
  <2>1. Points(l, TokenSpan(l, T[k]), T[k].text)
    BY <1>7, TokenPoints DEF last
  <2> QED BY <1>5, <2>1, Zenon DEF Aims
<1>10. Aims(l, e)
  BY <1>5, <1>6, Zenon DEF Aims
<1>11. d.span.start.offset = Start(l, T, k)
  BY <1>5 DEF Start
<1>12. StartsIn(l, T, k, j, d)
  BY <1>7, <1>8, <1>11 DEF StartsIn, last
<1>13. StartsIn(l, T, j, m, e)
  BY <1>5, <1>6, <1>8 DEF StartsIn, last
<1>14. Shows(l, T, k, j, <<d>>)
  BY <1>9, <1>12, ShowsOne
<1>15. Shows(l, T, j, m, <<e>>)
  BY <1>10, <1>13, ShowsOne
<1>16. k \in Nat /\ j \in Nat
  BY DEF j
<1> DEFINE x == <<d>>
           y == <<e>>
<1>17. x \o y = <<d, e>>
  BY TwoTogether
<1>18. k <= j /\ j <= m
  BY <1>8, <1>16
<1> HIDE DEF x, y
<1>19. Shows(l, T, k, m, Chain(x, y))
  BY <1>8, <1>14, <1>15, <1>16, <1>18, ShowsBoth DEF x, y
<1>20. Chain(x, y) = Pair(g)
  BY <1>17, Zenon DEF Chain, Pair, d, e
<1>21. Shows(l, T, k, m, Pair(g))
  BY <1>19, <1>20, Zenon
<1> QED BY <1>2, <1>21, Zenon DEF m, g, last, type

(* The parameters from a token on, and what is said of them, stand where   *)
(* they were read.                                                         *)
ReadShows(l, T, k, ps) ==
  /\ Aiming(l, ps.diags)
  /\ ps.ok => ps.next \in k .. Len(T) + 1 /\ Shows(l, T, k, ps.next, PairsOf(ps.params))

(* A parameter and those behind it do. *)
LEMMA FollowShows ==
  ASSUME NEW l, NEW T, NEW D, Tied(l, T, D), NEW k \in 1 .. Len(T) + 1, Reads1(T, k, l),
         NEW rest \in ParamsKnown(T, l), ReadShows(l, T, After1(T, k, l), rest)
  PROVE  ReadShows(l, T, k, Follow1(T, k, l, rest)) /\ After1(T, k, l) \in k + 1 .. Len(T) + 1
<1> DEFINE type == ParseType(T, k + 2, l)
           g == Given(T, k, l, type)
           last == Len(T)
           m == type.next
           n1 == AfterComma(T, m)
           e == Follow1(T, k, l, rest)
           x == type.diags \o rest.diags
<1>1. last \in Nat /\ k \in Nat \ {0}
  BY LayingTexts DEF Tied
<1>2. type.ok /\ At(T, k) = "ident" /\ At(T, k + 1) = ":"
  BY DEF Reads1, TypeAt
<1>3. m \in k + 3 .. last + 1 /\ Shows(l, T, k, m, Pair(g))
  BY <1>1, <1>2, GivenShows
<1>4. m \in 1 .. last + 1 /\ k <= m /\ m \in Nat /\ k \in Nat
  <2> HIDE DEF m, last
  <2> QED BY <1>1, <1>3
<1>5. n1 \in m .. last + 1
  <2> HIDE DEF m
  <2> QED BY <1>1, <1>4, AfterCommaIs
<1>6. After1(T, k, l) = n1
  BY DEF After1, TypeAt
<1>7. n1 \in k + 1 .. last + 1
  <2> HIDE DEF m, n1, last
  <2> QED BY <1>1, <1>3, <1>5
<1>8. e = FirstParam(T, k, l, type, rest)
  BY DEF Follow1, TypeAt
<1>9. Aiming(l, x)
  <2>1. Marked(l, T, k + 2, type)
    <3>1. k + 2 \in Nat \ {0}
      BY <1>1
    <3> QED BY <3>1, TypeAims
  <2>2. Aiming(l, type.diags) /\ Aiming(l, rest.diags)
    <3> HIDE DEF type
    <3> QED BY <2>1 DEF Marked, ReadShows
  <2> HIDE DEF type
  <2> QED BY <2>2, AimingBoth
<1>10. CASE rest.ok
  <2>1. rest \in ParamsRead(T, l)
    <3>1. \A f \in ParamsFailed(T, l) : ~f.ok
      BY DEF ParamsFailed
    <3> QED BY <1>10, <3>1 DEF ParamsKnown
  <2> DEFINE G == GivenOf(T, l)
             ps == rest.params
             y == <<g>> \o ps
  <2>2. rest \in [ok : {TRUE}, params : Seq(G), diags : Seq(DiagOf(T, l)), next : 1 .. last + 1]
    BY <2>1 DEF ParamsRead
  <2>3. ps \in Seq(G) /\ rest.ok = TRUE
    BY <2>2
  <2>4. e = [rest EXCEPT !.diags = x, !.params = y]
    <3> HIDE DEF type, g
    <3>1. e = [rest EXCEPT !.diags = type.diags \o @, !.params = <<g>> \o @]
      BY <1>2, <1>8, <2>3 DEF FirstParam, type, g
    <3> HIDE DEF e
    <3> QED BY <2>2, <3>1
  <2>5. g \in G
    <3>1. k \in 1 .. last
      <4>1. k <= last
        BY <1>2 DEF At
      <4> HIDE DEF last
      <4> QED BY <1>1, <4>1
    <3> QED BY <3>1 DEF GivenOf, TypeAt
  <2> HIDE DEF x, y, e, type, ps, g, m, n1, last, G
  <2>6. e.params = y /\ e.next = rest.next /\ e.ok = TRUE /\ e.diags = x
    BY <2>2, <2>3, <2>4
  <2>7. rest.next \in n1 .. last + 1 /\ Shows(l, T, n1, rest.next, PairsOf(ps))
    BY <1>6, <1>10 DEF ReadShows, ps, last
  <2>8. PairsOf(y) = Chain(Pair(g), PairsOf(ps))
    BY <2>3, <2>5, PairsFirst DEF y
  <2>9. rest.next \in k .. last + 1 /\ rest.next \in Nat /\ n1 \in Nat /\ m <= n1 /\ n1 <= rest.next /\ k <= n1
    <3> DEFINE z == rest.next
    <3>1. z \in n1 .. last + 1
      BY <2>7
    <3> HIDE DEF z
    <3>2. z \in k .. last + 1 /\ z \in Nat /\ n1 \in Nat /\ m <= n1 /\ n1 <= z /\ k <= n1
      BY <1>1, <1>4, <1>5, <1>7, <3>1
    <3> QED BY <3>2 DEF z
  <2>10. Shows(l, T, k, n1, Pair(g))
    BY <1>3, <1>4, <2>9, ShowsMore
  <2>11. Shows(l, T, k, rest.next, Chain(Pair(g), PairsOf(ps)))
    <3> DEFINE z == rest.next
               a == Pair(g)
               b == PairsOf(ps)
    <3>1. z \in Nat /\ n1 <= z /\ Shows(l, T, n1, z, b) /\ Shows(l, T, k, n1, a)
      BY <2>7, <2>9, <2>10
    <3> HIDE DEF z, a, b
    <3>2. Shows(l, T, k, z, Chain(a, b))
      BY <1>4, <2>9, <3>1, ShowsBoth
    <3> QED BY <3>2 DEF z, a, b
  <2>12. Shows(l, T, k, e.next, PairsOf(e.params))
    BY <2>6, <2>8, <2>11, Zenon
  <2>13. ReadShows(l, T, k, e)
    <3>1. Aiming(l, e.diags)
      BY <1>9, <2>6
    <3>2. e.next \in k .. Len(T) + 1
      BY <2>6, <2>9 DEF last
    <3> QED BY <2>12, <3>1, <3>2, Zenon DEF ReadShows
  <2> QED BY <1>6, <1>7, <2>13 DEF e, last
<1>11. CASE ~rest.ok
  <2>1. rest \in ParamsFailed(T, l)
    <3>1. \A f \in ParamsRead(T, l) : f.ok
      BY DEF ParamsRead
    <3> QED BY <1>11, <3>1 DEF ParamsKnown
  <2> DEFINE E == DiagOf(T, l)
  <2>2. rest \in [ok : {FALSE}, diags : Seq(E), next : {0}]
    BY <2>1 DEF ParamsFailed
  <2>3. e = [rest EXCEPT !.diags = x]
    <3> HIDE DEF type, g, E
    <3>1. e = [rest EXCEPT !.diags = type.diags \o @]
      BY <1>2, <1>8, <1>11 DEF FirstParam, type
    <3> HIDE DEF e
    <3> QED BY <2>2, <3>1
  <2> HIDE DEF x, e, type, E
  <2>4. e.ok = FALSE /\ e.diags = x
    BY <2>2, <2>3
  <2>5. ReadShows(l, T, k, e)
    BY <1>9, <2>4 DEF ReadShows
  <2> HIDE DEF m, n1, last
  <2> QED BY <1>6, <1>7, <2>5 DEF e, last
<1> QED BY <1>10, <1>11

(* Where no parameter is read. *)
LEMMA LastShows ==
  ASSUME NEW l, NEW T, NEW D, Tied(l, T, D), NEW k \in 1 .. Len(T) + 1, ~Reads1(T, k, l)
  PROVE  ReadShows(l, T, k, Last1(T, k, l))
<1> DEFINE f == Last1(T, k, l)
           last == Len(T)
<1>1. last \in Nat /\ k \in Nat \ {0}
  BY LayingTexts DEF Tied
<1>2. CASE At(T, k) \in {"end", ")"}
  <2>1. f.ok = TRUE /\ f.params = <<>> /\ f.diags = <<>> /\ f.next = k
    BY <1>2 DEF Last1
  <2> HIDE DEF f
  <2>2. Aiming(l, f.diags)
    BY <2>1, AimingNone
  <2>3. f.next \in k .. Len(T) + 1
    BY <1>1, <2>1
  <2>4. PairsOf(f.params) = <<>>
    BY <2>1, PairsNone, Zenon
  <2>5. Shows(l, T, k, f.next, PairsOf(f.params))
    BY <2>4, ShowsNone, Zenon
  <2> QED BY <2>2, <2>3, <2>5, Zenon DEF ReadShows, f
<1>3. CASE At(T, k) \notin {"end", ")"}
  <2>1. k \in 1 .. last
    <3>1. k <= last
      BY <1>3 DEF At
    <3> HIDE DEF last
    <3> QED BY <1>1, <3>1
  <2>2. ASSUME NEW d, Aims(l, d), f = NoReading(d) PROVE ReadShows(l, T, k, f)
    <3>1. NoReading(d).ok = FALSE /\ Aiming(l, NoReading(d).diags)
      BY <2>2, NoReadingAims
    <3> HIDE DEF f
    <3> QED BY <2>2, <3>1 DEF ReadShows
  <2>3. CASE At(T, k) # "ident"
    <3>1. f = NoReading(Here("E0006", l, T[k]))
      BY <1>3, <2>3 DEF Last1
    <3>2. Aims(l, Here("E0006", l, T[k]))
      BY <2>1, HereAims
    <3> HIDE DEF f
    <3> QED BY <2>2, <3>1, <3>2 DEF f
  <2>4. CASE At(T, k) = "ident" /\ At(T, k + 1) # ":"
    <3>1. f = NoReading(Here("E0007", l, T[k]))
      BY <1>3, <2>4 DEF Last1
    <3>2. Aims(l, Here("E0007", l, T[k]))
      BY <2>1, HereAims
    <3> HIDE DEF f
    <3> QED BY <2>2, <3>1, <3>2 DEF f
  <2>5. CASE At(T, k) = "ident" /\ At(T, k + 1) = ":"
    <3> DEFINE type == ParseType(T, k + 2, l)
    <3>1. f = type
      BY <1>3, <2>5 DEF Last1, TypeAt
    <3>2. ~type.ok
      BY <1>3, <2>5 DEF Reads1, TypeAt
    <3>3. Marked(l, T, k + 2, type)
      <4>1. k + 2 \in Nat \ {0}
        BY <1>1
      <4> QED BY <4>1, TypeAims
    <3> HIDE DEF f, type
    <3>4. ReadShows(l, T, k, f)
      BY <3>1, <3>2, <3>3 DEF Marked, ReadShows
    <3> QED BY <3>4 DEF f
  <2> QED BY <2>3, <2>4, <2>5
<1> QED BY <1>2, <1>3

(* The parameters of a signature do. *)
LEMMA ParamsShow ==
  ASSUME NEW l, NEW T, NEW D, Tied(l, T, D), NEW k \in 1 .. Len(T) + 1
  PROVE  ReadShows(l, T, k, Params(T, k, l))
<1> DEFINE last == Len(T) + 1
           I == 1 .. last
           F == ParamsFrom(T, l)
           S == {i \in I : ReadShows(l, T, i, F[i])}
<1>1. last \in Nat /\ Len(T) \in Nat /\ Texts(T, D) /\ Joining \subseteq D
  BY LayingTexts DEF Tied
<1>2. /\ \A i \in I :
           /\ F[i] \in ParamsKnown(T, l)
           /\ F[i] = IF Reads1(T, i, l) THEN Follow1(T, i, l, F[After1(T, i, l)]) ELSE Last1(T, i, l)
      /\ \A i : Params(T, i, l) = F[i]
  BY <1>1, ParamsFromIs
<1> HIDE DEF F
<1>3. ASSUME NEW i \in I, \A j \in I : j > i => j \in S PROVE i \in S
  <2>1. CASE Reads1(T, i, l)
    <3> DEFINE a == After1(T, i, l)
               f == F[a]
    <3>1. a \in i + 1 .. last
      BY <1>1, <2>1, AfterParam
    <3>2. a \in I /\ a > i
      <4> HIDE DEF a, last
      <4> QED BY <1>1, <3>1
    <3>3. ReadShows(l, T, a, f) /\ f \in ParamsKnown(T, l)
      BY <1>2, <1>3, <3>2
    <3>4. F[i] = Follow1(T, i, l, f)
      BY <1>2, <2>1
    <3> HIDE DEF f
    <3>5. ReadShows(l, T, i, Follow1(T, i, l, f))
      BY <2>1, <3>3, FollowShows
    <3> QED BY <3>4, <3>5
  <2>2. CASE ~Reads1(T, i, l)
    <3>1. F[i] = Last1(T, i, l)
      BY <1>2, <2>2
    <3>2. ReadShows(l, T, i, Last1(T, i, l))
      BY <2>2, LastShows
    <3> QED BY <3>1, <3>2
  <2> QED BY <2>1, <2>2
<1> HIDE DEF S
<1>4. I \subseteq S
  <2>1. S \in SUBSET I
    BY DEF S
  <2> HIDE DEF last
  <2> QED BY <1>1, <1>3, <2>1, DownInduction
<1>5. k \in S
  BY <1>4
<1> QED BY <1>2, <1>5 DEF S

(* A line that was not accepted. *)
LEMMA FailedIs ==
  ASSUME NEW ds
  PROVE  Failed(ds).fn = NoFn /\ Failed(ds).diags = ds /\ Failed(ds).cells = <<>>
BY DEF Failed

(* What stands behind a signature is pointed at. *)
LEMMA TrailingAims ==
  ASSUME NEW l, NEW T, NEW D, Tied(l, T, D), NEW i \in Nat \ {0}
  PROVE  Aiming(l, Trailing(T, i, l))
<1> DEFINE last == Len(T)
<1>1. last \in Nat
  BY LayingTexts DEF Tied
<1>2. CASE At(T, i) = "end"
  BY <1>2, AimingNone DEF Trailing
<1>3. CASE At(T, i) # "end"
  <2>1. i \in 1 .. last
    <3>1. i <= last
      BY <1>3 DEF At
    <3> HIDE DEF last
    <3> QED BY <1>1, <3>1
  <2>2. Aims(l, Here("E0012", l, T[i]))
    BY <2>1, HereAims
  <2>3. Aiming(l, <<Here("E0012", l, T[i])>>)
    BY <2>2, AimingOne
  <2> QED BY <1>3, <2>3 DEF Trailing
<1> QED BY <1>2, <1>3

(* The result of a signature stands where it was read, and so does what is *)
(* said of it.                                                             *)
ResultOf(l, T, i, fn, r) ==
  /\ Aiming(l, r.diags) /\ r.cells = <<>>
  /\ r.fn # NoFn => /\ i + 2 <= Len(T) + 1 /\ Shows(l, T, i + 2, Len(T) + 1, Pair(r.fn.result))
                    /\ r.fn.name = fn.name /\ r.fn.span = fn.span /\ r.fn.params = fn.params

(* A signature that ends before its result. *)
LEMMA FailedResult ==
  ASSUME NEW l, NEW T, NEW i, NEW fn, NEW ds, Aiming(l, ds)
  PROVE  ResultOf(l, T, i, fn, Failed(ds))
<1> DEFINE r == Failed(ds)
<1>1. r.fn = NoFn /\ r.diags = ds /\ r.cells = <<>>
  BY FailedIs
<1> HIDE DEF r
<1>2. ResultOf(l, T, i, fn, r)
  BY <1>1, Zenon DEF ResultOf
<1> QED BY <1>2 DEF r

(* One more thing is said, and it ends. *)
LEMMA EndsShort ==
  ASSUME NEW l, NEW T, NEW i, NEW fn, NEW ds, Aiming(l, ds), NEW d, Aims(l, d)
  PROVE  ResultOf(l, T, i, fn, Failed(Append(ds, d)))
<1> DEFINE x == Append(ds, d)
<1>1. Aiming(l, x)
  BY AimingMore
<1> HIDE DEF x
<1>2. ResultOf(l, T, i, fn, Failed(x))
  BY <1>1, FailedResult
<1> QED BY <1>2 DEF x

(* A result that is read. *)
LEMMA CompleteShows ==
  ASSUME NEW l, NEW T, NEW D, Tied(l, T, D), NEW i \in Nat \ {0}, NEW ds, Aiming(l, ds), NEW fn,
         fn = [mode |-> fn.mode, name |-> fn.name, span |-> fn.span, params |-> fn.params, result |-> fn.result],
         At(T, i + 2) = "ident", At(T, i + 3) = ":"
  PROVE  ResultOf(l, T, i, fn, Complete(T, i + 2, l, fn, ds, ParseType(T, i + 4, l)))
<1> DEFINE k == i + 2
           type == ParseType(T, i + 4, l)
           g == Given(T, k, l, type)
           tail == Trailing(T, type.next, l)
           last == Len(T)
           r == Complete(T, k, l, fn, ds, type)
           x == ds \o type.diags
           y == x \o tail
<1>1. last \in Nat
  BY LayingTexts DEF Tied
<1>2. Marked(l, T, i + 4, type)
  <2>1. i + 4 \in Nat \ {0}
    OBVIOUS
  <2> QED BY <2>1, TypeAims
<1>3. Aiming(l, x)
  <2>1. Aiming(l, type.diags)
    <3> HIDE DEF type
    <3> QED BY <1>2 DEF Marked
  <2> HIDE DEF type
  <2> QED BY <2>1, AimingBoth
<1>4. CASE ~type.ok
  <2>1. r = Failed(x)
    BY <1>4 DEF Complete
  <2> HIDE DEF r, x, type
  <2>2. ResultOf(l, T, i, fn, Failed(x))
    BY <1>3, FailedResult
  <2> QED BY <2>1, <2>2 DEF r, type
<1>5. CASE type.ok
  <2>1. type.next \in k + 3 .. last + 1 /\ Shows(l, T, k, type.next, Pair(g))
    <3>1. k \in Nat \ {0} /\ At(T, k) = "ident" /\ At(T, k + 1) = ":" /\ ParseType(T, k + 2, l) = type
      <4>1. k \in Nat \ {0} /\ k + 1 = i + 3 /\ k + 2 = i + 4
        OBVIOUS
      <4> QED BY <4>1
    <3>2. ParseType(T, k + 2, l).ok
      BY <1>5, <3>1
    <3> HIDE DEF k, type
    <3>3. LET other == ParseType(T, k + 2, l)
          IN other.next \in k + 3 .. Len(T) + 1 /\ Shows(l, T, k, other.next, Pair(Given(T, k, l, other)))
      BY <3>1, <3>2, GivenShows
    <3> QED BY <3>1, <3>3 DEF g, last
  <2>2. r = [fn |-> [fn EXCEPT !.result = g], diags |-> y, cells |-> <<>>]
    <3>1. r = [fn |-> [fn EXCEPT !.result = g], diags |-> ds \o type.diags \o tail, cells |-> <<>>]
      BY <1>5, Zenon DEF Complete
    <3> QED BY <3>1, Zenon
  <2> DEFINE m == type.next
  <2>3. m \in Nat \ {0} /\ m <= last + 1 /\ k <= last + 1 /\ k \in Int /\ m \in Int /\ last + 1 \in Int
    <3>1. m \in k + 3 .. last + 1 /\ k \in Nat \ {0}
      BY <2>1
    <3> HIDE DEF m, last, k
    <3> QED BY <1>1, <3>1
  <2>4. Aiming(l, y)
    <3>1. Aiming(l, tail)
      <4> HIDE DEF m
      <4>1. Aiming(l, Trailing(T, m, l))
        BY <2>3, TrailingAims
      <4> QED BY <4>1 DEF m
    <3> HIDE DEF x, tail
    <3> QED BY <1>3, <3>1, AimingBoth
  <2> HIDE DEF r, g, y, m, last, type
  <2>5. Shows(l, T, k, last + 1, Pair(g))
    <3>1. Shows(l, T, k, m, Pair(g))
      BY <2>1 DEF m
    <3> HIDE DEF k
    <3>2. last + 1 \in Int
      BY <2>3
    <3> DEFINE z == last + 1
    <3>3. m <= z /\ z \in Int
      BY <2>3
    <3> HIDE DEF z
    <3>4. Shows(l, T, k, z, Pair(g))
      BY <2>3, <3>1, <3>3, ShowsMore
    <3> QED BY <3>4 DEF z
  <2>6. /\ r.fn.result = g /\ r.fn.name = fn.name /\ r.fn.span = fn.span /\ r.fn.params = fn.params
        /\ r.diags = y /\ r.cells = <<>>
    BY <2>2
  <2>7. ResultOf(l, T, i, fn, r)
    <3>1. i + 2 <= Len(T) + 1
      BY <2>3 DEF last
    <3>2. Shows(l, T, i + 2, Len(T) + 1, Pair(r.fn.result))
      BY <2>5, <2>6, Zenon DEF last, k
    <3> QED BY <2>4, <2>6, <3>1, <3>2, Zenon DEF ResultOf
  <2> QED BY <2>7 DEF r, type
<1> QED BY <1>4, <1>5

(* What stands behind the parameters. *)
LEMMA ResultShows ==
  ASSUME NEW l, NEW T, NEW D, Tied(l, T, D), NEW i \in Nat \ {0}, NEW ds, Aiming(l, ds), NEW fn,
         fn = [mode |-> fn.mode, name |-> fn.name, span |-> fn.span, params |-> fn.params, result |-> fn.result]
  PROVE  ResultOf(l, T, i, fn, ParseResult(T, i, l, fn, ds))
<1> DEFINE r == ParseResult(T, i, l, fn, ds)
           last == Len(T)
<1>1. last \in Nat /\ OnFile(l)
  BY LayingTexts DEF Tied
<1>2. ASSUME NEW d, Aims(l, d), r = Failed(Append(ds, d)) PROVE ResultOf(l, T, i, fn, r)
  <2>1. ResultOf(l, T, i, fn, Failed(Append(ds, d)))
    BY <1>2, EndsShort
  <2> HIDE DEF r
  <2> QED BY <1>2, <2>1
<1>3. \A code : Aims(l, Whole(code, l))
  BY <1>1, WholeAims
<1>4. CASE At(T, i) # ")"
  <2>1. r = Failed(Append(ds, Whole("E0008", l)))
    BY <1>4 DEF ParseResult
  <2> HIDE DEF r
  <2> QED BY <1>2, <1>3, <2>1 DEF r
<1>5. CASE At(T, i) = ")" /\ At(T, i + 1) # "->"
  <2>1. r = Failed(Append(ds, Whole("E0009", l)))
    BY <1>5 DEF ParseResult
  <2> HIDE DEF r
  <2> QED BY <1>2, <1>3, <2>1 DEF r
<1>6. CASE At(T, i) = ")" /\ At(T, i + 1) = "->" /\ At(T, i + 2) # "ident"
  <2>1. r = Failed(Append(ds, Whole("E0010", l)))
    BY <1>6 DEF ParseResult
  <2> HIDE DEF r
  <2> QED BY <1>2, <1>3, <2>1 DEF r
<1>7. CASE At(T, i) = ")" /\ At(T, i + 1) = "->" /\ At(T, i + 2) = "ident" /\ At(T, i + 3) # ":"
  <2>1. r = Failed(Append(ds, Here("E0011", l, T[i + 2])))
    BY <1>7 DEF ParseResult
  <2>2. i + 2 \in 1 .. last
    <3>1. i + 2 <= last
      BY <1>7 DEF At
    <3> HIDE DEF last
    <3> QED BY <1>1, <3>1
  <2>3. Aims(l, Here("E0011", l, T[i + 2]))
    BY <2>2, HereAims
  <2> HIDE DEF r
  <2> QED BY <1>2, <2>1, <2>3 DEF r
<1>8. CASE At(T, i) = ")" /\ At(T, i + 1) = "->" /\ At(T, i + 2) = "ident" /\ At(T, i + 3) = ":"
  <2> DEFINE other == Complete(T, i + 2, l, fn, ds, ParseType(T, i + 4, l))
  <2>1. r = other
    BY <1>8 DEF ParseResult
  <2>2. ResultOf(l, T, i, fn, other)
    BY <1>8, CompleteShows
  <2> HIDE DEF r, other
  <2> QED BY <2>1, <2>2 DEF r
<1> QED BY <1>4, <1>5, <1>6, <1>7, <1>8

(* What is made of a head: each thing said of it points at what it is      *)
(* about, and so do the spans of a declaration, in the order of the text.  *)
Rising(x) == \A i \in 1 .. Len(x) - 1 : x[i].span.start.offset < x[i + 1].span.start.offset
HeadTold(l, r) ==
  /\ Aiming(l, r.diags) /\ r.cells = <<>>
  /\ r.fn # NoFn => Aiming(l, SpansOf(r.fn)) /\ Rising(SpansOf(r.fn))

(* What is not accepted. *)
LEMMA FailedTold ==
  ASSUME NEW l, NEW ds, Aiming(l, ds)
  PROVE  HeadTold(l, Failed(ds))
<1> DEFINE r == Failed(ds)
<1>1. r.fn = NoFn /\ r.diags = ds /\ r.cells = <<>>
  BY FailedIs
<1> HIDE DEF r
<1>2. HeadTold(l, r)
  BY <1>1, Zenon DEF HeadTold
<1> QED BY <1>2 DEF r

(* The spans of a declaration are those of its name, of its parameters and *)
(* of its result.                                                          *)
LEMMA SpansAre ==
  ASSUME NEW fn
  PROVE  SpansOf(fn) = Chain(Chain(<<[span |-> fn.span, about |-> fn.name]>>, PairsOf(fn.params)), Pair(fn.result))
BY Zenon DEF SpansOf, Chain, PairsOf, Pair, NameMark, TypeMark

(* What is accepted behind the parameters. *)
LEMMA AcceptedShows ==
  ASSUME NEW l, NEW T, NEW D, Tied(l, T, D), 5 \in 1 .. Len(T) + 1, NEW ps, ReadShows(l, T, 5, ps), ps.ok,
         NEW fn, fn.name = T[3].text, fn.span = TokenSpan(l, T[3]), fn.params = ps.params,
         NEW r, ResultOf(l, T, ps.next, fn, r)
  PROVE  HeadTold(l, r)
<1> DEFINE last == Len(T)
           e == r.fn
           m == ps.next
           d == [span |-> e.span, about |-> e.name]
           a == <<d>>
           b == PairsOf(e.params)
           c == Pair(e.result)
<1>1. last \in Nat /\ 3 \in 1 .. last
  <2>1. last \in Nat
    BY LayingTexts DEF Tied
  <2>2. 5 \in 1 .. last + 1
    OBVIOUS
  <2> HIDE DEF last
  <2> QED BY <2>1, <2>2
<1>2. Aiming(l, r.diags) /\ r.cells = <<>>
  BY DEF ResultOf
<1>3. ASSUME e # NoFn PROVE Aiming(l, SpansOf(e)) /\ Rising(SpansOf(e))
  <2>1. /\ m + 2 <= last + 1 /\ Shows(l, T, m + 2, last + 1, c)
        /\ e.name = T[3].text /\ e.span = TokenSpan(l, T[3]) /\ e.params = ps.params
    <3> HIDE DEF e
    <3>1. /\ m + 2 <= last + 1 /\ Shows(l, T, m + 2, last + 1, c)
          /\ e.name = fn.name /\ e.span = fn.span /\ e.params = fn.params
      BY <1>3 DEF ResultOf, e
    <3> QED BY <3>1, Zenon
  <2>2. m \in 5 .. last + 1 /\ Shows(l, T, 5, m, b)
    <3>1. m \in 5 .. last + 1 /\ Shows(l, T, 5, m, PairsOf(ps.params))
      BY DEF ReadShows
    <3> QED BY <2>1, <3>1, Zenon
  <2>3. d.span = TokenSpan(l, T[3]) /\ d.about = T[3].text
    BY <2>1
  <2> DEFINE z == m + 2
             y == last + 1
             v == 5
  <2> HIDE DEF m, e, last, c, b, d, a
  <2>4. /\ m \in Nat /\ z \in Nat /\ y \in Nat /\ v \in Nat /\ m \in Int /\ z \in Int /\ v \in Int /\ 3 \in Nat
        /\ m <= z /\ z <= y /\ v <= z /\ 3 <= v /\ 3 <= z /\ 3 < v
    BY <1>1, <2>1, <2>2
  <2>5. Shows(l, T, v, m, b) /\ Shows(l, T, z, y, c)
    BY <2>1, <2>2
  <2> HIDE DEF z, y, v
  <2>6. Shows(l, T, v, z, b)
    BY <2>4, <2>5, ShowsMore
  <2>7. Shows(l, T, 3, v, a)
    <3>1. Points(l, TokenSpan(l, T[3]), T[3].text)
      BY <1>1, TokenPoints DEF last
    <3>2. Aims(l, d)
      BY <2>3, <3>1, Zenon DEF Aims
    <3>3. d.span.start.offset = Start(l, T, 3)
      BY <2>3 DEF Start
    <3>4. 3 \in 1 .. Len(T) /\ 3 <= 3 /\ 3 < v
      BY <1>1, <2>4 DEF last
    <3>5. StartsIn(l, T, 3, v, d)
      BY <3>3, <3>4 DEF StartsIn
    <3> QED BY <3>2, <3>5, ShowsOne DEF a
  <2> DEFINE ab == Chain(a, b)
             abc == Chain(ab, c)
  <2>8. Shows(l, T, 3, z, ab)
    BY <2>4, <2>6, <2>7, ShowsBoth
  <2> HIDE DEF ab
  <2>9. Shows(l, T, 3, y, abc)
    BY <2>4, <2>5, <2>8, ShowsBoth
  <2> HIDE DEF abc
  <2>10. SpansOf(e) = abc
    <3>1. SpansOf(e) = Chain(Chain(<<[span |-> e.span, about |-> e.name]>>, PairsOf(e.params)), Pair(e.result))
      BY SpansAre
    <3> QED BY <3>1, Zenon DEF abc, ab, a, b, c, d
  <2>11. Aiming(l, abc) /\ Rising(abc)
    BY <2>9 DEF Shows, Rising
  <2> QED BY <2>10, <2>11
<1> QED BY <1>2, <1>3 DEF HeadTold, e

(* What is made of a signature, by its tokens. *)
LEMMA TokensTold ==
  ASSUME NEW l, NEW T, NEW D, Tied(l, T, D), NEW mode
  PROVE  HeadTold(l, ParseTokens(T, l, mode))
<1> DEFINE r == ParseTokens(T, l, mode)
           ps == Params(T, 5, l)
           fn == [mode |-> mode, name |-> T[3].text, span |-> TokenSpan(l, T[3]),
                  params |-> ps.params, result |-> <<>>]
           last == Len(T)
<1>0. last \in Nat /\ OnFile(l)
  BY LayingTexts DEF Tied
<1>1. ASSUME NEW d, Aims(l, d), r = Failed(<<d>>) PROVE HeadTold(l, r)
  <2>1. Aiming(l, <<d>>)
    BY <1>1, AimingOne
  <2> DEFINE x == <<d>>
  <2> HIDE DEF x, r
  <2>2. HeadTold(l, Failed(x))
    BY <2>1, FailedTold DEF x
  <2> QED BY <1>1, <2>2 DEF x
<1>2. CASE last < 3
  <2>1. r = Failed(<<Whole("E0003", l)>>)
    BY <1>2 DEF ParseTokens
  <2>2. Aims(l, Whole("E0003", l))
    BY <1>0, WholeAims
  <2> HIDE DEF r
  <2> QED BY <1>1, <2>1, <2>2 DEF r
<1>3. ASSUME ~(last < 3) PROVE 3 \in 1 .. Len(T)
  <2>1. 3 \in 1 .. last
    <3>1. ~(last < 3)
      BY <1>3
    <3> HIDE DEF last
    <3> QED BY <1>0, <3>1
  <2> QED BY <2>1
<1>4. CASE ~(last < 3) /\ At(T, 3) # "ident"
  <2>1. r = Failed(<<Here("E0004", l, T[3])>>)
    BY <1>4 DEF ParseTokens
  <2>2. Aims(l, Here("E0004", l, T[3]))
    BY <1>3, <1>4, HereAims
  <2> HIDE DEF r
  <2> QED BY <1>1, <2>1, <2>2 DEF r
<1>5. CASE ~(last < 3) /\ At(T, 3) = "ident" /\ At(T, 4) # "("
  <2>1. r = Failed(<<Here("E0005", l, T[3])>>)
    BY <1>5 DEF ParseTokens
  <2>2. Aims(l, Here("E0005", l, T[3]))
    BY <1>3, <1>5, HereAims
  <2> HIDE DEF r
  <2> QED BY <1>1, <2>1, <2>2 DEF r
<1>6. CASE ~(last < 3) /\ At(T, 3) = "ident" /\ At(T, 4) = "("
  <2>1. r = Accepted(T, l, mode, ps)
    BY <1>6 DEF ParseTokens
  <2>2. 5 \in 1 .. last + 1
    <3>1. 4 <= last
      BY <1>6 DEF At
    <3> HIDE DEF last
    <3> QED BY <1>0, <3>1
  <2>3. ReadShows(l, T, 5, ps)
    BY <2>2, ParamsShow
  <2>4. r = IF ~ps.ok THEN Failed(ps.diags) ELSE ParseResult(T, ps.next, l, fn, ps.diags)
    BY <2>1 DEF Accepted
  <2>5. CASE ~ps.ok
    <3> DEFINE x == ps.diags
    <3>1. Aiming(l, x)
      <4> HIDE DEF ps
      <4> QED BY <2>3 DEF ReadShows
    <3>2. r = Failed(x)
      BY <2>4, <2>5, Zenon
    <3> HIDE DEF r, x, ps
    <3>3. HeadTold(l, Failed(x))
      BY <3>1, FailedTold
    <3> QED BY <3>2, <3>3 DEF r
  <2>6. CASE ps.ok
    <3> DEFINE x == ps.diags
               i == ps.next
               prms == ps.params
               span == TokenSpan(l, T[3])
    <3>1. Aiming(l, x) /\ i \in 5 .. last + 1
      <4> HIDE DEF ps
      <4> QED BY <2>3, <2>6 DEF ReadShows
    <3>2. r = ParseResult(T, i, l, fn, x)
      BY <2>4, <2>6, Zenon
    <3>3. i \in Nat \ {0}
      <4> HIDE DEF i, last
      <4> QED BY <1>0, <3>1
    <3>4. /\ fn = [mode |-> fn.mode, name |-> fn.name, span |-> fn.span, params |-> fn.params,
                   result |-> fn.result]
          /\ fn.name = T[3].text /\ fn.span = span /\ fn.params = prms
      <4> HIDE DEF span, prms
      <4>1. fn = [mode |-> mode, name |-> T[3].text, span |-> span, params |-> prms, result |-> <<>>]
        BY Zenon DEF span, prms
      <4> HIDE DEF fn
      <4> QED BY <4>1
    <3>5. ps.ok
      BY <2>6
    <3> HIDE DEF r, fn, x, i
    <3>6. ResultOf(l, T, i, fn, ParseResult(T, i, l, fn, x))
      BY <3>1, <3>3, <3>4, ResultShows
    <3>7. ResultOf(l, T, ps.next, fn, r)
      BY <3>2, <3>6 DEF i
    <3>8. fn.name = T[3].text /\ fn.span = TokenSpan(l, T[3]) /\ fn.params = ps.params
      BY <3>4
    <3> HIDE DEF ps, span
    <3>9. HeadTold(l, r)
      BY <2>2, <2>3, <3>5, <3>7, <3>8, AcceptedShows DEF last
    <3> QED BY <3>9 DEF r
  <2> QED BY <2>5, <2>6
<1> QED BY <1>2, <1>4, <1>5, <1>6

(* The tokens of a line of the file. *)
LEMMA TiedIs ==
  ASSUME NEW l, OnFile(l)
  PROVE  \E C : Text(l) \in Seq(C) /\ Tied(l, Tokens(Text(l)), C \cup Joining)
<1> DEFINE s == Text(l)
           C == {s[i] : i \in 1 .. Len(s)}
<1>1. l.text \in Seq(Rune)
  BY DEF OnFile, Sound, LogicalLine
<1>2. s \in Seq(C) /\ Len(s) = Len(l.text)
  BY <1>1, TextSeq
<1> HIDE DEF s, C
<1>3. Laying(s, Tokens(s), C \cup Joining)
  BY <1>2, LayingIs
<1>4. Tied(l, Tokens(Text(l)), C \cup Joining)
  BY <1>2, <1>3 DEF Tied, s
<1> QED BY <1>2, <1>4 DEF s

(* What is made of a head. *)
LEMMA SignatureTold ==
  ASSUME NEW l, OnFile(l), NEW mode
  PROVE  HeadTold(l, ParseSignature(l, mode))
<1>1. PICK C : Tied(l, Tokens(Text(l)), C \cup Joining)
  BY TiedIs
<1> DEFINE T == Tokens(Text(l))
           D == C \cup Joining
<1> HIDE DEF T, D
<1>2. Tied(l, T, D)
  BY <1>1 DEF T, D
<1>3. HeadTold(l, ParseTokens(T, l, mode))
  BY <1>2, TokensTold
<1>4. ParseSignature(l, mode) = ParseTokens(T, l, mode)
  BY Zenon DEF ParseSignature, T
<1> QED BY <1>3, <1>4

(* A cell and its place: the blank behind its pipe, or its text.           *)
CellPlace(s, a, b, c) ==
  \/ c.text = <<>> /\ c.off = a /\ c.len = 1 /\ s[a + 1] \in Blanks \cup {Bar}
  \/ /\ c.text # <<>> /\ c.off \in Nat /\ c.len \in Nat \ {0} /\ c.off + c.len < b
     /\ s[c.off + 1] \notin Blanks /\ c.text = Part(s, c.off + 1, c.off + c.len)

(* What is left of some runes between the blanks is a part of them. *)
LEMMA TrimmedPart ==
  ASSUME NEW C, NEW raw \in Seq(C)
  PROVE  LET h == Indent(raw)
             text == TrimRight(SubSeq(raw, h + 1, Len(raw)))
         IN \/ text = <<>> /\ \A i \in 1 .. Len(raw) : raw[i] \in Blanks
            \/ /\ text # <<>> /\ Len(text) \in Nat \ {0} /\ h \in Nat /\ h + Len(text) <= Len(raw)
               /\ raw[h + 1] \notin Blanks /\ text \in Seq(C)
               /\ \A i \in 1 .. Len(text) : text[i] = raw[h + i]
<1> DEFINE h == Indent(raw)
           last == Len(raw)
           rest == SubSeq(raw, h + 1, last)
           text == TrimRight(rest)
           w == last - h
<1>1. /\ last \in Nat /\ h \in 0 .. last /\ (\A i \in 1 .. h : raw[i] \in Blanks)
      /\ (h < last => raw[h + 1] \notin Blanks)
  BY IndentIs
<1> HIDE DEF h, last
<1>2. h \in Nat /\ w \in Nat /\ h + w = last /\ h + w <= last
  BY <1>1
<1>3. rest \in Seq(C) /\ Len(rest) = w /\ \A i \in 1 .. w : rest[i] = raw[h + i]
  <2>1. h + w <= Len(raw)
    BY <1>2 DEF last
  <2>2. /\ Part(raw, h + 1, h + w) \in Seq(C) /\ Len(Part(raw, h + 1, h + w)) = w
        /\ \A i \in 1 .. w : Part(raw, h + 1, h + w)[i] = raw[h + i]
    BY <1>2, <2>1, PartIs
  <2> HIDE DEF w
  <2>3. rest = Part(raw, h + 1, h + w)
    BY <1>2, Zenon DEF Part
  <2> QED BY <2>2, <2>3
<1> HIDE DEF rest, w
<1>4. PICK m \in 0 .. Len(rest) :
        /\ text = SubSeq(rest, 1, m) /\ (m > 0 => rest[m] \notin Blanks)
        /\ \A i \in m + 1 .. Len(rest) : rest[i] \in Blanks
  BY <1>3, TrimRightIs
<1> HIDE DEF text
<1>5. text \in Seq(C) /\ Len(text) = m /\ \A i \in 1 .. m : text[i] = rest[i]
  BY <1>3, <1>4, StartsWith
<1>6. m \in Nat /\ m <= w
  BY <1>2, <1>3, <1>4
<1>7. CASE m = 0
  <2>1. text = <<>>
    BY <1>5, <1>7
  <2>2. ~(h < last)
    <3> SUFFICES ASSUME h < last PROVE FALSE
      OBVIOUS
    <3>1. 1 \in m + 1 .. Len(rest) /\ 1 \in 1 .. w
      BY <1>1, <1>2, <1>3, <1>7
    <3>2. rest[1] \in Blanks
      BY <1>4, <3>1
    <3>3. rest[1] = raw[h + 1]
      BY <1>3, <3>1
    <3> QED BY <1>1, <3>2, <3>3
  <2>3. \A i \in 1 .. last : raw[i] \in Blanks
    <3>1. h = last
      BY <1>1, <2>2
    <3> QED BY <1>1, <3>1
  <2> QED BY <2>1, <2>3 DEF text, rest, last, h
<1>8. CASE m # 0
  <2>1. text # <<>> /\ Len(text) \in Nat \ {0}
    <3>1. Len(text) \in Nat \ {0}
      BY <1>5, <1>6, <1>8
    <3>2. Len(<<>>) = 0
      OBVIOUS
    <3> QED BY <3>1, <3>2
  <2>2. h + Len(text) <= last /\ h < last
    BY <1>2, <1>5, <1>6, <1>8
  <2>3. \A i \in 1 .. Len(text) : text[i] = raw[h + i]
    <3> TAKE i \in 1 .. Len(text)
    <3>1. i \in 1 .. m /\ i \in 1 .. w
      BY <1>2, <1>5, <1>6
    <3> QED BY <1>3, <1>5, <3>1
  <2> QED BY <1>1, <1>2, <1>5, <2>1, <2>2, <2>3 DEF text, rest, last, h
<1> QED BY <1>7, <1>8

(* Between two pipes. *)
LEMMA CellPlaced ==
  ASSUME NEW C, NEW s \in Seq(C), NEW a \in 1 .. Len(s), NEW b \in 1 .. Len(s), a < b, s[b] = Bar
  PROVE  CellPlace(s, a, b, Cell(s, a, b))
<1> DEFINE raw == Part(s, a + 1, b - 1)
           h == Indent(raw)
           text == TrimRight(SubSeq(raw, h + 1, Len(raw)))
           wid == b - 1 - a
           c == Cell(s, a, b)
           off == a + h
           m == Len(text)
           last == Len(s)
<1>1. /\ last \in Nat /\ a \in Nat /\ b \in Nat /\ wid \in Nat /\ a + wid = b - 1 /\ a + wid <= last
      /\ a + 1 <= b /\ b <= last
  OBVIOUS
<1> HIDE DEF wid
<1>2. raw \in Seq(C) /\ Len(raw) = wid /\ \A i \in 1 .. wid : raw[i] = s[a + i]
  <2>1. a + wid <= Len(s)
    BY <1>1 DEF last
  <2>2. /\ Part(s, a + 1, a + wid) \in Seq(C) /\ Len(Part(s, a + 1, a + wid)) = wid
        /\ \A i \in 1 .. wid : Part(s, a + 1, a + wid)[i] = s[a + i]
    BY <1>1, <2>1, PartIs
  <2> QED BY <1>1, <2>2
<1>3. c = IF text = <<>> THEN [text |-> text, off |-> a, len |-> 1] ELSE [text |-> text, off |-> off, len |-> m]
  BY Zenon DEF Cell, Part
<1> HIDE DEF raw
<1>4. \/ text = <<>> /\ \A i \in 1 .. Len(raw) : raw[i] \in Blanks
      \/ /\ text # <<>> /\ m \in Nat \ {0} /\ h \in Nat /\ h + m <= Len(raw)
         /\ raw[h + 1] \notin Blanks /\ text \in Seq(C)
         /\ \A i \in 1 .. m : text[i] = raw[h + i]
  BY <1>2, TrimmedPart
<1> HIDE DEF c, text, h, m, last
<1>5. CASE text = <<>>
  <2>1. c.text = <<>> /\ c.off = a /\ c.len = 1
    <3>1. c = [text |-> text, off |-> a, len |-> 1]
      BY <1>3, <1>5
    <3> QED BY <1>5, <3>1
  <2>2. s[a + 1] \in Blanks \cup {Bar}
    <3>1. CASE wid = 0
      <4>1. a + 1 = b
        BY <1>1, <3>1
      <4> QED BY <4>1
    <3>2. CASE wid # 0
      <4>1. 1 \in 1 .. wid /\ 1 \in 1 .. Len(raw)
        BY <1>1, <1>2, <3>2
      <4>2. raw[1] \in Blanks
        BY <1>4, <1>5, <4>1
      <4>3. raw[1] = s[a + 1]
        BY <1>2, <4>1
      <4> QED BY <4>2, <4>3
    <3> QED BY <3>1, <3>2
  <2> QED BY <2>1, <2>2 DEF CellPlace, c
<1>6. CASE text # <<>>
  <2>1. c.text = text /\ c.off = off /\ c.len = m
    <3> HIDE DEF off
    <3>1. c = [text |-> text, off |-> off, len |-> m]
      BY <1>3, <1>6
    <3> QED BY <3>1
  <2>2. /\ m \in Nat \ {0} /\ h \in Nat /\ h + m <= wid
        /\ raw[h + 1] \notin Blanks /\ text \in Seq(C)
        /\ \A i \in 1 .. m : text[i] = raw[h + i]
    BY <1>2, <1>4, <1>6
  <2>3. Len(text) = m
    BY DEF m
  <2>4. off \in Nat /\ off + m < b /\ off + m <= last /\ m \in Nat
    BY <1>1, <2>2
  <2>5. \A i \in 1 .. m : raw[h + i] = s[off + i]
    <3> TAKE i \in 1 .. m
    <3>1. h + i \in 1 .. wid /\ a + (h + i) = off + i
      BY <1>1, <2>2
    <3> QED BY <1>2, <3>1
  <2> HIDE DEF off
  <2>6. s[off + 1] \notin Blanks
    <3>1. 1 \in 1 .. m
      BY <2>2
    <3> QED BY <2>2, <2>5, <3>1
  <2>7. text = Part(s, off + 1, off + m)
    <3> DEFINE u == Part(s, off + 1, off + m)
    <3>1. off + m <= Len(s)
      BY <2>4 DEF last
    <3>2. u \in Seq(C) /\ Len(u) = m /\ \A i \in 1 .. m : u[i] = s[off + i]
      BY <2>4, <3>1, PartIs
    <3> HIDE DEF u
    <3>3. Len(text) = Len(u) /\ \A i \in 1 .. Len(text) : text[i] = u[i]
      BY <2>2, <2>3, <2>5, <3>2
    <3>4. text = u
      BY <2>2, <3>2, <3>3, SameText
    <3> QED BY <3>4 DEF u
  <2>8. CellPlace(s, a, b, c)
    BY <1>6, <2>1, <2>2, <2>4, <2>6, <2>7 DEF CellPlace
  <2> QED BY <2>8 DEF c
<1> QED BY <1>5, <1>6

(* A blank put in at a join is in no piece, and its span is all of the     *)
(* first line.                                                             *)
LEMMA GapSpan ==
  ASSUME NEW l, OnFile(l), NEW off \in Nat, off < Len(l.text), l.text[off + 1] = Gap, NEW len
  PROVE  SpanOf(l, off, len) = LineSpan(lines, l.line)
<1>1. Holding(l, off) = {}
  <2> SUFFICES ASSUME NEW q \in 1 .. Len(l.pieces),
                      l.pieces[q].start <= off, off < l.pieces[q].start + l.pieces[q].len
               PROVE  FALSE
    BY DEF Holding
  <2> DEFINE p == l.pieces[q]
             d == off - p.start
  <2>1. PieceOn(l, p)
    BY PieceIs
  <2>2. p.start \in Nat /\ p.len \in Nat /\ p.line \in Nat \ {0}
    <3> HIDE DEF p
    <3>1. p.start \in Nat /\ p.len \in Nat \ {0} /\ p.line \in 1 .. Len(lines)
      BY <2>1 DEF PieceOn
    <3>2. Len(lines) \in Nat
      BY DEF OnFile
    <3> DEFINE k == p.line
               last == Len(lines)
    <3> HIDE DEF k, last
    <3>3. k \in 1 .. last /\ last \in Nat
      BY <3>1, <3>2 DEF k, last
    <3>4. k \in Nat \ {0}
      BY <3>3
    <3> QED BY <3>1, <3>4 DEF k
  <2>3. d \in 0 .. p.len - 1 /\ p.start + d = off
    <3> DEFINE x == p.start
               y == p.len
    <3>1. x \in Nat /\ y \in Nat /\ x <= off /\ off < x + y
      BY <2>2
    <3> HIDE DEF x, y
    <3>2. off - x \in 0 .. y - 1 /\ x + (off - x) = off
      BY <3>1
    <3> QED BY <3>2 DEF x, y
  <2>4. l.text[p.start + d + 1] = <<p.line, p.col + d>>
    BY <2>1, <2>3 DEF PieceOn
  <2> HIDE DEF p, d
  <2>5. <<p.line, p.col + d>> = Gap
    BY <2>3, <2>4
  <2> QED BY <2>2, <2>5 DEF Gap
<1> QED BY <1>1, Zenon DEF SpanOf

(* A row is indented, and so its first line starts with a blank. *)
LEMMA IndentedLine ==
  ASSUME NEW l, OnFile(l), l.indent > 0
  PROVE  /\ 1 \in 1 .. Len(l.pieces) /\ l.line = l.pieces[1].line /\ l.line \in 1 .. Len(lines)
         /\ LineText(lines, l.line) \in Seq(STRING) /\ Len(LineText(lines, l.line)) \in Nat \ {0}
         /\ LineText(lines, l.line)[1] \in Blanks
<1> DEFINE k == l.line
           t == LineText(lines, k)
           last == Len(l.pieces)
<1>1. last \in Nat
  BY DEF OnFile, Sound, LogicalLine
<1>2. last >= 1 /\ k = l.pieces[1].line /\ l.indent = file[k].indent
  BY DEF OnFile, Built
<1>3. 1 \in 1 .. last
  <2> HIDE DEF last
  <2> QED BY <1>1, <1>2
<1>4. k \in 1 .. Len(lines) /\ lines \in Seq(Seq(STRING))
  <2>1. PieceOn(l, l.pieces[1])
    BY <1>3, PieceIs
  <2> QED BY <1>2, <2>1 DEF PieceOn, OnFile
<1>5. t \in Seq(STRING) /\ Len(t) \in Nat
  BY <1>4, LineTextIs
<1>6. file[k] = Measure(t)
  BY <1>4, MeasuredIs DEF OnFile
<1> HIDE DEF t, last
<1>7. l.indent = Indent(t)
  BY <1>2, <1>5, <1>6, MeasureIs
<1>8. Indent(t) \in 0 .. Len(t) /\ \A i \in 1 .. Indent(t) : t[i] \in Blanks
  BY <1>5, IndentIs
<1>9. 1 \in 1 .. Indent(t) /\ Len(t) \in Nat \ {0}
  BY <1>5, <1>7, <1>8
<1> QED BY <1>2, <1>3, <1>4, <1>5, <1>8, <1>9 DEF t, last

(* A part of one line that starts in a piece is placed, and drawn. *)
LEMMA PartDrawn ==
  ASSUME NEW l, OnFile(l), NEW C, Text(l) \in Seq(C), Len(Text(l)) = Len(l.text),
         NEW off \in Nat, off < Len(l.text), l.text[off + 1] # Gap, NEW len \in Nat \ {0}
  PROVE  \E q \in 1 .. Len(l.pieces) :
           LET p == l.pieces[q]
               r == Reach(p, off, len)
               span == SpanOf(l, off, len)
           IN /\ InPiece(p, off) /\ Placed(l, span) /\ span.start.line = p.line
              /\ r \in Nat \ {0} /\ off + r <= p.start + p.len /\ off + r <= Len(Text(l)) /\ r <= len
              /\ r < len => span.end.col = p.col + p.len
              /\ Drawn(span) = Part(Text(l), off + 1, off + r)
<1>1. PICK q \in 1 .. Len(l.pieces) :
        LET p == l.pieces[q]
        IN InPiece(p, off) /\ Underlines(lines, SpanOf(l, off, len), p.line, Column(p, off), Reach(p, off, len))
  BY SpanOfIs
<1> DEFINE p == l.pieces[q]
           r == Reach(p, off, len)
           span == SpanOf(l, off, len)
           c == Column(p, off)
           t == LineText(lines, p.line)
           s == Text(l)
<1>2. InPiece(p, off) /\ Underlines(lines, span, p.line, c, r)
  BY <1>1
<1>3. PieceOn(l, p)
  BY PieceIs
<1>4. /\ c \in Nat /\ c < Len(t) /\ r \in Nat \ {0} /\ c + r <= Len(t)
  BY <1>2, <1>3, ColumnIs
<1>5. /\ span.start.line = p.line /\ span.start.col = c + 1 /\ span.start.offset = Where(lines, p.line, c)
      /\ span.end.line = p.line /\ span.end.col = c + 1 + r
  BY <1>2 DEF Underlines
<1> HIDE DEF span
<1>6. Opens(span, p.line, c) /\ Covers(t, span, p.line, c, r)
  <2> HIDE DEF c, r, t, p
  <2> QED BY <1>5 DEF Opens, Covers
<1>7. p.start \in Nat /\ p.len \in Nat /\ p.col \in Nat \ {0} /\ p.start + p.len <= Len(s) /\ Len(t) \in Nat
  BY <1>3 DEF PieceOn
<1>8. p.start <= off /\ off < p.start + p.len
  BY <1>2 DEF InPiece
<1> DEFINE x == p.start
           y == p.len
           z == p.col
           room == y - (off - x)
<1>9. r = (IF len <= room THEN len ELSE room) /\ c = z - 1 + (off - x)
  BY Zenon DEF Reach, Column
<1>10. x \in Nat /\ y \in Nat /\ z \in Nat \ {0} /\ x + y <= Len(s) /\ x <= off /\ off < x + y
  BY <1>7, <1>8
<1> HIDE DEF x, y, z, s, c, r, t
<1>11. off + r <= x + y /\ off + r <= Len(s) /\ r <= len /\ (r < len => c + 1 + r = z + y)
  <2>1. Len(s) \in Nat
    <3>1. s \in Seq(C)
      BY DEF s
    <3> QED BY <3>1
  <2>2. room \in Nat /\ off + room = x + y
    BY <1>10
  <2>3. r <= room /\ r <= len /\ (r < len => r = room)
    <3> HIDE DEF room
    <3> QED BY <1>9, <2>2
  <2>4. off + r <= x + y
    <3> HIDE DEF room
    <3> QED BY <1>4, <2>2, <2>3
  <2>5. r < len => c + 1 + r = z + y
    BY <1>9, <1>10, <2>3
  <2> QED BY <1>4, <1>10, <2>1, <2>3, <2>4, <2>5
<1> HIDE DEF p
<1>12. Placed(l, span) /\ DrawnFrom(span, p.line, c, r)
  <2>1. c < Len(LineText(lines, l.pieces[q].line))
    BY <1>4 DEF p, t
  <2>2. Opens(span, l.pieces[q].line, c) /\ Covers(LineText(lines, l.pieces[q].line), span, l.pieces[q].line, c, r)
    BY <1>6 DEF p, t
  <2> QED BY <1>4, <2>1, <2>2, OpensPlaced DEF p
<1>13. Drawn(span) = Part(t, c + 1, c + r)
  <2>1. r <= Len(t) - c
    BY <1>4, <1>7
  <2> QED BY <1>12, <2>1 DEF DrawnFrom, t
<1>14. Part(t, c + 1, c + r) = Part(s, off + 1, off + r)
  <2>1. off + r <= p.start + p.len
    BY <1>11 DEF x, y
  <2>2. r \in Nat
    BY <1>4
  <2> QED BY <1>2, <1>3, <2>1, <2>2, SameRunes DEF c, t, s
<1>15. r < len => span.end.col = p.col + p.len
  BY <1>5, <1>11 DEF y, z
<1>16. /\ InPiece(p, off) /\ Placed(l, span) /\ span.start.line = p.line
       /\ r \in Nat \ {0} /\ off + r <= p.start + p.len /\ off + r <= Len(s) /\ r <= len
       /\ r < len => span.end.col = p.col + p.len
       /\ Drawn(span) = Part(s, off + 1, off + r)
  BY <1>2, <1>4, <1>5, <1>11, <1>12, <1>13, <1>14, <1>15 DEF x, y
<1> QED BY <1>16 DEF p, s, r, span

(* A part of a text begins a longer one from the same place. *)
LEMMA PartBegins ==
  ASSUME NEW C, NEW s \in Seq(C), NEW off \in Nat, NEW r \in Nat, NEW m \in Nat, r <= m, off + m <= Len(s)
  PROVE  Begins(Part(s, off + 1, off + r), Part(s, off + 1, off + m))
<1> DEFINE u == Part(s, off + 1, off + r)
           v == Part(s, off + 1, off + m)
           w == SubSeq(v, 1, r)
<1>1. off + r <= Len(s)
  <2>1. Len(s) \in Nat
    OBVIOUS
  <2> QED BY <2>1
<1>2. u \in Seq(C) /\ Len(u) = r /\ \A i \in 1 .. r : u[i] = s[off + i]
  BY <1>1, PartIs
<1>3. v \in Seq(C) /\ Len(v) = m /\ \A i \in 1 .. m : v[i] = s[off + i]
  BY PartIs
<1> HIDE DEF u, v
<1>4. r \in 0 .. Len(v)
  BY <1>3
<1>5. w \in Seq(C) /\ Len(w) = r /\ \A i \in 1 .. r : w[i] = v[i]
  BY <1>3, <1>4, StartsWith
<1>6. SubSeq(v, 1, Len(u)) = w
  BY <1>2
<1> HIDE DEF w
<1>7. \A i \in 1 .. r : w[i] = u[i]
  <2> TAKE i \in 1 .. r
  <2>1. i \in 1 .. m
    OBVIOUS
  <2> QED BY <1>2, <1>3, <1>5, <2>1
<1>8. Len(w) = Len(u) /\ \A i \in 1 .. Len(w) : w[i] = u[i]
  BY <1>2, <1>5, <1>7
<1>9. w = u
  BY <1>2, <1>5, <1>8, SameText
<1>10. Len(u) <= Len(v)
  BY <1>2, <1>3
<1>11. Begins(u, v)
  BY <1>6, <1>9, <1>10 DEF Begins
<1> QED BY <1>11 DEF u, v

(* What PointsAtCell asks of a cell with a text, and of one without. *)
LEMMA CellSays ==
  ASSUME NEW l, NEW cell, Placed(l, cell.span),
         \/ cell.text = <<>> /\ Drawn(cell.span)[1] \in Blanks \cup {Bar}
         \/ /\ cell.text # <<>> /\ Begins(Drawn(cell.span), cell.text)
            /\ \/ Drawn(cell.span) = cell.text
               \/ \E p \in DOMAIN l.pieces :
                    /\ l.pieces[p].line = cell.span.start.line
                    /\ l.pieces[p].col + l.pieces[p].len = cell.span.end.col
  PROVE  PointsAtCell(l, cell)
<1>1. Bar = "|"
  BY DEF Bar
<1>2. CASE cell.text = <<>> /\ Drawn(cell.span)[1] \in Blanks \cup {Bar}
  BY <1>1, <1>2, Zenon DEF PointsAtCell
<1>3. CASE ~(cell.text = <<>> /\ Drawn(cell.span)[1] \in Blanks \cup {Bar})
  <2>1. cell.text # <<>> /\ Begins(Drawn(cell.span), cell.text)
    BY <1>3, Zenon
  <2>2. \/ Drawn(cell.span) = cell.text
        \/ \E p \in DOMAIN l.pieces :
             /\ l.pieces[p].line = cell.span.start.line
             /\ l.pieces[p].col + l.pieces[p].len = cell.span.end.col
    BY <1>3, Zenon
  <2> QED BY <2>1, <2>2, Zenon DEF PointsAtCell
<1> QED BY <1>2, <1>3, Zenon

(* The first rune of a part. *)
LEMMA PartFirst ==
  ASSUME NEW C, NEW s \in Seq(C), NEW off \in Nat, NEW r \in Nat \ {0}, off + r <= Len(s)
  PROVE  Part(s, off + 1, off + r)[1] = s[off + 1]
<1>1. 1 \in 1 .. r /\ r \in Nat
  OBVIOUS
<1>2. \A i \in 1 .. r : Part(s, off + 1, off + r)[i] = s[off + i]
  <2>1. r \in Nat /\ off + r <= Len(s)
    BY <1>1
  <2>2. /\ Part(s, off + 1, off + r) \in Seq(C) /\ Len(Part(s, off + 1, off + r)) = r
        /\ \A i \in 1 .. r : Part(s, off + 1, off + r)[i] = s[off + i]
    BY <2>1, PartIs, ZenonT(60)
  <2> QED BY <2>2, Zenon
<1> QED BY <1>1, <1>2, Zenon

(* An empty cell whose blank was put in at a join: the line's first blank. *)
LEMMA GapAims ==
  ASSUME NEW l, OnFile(l), l.indent > 0, NEW cell, cell.text = <<>>, cell.span = LineSpan(lines, l.line)
  PROVE  PointsAtCell(l, cell)
<1> DEFINE k == l.line
           t == LineText(lines, k)
           span == LineSpan(lines, k)
           wid == Len(t)
<1>1. /\ 1 \in 1 .. Len(l.pieces) /\ k = l.pieces[1].line /\ k \in 1 .. Len(lines)
      /\ t \in Seq(STRING) /\ wid \in Nat \ {0} /\ t[1] \in Blanks
  BY IndentedLine
<1>2. lines \in Seq(Seq(STRING))
  BY DEF OnFile
<1>3. Underlines(lines, span, k, 0, wid)
  BY <1>1, <1>2, LineMarks
<1> HIDE DEF span, t, k, wid
<1>4. /\ span.start.line = k /\ span.start.col = 0 + 1 /\ span.start.offset = Where(lines, k, 0)
      /\ span.end.line = k /\ span.end.col = 0 + 1 + wid
  BY <1>3 DEF Underlines
<1>5. Opens(span, k, 0) /\ Covers(t, span, k, 0, wid)
  BY <1>4 DEF Opens, Covers
<1>6. Placed(l, span) /\ DrawnFrom(span, k, 0, wid)
  <2>1. 0 \in Nat /\ 0 < Len(LineText(lines, l.pieces[1].line))
    BY <1>1 DEF t, wid
  <2>2. Opens(span, l.pieces[1].line, 0) /\ Covers(LineText(lines, l.pieces[1].line), span, l.pieces[1].line, 0, wid)
    BY <1>1, <1>5 DEF t
  <2>3. Placed(l, span) /\ DrawnFrom(span, l.pieces[1].line, 0, wid)
    BY <1>1, <2>1, <2>2, OpensPlaced
  <2> QED BY <1>1, <2>3
<1>7. Drawn(span) = Part(t, 0 + 1, 0 + wid)
  <2>1. wid <= Len(t) - 0
    BY <1>1 DEF wid
  <2> QED BY <1>6, <2>1 DEF DrawnFrom, t
<1>8. Drawn(span)[1] = t[1]
  <2>1. 0 \in Nat /\ 0 + wid <= Len(t) /\ 0 + 1 = 1
    BY <1>1 DEF wid
  <2>2. Part(t, 0 + 1, 0 + wid)[1] = t[0 + 1]
    BY <1>1, <2>1, PartFirst
  <2> QED BY <1>7, <2>1, <2>2
<1>9. cell.span = span
  BY DEF span, k
<1>10. Placed(l, cell.span) /\ Drawn(cell.span)[1] \in Blanks \cup {Bar}
  BY <1>1, <1>6, <1>8, <1>9
<1> QED BY <1>10, CellSays

(* The carets stand under a cell. *)
LEMMA CellAims ==
  ASSUME NEW l, OnFile(l), l.indent > 0, NEW C, Text(l) \in Seq(C), Len(Text(l)) = Len(l.text),
         NEW a \in 1 .. Len(Text(l)), NEW b \in 1 .. Len(Text(l)), a < b, Text(l)[b] = Bar,
         NEW c, CellPlace(Text(l), a, b, c),
         NEW cell, cell.text = c.text, cell.span = SpanOf(l, c.off, c.len)
  PROVE  PointsAtCell(l, cell)
<1> DEFINE s == Text(l)
           off == c.off
           len == c.len
           last == Len(s)
<1>1. l.text \in Seq(Rune) /\ last = Len(l.text) /\ last \in Nat
  BY DEF OnFile, Sound, LogicalLine
<1>2. off \in Nat /\ len \in Nat \ {0} /\ off + len <= b /\ off < last
  <2>1. a \in 1 .. last /\ b \in 1 .. last /\ a < b
    OBVIOUS
  <2>2. (off = a /\ len = 1) \/ (off \in Nat /\ len \in Nat \ {0} /\ off + len < b)
    BY DEF CellPlace
  <2> HIDE DEF off, len, last
  <2> QED BY <1>1, <2>1, <2>2
<1>3. \/ c.text = <<>> /\ len = 1 /\ s[off + 1] \in Blanks \cup {Bar}
      \/ c.text # <<>> /\ s[off + 1] \notin Blanks /\ c.text = Part(s, off + 1, off + len)
  BY DEF CellPlace
<1>4. cell.span = SpanOf(l, off, len) /\ off < Len(l.text) /\ off + len <= last
  <2>1. cell.span = SpanOf(l, off, len)
    OBVIOUS
  <2>2. b \in 1 .. last
    OBVIOUS
  <2> HIDE DEF off, len, last
  <2> QED BY <1>1, <1>2, <2>1, <2>2
<1> HIDE DEF off, len, last
<1>5. off + 1 \in 1 .. Len(l.text)
  BY <1>1, <1>2
<1>6. CASE l.text[off + 1] = Gap
  <2>1. s[off + 1] = Blank
    BY <1>1, <1>5, <1>6, TextAt
  <2>2. Blank \in Blanks
    BY Zenon DEF Blank, Blanks
  <2>3. c.text = <<>>
    BY <1>3, <2>1, <2>2
  <2>4. SpanOf(l, off, len) = LineSpan(lines, l.line)
    BY <1>2, <1>4, <1>6, GapSpan
  <2>5. cell.text = <<>> /\ cell.span = LineSpan(lines, l.line)
    BY <1>4, <2>3, <2>4
  <2> QED BY <2>5, GapAims, Zenon
<1>7. CASE l.text[off + 1] # Gap
  <2> DEFINE span == SpanOf(l, off, len)
  <2>1. PICK q \in 1 .. Len(l.pieces) :
           LET p == l.pieces[q]
               r == Reach(p, off, len)
           IN /\ InPiece(p, off) /\ Placed(l, span) /\ span.start.line = p.line
              /\ r \in Nat \ {0} /\ off + r <= p.start + p.len /\ off + r <= Len(s) /\ r <= len
              /\ r < len => span.end.col = p.col + p.len
              /\ Drawn(span) = Part(s, off + 1, off + r)
    <3>1. off \in Nat /\ off < Len(l.text) /\ l.text[off + 1] # Gap /\ len \in Nat \ {0}
      BY <1>2, <1>4, <1>7
    <3>2. OnFile(l) /\ Text(l) \in Seq(C) /\ Len(Text(l)) = Len(l.text)
      OBVIOUS
    <3>3. \E q \in 1 .. Len(l.pieces) :
            LET p == l.pieces[q]
                r == Reach(p, off, len)
                sp == SpanOf(l, off, len)
            IN /\ InPiece(p, off) /\ Placed(l, sp) /\ sp.start.line = p.line
               /\ r \in Nat \ {0} /\ off + r <= p.start + p.len /\ off + r <= Len(Text(l)) /\ r <= len
               /\ r < len => sp.end.col = p.col + p.len
               /\ Drawn(sp) = Part(Text(l), off + 1, off + r)
      BY <3>1, <3>2, PartDrawn
    <3> QED BY <3>3, Zenon DEF s
  <2> DEFINE r == Reach(l.pieces[q], off, len)
             u == Part(s, off + 1, off + r)
  <2>2. /\ Placed(l, span) /\ span.start.line = l.pieces[q].line
        /\ r \in Nat \ {0} /\ off + r <= Len(s) /\ r <= len
        /\ r < len => span.end.col = l.pieces[q].col + l.pieces[q].len
        /\ Drawn(span) = u
    BY <2>1
  <2>3. cell.span = span
    BY <1>4
  <2>4. s \in Seq(C)
    OBVIOUS
  <2> HIDE DEF span, r, s
  <2>5. CASE c.text = <<>>
    <3>1. u[1] = s[off + 1]
      BY <1>2, <2>2, <2>4, PartFirst
    <3>2. s[off + 1] \in Blanks \cup {Bar}
      BY <1>3, <2>5
    <3> HIDE DEF u
    <3>3. cell.text = <<>> /\ Placed(l, cell.span) /\ Drawn(cell.span)[1] \in Blanks \cup {Bar}
      BY <2>2, <2>3, <2>5, <3>1, <3>2
    <3> QED BY <3>3, CellSays
  <2>6. CASE c.text # <<>>
    <3> DEFINE v == Part(s, off + 1, off + len)
    <3>1. c.text = v
      BY <1>3, <2>6
    <3>2. r \in Nat /\ len \in Nat /\ off + len <= Len(s)
      BY <1>2, <1>4, <2>2 DEF last
    <3>3. Begins(u, v)
      BY <1>2, <2>2, <2>4, <3>2, PartBegins
    <3>4. r = len => u = v
      OBVIOUS
    <3>5. q \in DOMAIN l.pieces
      <4>1. l.pieces \in Seq(APiece)
        BY DEF OnFile, Sound, LogicalLine
      <4> QED BY <4>1
    <3> HIDE DEF u, v
    <3>6. u = v \/ r < len
      BY <2>2, <3>2, <3>4
    <3>7. Drawn(cell.span) = u /\ cell.text = v
      BY <2>2, <2>3, <3>1
    <3>8. Placed(l, cell.span) /\ cell.text # <<>> /\ Begins(Drawn(cell.span), cell.text)
      BY <2>2, <2>3, <2>6, <3>3, <3>7
    <3>9. \/ Drawn(cell.span) = cell.text
          \/ \E p \in DOMAIN l.pieces :
               /\ l.pieces[p].line = cell.span.start.line
               /\ l.pieces[p].col + l.pieces[p].len = cell.span.end.col
      <4>1. CASE u = v
        BY <3>7, <4>1
      <4>2. CASE r < len
        <5>1. l.pieces[q].line = cell.span.start.line /\ l.pieces[q].col + l.pieces[q].len = cell.span.end.col
          BY <2>2, <2>3, <4>2
        <5> QED BY <3>5, <5>1
      <4> QED BY <3>6, <4>1, <4>2
    <3> QED BY <3>8, <3>9, CellSays
  <2> QED BY <2>5, <2>6
<1> QED BY <1>6, <1>7

(* And under each cell of a row. *)
LEMMA RowAims ==
  ASSUME NEW l, OnFile(l), l.indent > 0, Len(l.text) > 0, Text(l)[1] = Bar,
         NEW k \in DOMAIN Cells(Text(l)), NEW cell,
         cell.text = Cells(Text(l))[k].text, cell.span = SpanOf(l, Cells(Text(l))[k].off, Cells(Text(l))[k].len)
  PROVE  PointsAtCell(l, cell)
<1> DEFINE s == Text(l)
           C == {s[i] : i \in 1 .. Len(s)}
           P == Pipes(s)
           last == Len(P)
           c == Cells(s)
           u == last - 1
<1>1. l.text \in Seq(Rune)
  BY DEF OnFile, Sound, LogicalLine
<1>2. s \in Seq(C) /\ Len(s) = Len(l.text)
  BY <1>1, TextSeq
<1>3. s # <<>> /\ s[1] = Bar
  <2>1. Len(s) > 0
    BY <1>2
  <2>2. Len(<<>>) = 0
    OBVIOUS
  <2> HIDE DEF s
  <2> QED BY <2>1, <2>2 DEF s
<1> HIDE DEF C
<1>4. /\ last \in Nat \ {0}
      /\ \A m \in 1 .. last : P[m] \in 1 .. Len(s) /\ s[P[m]] = Bar
      /\ \A m \in 1 .. last - 1 : P[m] < P[m + 1]
  <2> HIDE DEF s
  <2> QED BY <1>2, <1>3, PipesOfRow DEF s
<1>5. c = [m \in 1 .. u |-> Cell(s, P[m], P[m + 1])]
  BY Zenon DEF Cells
<1>6. k \in DOMAIN c /\ cell.text = c[k].text /\ cell.span = SpanOf(l, c[k].off, c[k].len)
  OBVIOUS
<1> HIDE DEF c, P, s
<1>7. k \in 1 .. u /\ c[k] = Cell(s, P[k], P[k + 1])
  <2> HIDE DEF u
  <2> QED BY <1>5, <1>6
<1> DEFINE j == k + 1
           a == P[k]
           b == P[j]
<1>8. k \in 1 .. last /\ j \in 1 .. last /\ k \in 1 .. last - 1
  <2> HIDE DEF last
  <2> QED BY <1>4, <1>7
<1>9. a \in 1 .. Len(s) /\ b \in 1 .. Len(s) /\ a < b /\ s[b] = Bar
  <2>1. a < P[k + 1]
    BY <1>4, <1>8
  <2> HIDE DEF last
  <2> QED BY <1>4, <1>8, <2>1
<1>10. c[k] = Cell(s, a, b)
  BY <1>7
<1> HIDE DEF a, b
<1>11. CellPlace(s, a, b, Cell(s, a, b))
  BY <1>2, <1>9, CellPlaced
<1> DEFINE e == c[k]
<1>12. CellPlace(s, a, b, e) /\ cell.text = e.text /\ cell.span = SpanOf(l, e.off, e.len)
  BY <1>6, <1>10, <1>11
<1> HIDE DEF e
<1>13. Text(l) \in Seq(C) /\ Len(Text(l)) = Len(l.text) /\ a \in 1 .. Len(Text(l)) /\ b \in 1 .. Len(Text(l))
       /\ Text(l)[b] = Bar /\ CellPlace(Text(l), a, b, e)
  BY <1>2, <1>9, <1>12 DEF s
<1> QED BY <1>9, <1>12, <1>13, CellAims

(* What the property says of one line. *)
Shown(l, r) ==
  /\ \A i \in DOMAIN r.diags : Points(l, r.diags[i].span, r.diags[i].about)
  /\ r.fn # NoFn =>
       /\ \A i \in DOMAIN SpansOf(r.fn) : Points(l, SpansOf(r.fn)[i].span, SpansOf(r.fn)[i].about)
       /\ \A i \in 1 .. Len(SpansOf(r.fn)) - 1 :
            SpansOf(r.fn)[i].span.start.offset < SpansOf(r.fn)[i + 1].span.start.offset
  /\ \A i \in DOMAIN r.cells : PointsAtCell(l, r.cells[i])
AllShown == \A k \in 1 .. Len(read) : Shown(out[k], read[k])
ShownInv == WholeInv /\ AllBuilt /\ Ordered /\ AllShown

(* Where all of a sequence aims, each of it does.                           *)
LEMMA AimingEach ==
  ASSUME NEW l, NEW x, Aiming(l, x)
  PROVE  \A i \in DOMAIN x : Points(l, x[i].span, x[i].about)
<1>1. PICK S : x \in Seq(S) /\ \A d \in S : Aims(l, d)
  BY DEF Aiming
<1>2. SUFFICES ASSUME NEW i \in DOMAIN x PROVE Points(l, x[i].span, x[i].about)
  OBVIOUS
<1>3. x[i] \in S
  BY <1>1, <1>2
<1>4. Aims(l, x[i])
  BY <1>1, <1>3
<1> QED BY <1>4 DEF Aims

(* A head, or what is no head, is shown where it stands.                    *)
LEMMA HeadShown ==
  ASSUME NEW l, NEW r, HeadTold(l, r)
  PROVE  Shown(l, r)
<1>1. \A i \in DOMAIN r.diags : Points(l, r.diags[i].span, r.diags[i].about)
  <2>1. Aiming(l, r.diags)
    BY DEF HeadTold
  <2> QED BY <2>1, AimingEach
<1>2. ASSUME r.fn # NoFn
      PROVE  \A i \in DOMAIN SpansOf(r.fn) : Points(l, SpansOf(r.fn)[i].span, SpansOf(r.fn)[i].about)
  <2> DEFINE x == SpansOf(r.fn)
  <2>1. Aiming(l, x)
    BY <1>2 DEF HeadTold
  <2> HIDE DEF x
  <2>2. \A i \in DOMAIN x : Points(l, x[i].span, x[i].about)
    BY <2>1, AimingEach
  <2> QED BY <2>2 DEF x
<1>3. ASSUME r.fn # NoFn
      PROVE  \A i \in 1 .. Len(SpansOf(r.fn)) - 1 :
               SpansOf(r.fn)[i].span.start.offset < SpansOf(r.fn)[i + 1].span.start.offset
  BY <1>3, Zenon DEF HeadTold, Rising
<1>4. \A i \in DOMAIN r.cells : PointsAtCell(l, r.cells[i])
  <2> DEFINE e == <<>>
  <2>1. r.cells = e
    BY DEF HeadTold
  <2>2. \A i : i \notin DOMAIN e
    OBVIOUS
  <2> HIDE DEF e
  <2> QED BY <2>1, <2>2
<1> QED BY <1>1, <1>2, <1>3, <1>4, Zenon DEF Shown

(* A row is, when each of its cells is.                                     *)
LEMMA RowShown ==
  ASSUME NEW l, NEW r, r.fn = NoFn, r.diags = <<>>,
         \A i \in DOMAIN r.cells : PointsAtCell(l, r.cells[i])
  PROVE  Shown(l, r)
<1> DEFINE e == <<>>
<1>1. r.diags = e
  OBVIOUS
<1>2. \A i : i \notin DOMAIN e
  OBVIOUS
<1> HIDE DEF e
<1>3. \A i \in DOMAIN r.diags : Points(l, r.diags[i].span, r.diags[i].about)
  BY <1>1, <1>2
<1> QED BY <1>3, Zenon DEF Shown

(* It stands there still as long as the file is the same.                   *)
LEMMA ShownStill ==
  ASSUME input' = input
  PROVE  \A l, r : Shown(l, r) => Shown(l, r)'
<1>1. \A span : Drawn(span)' = Drawn(span)
  BY Zenon DEF Drawn, lines
<1>2. \A l, span : Placed(l, span)' <=> Placed(l, span)
  BY Zenon DEF Placed, lines
<1>3. \A l, span, about : Points(l, span, about)' <=> Points(l, span, about)
  <2>1. lines' = lines
    BY DEF lines
  <2>2. \A span : Carets(lines, span)' = Carets(lines, span)
    BY <2>1, Zenon
  <2> SUFFICES ASSUME NEW CONSTANT l, NEW CONSTANT span, NEW CONSTANT about
               PROVE  Points(l, span, about)' <=> Points(l, span, about)
    OBVIOUS
  <2>3. Drawn(span)' = Drawn(span) /\ (Placed(l, span)' <=> Placed(l, span)) /\ Carets(lines, span)' = Carets(lines, span)
    BY <1>1, <1>2, <2>2, Zenon
  <2>4. CASE about = <<>>
    BY <2>3, <2>4, Zenon DEF Points
  <2>5. CASE about # <<>> /\ span.end.line # span.start.line
    BY <2>3, <2>5, Zenon DEF Points
  <2>6. CASE about # <<>> /\ span.end.line = span.start.line
    BY <2>3, <2>6, Zenon DEF Points
  <2> QED BY <2>4, <2>5, <2>6, Zenon
<1>4. \A l, cell : PointsAtCell(l, cell)' <=> PointsAtCell(l, cell)
  BY <1>1, <1>2, Zenon DEF PointsAtCell
<1> QED BY <1>3, <1>4, Zenon DEF Shown

(* So do its lines, as long as nothing more is scanned.                     *)
LEMMA OrderedStill ==
  ASSUME Ordered, file' = file, n' = n, out' = out
  PROVE  Ordered'
<1>1. (\A k \in 1 .. Len(out) : Ascending(out[k], n))'
  BY ZenonT(60) DEF Ordered
<1>2. (\A k \in 1 .. Len(out) - 1 : LastPiece(out[k]).line < out[k + 1].line)'
  BY ZenonT(60) DEF Ordered
<1>3. (\A i \in 1 .. n - 1 : file[i].len > 0 =>
         \E k \in 1 .. Len(out) : \E j \in 1 .. Len(out[k].pieces) : out[k].pieces[j].line = i)'
  BY ZenonT(60) DEF Ordered
<1> QED BY <1>1, <1>2, <1>3, ZenonT(60) DEF Ordered

(* The lines the scanner leaves are lines of the file.                      *)
LEMMA LinesOnFile ==
  ASSUME ShownInv, NEW k \in 1 .. Len(out)
  PROVE  OnFile(out[k])
<1>1. lines \in Seq(Seq(STRING)) /\ file = Measured(lines)
  BY InputsAssumption DEF ShownInv, WholeInv, SigInv, FileInv, lines
<1>2. Sound(out[k])
  BY DEF ShownInv, WholeInv, SigInv, ScanInv
<1>3. Built(file, out[k])
  BY DEF ShownInv, AllBuilt
<1>4. Ascending(out[k], n)
  BY DEF ShownInv, Ordered
<1> QED BY <1>1, <1>2, <1>3, <1>4 DEF OnFile

(* What is said of one more line, where it should be, keeps the rest.       *)
LEMMA MadeShown ==
  ASSUME ShownInv, Reading, NEW result, Made(result), Shown(Upcoming, result)
  PROVE  AllBuilt' /\ Ordered' /\ AllShown'
<1>1. PICK R : read \in Seq(R)
  BY DEF ShownInv, WholeInv, SigInv, ReadInv
<1> DEFINE U == R \cup {result}
<1>2. R \subseteq U /\ result \in U
  OBVIOUS
<1> HIDE DEF U
<1>3. read \in Seq(U)
  BY <1>1, <1>2, SeqOfMore
<1> DEFINE new == Append(read, result)
           last == Len(read)
<1>4. /\ last \in Nat /\ Len(new) = last + 1 /\ new[last + 1] = result
      /\ \A k \in 1 .. last : new[k] = read[k]
  BY <1>2, <1>3
<1>5. read' = new /\ out' = out /\ input' = input /\ n' = n /\ file' = file
  BY DEF Made, scanVars
<1>6. \A k \in 1 .. last : Shown(out[k], read[k])
  BY DEF ShownInv, AllShown
<1>7. Shown(out[last + 1], result)
  BY Zenon DEF Upcoming, last
<1> HIDE DEF new
<1>8. \A k \in 1 .. Len(new) : Shown(out[k], new[k])
  <2> SUFFICES ASSUME NEW k \in 1 .. Len(new) PROVE Shown(out[k], new[k])
    OBVIOUS
  <2> HIDE DEF last
  <2>1. k \in 1 .. last \/ k = last + 1
    BY <1>4
  <2> QED BY <1>4, <1>6, <1>7, <2>1
<1>9. \A l, r : Shown(l, r) => Shown(l, r)'
  BY <1>5, ShownStill, Zenon
<1>10. AllShown'
  BY <1>5, <1>8, <1>9, Zenon DEF AllShown
<1>11. AllBuilt'
  BY <1>5, Zenon DEF ShownInv, AllBuilt
<1>12. Ordered'
  <2>1. Ordered
    BY DEF ShownInv
  <2> QED BY <1>5, <2>1, OrderedStill, Zenon
<1> QED BY <1>10, <1>11, <1>12

(* The invariant holds when the file is opened.                             *)
LEMMA ShownStart == ASSUME SignatureInit PROVE ShownInv
<1>1. WholeInv
  BY WholeStart
<1>2. out = <<>> /\ read = <<>> /\ n = 1
  BY DEF SignatureInit, Unscanned
<1> DEFINE e == <<>>
<1>3. Len(e) = 0 /\ (\A k : k \notin 1 .. 0) /\ (\A k : k \notin 1 .. 0 - 1) /\ (\A k : k \notin 1 .. 1 - 1)
  OBVIOUS
<1> HIDE DEF e
<1>4. out = e /\ read = e
  BY <1>2 DEF e
<1>5. AllBuilt
  BY <1>3, <1>4, Zenon DEF AllBuilt
<1>6. Ordered
  BY <1>2, <1>3, <1>4, Zenon DEF Ordered
<1>7. AllShown
  BY <1>3, <1>4, Zenon DEF AllShown
<1> QED BY <1>1, <1>5, <1>6, <1>7 DEF ShownInv

(* Every step keeps it.                                                     *)
LEMMA ShownStep ==
  ASSUME ShownInv, [SignatureNext]_sigVars
  PROVE  ShownInv'
<1>1. WholeInv'
  BY WholeStep DEF ShownInv
<1> SUFFICES AllBuilt' /\ Ordered' /\ AllShown'
  BY <1>1 DEF ShownInv
<1>2. CASE UNCHANGED sigVars
  <2>1. out' = out /\ read' = read /\ input' = input /\ n' = n /\ file' = file
    BY <1>2 DEF sigVars, scanVars
  <2>2. AllBuilt'
    BY <2>1, Zenon DEF ShownInv, AllBuilt
  <2>3. Ordered'
    <3>1. Ordered
      BY DEF ShownInv
    <3> QED BY <2>1, <3>1, OrderedStill, Zenon
  <2>4. \A l, r : Shown(l, r) => Shown(l, r)'
    BY <2>1, ShownStill, Zenon
  <2>5. AllShown'
    BY <2>1, <2>4, Zenon DEF ShownInv, AllShown
  <2> QED BY <2>2, <2>3, <2>5
<1>3. CASE Scanning
  <2>1. ScanNext /\ ScanInv /\ AllBuilt /\ Ordered
    BY <1>3 DEF Scanning, ShownInv, WholeInv, SigInv
  <2>2. AllBuilt'
    BY <2>1, BuiltStep
  <2>3. Ordered'
    BY <2>1, OrderStep
  <2>4. ~Scanned
    <3>1. n \in Nat /\ Len(file) \in Nat
      BY <2>1 DEF ScanInv, PhysicalFile
    <3>2. n <= Len(file)
      BY <2>1 DEF ScanNext, Separate, Continue, OpenLine
    <3> QED BY <3>1, <3>2 DEF Scanned
  <2>5. Len(read) = 0 /\ read' = read
    BY <1>3, <2>4 DEF ShownInv, WholeInv, AllKept, Scanning
  <2>6. Len(read') = 0 /\ \A k : k \notin 1 .. 0
    BY <2>5
  <2>7. AllShown'
    BY <2>6, Zenon DEF AllShown
  <2> QED BY <2>2, <2>3, <2>7
<1>4. ASSUME Reading
      PROVE  OnFile(Upcoming) /\ Len(Upcoming.text) > 0
  <2>1. Len(read) + 1 \in 1 .. Len(out)
    BY <1>4, UpcomingIs DEF ShownInv, WholeInv
  <2>2. OnFile(out[Len(read) + 1])
    BY <2>1, LinesOnFile
  <2>3. Len(out[Len(read) + 1].text) > 0
    BY <2>1 DEF ShownInv, WholeInv, NoneEmpty
  <2> QED BY <2>2, <2>3 DEF Upcoming
<1>5. CASE ReadHead
  <2>1. PICK mode \in Modes(Text(Upcoming)) : Made(ParseSignature(Upcoming, mode))
    BY <1>5 DEF ReadHead
  <2>2. Reading /\ OnFile(Upcoming)
    BY <1>4, <1>5 DEF ReadHead
  <2>3. HeadTold(Upcoming, ParseSignature(Upcoming, mode))
    BY <2>2, SignatureTold
  <2>4. Shown(Upcoming, ParseSignature(Upcoming, mode))
    BY <2>3, HeadShown
  <2> QED BY <2>1, <2>2, <2>4, MadeShown
<1>6. CASE NotAHead
  <2> DEFINE d == Whole("E0002", Upcoming)
             ds == <<d>>
  <2>1. Made(Failed(ds)) /\ Reading
    BY <1>6, Zenon DEF NotAHead
  <2>2. Aims(Upcoming, d)
    BY <1>4, <2>1, WholeAims
  <2> HIDE DEF d
  <2>3. Aiming(Upcoming, ds)
    BY <2>2, AimingOne
  <2> HIDE DEF ds
  <2>4. HeadTold(Upcoming, Failed(ds))
    BY <2>3, FailedTold
  <2>5. Shown(Upcoming, Failed(ds))
    BY <2>4, HeadShown
  <2> QED BY <2>1, <2>5, MadeShown
<1>7. CASE SplitRow
  <2> DEFINE s == Text(Upcoming)
             c == Cells(s)
             rc == [k \in DOMAIN c |-> [text |-> c[k].text, span |-> SpanOf(Upcoming, c[k].off, c[k].len)]]
             r == [fn |-> NoFn, diags |-> <<>>, cells |-> rc]
  <2>1. Made(r) /\ Reading /\ Upcoming.indent > 0 /\ Text(Upcoming)[1] = Bar
    BY <1>7, Zenon DEF SplitRow, Bar
  <2>2. OnFile(Upcoming) /\ Len(Upcoming.text) > 0
    BY <1>4, <2>1
  <2>3. \A k \in DOMAIN c : PointsAtCell(Upcoming, rc[k])
    <3> SUFFICES ASSUME NEW k \in DOMAIN c PROVE PointsAtCell(Upcoming, rc[k])
      OBVIOUS
    <3> DEFINE cell == rc[k]
    <3>1. cell.text = c[k].text /\ cell.span = SpanOf(Upcoming, c[k].off, c[k].len)
      <4> HIDE DEF c
      <4> QED OBVIOUS
    <3>2. k \in DOMAIN Cells(Text(Upcoming))
      OBVIOUS
    <3>3. cell.text = Cells(Text(Upcoming))[k].text
      BY <3>1, Zenon
    <3>4. cell.span = SpanOf(Upcoming, Cells(Text(Upcoming))[k].off, Cells(Text(Upcoming))[k].len)
      BY <3>1, Zenon
    <3> HIDE DEF cell, c, s
    <3>5. PointsAtCell(Upcoming, cell)
      BY <2>1, <2>2, <3>2, <3>3, <3>4, RowAims
    <3> QED BY <3>5 DEF cell
  <2>4. DOMAIN rc = DOMAIN c
    OBVIOUS
  <2> HIDE DEF c, rc
  <2>5. r.fn = NoFn /\ r.diags = <<>> /\ r.cells = rc
    OBVIOUS
  <2>6. \A i \in DOMAIN r.cells : PointsAtCell(Upcoming, r.cells[i])
    BY <2>3, <2>4, <2>5
  <2> HIDE DEF r
  <2>7. Shown(Upcoming, r)
    BY <2>5, <2>6, RowShown
  <2> QED BY <2>1, <2>7, MadeShown
<1>8. CASE OtherLine
  <2> DEFINE ds == <<>>
  <2>1. Made(Failed(ds)) /\ Reading
    BY <1>8, Zenon DEF OtherLine
  <2>2. Aiming(Upcoming, ds)
    BY AimingNone
  <2> HIDE DEF ds
  <2>3. HeadTold(Upcoming, Failed(ds))
    BY <2>2, FailedTold
  <2>4. Shown(Upcoming, Failed(ds))
    BY <2>3, HeadShown
  <2> QED BY <2>1, <2>4, MadeShown
<1>9. CASE AllRead
  BY <1>2, <1>9 DEF AllRead
<1> QED BY <1>2, <1>3, <1>5, <1>6, <1>7, <1>8, <1>9 DEF SignatureNext

(* It says what the property says.                                          *)
LEMMA ShownInvPoints == ASSUME ShownInv PROVE CaretsPoint
<1>1. PICK R : read \in Seq(R)
  BY DEF ShownInv, WholeInv, SigInv, ReadInv
<1>2. DOMAIN read = 1 .. Len(read)
  BY <1>1
<1>3. \A k \in DOMAIN read : Shown(out[k], read[k])
  BY <1>2, Zenon DEF ShownInv, AllShown
<1> QED BY <1>3, Zenon DEF Shown, CaretsPoint

(* Every caret the diagnostics draw stands under what is complained of, on  *)
(* the line of the file it was written on, and every span of a declaration  *)
(* and of a cell over the text it is of, in the order of the text           *)
(* (LogicalLine.SpanAt, scan.go; parse.go), in every file.                  *)
THEOREM CaretsAim == SignatureSpec => []CaretsPoint
<1>1. SignatureInit => ShownInv
  BY ShownStart
<1>2. ShownInv /\ [SignatureNext]_sigVars => ShownInv'
  BY ShownStep
<1>3. ShownInv => CaretsPoint
  BY ShownInvPoints
<1> QED BY <1>1, <1>2, <1>3, PTL DEF SignatureSpec
=============================================================================
