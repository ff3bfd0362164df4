-------------------------- MODULE LiteralsProofs ----------------------------
(***************************************************************************)
(* What types.Parse reads, Value.String writes and Parse reads back, for   *)
(* every text, type and value, and what sums over a finite set come to:    *)
(* the lemmas that the theorems on cells (RowsProofs) and on files         *)
(* (SignatureProofs, CaretsProofs) rest on.  The recursive functions of    *)
(* Literals are reasoned about one step at a time: Recursion gives their   *)
(* equations, and an induction over a set of naturals what they come to.   *)
(***************************************************************************)
EXTENDS Literals, FiniteSetTheorems, SequenceTheorems, WellFoundedInduction, TLAPS

----------------------------------------------------------------------------
(* Recursion: that what is defined by recursion exists and steps as its    *)
(* definition says.  The inductions are of sets, not of predicates.        *)
(* Induction over the naturals, of a set: no operator is a parameter. *)
LEMMA NatSetInduction ==
  ASSUME NEW S, 0 \in S, \A n \in Nat : n \in S => n + 1 \in S
  PROVE  Nat \subseteq S
<1> DEFINE R == OpToRel(<, Nat)
<1>1. SUFFICES ASSUME Nat \ S # {} PROVE FALSE
  OBVIOUS
<1>2. IsWellFoundedOn(R, Nat)
  BY NatLessThanWellFounded
<1>3. \A x, y \in Nat : x < y => <<x, y>> \in R
  BY DEF OpToRel
<1> HIDE DEF R
<1>4. PICK x \in Nat \ S : \A y \in Nat \ S : ~ (<<y, x>> \in R)
  BY <1>1, <1>2, WFMin
<1>5. x \in Nat /\ x # 0 /\ x - 1 \in Nat /\ x - 1 < x /\ (x - 1) + 1 = x
  OBVIOUS
<1>6. x - 1 \notin S
  BY <1>5
<1>7. <<x - 1, x>> \in R
  BY <1>3, <1>5
<1> QED BY <1>4, <1>5, <1>6, <1>7

(* f at i is what its definition says: a leaf, or a step from another place. *)
Follows(f, i, Leaf, prev, base, step) ==
  f[i] = IF i \in Leaf THEN base[i] ELSE step[<<i, f[prev[i]]>>]

(* What a definition by recursion on a rank defines exists. *)
LEMMA Recursion ==
  ASSUME NEW I, NEW Leaf \in SUBSET I, NEW rank \in [I -> Nat], NEW prev \in [I -> I],
         \A i \in I \ Leaf : rank[prev[i]] < rank[i],
         NEW T, NEW base \in [I -> T], NEW step \in [I \X T -> T]
  PROVE  \E f \in [I -> T] : \A i \in I : Follows(f, i, Leaf, prev, base, step)
<1> DEFINE Good(g, i) == Follows(g, i, Leaf, prev, base, step)
           Upto(n, g) == \A i \in I : rank[i] < n => Good(g, i)
           S == {n \in Nat : \E g \in [I -> T] : Upto(n, g)}
           U == {n \in Nat : \A g, h \in [I -> T] : Upto(n, g) /\ Upto(n, h) =>
                   \A i \in I : rank[i] < n => g[i] = h[i]}
<1>1. 0 \in S
  BY SMT
<1>2. ASSUME NEW n \in Nat, n \in S
      PROVE  n + 1 \in S
  <2>1. PICK g \in [I -> T] : Upto(n, g)
    BY <1>2
  <2> DEFINE h == [i \in I |-> IF rank[i] < n THEN g[i]
                               ELSE IF i \in Leaf THEN base[i] ELSE step[<<i, g[prev[i]]>>]]
  <2>2. h \in [I -> T]
    <3> SUFFICES ASSUME NEW i \in I PROVE h[i] \in T
      OBVIOUS
    <3>1. prev[i] \in I /\ g[i] \in T /\ base[i] \in T
      OBVIOUS
    <3>2. <<i, g[prev[i]]>> \in I \X T
      BY <3>1
    <3>3. step[<<i, g[prev[i]]>>] \in T
      BY <3>2
    <3> QED BY <3>1, <3>3
  <2>3. ASSUME NEW i \in I, rank[i] < n + 1
        PROVE  Good(h, i)
    <3>1. rank[i] \in Nat /\ prev[i] \in I /\ rank[prev[i]] \in Nat
      OBVIOUS
    <3>2. i \notin Leaf => rank[prev[i]] < n /\ h[prev[i]] = g[prev[i]]
      BY <2>3, <3>1
    <3>3. h[i] = IF i \in Leaf THEN base[i] ELSE step[<<i, g[prev[i]]>>]
      <4>1. CASE rank[i] < n
        <5>1. h[i] = g[i]
          BY <4>1
        <5>2. Good(g, i)
          BY <2>1, <4>1
        <5> QED BY <5>1, <5>2 DEF Follows
      <4>2. CASE ~ (rank[i] < n)
        BY <4>2
      <4> QED BY <4>1, <4>2
    <3> HIDE DEF h
    <3> QED BY <3>2, <3>3 DEF Follows
  <2>4. Upto(n + 1, h)
    BY <2>3
  <2>5. n + 1 \in Nat
    OBVIOUS
  <2> HIDE DEF Upto, h
  <2> QED BY <2>2, <2>4, <2>5
<1>3. 0 \in U
  BY SMT
<1>4. ASSUME NEW n \in Nat, n \in U
      PROVE  n + 1 \in U
  <2> SUFFICES ASSUME NEW g \in [I -> T], NEW h \in [I -> T], Upto(n + 1, g), Upto(n + 1, h),
                      NEW i \in I, rank[i] < n + 1
               PROVE  g[i] = h[i]
    OBVIOUS
  <2>1. Upto(n, g) /\ Upto(n, h)
    <3>1. \A j \in I : rank[j] < n => rank[j] < n + 1
      OBVIOUS
    <3> QED BY <3>1
  <2>2. \A j \in I : rank[j] < n => g[j] = h[j]
    <3> HIDE DEF Upto
    <3> QED BY <1>4, <2>1
  <2>3. Good(g, i) /\ Good(h, i)
    OBVIOUS
  <2>4. i \notin Leaf => g[prev[i]] = h[prev[i]]
    <3>1. prev[i] \in I /\ rank[i] \in Nat /\ rank[prev[i]] \in Nat
      OBVIOUS
    <3>2. i \notin Leaf => rank[prev[i]] < n
      BY <3>1
    <3> QED BY <2>2, <3>1, <3>2
  <2> QED BY <2>3, <2>4 DEF Follows
<1> HIDE DEF S, U
<1>5. Nat \subseteq S /\ Nat \subseteq U
  BY <1>1, <1>2, <1>3, <1>4, NatSetInduction
<1> DEFINE G == [n \in Nat |-> CHOOSE g \in [I -> T] : Upto(n, g)]
           f == [i \in I |-> G[rank[i] + 1][i]]
<1>6. \A n \in Nat : G[n] \in [I -> T] /\ Upto(n, G[n])
  <2> HIDE DEF Upto
  <2>1. \A n \in Nat : \E g \in [I -> T] : Upto(n, g)
    BY <1>5 DEF S
  <2> QED BY <2>1
<1>7. ASSUME NEW m \in Nat, NEW n \in Nat, m <= n, NEW i \in I, rank[i] < m
      PROVE  G[m][i] = G[n][i]
  <2>1. Upto(m, G[n])
    <3>1. \A j \in I : rank[j] < m => rank[j] < n
      BY <1>7
    <3>2. Upto(n, G[n])
      BY <1>6
    <3> HIDE DEF G
    <3> QED BY <3>1, <3>2
  <2>2. Upto(m, G[m]) /\ G[m] \in [I -> T] /\ G[n] \in [I -> T]
    BY <1>6
  <2> HIDE DEF Upto, G
  <2> QED BY <1>5, <1>7, <2>1, <2>2 DEF U
<1>8. f \in [I -> T]
  <2> SUFFICES ASSUME NEW i \in I PROVE G[rank[i] + 1][i] \in T
    OBVIOUS
  <2>1. rank[i] + 1 \in Nat
    OBVIOUS
  <2> HIDE DEF G
  <2> QED BY <1>6, <2>1
<1>9. ASSUME NEW i \in I
      PROVE  Good(f, i)
  <2>1. /\ rank[i] \in Nat /\ rank[i] + 1 \in Nat /\ rank[i] < rank[i] + 1
        /\ prev[i] \in I
    OBVIOUS
  <2>2. Good(G[rank[i] + 1], i)
    <3> HIDE DEF G
    <3> QED BY <1>6, <2>1
  <2>3. ASSUME NEW j \in I, rank[j] < rank[i]
        PROVE  G[rank[j] + 1][j] = G[rank[i] + 1][j]
    <3>1. /\ rank[j] \in Nat /\ rank[j] + 1 \in Nat /\ rank[j] < rank[j] + 1
          /\ rank[j] + 1 <= rank[i] + 1
      BY <2>1, <2>3
    <3> HIDE DEF G
    <3> QED BY <1>7, <2>1, <3>1
  <2>4. /\ f[i] = G[rank[i] + 1][i] /\ f[prev[i]] = G[rank[prev[i]] + 1][prev[i]]
    BY <2>1
  <2> HIDE DEF G, f
  <2>5. i \notin Leaf => rank[prev[i]] < rank[i]
    OBVIOUS
  <2>6. i \notin Leaf => f[prev[i]] = G[rank[i] + 1][prev[i]]
    BY <2>1, <2>3, <2>4, <2>5
  <2> QED BY <2>2, <2>4, <2>6 DEF Follows
<1> HIDE DEF f
<1> QED BY <1>8, <1>9

----------------------------------------------------------------------------
(* Numerals: big.Int's SetString and String, for digits alone.             *)
(* Recursion from 0 up to n. *)
Climbs(g, n, b, step) == g[0] = b /\ \A k \in 1 .. n : g[k] = step[<<k, g[k - 1]>>]

(* So does what climbs from 0 to n. *)
LEMMA UpRecursion ==
  ASSUME NEW n \in Nat, NEW T, NEW b \in T, NEW step \in [(1 .. n) \X T -> T]
  PROVE  \E g \in [0 .. n -> T] : Climbs(g, n, b, step)
<1> DEFINE I == 0 .. n
           rank == [i \in I |-> i]
           prev == [i \in I |-> IF i = 0 THEN 0 ELSE i - 1]
           base == [i \in I |-> b]
           go == [x \in I \X T |-> IF x[1] = 0 THEN b ELSE step[<<x[1], x[2]>>]]
<1>1. /\ {0} \in SUBSET I /\ rank \in [I -> Nat] /\ prev \in [I -> I] /\ base \in [I -> T]
      /\ \A i \in I \ {0} : rank[prev[i]] < rank[i]
  OBVIOUS
<1>2. go \in [I \X T -> T]
  <2> SUFFICES ASSUME NEW x \in I \X T PROVE go[x] \in T
    OBVIOUS
  <2>1. x[1] \in I /\ x[2] \in T /\ (x[1] # 0 => x[1] \in 1 .. n)
    OBVIOUS
  <2>2. x[1] # 0 => <<x[1], x[2]>> \in (1 .. n) \X T
    BY <2>1
  <2>3. x[1] # 0 => step[<<x[1], x[2]>>] \in T
    BY <2>2
  <2> QED BY <2>3
<1>3. PICK g \in [I -> T] : \A i \in I : Follows(g, i, {0}, prev, base, go)
  <2> HIDE DEF I, rank, prev, base, go
  <2> QED BY <1>1, <1>2, Recursion
<1>4. g[0] = b
  <2>1. 0 \in I /\ base[0] = b
    OBVIOUS
  <2>2. g[0] = base[0]
    BY <1>3, <2>1 DEF Follows
  <2> QED BY <2>1, <2>2
<1>5. ASSUME NEW k \in 1 .. n
      PROVE  g[k] = step[<<k, g[k - 1]>>]
  <2>1. k \in I /\ k - 1 \in I /\ k # 0 /\ prev[k] = k - 1
    OBVIOUS
  <2>2. <<k, g[k - 1]>> \in I \X T
    BY <2>1
  <2>3. go[<<k, g[k - 1]>>] = step[<<k, g[k - 1]>>]
    BY <2>1, <2>2
  <2>4. g[k] = go[<<k, g[k - 1]>>]
    BY <1>3, <2>1 DEF Follows
  <2> QED BY <2>3, <2>4
<1> QED BY <1>4, <1>5 DEF Climbs

(* The ten digits and their values. *)
Figure == {"0", "1", "2", "3", "4", "5", "6", "7", "8", "9"}

(* DigitValue is the place of a digit in Digits. *)
LEMMA FigureValue ==
  /\ \A c : IsDigit(c) <=> c \in Figure
  /\ \A c \in Figure : DigitValue(c) \in 0 .. 9 /\ Digits[DigitValue(c) + 1] = c
  /\ \A d \in 0 .. 9 : Digits[d + 1] \in Figure /\ DigitValue(Digits[d + 1]) = d
<1>1. /\ DOMAIN Digits = 1 .. 10
      /\ Digits[1] = "0" /\ Digits[2] = "1" /\ Digits[3] = "2" /\ Digits[4] = "3" /\ Digits[5] = "4"
      /\ Digits[6] = "5" /\ Digits[7] = "6" /\ Digits[8] = "7" /\ Digits[9] = "8" /\ Digits[10] = "9"
  BY DEF Digits
<1>2. \A i \in 1 .. 10 : i \in {1, 2, 3, 4, 5, 6, 7, 8, 9, 10}
  OBVIOUS
<1>3. \A i \in 1 .. 10 : Digits[i] \in Figure
  BY <1>1, <1>2 DEF Figure
<1>4. \A c \in Figure : \E i \in 1 .. 10 : Digits[i] = c
  BY <1>1 DEF Figure
<1>5. \A i, j \in 1 .. 10 : Digits[i] = Digits[j] => i = j
  BY <1>1, <1>2
<1>6. \A c \in Figure : DigitValue(c) \in 0 .. 9 /\ Digits[DigitValue(c) + 1] = c
  <2> TAKE c \in Figure
  <2> DEFINE k == CHOOSE i \in DOMAIN Digits : Digits[i] = c
  <2>1. k \in 1 .. 10 /\ Digits[k] = c
    BY <1>1, <1>4
  <2>2. DigitValue(c) = k - 1
    BY DEF DigitValue
  <2> HIDE DEF k
  <2>3. k - 1 \in 0 .. 9 /\ (k - 1) + 1 = k
    BY <2>1
  <2> QED BY <2>1, <2>2, <2>3
<1>7. \A d \in 0 .. 9 : Digits[d + 1] \in Figure /\ DigitValue(Digits[d + 1]) = d
  <2> TAKE d \in 0 .. 9
  <2>1. d + 1 \in 1 .. 10
    OBVIOUS
  <2>2. Digits[d + 1] \in Figure
    BY <1>3, <2>1
  <2>3. /\ DigitValue(Digits[d + 1]) \in 0 .. 9
        /\ Digits[DigitValue(Digits[d + 1]) + 1] = Digits[d + 1]
    BY <1>6, <2>2
  <2>4. DigitValue(Digits[d + 1]) + 1 \in 1 .. 10
    BY <2>3
  <2>5. DigitValue(Digits[d + 1]) + 1 = d + 1
    BY <1>5, <2>1, <2>3, <2>4
  <2> QED BY <2>2, <2>3, <2>5
<1>8. \A c : IsDigit(c) <=> c \in Figure
  BY <1>1, <1>3, <1>4 DEF IsDigit
<1> QED BY <1>6, <1>7, <1>8

(* Number reads a digit after the other. *)
Reads(s, g) ==
  g = [k \in 0 .. Len(s) |-> IF k = 0 THEN 0 ELSE 10 * g[k - 1] + DigitValue(s[k])]
(* Number, as the function that reads one digit more at each step. *)
ReadUpTo(s) ==
  LET upTo[k \in 0 .. Len(s)] == IF k = 0 THEN 0 ELSE 10 * upTo[k - 1] + DigitValue(s[k])
  IN upTo

(* Number is what ReadUpTo comes to, and each step is a digit more. *)
LEMMA NumberRead ==
  ASSUME NEW s \in Seq(Figure)
  PROVE  /\ Number(s) = ReadUpTo(s)[Len(s)] /\ ReadUpTo(s) \in [0 .. Len(s) -> Nat]
         /\ ReadUpTo(s)[0] = 0
         /\ \A k \in 1 .. Len(s) : ReadUpTo(s)[k] = 10 * ReadUpTo(s)[k - 1] + DigitValue(s[k])
<1> DEFINE I == 0 .. Len(s)
           step == [x \in (1 .. Len(s)) \X Nat |-> 10 * x[2] + DigitValue(s[x[1]])]
<1>1. Len(s) \in Nat /\ \A k \in 1 .. Len(s) : s[k] \in Figure /\ DigitValue(s[k]) \in Nat
  BY FigureValue, SMTT(30)
<1>2. step \in [(1 .. Len(s)) \X Nat -> Nat]
  <2> SUFFICES ASSUME NEW x \in (1 .. Len(s)) \X Nat PROVE 10 * x[2] + DigitValue(s[x[1]]) \in Nat
    OBVIOUS
  <2>1. x[1] \in 1 .. Len(s) /\ x[2] \in Nat
    OBVIOUS
  <2>2. DigitValue(s[x[1]]) \in Nat
    BY <1>1, <2>1
  <2>3. \A a, b \in Nat : 10 * a + b \in Nat
    OBVIOUS
  <2> QED BY <2>1, <2>2, <2>3
<1>3. PICK g \in [I -> Nat] : Climbs(g, Len(s), 0, step)
  <2> HIDE DEF step
  <2> QED BY <1>1, <1>2, UpRecursion, 0 \in Nat
<1>5. g[0] = 0
  BY <1>3 DEF Climbs
<1>6. ASSUME NEW k \in 1 .. Len(s)
      PROVE  g[k] = 10 * g[k - 1] + DigitValue(s[k])
  <2>1. k - 1 \in I
    BY <1>1
  <2>2. <<k, g[k - 1]>> \in (1 .. Len(s)) \X Nat
    BY <2>1
  <2>3. step[<<k, g[k - 1]>>] = 10 * g[k - 1] + DigitValue(s[k])
    BY <2>2
  <2> QED BY <1>3, <2>3 DEF Climbs
<1>7. Reads(s, g)
  <2>1. \A k \in I : g[k] = IF k = 0 THEN 0 ELSE 10 * g[k - 1] + DigitValue(s[k])
    <3> TAKE k \in I
    <3>1. k = 0 \/ k \in 1 .. Len(s)
      BY <1>1
    <3> QED BY <1>5, <1>6, <3>1
  <2> QED BY <2>1 DEF Reads
<1>8. Reads(s, ReadUpTo(s))
  BY <1>7 DEF ReadUpTo, Reads
<1>9. \A k \in I : ReadUpTo(s)[k] = IF k = 0 THEN 0 ELSE 10 * ReadUpTo(s)[k - 1] + DigitValue(s[k])
  BY <1>8 DEF Reads
<1>10. Number(s) = ReadUpTo(s)[Len(s)]
  BY DEF Number, ReadUpTo
<1>11. ReadUpTo(s)[0] = 0 /\ \A k \in 1 .. Len(s) :
         ReadUpTo(s)[k] = 10 * ReadUpTo(s)[k - 1] + DigitValue(s[k])
  BY <1>1, <1>9
<1>12. \A k \in I : ReadUpTo(s)[k] \in Nat
  <2> DEFINE S == {k \in Nat : k \in I => ReadUpTo(s)[k] \in Nat}
  <2>1. 0 \in S
    BY <1>11
  <2>2. ASSUME NEW k \in Nat, k \in S PROVE k + 1 \in S
    <3> SUFFICES ASSUME k + 1 \in I PROVE ReadUpTo(s)[k + 1] \in Nat
      OBVIOUS
    <3>1. k \in I /\ k + 1 \in 1 .. Len(s) /\ (k + 1) - 1 = k
      BY <1>1
    <3>2. ReadUpTo(s)[k] \in Nat
      BY <2>2, <3>1
    <3>3. ReadUpTo(s)[k + 1] = 10 * ReadUpTo(s)[k] + DigitValue(s[k + 1])
      BY <1>11, <3>1
    <3>4. DigitValue(s[k + 1]) \in Nat
      BY <1>1, <3>1
    <3> QED BY <3>2, <3>3, <3>4
  <2> HIDE DEF S
  <2>3. Nat \subseteq S
    BY <2>1, <2>2, NatSetInduction
  <2> QED BY <1>1, <2>3 DEF S
<1>13. ReadUpTo(s) \in [I -> Nat]
  <2>1. ReadUpTo(s) = [k \in I |-> ReadUpTo(s)[k]]
    BY <1>8 DEF Reads
  <2> QED BY <1>12, <2>1
<1> QED BY <1>10, <1>11, <1>13

(* The same from everything below. *)
LEMMA StrongSetInduction ==
  ASSUME NEW S, \A n \in Nat : (\A m \in Nat : m < n => m \in S) => n \in S
  PROVE  Nat \subseteq S
<1> DEFINE U == {n \in Nat : \A m \in Nat : m < n => m \in S}
<1>1. 0 \in U
  OBVIOUS
<1>2. ASSUME NEW n \in Nat, n \in U PROVE n + 1 \in U
  <2>1. n \in S
    BY <1>2
  <2> QED BY <1>2, <2>1
<1> HIDE DEF U
<1>3. Nat \subseteq U
  BY <1>1, <1>2, NatSetInduction
<1>4. \A n \in Nat : n + 1 \in Nat /\ n < n + 1
  OBVIOUS
<1> QED BY <1>3, <1>4 DEF U

(* What digits are as a sequence. *)
LEMMA FigureSeq ==
  ASSUME NEW s \in Seq(Figure)
  PROVE  Len(s) \in Nat /\ DOMAIN s = 1 .. Len(s) /\ \A k \in 1 .. Len(s) : s[k] \in Figure
OBVIOUS

(* Any function that reads the digits one after the other ends at the number. *)
LEMMA NumberIs ==
  ASSUME NEW s \in Seq(Figure), NEW g, g[0] = 0,
         \A k \in 1 .. Len(s) : g[k] = 10 * g[k - 1] + DigitValue(s[k])
  PROVE  Number(s) = g[Len(s)]
<1> DEFINE S == {k \in Nat : k \in 0 .. Len(s) => g[k] = ReadUpTo(s)[k]}
<1>1. 0 \in S
  BY NumberRead
<1>2. ASSUME NEW k \in Nat, k \in S PROVE k + 1 \in S
  <2> SUFFICES ASSUME k + 1 \in 0 .. Len(s) PROVE g[k + 1] = ReadUpTo(s)[k + 1]
    OBVIOUS
  <2>1. Len(s) \in Nat
    BY FigureSeq
  <2>2. k \in 0 .. Len(s) /\ k + 1 \in 1 .. Len(s) /\ (k + 1) - 1 = k
    BY <2>1
  <2>3. g[k] = ReadUpTo(s)[k]
    BY <1>2, <2>2
  <2>4. ReadUpTo(s)[k + 1] = 10 * ReadUpTo(s)[k] + DigitValue(s[k + 1])
    BY <2>2, NumberRead
  <2>5. g[k + 1] = 10 * g[k] + DigitValue(s[k + 1])
    BY <2>2
  <2> QED BY <2>3, <2>4, <2>5
<1> HIDE DEF S
<1>3. Nat \subseteq S
  BY <1>1, <1>2, NatSetInduction
<1>4. Len(s) \in Nat /\ Len(s) \in 0 .. Len(s)
  BY FigureSeq
<1>5. g[Len(s)] = ReadUpTo(s)[Len(s)]
  BY <1>3, <1>4 DEF S
<1> QED BY <1>5, NumberRead

(* Digits stand for a natural number. *)
LEMMA NumberNat ==
  ASSUME NEW s \in Seq(Figure)
  PROVE  Number(s) \in Nat
<1>1. Len(s) \in Nat /\ Len(s) \in 0 .. Len(s)
  BY FigureSeq
<1> QED BY <1>1, NumberRead

(* A digit behind counts once, what is before it ten times. *)
LEMMA NumberAppend ==
  ASSUME NEW s \in Seq(Figure), NEW c \in Figure
  PROVE  Number(Append(s, c)) = 10 * Number(s) + DigitValue(c)
<1> DEFINE t == Append(s, c)
           n == Len(s)
           g == [k \in 0 .. n + 1 |-> IF k = n + 1 THEN 10 * ReadUpTo(s)[n] + DigitValue(c)
                                      ELSE ReadUpTo(s)[k]]
<1>1. n \in Nat /\ Len(t) = n + 1 /\ t \in Seq(Figure) /\ t[n + 1] = c
      /\ \A k \in 1 .. n : t[k] = s[k]
  BY FigureSeq
<1>2. g[0] = 0
  BY <1>1, NumberRead
<1>3. ASSUME NEW k \in 1 .. n + 1 PROVE g[k] = 10 * g[k - 1] + DigitValue(t[k])
  <2>1. CASE k = n + 1
    <3>1. g[k] = 10 * ReadUpTo(s)[n] + DigitValue(c)
      BY <1>1, <2>1
    <3>2. k - 1 = n /\ g[k - 1] = ReadUpTo(s)[n]
      BY <1>1, <2>1
    <3> QED BY <1>1, <2>1, <3>1, <3>2
  <2>2. CASE k # n + 1
    <3>1. k \in 1 .. n /\ k - 1 \in 0 .. n
      BY <1>1, <2>2
    <3>2. g[k] = ReadUpTo(s)[k] /\ g[k - 1] = ReadUpTo(s)[k - 1]
      BY <1>1, <3>1
    <3>3. ReadUpTo(s)[k] = 10 * ReadUpTo(s)[k - 1] + DigitValue(s[k])
      BY <3>1, NumberRead
    <3> QED BY <1>1, <3>1, <3>2, <3>3
  <2> QED BY <2>1, <2>2
<1>4. g[n + 1] = 10 * Number(s) + DigitValue(c)
  BY <1>1, NumberRead
<1> HIDE DEF g, t, n
<1>5. Number(t) = g[Len(t)]
  BY <1>1, <1>2, <1>3, NumberIs
<1> QED BY <1>1, <1>4, <1>5 DEF t

(* No digit stands for 0. *)
LEMMA NumberEmpty == Number(<<>>) = 0
<1>1. <<>> \in Seq(Figure) /\ Len(<<>>) = 0
  OBVIOUS
<1> QED BY <1>1, NumberRead

(* One digit stands for its value. *)
LEMMA NumberOne ==
  ASSUME NEW c \in Figure
  PROVE  Number(<<c>>) = DigitValue(c)
<1>1. Append(<<>>, c) = <<c>> /\ <<>> \in Seq(Figure)
  OBVIOUS
<1>2. Number(<<c>>) = 10 * 0 + DigitValue(c)
  BY <1>1, NumberAppend, NumberEmpty
<1> QED BY <1>2, FigureValue

(* Zeros before a numeral change nothing. *)
LEMMA LeadingZeros ==
  ASSUME NEW s \in Seq(Figure), NEW k \in Int
  PROVE  Zeros(k) \o s \in Seq(Figure) /\ Number(Zeros(k) \o s) = Number(s)
<1>1. CASE k <= 0
  <2>1. Zeros(k) \o s = s
    BY <1>1 DEF Zeros
  <2> QED BY <2>1
<1>2. CASE k > 0
  <2> DEFINE t == Zeros(k) \o s
             n == Len(s)
             g == [i \in 0 .. k + n |-> IF i <= k THEN 0 ELSE ReadUpTo(s)[i - k]]
  <2>1. "0" \in Figure /\ DigitValue("0") = 0
    <3>1. 0 \in 0 .. 9 /\ Digits[0 + 1] = "0"
      BY DEF Digits
    <3>2. DigitValue(Digits[0 + 1]) = 0
      BY <3>1, FigureValue
    <3> QED BY <3>1, <3>2 DEF Figure
  <2>2. Zeros(k) = [i \in 1 .. k |-> "0"] /\ Zeros(k) \in Seq(Figure) /\ Len(Zeros(k)) = k
    BY <1>2, <2>1 DEF Zeros
  <2>3. n \in Nat /\ t \in Seq(Figure) /\ Len(t) = k + n
        /\ (\A i \in 1 .. k : t[i] = "0") /\ \A i \in k + 1 .. k + n : t[i] = s[i - k]
    BY <1>2, <2>2, FigureSeq
  <2>4. g[0] = 0
    BY <1>2, <2>3
  <2>5. ASSUME NEW i \in 1 .. k + n PROVE g[i] = 10 * g[i - 1] + DigitValue(t[i])
    <3>1. CASE i <= k
      <4>1. i - 1 \in 0 .. k + n /\ i - 1 <= k /\ i \in 0 .. k + n
        BY <1>2, <2>3, <3>1
      <4>2. g[i] = 0 /\ g[i - 1] = 0 /\ t[i] = "0"
        BY <2>3, <3>1, <4>1
      <4> QED BY <2>1, <4>2
    <3>2. CASE i = k + 1
      <4>1. i - 1 = k /\ i - 1 \in 0 .. k + n /\ i - k = 1 /\ 1 \in 1 .. n /\ i \in k + 1 .. k + n
            /\ i \in 0 .. k + n /\ ~ (i <= k)
        BY <1>2, <2>3, <3>2
      <4>5. g[i] = ReadUpTo(s)[i - k] /\ t[i] = s[i - k]
        BY <2>3, <4>1
      <4>6. g[i - 1] = 0
        BY <4>1
      <4>2. g[i] = ReadUpTo(s)[1] /\ g[i - 1] = 0 /\ t[i] = s[1]
        BY <4>1, <4>5, <4>6
      <4>3. ReadUpTo(s)[1] = 10 * ReadUpTo(s)[1 - 1] + DigitValue(s[1])
        BY <4>1, NumberRead
      <4>4. ReadUpTo(s)[0] = 0 /\ 1 - 1 = 0
        BY NumberRead
      <4> QED BY <4>2, <4>3, <4>4
    <3>3. CASE i > k + 1
      <4>1. /\ i - 1 \in 0 .. k + n /\ i - k \in 1 .. n /\ i \in k + 1 .. k + n
            /\ i \in 0 .. k + n /\ ~ (i <= k) /\ ~ (i - 1 <= k) /\ (i - 1) - k = (i - k) - 1
        BY <1>2, <2>3, <3>3
      <4>2. g[i] = ReadUpTo(s)[i - k] /\ g[i - 1] = ReadUpTo(s)[(i - k) - 1] /\ t[i] = s[i - k]
        BY <2>3, <4>1
      <4>3. ReadUpTo(s)[i - k] = 10 * ReadUpTo(s)[(i - k) - 1] + DigitValue(s[i - k])
        BY <4>1, NumberRead
      <4> QED BY <4>2, <4>3
    <3> QED BY <1>2, <2>3, <3>1, <3>2, <3>3
  <2>6. g[k + n] = Number(s)
    <3>1. CASE n = 0
      <4>1. k + n \in 0 .. k + n /\ k + n <= k
        BY <1>2, <3>1
      <4>2. Number(s) = 0
        BY <3>1, NumberRead
      <4> QED BY <4>1, <4>2
    <3>2. CASE n > 0
      <4>1. k + n \in 0 .. k + n /\ ~ (k + n <= k) /\ (k + n) - k = n
        BY <1>2, <2>3, <3>2
      <4>2. g[k + n] = ReadUpTo(s)[n]
        BY <4>1
      <4> QED BY <4>2, NumberRead
    <3> QED BY <2>3, <3>1, <3>2
  <2> HIDE DEF g, t, n
  <2>7. Number(t) = g[Len(t)]
    BY <2>3, <2>4, <2>5, NumberIs
  <2> QED BY <2>3, <2>6, <2>7 DEF t
<1> QED BY <1>1, <1>2

(* Numeral writes a number digit by digit. *)
Writes(f) ==
  f = [m \in Nat |-> IF m < 10 THEN <<Digits[m + 1]>> ELSE Append(f[m \div 10], Digits[(m % 10) + 1])]
(* Numeral, as the function that writes the last digit last. *)
Written ==
  LET of[m \in Nat] == IF m < 10 THEN <<Digits[m + 1]>> ELSE Append(of[m \div 10], Digits[(m % 10) + 1])
  IN of

(* Numeral writes one digit, or the numeral of a tenth and the last digit. *)
LEMMA NumeralWritten ==
  /\ \A m \in Nat : Numeral(m) \in Seq(Figure)
  /\ \A m \in 0 .. 9 : Numeral(m) = <<Digits[m + 1]>>
  /\ \A m \in Nat : m >= 10 => Numeral(m) = Append(Numeral(m \div 10), Digits[(m % 10) + 1])
<1> DEFINE T == Seq(Figure)
           Leaf == 0 .. 9
           rank == [i \in Nat |-> i]
           prev == [i \in Nat |-> i \div 10]
           base == [i \in Nat |-> <<Digits[(i % 10) + 1]>>]
           step == [x \in Nat \X T |-> Append(x[2], Digits[(x[1] % 10) + 1])]
<1>1. \A m \in Nat : m \div 10 \in Nat /\ m % 10 \in 0 .. 9 /\ (m >= 10 => m \div 10 < m)
                     /\ (m < 10 => m % 10 = m)
  OBVIOUS
<1>2. \A m \in Nat : Digits[(m % 10) + 1] \in Figure
  BY <1>1, FigureValue
<1>3. base \in [Nat -> T]
  <2> SUFFICES ASSUME NEW i \in Nat PROVE <<Digits[(i % 10) + 1]>> \in T
    OBVIOUS
  <2> QED BY <1>2
<1>4. step \in [Nat \X T -> T]
  <2> SUFFICES ASSUME NEW x \in Nat \X T PROVE Append(x[2], Digits[(x[1] % 10) + 1]) \in T
    OBVIOUS
  <2>1. x[1] \in Nat /\ x[2] \in T
    OBVIOUS
  <2>2. Digits[(x[1] % 10) + 1] \in Figure
    BY <1>2, <2>1
  <2> HIDE DEF T
  <2>3. \A u \in T : \A c \in Figure : Append(u, c) \in T
    BY DEF T
  <2> QED BY <2>1, <2>2, <2>3
<1>5. Leaf \in SUBSET Nat /\ rank \in [Nat -> Nat] /\ prev \in [Nat -> Nat]
  BY <1>1
<1>6. \A i \in Nat \ Leaf : rank[prev[i]] < rank[i]
  <2> TAKE i \in Nat \ Leaf
  <2>1. i >= 10 /\ i \div 10 \in Nat
    BY <1>1
  <2>2. prev[i] = i \div 10 /\ rank[i] = i /\ rank[i \div 10] = i \div 10
    BY <2>1
  <2> QED BY <1>1, <2>1, <2>2
<1>7. PICK f \in [Nat -> T] : \A i \in Nat : Follows(f, i, Leaf, prev, base, step)
  <2> HIDE DEF T, Leaf, rank, prev, base, step
  <2> QED BY <1>3, <1>4, <1>5, <1>6, Recursion
<1>8. ASSUME NEW m \in Nat
      PROVE  f[m] = IF m < 10 THEN <<Digits[m + 1]>> ELSE Append(f[m \div 10], Digits[(m % 10) + 1])
  <2>1. CASE m < 10
    <3>1. m \in Leaf /\ base[m] = <<Digits[m + 1]>>
      BY <1>1, <2>1
    <3>2. f[m] = base[m]
      BY <1>7, <3>1 DEF Follows
    <3> QED BY <2>1, <3>1, <3>2
  <2>2. CASE ~ (m < 10)
    <3>1. m \notin Leaf /\ prev[m] = m \div 10 /\ m \div 10 \in Nat
      BY <1>1, <2>2
    <3>2. <<m, f[m \div 10]>> \in Nat \X T
      BY <3>1
    <3>3. f[m] = step[<<m, f[m \div 10]>>]
      BY <1>7, <3>1 DEF Follows
    <3>4. step[<<m, f[m \div 10]>>] = Append(f[m \div 10], Digits[(m % 10) + 1])
      BY <3>2
    <3> QED BY <2>2, <3>3, <3>4
  <2> QED BY <2>1, <2>2
<1>9. Writes(f)
  BY <1>8 DEF Writes
<1>10. Writes(Written)
  BY <1>9 DEF Written, Writes
<1>11. \A m : Numeral(m) = Written[m]
  BY DEF Numeral, Written
<1>12. \A m \in Nat : Written[m] =
          IF m < 10 THEN <<Digits[m + 1]>> ELSE Append(Written[m \div 10], Digits[(m % 10) + 1])
  BY <1>10 DEF Writes
<1> HIDE DEF T
<1>13. \A m \in 0 .. 9 : Numeral(m) = <<Digits[m + 1]>>
  <2>1. \A m \in 0 .. 9 : m \in Nat /\ m < 10
    OBVIOUS
  <2> QED BY <1>11, <1>12, <2>1, Zenon
<1>14. \A m \in Nat : m >= 10 => Numeral(m) = Append(Numeral(m \div 10), Digits[(m % 10) + 1])
  <2>1. \A m \in Nat : m >= 10 => ~ (m < 10)
    OBVIOUS
  <2> QED BY <1>11, <1>12, <2>1, Zenon
<1> DEFINE S == {m \in Nat : Numeral(m) \in Seq(Figure)}
<1>15. ASSUME NEW n \in Nat, \A m \in Nat : m < n => m \in S
       PROVE  n \in S
  <2>1. CASE n < 10
    <3>1. n \in 0 .. 9 /\ Digits[n + 1] \in Figure
      BY <2>1, FigureValue
    <3>2. <<Digits[n + 1]>> \in Seq(Figure)
      BY <3>1
    <3> QED BY <1>13, <3>1, <3>2
  <2>2. CASE n >= 10
    <3>1. Numeral(n \div 10) \in Seq(Figure)
      BY <1>1, <1>15, <2>2
    <3>2. Append(Numeral(n \div 10), Digits[(n % 10) + 1]) \in Seq(Figure)
      BY <1>2, <3>1
    <3> QED BY <1>14, <2>2, <3>2
  <2> QED BY <2>1, <2>2
<1> HIDE DEF S
<1>16. Nat \subseteq S
  BY <1>15, StrongSetInduction
<1> QED BY <1>13, <1>14, <1>16 DEF S

(* A numeral has a digit, and is the numeral of its number. *)
LEMMA NumberOfNumeral ==
  ASSUME NEW n \in Nat
  PROVE  Number(Numeral(n)) = n /\ Numeral(n) \in Seq(Figure) /\ Len(Numeral(n)) > 0
<1> DEFINE S == {m \in Nat : Number(Numeral(m)) = m /\ Len(Numeral(m)) > 0}
<1>1. ASSUME NEW k \in Nat, \A m \in Nat : m < k => m \in S
      PROVE  k \in S
  <2>1. CASE k < 10
    <3>4. k \in 0 .. 9
      BY <2>1
    <3>5. Numeral(k) = <<Digits[k + 1]>>
      BY <3>4, NumeralWritten
    <3>1. /\ Numeral(k) = <<Digits[k + 1]>> /\ Digits[k + 1] \in Figure
          /\ DigitValue(Digits[k + 1]) = k
      BY <3>4, <3>5, FigureValue
    <3>2. Number(Numeral(k)) = k
      BY <3>1, NumberOne
    <3>3. Len(Numeral(k)) > 0
      BY <3>1
    <3> QED BY <3>2, <3>3
  <2>2. CASE k >= 10
    <3>1. PICK q \in Nat, r \in 0 .. 9 : k = 10 * q + r /\ k \div 10 = q /\ k % 10 = r
      OBVIOUS
    <3>2. q < k
      BY <2>2, <3>1
    <3>3. Number(Numeral(q)) = q /\ Numeral(q) \in Seq(Figure)
      BY <1>1, <3>2, NumeralWritten
    <3>4. Digits[r + 1] \in Figure /\ DigitValue(Digits[r + 1]) = r
      BY FigureValue
    <3>5. Numeral(k) = Append(Numeral(q), Digits[r + 1])
      BY <2>2, <3>1, NumeralWritten
    <3>6. Number(Numeral(k)) = 10 * Number(Numeral(q)) + DigitValue(Digits[r + 1])
      BY <3>3, <3>4, <3>5, NumberAppend
    <3>7. Len(Numeral(k)) > 0
      BY <3>3, <3>4, <3>5
    <3> QED BY <3>1, <3>3, <3>4, <3>6, <3>7
  <2> QED BY <2>1, <2>2
<1> HIDE DEF S
<1>2. Nat \subseteq S
  BY <1>1, StrongSetInduction
<1> QED BY <1>2, NumeralWritten DEF S

----------------------------------------------------------------------------
(* Signs and points: strings.Cut, TrimPrefix and scaledString.             *)
(* The two parts of a concatenation. *)
LEMMA Parts ==
  ASSUME NEW C, NEW a \in Seq(C), NEW b \in Seq(C)
  PROVE  /\ SubSeq(a \o b, 1, Len(a)) = a
         /\ SubSeq(a \o b, Len(a) + 1, Len(a \o b)) = b
<1>1. /\ a \o b \in Seq(C) /\ Len(a \o b) = Len(a) + Len(b) /\ Len(a) \in Nat /\ Len(b) \in Nat
      /\ \A i \in 1 .. Len(a) : (a \o b)[i] = a[i] /\ (a \o b)[i] \in C
      /\ \A i \in Len(a) + 1 .. Len(a) + Len(b) : (a \o b)[i] = b[i - Len(a)] /\ (a \o b)[i] \in C
  BY ConcatProperties, LenProperties, ElementOfSeq
<1>2. /\ SubSeq(a \o b, 1, Len(a)) \in Seq(C)
      /\ Len(SubSeq(a \o b, 1, Len(a))) = IF 1 <= Len(a) THEN Len(a) - 1 + 1 ELSE 0
      /\ \A i \in 1 .. Len(a) - 1 + 1 : SubSeq(a \o b, 1, Len(a))[i] = (a \o b)[1 + i - 1]
  BY <1>1, SubSeqProperties, 1 \in Int, Len(a) \in Int
<1>3. SubSeq(a \o b, 1, Len(a)) = a
  <2>1. Len(SubSeq(a \o b, 1, Len(a))) = Len(a)
    BY <1>1, <1>2
  <2>2. \A i \in 1 .. Len(a) : SubSeq(a \o b, 1, Len(a))[i] = a[i]
    BY <1>1, <1>2
  <2> QED BY <1>2, <2>1, <2>2, SeqEqual
<1> DEFINE m == Len(a) + 1
           n == Len(a) + Len(b)
<1>4. m \in Int /\ n \in Int /\ n - m + 1 = Len(b) /\ (m <= n <=> Len(b) > 0)
  BY <1>1
<1>5. /\ SubSeq(a \o b, m, n) \in Seq(C)
      /\ Len(SubSeq(a \o b, m, n)) = IF m <= n THEN n - m + 1 ELSE 0
      /\ \A i \in 1 .. n - m + 1 : SubSeq(a \o b, m, n)[i] = (a \o b)[m + i - 1]
  <2>1. \A i \in m .. n : (a \o b)[i] \in C
    BY <1>1
  <2> HIDE DEF m, n
  <2>2. m \in Int /\ n \in Int
    BY <1>4
  <2> DEFINE s == a \o b
  <2> HIDE DEF s
  <2>3. /\ SubSeq(s, m, n) \in Seq(C)
        /\ Len(SubSeq(s, m, n)) = IF m <= n THEN n - m + 1 ELSE 0
        /\ \A i \in 1 .. n - m + 1 : SubSeq(s, m, n)[i] = s[m + i - 1]
    <3>1. \A i \in m .. n : s[i] \in C
      BY <2>1 DEF s
    <3> QED BY <2>2, <3>1, SubSeqProperties
  <2> QED BY <2>3 DEF s
<1>6. Len(SubSeq(a \o b, m, n)) = Len(b)
  <2> HIDE DEF m, n
  <2> QED BY <1>1, <1>4, <1>5
<1>7. \A i \in 1 .. Len(b) : SubSeq(a \o b, m, n)[i] = b[i]
  <2> TAKE i \in 1 .. Len(b)
  <2>1. i \in 1 .. n - m + 1 /\ m + i - 1 = Len(a) + i /\ Len(a) + i \in Len(a) + 1 .. Len(a) + Len(b)
        /\ (Len(a) + i) - Len(a) = i
    BY <1>1
  <2>2. (a \o b)[Len(a) + i] = b[i]
    BY <1>1, <2>1
  <2>3. SubSeq(a \o b, m, n)[i] = (a \o b)[m + i - 1]
    BY <1>5, <2>1
  <2> QED BY <2>1, <2>2, <2>3
<1>8. SubSeq(a \o b, m, n) = b
  <2> HIDE DEF m, n
  <2> QED BY <1>5, <1>6, <1>7, SeqEqual
<1> QED BY <1>1, <1>3, <1>8

(* Where a sequence splits. *)
LEMMA SplitAt ==
  ASSUME NEW C, NEW s \in Seq(C), NEW k \in 0 .. Len(s)
  PROVE  /\ SubSeq(s, 1, k) \in Seq(C) /\ Len(SubSeq(s, 1, k)) = k
         /\ SubSeq(s, k + 1, Len(s)) \in Seq(C) /\ Len(SubSeq(s, k + 1, Len(s))) = Len(s) - k
         /\ SubSeq(s, 1, k) \o SubSeq(s, k + 1, Len(s)) = s
<1>1. Len(s) \in Nat /\ \A i \in 1 .. Len(s) : s[i] \in C
  BY LenProperties, ElementOfSeq
<1>2. SubSeq(s, 1, k) \in Seq(C) /\ Len(SubSeq(s, 1, k)) = k
  <2>1. \A i \in 1 .. k : s[i] \in C
    BY <1>1
  <2> QED BY <2>1, SubSeqProperties, k \in Int, 1 \in Int
<1>3. SubSeq(s, k + 1, Len(s)) \in Seq(C) /\ Len(SubSeq(s, k + 1, Len(s))) = Len(s) - k
  <2>1. \A i \in k + 1 .. Len(s) : s[i] \in C
    BY <1>1
  <2> QED BY <1>1, <2>1, SubSeqProperties, k + 1 \in Int
<1>4. SubSeq(s, 1, k) \o SubSeq(s, k + 1, Len(s)) = SubSeq(s, 1, Len(s))
  BY <1>1, ConcatAdjacentSubSeq, 1 \in 1 .. Len(s) + 1, k \in 1 - 1 .. Len(s), Len(s) \in k .. Len(s)
<1> QED BY <1>2, <1>3, <1>4, SubSeqFull

(* A least one is the least. *)
LEMMA MinIs ==
  ASSUME NEW S \in SUBSET Int, NEW m \in S, \A i \in S : m <= i
  PROVE  Min(S) = m
<1>1. \A x \in S : (\A y \in S : x <= y) => x = m
  OBVIOUS
<1> QED BY <1>1 DEF Min

(* A greatest one is the greatest. *)
LEMMA MaxIs ==
  ASSUME NEW S \in SUBSET Int, NEW m \in S, \A i \in S : i <= m
  PROVE  Max(S) = m
<1>1. \A x \in S : (\A y \in S : x >= y) => x = m
  OBVIOUS
<1> QED BY <1>1 DEF Max

(* strings.Cut at the first of the character. *)
LEMMA CutFound ==
  ASSUME NEW C, NEW a \in Seq(C), NEW b \in Seq(C), NEW c \in C, \A i \in 1 .. Len(a) : a[i] # c
  PROVE  LET cut == Cut(a \o <<c>> \o b, c) IN cut.before = a /\ cut.after = b /\ cut.found
<1> DEFINE s == a \o <<c>> \o b
           m == Len(a) + 1
           at == {i \in DOMAIN s : s[i] = c}
<1>1. <<c>> \in Seq(C) /\ Len(<<c>>) = 1 /\ <<c>>[1] = c /\ Len(a) \in Nat /\ Len(b) \in Nat
  BY LenProperties
<1>2. a \o <<c>> \in Seq(C) /\ Len(a \o <<c>>) = m
  BY <1>1, ConcatProperties
<1>3. /\ s \in Seq(C) /\ Len(s) = m + Len(b) /\ DOMAIN s = 1 .. m + Len(b)
      /\ \A i \in 1 .. Len(a) : s[i] = a[i]
      /\ s[m] = c
  BY <1>1
<1>4. at \in SUBSET Int /\ m \in at /\ \A i \in at : m <= i
  BY <1>1, <1>3
<1>5. Min(at) = m /\ at # {}
  <2> HIDE DEF at, m
  <2> QED BY <1>4, MinIs
<1>6. SubSeq(s, 1, m - 1) = a
  <2>1. s = a \o (<<c>> \o b)
    BY <1>1, ConcatAssociative
  <2>2. <<c>> \o b \in Seq(C)
    BY <1>1, ConcatProperties
  <2>3. SubSeq(a \o (<<c>> \o b), 1, Len(a)) = a
    BY <2>2, Parts
  <2>4. m - 1 = Len(a)
    BY <1>1
  <2> HIDE DEF s, m
  <2> QED BY <2>1, <2>3, <2>4
<1>7. SubSeq(s, m + 1, Len(s)) = b
  BY <1>2, Parts
<1> HIDE DEF m
<1>8. Cut(s, c) = [before |-> a, after |-> b, found |-> TRUE]
  <2>1. Cut(s, c) = IF at = {} THEN [before |-> s, after |-> <<>>, found |-> FALSE]
                    ELSE [before |-> SubSeq(s, 1, Min(at) - 1),
                          after |-> SubSeq(s, Min(at) + 1, Len(s)), found |-> TRUE]
    BY DEF Cut
  <2> HIDE DEF at, s
  <2> QED BY <1>5, <1>6, <1>7, <2>1
<1> HIDE DEF s
<1> QED BY <1>8 DEF s

(* strings.Cut where the character is not. *)
LEMMA CutNone ==
  ASSUME NEW s, NEW c, \A i \in DOMAIN s : s[i] # c
  PROVE  LET cut == Cut(s, c) IN cut.before = s /\ cut.after = <<>> /\ ~cut.found
<1>1. {i \in DOMAIN s : s[i] = c} = {}
  OBVIOUS
<1>2. Cut(s, c) = [before |-> s, after |-> <<>>, found |-> FALSE]
  BY <1>1 DEF Cut
<1> QED BY <1>2

(* The numeral of n with at least one digit before the last places. *)
LEMMA PaddedNumeral ==
  ASSUME NEW n \in Nat, NEW places \in Nat
  PROVE  /\ Padded(n, places) \in Seq(Figure) /\ Len(Padded(n, places)) > places
         /\ Number(Padded(n, places)) = n
<1> DEFINE w == Numeral(n)
           k == places + 1 - Len(w)
<1>1. w \in Seq(Figure) /\ Number(w) = n /\ Len(w) \in Nat /\ Len(w) > 0 /\ k \in Int
  BY NumberOfNumeral, FigureSeq
<1>2. Padded(n, places) = Zeros(k) \o w
  BY DEF Padded
<1> HIDE DEF w
<1>3. Zeros(k) \o w \in Seq(Figure) /\ Number(Zeros(k) \o w) = n
  BY <1>1, LeadingZeros
<1>4. Len(Zeros(k) \o w) > places
  <2>1. CASE k > 0
    <3>1. Zeros(k) = [i \in 1 .. k |-> "0"] /\ "0" \in Figure
      BY <2>1 DEF Zeros, Figure
    <3> HIDE DEF k
    <3>2. Zeros(k) \in Seq(Figure) /\ Len(Zeros(k)) = k
      BY <1>1, <2>1, <3>1
    <3>3. Len(Zeros(k) \o w) = k + Len(w)
      BY <1>1, <3>2
    <3>4. k + Len(w) = places + 1
      BY <1>1 DEF k
    <3> QED BY <1>1, <3>3, <3>4
  <2>2. CASE k <= 0
    <3>1. Zeros(k) \o w = w
      BY <1>1, <2>2 DEF Zeros
    <3> QED BY <1>1, <2>2, <3>1
  <2> QED BY <1>1, <2>1, <2>2
<1> QED BY <1>2, <1>3, <1>4

(* scaledString puts a point before the last digits, scale of them. *)
LEMMA ScaledText ==
  ASSUME NEW n \in Int, NEW scale \in Nat
  PROVE  \E a, b \in Seq(Figure) :
           /\ Len(a) > 0 /\ Len(b) = scale /\ Number(a \o b) = Magnitude(n)
           /\ ScaledString(n, scale) = Signed(n, IF scale = 0 THEN a ELSE a \o <<".">> \o b)
<1> DEFINE digits == Padded(Magnitude(n), scale)
           point == Len(digits) - scale
           a == SubSeq(digits, 1, point)
           b == SubSeq(digits, point + 1, Len(digits))
<1>1. Magnitude(n) \in Nat
  BY DEF Magnitude
<1>2. digits \in Seq(Figure) /\ Len(digits) > scale /\ Number(digits) = Magnitude(n)
  BY <1>1, PaddedNumeral
<1>3. ScaledString(n, scale) = Signed(n, IF scale = 0 THEN digits ELSE a \o <<".">> \o b)
  BY DEF ScaledString
<1> HIDE DEF digits
<1>4. Len(digits) \in Nat /\ point \in 0 .. Len(digits) /\ point > 0 /\ Len(digits) - point = scale
  BY <1>2, FigureSeq
<1> HIDE DEF point
<1>5. /\ a \in Seq(Figure) /\ Len(a) = point /\ b \in Seq(Figure) /\ Len(b) = scale
      /\ a \o b = digits
  BY <1>2, <1>4, SplitAt
<1> HIDE DEF a, b
<1>6. scale = 0 => a = digits
  <2> SUFFICES ASSUME scale = 0 PROVE a = digits
    OBVIOUS
  <2>1. b = <<>>
    BY <1>5
  <2>2. a \o <<>> = a
    BY <1>5, ConcatEmptySeq
  <2> QED BY <1>5, <2>1, <2>2
<1>7. (IF scale = 0 THEN digits ELSE a \o <<".">> \o b) = (IF scale = 0 THEN a ELSE a \o <<".">> \o b)
  BY <1>6
<1>8. ScaledString(n, scale) = Signed(n, IF scale = 0 THEN a ELSE a \o <<".">> \o b)
  BY <1>3, <1>7
<1>9. Number(a \o b) = Magnitude(n) /\ Len(a) > 0
  BY <1>2, <1>4, <1>5
<1> QED BY <1>5, <1>8, <1>9

(* The characters of a numeral. *)
NumeralChar == Figure \cup {"-", "+", "."}

(* Digits are not signs or points. *)
LEMMA FigureChars ==
  /\ Seq(Figure) \subseteq Seq(NumeralChar)
  /\ \A c \in Figure : c # "-" /\ c # "+" /\ c # "."
  /\ "-" \in NumeralChar /\ "+" \in NumeralChar /\ "." \in NumeralChar
<1>1. \A c \in Figure : c # "-" /\ c # "+" /\ c # "."
  BY DEF Figure
<1>2. Figure \subseteq NumeralChar
  BY DEF NumeralChar
<1>3. Seq(Figure) \subseteq Seq(NumeralChar)
  BY <1>2, SeqMonotonic
<1> QED BY <1>1, <1>3 DEF NumeralChar

(* The sign is told from what follows it. *)
Unsigned(x) == IF HasPrefix(x, "-") \/ HasPrefix(x, "+") THEN Tail(x) ELSE x

(* A sign goes before a text and is taken off it again. *)
LEMMA SignedText ==
  ASSUME NEW C, "-" \in C, NEW s \in Seq(C), Len(s) > 0, s[1] # "-", s[1] # "+", NEW n \in Int
  PROVE  /\ Signed(n, s) \in Seq(C) /\ Signed(n, s) # <<>>
         /\ Signed(n, s)[1] = IF n < 0 THEN "-" ELSE s[1]
         /\ Signed(n, s)[Len(Signed(n, s))] = s[Len(s)]
         /\ HasPrefix(Signed(n, s), "-") <=> n < 0
         /\ TrimPrefix(Signed(n, s), "-") = s
         /\ TrimPrefix(s, "+") = s
         /\ Unsigned(Signed(n, s)) = s
<1>1. s # <<>> /\ Len(s) \in Nat
  OBVIOUS
<1>2. TrimPrefix(s, "+") = s
  BY <1>1 DEF TrimPrefix, HasPrefix
<1>3. CASE n < 0
  <2> DEFINE t == <<"-">> \o s
  <2>1. Signed(n, s) = t
    BY <1>3 DEF Signed
  <2>2. <<"-">> \in Seq(C) /\ Len(<<"-">>) = 1 /\ <<"-">>[1] = "-"
    OBVIOUS
  <2>3. t \in Seq(C) /\ Len(t) = 1 + Len(s) /\ t[1] = "-" /\ Len(s) \in Nat
        /\ \A i \in 1 .. Len(s) : t[i + 1] = s[i]
    BY <2>2
  <2>4. t # <<>>
    BY <2>3
  <2>5. Tail(t) = s
    <3>1. Tail(t) \in Seq(C) /\ Len(Tail(t)) = Len(t) - 1
          /\ \A i \in 1 .. Len(Tail(t)) : Tail(t)[i] = t[i + 1]
      <4> HIDE DEF t
      <4> QED BY <2>3, <2>4, HeadTailProperties
    <3>2. \A i \in 1 .. Len(s) : Tail(t)[i] = s[i]
      <4> HIDE DEF t
      <4> QED BY <2>3, <3>1
    <3>3. Len(Tail(t)) = Len(s)
      BY <2>3, <3>1
    <3> HIDE DEF t
    <3> QED BY <3>1, <3>2, <3>3, SeqEqual
  <2> HIDE DEF t
  <2>6. HasPrefix(t, "-")
    BY <2>3, <2>4 DEF HasPrefix
  <2>7. TrimPrefix(t, "-") = s
    BY <2>5, <2>6 DEF TrimPrefix
  <2>8. Unsigned(t) = s
    BY <2>5, <2>6 DEF Unsigned
  <2>9. t[Len(t)] = s[Len(s)]
    <3>1. Len(s) \in 1 .. Len(s) /\ Len(t) = Len(s) + 1
      BY <2>3
    <3> QED BY <2>3, <3>1
  <2> QED BY <1>2, <1>3, <2>1, <2>3, <2>4, <2>6, <2>7, <2>8, <2>9
<1>4. CASE ~ (n < 0)
  <2>1. Signed(n, s) = s
    BY <1>4 DEF Signed
  <2>2. ~HasPrefix(s, "-") /\ ~HasPrefix(s, "+")
    BY <1>1 DEF HasPrefix
  <2>3. TrimPrefix(s, "-") = s /\ Unsigned(s) = s
    BY <2>2 DEF TrimPrefix, Unsigned
  <2> QED BY <1>1, <1>2, <1>4, <2>1, <2>2, <2>3
<1> QED BY <1>3, <1>4

(* So before a numeral. *)
LEMMA SignRead ==
  ASSUME NEW s \in Seq(NumeralChar), Len(s) > 0, s[1] \in Figure, NEW n \in Int
  PROVE  /\ Signed(n, s) \in Seq(NumeralChar) /\ Signed(n, s) # <<>>
         /\ HasPrefix(Signed(n, s), "-") <=> n < 0
         /\ TrimPrefix(Signed(n, s), "-") = s
         /\ TrimPrefix(s, "+") = s
         /\ Unsigned(Signed(n, s)) = s
<1>1. "-" \in NumeralChar /\ s[1] # "-" /\ s[1] # "+"
  BY FigureChars
<1> QED BY <1>1, SignedText

(* The text of a scaled number, cut at its point. *)
LEMMA CutScaled ==
  ASSUME NEW a \in Seq(Figure), NEW b \in Seq(Figure), NEW scale \in Nat, Len(a) > 0, Len(b) = scale
  PROVE  LET body == IF scale = 0 THEN a ELSE a \o <<".">> \o b
             cut == Cut(body, ".")
         IN /\ body \in Seq(NumeralChar) /\ Len(body) > 0 /\ body[1] \in Figure
            /\ cut.before = a /\ cut.after = b
<1>1. /\ a \in Seq(NumeralChar) /\ b \in Seq(NumeralChar) /\ <<".">> \in Seq(NumeralChar)
      /\ Len(a) \in Nat /\ Len(b) \in Nat /\ DOMAIN a = 1 .. Len(a)
      /\ \A i \in 1 .. Len(a) : a[i] # "." /\ a[i] \in Figure
  <2>1. a \in Seq(NumeralChar) /\ b \in Seq(NumeralChar) /\ <<".">> \in Seq(NumeralChar)
    BY FigureChars
  <2> QED BY <2>1, FigureSeq, FigureChars
<1>2. CASE scale = 0
  <2>1. b = <<>>
    BY <1>1, <1>2
  <2>2. Cut(a, ".").before = a /\ Cut(a, ".").after = <<>>
    BY <1>1, CutNone
  <2> QED BY <1>1, <1>2, <2>1, <2>2
<1>3. CASE scale # 0
  <2> DEFINE body == a \o <<".">> \o b
  <2>1. Cut(body, ".").before = a /\ Cut(body, ".").after = b
    BY <1>1, CutFound, FigureChars
  <2>2. body \in Seq(NumeralChar) /\ Len(body) > 0 /\ body[1] = a[1]
    BY <1>1
  <2> HIDE DEF body
  <2>3. body[1] \in Figure
    BY <1>1, <2>2
  <2>4. (IF scale = 0 THEN a ELSE a \o <<".">> \o b) = body
    BY <1>3 DEF body
  <2> QED BY <2>1, <2>2, <2>3, <2>4
<1> QED BY <1>2, <1>3

----------------------------------------------------------------------------
(* What each reader of a literal can give: sequences and numbers.          *)
(* The texts, each after the character. *)
Led(c, texts) == {<<c>> \o rest : rest \in texts}

(* Unescape, from the end of the text. *)
Unescapes(s, quote, f) ==
  f = [k \in 1 .. Len(s) + 1 |->
        IF k > Len(s) THEN {<<>>}
        ELSE IF s[k] = quote THEN {}
        ELSE IF s[k] # "\\" THEN {<<s[k]>> \o rest : rest \in f[k + 1]}
        ELSE IF k = Len(s) \/ s[k + 1] \notin Escapes(quote) THEN {}
        ELSE {<<Unescaped(s[k + 1])>> \o rest : rest \in f[k + 2]}]
(* Unescape, as the function that reads from a place on. *)
Unescaping(s, quote) ==
  LET from[k \in 1 .. Len(s) + 1] ==
        IF k > Len(s) THEN {<<>>}
        ELSE IF s[k] = quote THEN {}
        ELSE IF s[k] # "\\" THEN {<<s[k]>> \o rest : rest \in from[k + 1]}
        ELSE IF k = Len(s) \/ s[k + 1] \notin Escapes(quote) THEN {}
        ELSE {<<Unescaped(s[k + 1])>> \o rest : rest \in from[k + 2]}
  IN from

(* A character before texts. *)
LEMMA LedTexts ==
  ASSUME NEW C, NEW c \in C, NEW x \in SUBSET Seq(C)
  PROVE  Led(c, x) \in SUBSET Seq(C)
<1>1. \A rest \in x : <<c>> \o rest \in Seq(C)
  <2> TAKE rest \in x
  <2>1. rest \in Seq(C)
    OBVIOUS
  <2>2. <<c>> \in Seq(C)
    OBVIOUS
  <2> QED BY <2>1, <2>2, ConcatProperties
<1> QED BY <1>1 DEF Led

(* What an escaped character stands for. *)
LEMMA UnescapedChar ==
  ASSUME NEW C, "byte" \in C
  PROVE  \A c \in C : Unescaped(c) \in C
BY DEF Unescaped

(* Unescape is what reading from the first place on comes to. *)
LEMMA UnescapeSteps ==
  ASSUME NEW C, "byte" \in C, NEW s \in Seq(C), NEW quote
  PROVE  /\ Unescape(s, quote) = Unescaping(s, quote)[1]
         /\ Unescapes(s, quote, Unescaping(s, quote))
         /\ Unescape(s, quote) \subseteq Seq(C)
<1> DEFINE n == Len(s)
           I == 1 .. n + 1
           T == SUBSET Seq(C)
           rank == [k \in I |-> n + 1 - k]
           Plain1(k) == s[k] # quote /\ s[k] # "\\"
           Pair(k) == s[k] # quote /\ s[k] = "\\" /\ k # n /\ s[k + 1] \in Escapes(quote)
           Leaf == {k \in I : k > n \/ (~Plain1(k) /\ ~Pair(k))}
           prev == [k \in I |-> IF k \in Leaf THEN k ELSE IF s[k] # "\\" THEN k + 1 ELSE k + 2]
           base == [k \in I |-> IF k > n THEN {<<>>} ELSE {}]
           head == [k \in I |-> IF s[k] # "\\" THEN s[k] ELSE Unescaped(s[k + 1])]
           step == [x \in I \X T |-> IF x[1] \in Leaf THEN {} ELSE Led(head[x[1]], x[2])]
<1>1. n \in Nat /\ DOMAIN s = 1 .. n /\ \A k \in 1 .. n : s[k] \in C
  OBVIOUS
<1>16. \A k \in 1 .. n : Unescaped(s[k]) \in C
  BY <1>1, UnescapedChar
<1>2. \A k \in I \ Leaf : k \in 1 .. n /\ (s[k] = "\\" => k + 1 \in 1 .. n)
  <2> TAKE k \in I \ Leaf
  <2>1. ~ (k > n) /\ (Plain1(k) \/ Pair(k))
    OBVIOUS
  <2> HIDE DEF Leaf
  <2>2. k \in 1 .. n + 1 /\ ~ (k > n) /\ (s[k] = "\\" => k # n)
    BY <2>1
  <2> HIDE DEF n, I, Pair, Plain1
  <2> QED BY <1>1, <2>2
<1>3. prev \in [I -> I] /\ rank \in [I -> Nat] /\ Leaf \in SUBSET I
      /\ \A k \in I \ Leaf : rank[prev[k]] < rank[k]
  <2>1. \A k \in I : prev[k] \in I /\ (k \notin Leaf => prev[k] > k)
    <3> TAKE k \in I
    <3>1. CASE k \in Leaf
      BY <3>1
    <3>2. CASE k \notin Leaf
      <4>1. prev[k] = IF s[k] # "\\" THEN k + 1 ELSE k + 2
        BY <3>2
      <4>2. k \in 1 .. n /\ (s[k] = "\\" => k + 1 \in 1 .. n)
        BY <1>2, <3>2
      <4> HIDE DEF Leaf, prev
      <4> QED BY <1>1, <3>2, <4>1, <4>2
    <3> QED BY <3>1, <3>2
  <2>2. prev \in [I -> I]
    <3>1. \A k \in I : prev[k] \in I
      BY <2>1
    <3>2. prev = [k \in I |-> prev[k]]
      OBVIOUS
    <3> HIDE DEF prev
    <3> QED BY <3>1, <3>2
  <2>3. rank \in [I -> Nat] /\ \A k \in I : rank[k] = n + 1 - k
    BY <1>1
  <2>4. \A k \in I \ Leaf : rank[prev[k]] < rank[k]
    <3> TAKE k \in I \ Leaf
    <3>1. prev[k] \in I /\ prev[k] > k
      BY <2>1
    <3>2. rank[prev[k]] = n + 1 - prev[k] /\ rank[k] = n + 1 - k
      BY <2>3, <3>1
    <3> HIDE DEF prev, rank, Leaf
    <3> QED BY <1>1, <3>1, <3>2
  <2> QED BY <2>2, <2>3, <2>4
<1>4. base \in [I -> T]
  <2>1. \A k \in I : base[k] \in T
    <3>1. {<<>>} \in T /\ {} \in T
      OBVIOUS
    <3> HIDE DEF T
    <3> QED BY <3>1
  <2>2. base = [k \in I |-> base[k]]
    OBVIOUS
  <2> HIDE DEF base, I, T
  <2> QED BY <2>1, <2>2
<1>5. \A k \in I \ Leaf : head[k] \in C
  <2> TAKE k \in I \ Leaf
  <2>1. k \in 1 .. n /\ (s[k] = "\\" => k + 1 \in 1 .. n)
    BY <1>2
  <2>2. s[k] \in C /\ (s[k] = "\\" => Unescaped(s[k + 1]) \in C)
    BY <1>1, <1>16, <2>1
  <2> HIDE DEF Leaf
  <2>3. head[k] = IF s[k] # "\\" THEN s[k] ELSE Unescaped(s[k + 1])
    OBVIOUS
  <2> QED BY <2>2, <2>3
<1>6. step \in [I \X T -> T]
  <2>1. ASSUME NEW x \in I \X T PROVE step[x] \in T
    <3>1. x[1] \in I /\ x[2] \in T
      OBVIOUS
    <3>2. step[x] = IF x[1] \in Leaf THEN {} ELSE Led(head[x[1]], x[2])
      OBVIOUS
    <3>3. CASE x[1] \in Leaf
      <4>1. step[x] = {}
        BY <3>2, <3>3
      <4> HIDE DEF step
      <4> QED BY <4>1
    <3>4. CASE x[1] \notin Leaf
      <4> HIDE DEF step, head, Leaf
      <4>1. head[x[1]] \in C
        BY <1>5, <3>1, <3>4
      <4>2. step[x] = Led(head[x[1]], x[2])
        BY <3>2, <3>4
      <4> QED BY LedTexts, <3>1, <4>1, <4>2
    <3> QED BY <3>3, <3>4
  <2>2. step = [x \in I \X T |-> step[x]]
    OBVIOUS
  <2> HIDE DEF step
  <2> QED BY <2>1, <2>2
<1>7. PICK f \in [I -> T] : \A k \in I : Follows(f, k, Leaf, prev, base, step)
  <2> HIDE DEF n, I, T, rank, Leaf, prev, base, step
  <2> QED BY <1>3, <1>4, <1>6, Recursion
<1>8. ASSUME NEW k \in I
      PROVE  f[k] = IF k > n THEN {<<>>}
                    ELSE IF s[k] = quote THEN {}
                    ELSE IF s[k] # "\\" THEN Led(s[k], f[k + 1])
                    ELSE IF k = n \/ s[k + 1] \notin Escapes(quote) THEN {}
                    ELSE Led(Unescaped(s[k + 1]), f[k + 2])
  <2>1. CASE k \in Leaf
    <3>1. f[k] = base[k]
      BY <1>7, <2>1 DEF Follows
    <3>2. base[k] = IF k > n THEN {<<>>} ELSE {}
      OBVIOUS
    <3>3. k > n \/ (~Plain1(k) /\ ~Pair(k))
      BY <2>1
    <3> HIDE DEF base, Leaf
    <3> QED BY <3>1, <3>2, <3>3
  <2>2. CASE k \notin Leaf
    <3>1. f[k] = step[<<k, f[prev[k]]>>]
      BY <1>7, <2>2 DEF Follows
    <3>2. prev[k] \in I /\ f[prev[k]] \in T
      BY <1>3
    <3>3. step[<<k, f[prev[k]]>>] = Led(head[k], f[prev[k]])
      <4>1. <<k, f[prev[k]]>> \in I \X T
        BY <3>2
      <4>2. \A x \in I \X T : x[1] \notin Leaf => step[x] = Led(head[x[1]], x[2])
        OBVIOUS
      <4>3. <<k, f[prev[k]]>>[1] = k /\ <<k, f[prev[k]]>>[2] = f[prev[k]]
        OBVIOUS
      <4> HIDE DEF step, head, Leaf, prev, I, T
      <4>4. step[<<k, f[prev[k]]>>] = Led(head[<<k, f[prev[k]]>>[1]], <<k, f[prev[k]]>>[2])
        BY <2>2, <4>1, <4>2, <4>3
      <4> QED BY <4>3, <4>4
    <3>4. /\ prev[k] = IF s[k] # "\\" THEN k + 1 ELSE k + 2
          /\ head[k] = IF s[k] # "\\" THEN s[k] ELSE Unescaped(s[k + 1])
      BY <2>2
    <3>5. ~ (k > n) /\ (Plain1(k) \/ Pair(k))
      BY <2>2
    <3> HIDE DEF step, head, Leaf, prev, I, T
    <3> QED BY <3>1, <3>3, <3>4, <3>5
  <2> QED BY <2>1, <2>2
<1>9. Unescapes(s, quote, f)
  <2>1. f = [k \in I |-> f[k]]
    OBVIOUS
  <2> QED BY <1>8, <2>1 DEF Unescapes, Led
<1>10. Unescapes(s, quote, Unescaping(s, quote))
  BY <1>9 DEF Unescaping, Unescapes
<1>11. Unescape(s, quote) = Unescaping(s, quote)[1]
  BY DEF Unescape, Unescaping
<1> DEFINE F == Unescaping(s, quote)
<1>12. \A k \in I : F[k] = IF k > n THEN {<<>>}
                    ELSE IF s[k] = quote THEN {}
                    ELSE IF s[k] # "\\" THEN Led(s[k], F[k + 1])
                    ELSE IF k = n \/ s[k + 1] \notin Escapes(quote) THEN {}
                    ELSE Led(Unescaped(s[k + 1]), F[k + 2])
  <2> HIDE DEF F
  <2>1. Unescapes(s, quote, F)
    BY <1>10 DEF F
  <2> QED BY <2>1 DEF Unescapes, Led
<1> DEFINE S == {m \in Nat : \A k \in I : n + 1 - k = m => F[k] \in SUBSET Seq(C)}
<1>13. ASSUME NEW m \in Nat, \A j \in Nat : j < m => j \in S
       PROVE  m \in S
  <2> SUFFICES ASSUME NEW k \in I, n + 1 - k = m PROVE F[k] \in SUBSET Seq(C)
    OBVIOUS
  <2> HIDE DEF F
  <2>1. \A j \in I : j > k => F[j] \in SUBSET Seq(C)
    <3> TAKE j \in I
    <3> HAVE j > k
    <3>1. n + 1 - j \in Nat /\ n + 1 - j < m
      BY <1>1
    <3> QED BY <1>13, <3>1
  <2> HIDE DEF S
  <2>3. CASE k > n
    <3>1. F[k] = {<<>>}
      BY <1>12, <2>3
    <3> QED BY <3>1
  <2>4. CASE ~ (k > n) /\ s[k] # "\\" /\ s[k] # quote
    <3>1. F[k] = Led(s[k], F[k + 1])
      BY <1>12, <2>4
    <3>2. k \in 1 .. n /\ k + 1 \in I /\ k + 1 > k
      BY <1>1, <2>4
    <3>3. s[k] \in C /\ F[k + 1] \in SUBSET Seq(C)
      BY <1>1, <2>1, <3>2
    <3> QED BY LedTexts, <3>1, <3>3
  <2>5. CASE ~ (k > n) /\ s[k] = "\\" /\ s[k] # quote /\ ~ (k = n \/ s[k + 1] \notin Escapes(quote))
    <3>1. F[k] = Led(Unescaped(s[k + 1]), F[k + 2])
      BY <1>12, <2>5
    <3>2. k + 1 \in 1 .. n /\ k + 2 \in I /\ k + 2 > k
      <4>1. k \in 1 .. n + 1 /\ ~ (k > n) /\ k # n
        BY <2>5
      <4> HIDE DEF n
      <4> QED BY <1>1, <4>1
    <3>3. Unescaped(s[k + 1]) \in C /\ F[k + 2] \in SUBSET Seq(C)
      BY <1>16, <2>1, <3>2
    <3> QED BY LedTexts, <3>1, <3>3
  <2>6. CASE \/ ~ (k > n) /\ s[k] = quote
             \/ ~ (k > n) /\ s[k] = "\\" /\ (k = n \/ s[k + 1] \notin Escapes(quote))
    <3>1. F[k] = {}
      BY <1>12, <2>6
    <3> QED BY <3>1
  <2> QED BY <2>3, <2>4, <2>5, <2>6
<1> HIDE DEF S, F
<1>14. Nat \subseteq S
  BY <1>13, StrongSetInduction
<1>15. F[1] \in SUBSET Seq(C)
  <2>1. 1 \in I /\ n + 1 - 1 \in Nat
    BY <1>1
  <2>2. n + 1 - 1 \in S
    BY <1>14, <2>1
  <2> QED BY <2>1, <2>2 DEF S
<1> QED BY <1>10, <1>11, <1>15 DEF F

(* The least and the greatest of a set of numbers up to n. *)
LEMMA LeastGreatest ==
  ASSUME NEW n \in Nat, NEW S \in SUBSET (1 .. n), S # {}
  PROVE  /\ Min(S) \in S /\ \A i \in S : Min(S) <= i
         /\ Max(S) \in S /\ \A i \in S : i <= Max(S)
<1> DEFINE U == {k \in Nat : \A T \in SUBSET (1 .. k) : T # {} =>
                   \E a, b \in T : \A i \in T : a <= i /\ i <= b}
<1>1. 0 \in U
  <2>1. \A i : i \notin 1 .. 0
    OBVIOUS
  <2>2. \A T \in SUBSET (1 .. 0) : T = {}
    BY <2>1
  <2> QED BY <2>2
<1>2. ASSUME NEW k \in Nat, k \in U PROVE k + 1 \in U
  <2> SUFFICES ASSUME NEW T \in SUBSET (1 .. k + 1), T # {}
               PROVE  \E a, b \in T : \A i \in T : a <= i /\ i <= b
    OBVIOUS
  <2>1. CASE T \subseteq 1 .. k
    BY <1>2, <2>1
  <2>2. CASE ~ (T \subseteq 1 .. k) /\ T = {k + 1}
    BY <2>2
  <2>3. CASE ~ (T \subseteq 1 .. k) /\ T # {k + 1}
    <3> DEFINE R == T \ {k + 1}
    <3>1. R \in SUBSET (1 .. k) /\ R # {} /\ k + 1 \in T
      BY <2>3
    <3>2. PICK a \in R, b \in R : \A i \in R : a <= i /\ i <= b
      BY <1>2, <3>1
    <3>3. a \in T /\ \A i \in T : a <= i /\ i <= k + 1
      BY <3>1, <3>2
    <3> QED BY <3>1, <3>3
  <2> QED BY <2>1, <2>2, <2>3
<1> HIDE DEF U
<1>3. Nat \subseteq U
  BY <1>1, <1>2, NatSetInduction
<1>4. PICK a \in S, b \in S : \A i \in S : a <= i /\ i <= b
  BY <1>3 DEF U
<1>5. S \in SUBSET Int
  OBVIOUS
<1>6. Min(S) = a /\ Max(S) = b
  BY <1>4, <1>5, MinIs, MaxIs
<1> QED BY <1>4, <1>6

(* What the readers of literals make of a sequence is a sequence. *)
LEMMA TrimSeq ==
  ASSUME NEW C, NEW s \in Seq(C)
  PROVE  Trim(s) \in Seq(C)
<1> DEFINE kept == {i \in DOMAIN s : s[i] # " "}
<1>1. Len(s) \in Nat /\ DOMAIN s = 1 .. Len(s) /\ \A i \in 1 .. Len(s) : s[i] \in C
  OBVIOUS
<1>2. Trim(s) = IF kept = {} THEN <<>> ELSE SubSeq(s, Min(kept), Max(kept))
  BY DEF Trim
<1>3. kept \in SUBSET (1 .. Len(s))
  BY <1>1
<1> HIDE DEF kept
<1>4. CASE kept = {}
  BY <1>2, <1>4
<1>5. CASE kept # {}
  <2>1. Min(kept) \in 1 .. Len(s) /\ Max(kept) \in 1 .. Len(s)
    BY <1>1, <1>3, <1>5, LeastGreatest
  <2>2. Min(kept) \in Int /\ Max(kept) \in Int /\ \A i \in Min(kept) .. Max(kept) : s[i] \in C
    BY <1>1, <2>1
  <2>3. SubSeq(s, Min(kept), Max(kept)) \in Seq(C)
    BY <2>2, SubSeqProperties
  <2> QED BY <1>2, <1>5, <2>3
<1> QED BY <1>4, <1>5

(* So is what is behind its first character, *)
LEMMA TailSeq ==
  ASSUME NEW C, NEW s \in Seq(C), s # <<>>
  PROVE  Tail(s) \in Seq(C)
BY HeadTailProperties

(* what is behind a prefix, *)
LEMMA TrimPrefixSeq ==
  ASSUME NEW C, NEW s \in Seq(C), NEW c
  PROVE  TrimPrefix(s, c) \in Seq(C)
BY TailSeq DEF TrimPrefix, HasPrefix

(* and what is before and behind a cut. *)
LEMMA CutSeqs ==
  ASSUME NEW C, NEW s \in Seq(C), NEW c
  PROVE  Cut(s, c).before \in Seq(C) /\ Cut(s, c).after \in Seq(C)
<1> DEFINE at == {i \in DOMAIN s : s[i] = c}
<1>1. Len(s) \in Nat /\ DOMAIN s = 1 .. Len(s)
  OBVIOUS
<1>2. Cut(s, c) = IF at = {} THEN [before |-> s, after |-> <<>>, found |-> FALSE]
                  ELSE [before |-> SubSeq(s, 1, Min(at) - 1),
                        after |-> SubSeq(s, Min(at) + 1, Len(s)), found |-> TRUE]
  BY DEF Cut
<1>3. at \in SUBSET (1 .. Len(s))
  BY <1>1
<1> HIDE DEF at
<1>4. CASE at = {}
  BY <1>2, <1>4
<1>5. CASE at # {}
  <2>1. Min(at) \in 1 .. Len(s)
    BY <1>1, <1>3, <1>5, LeastGreatest
  <2>2. Min(at) - 1 \in 0 .. Len(s) /\ Min(at) \in 0 .. Len(s)
    BY <1>1, <2>1
  <2>3. SubSeq(s, 1, Min(at) - 1) \in Seq(C) /\ SubSeq(s, Min(at) + 1, Len(s)) \in Seq(C)
    BY <2>2, SplitAt
  <2> QED BY <1>2, <1>5, <2>3
<1> QED BY <1>4, <1>5

(* A text all of digits is a sequence of the ten. *)
LEMMA DigitsSeq ==
  ASSUME NEW C, NEW s \in Seq(C), AllDigits(s)
  PROVE  s \in Seq(Figure)
<1>1. Len(s) \in Nat /\ DOMAIN s = 1 .. Len(s) /\ s = [i \in 1 .. Len(s) |-> s[i]]
  OBVIOUS
<1>2. \A i \in 1 .. Len(s) : s[i] \in Figure
  BY <1>1, FigureValue DEF AllDigits
<1>3. s \in [1 .. Len(s) -> Figure]
  BY <1>1, <1>2
<1> QED BY <1>1, <1>3, SeqDef

(* And the other way round. *)
LEMMA FiguresAreDigits ==
  ASSUME NEW s \in Seq(Figure)
  PROVE  AllDigits(s)
BY FigureSeq, FigureValue DEF AllDigits

(* An integer literal stands for an integer. *)
LEMMA AsIntRange ==
  ASSUME NEW C, NEW s \in Seq(C)
  PROVE  AsInt(s) \subseteq Int
<1> DEFINE body == IF HasPrefix(s, "-") \/ HasPrefix(s, "+") THEN Tail(s) ELSE s
<1>1. body \in Seq(C)
  BY TailSeq DEF HasPrefix
<1>2. AsInt(s) = IF body = <<>> \/ ~AllDigits(body) THEN {}
                 ELSE {IF HasPrefix(s, "-") THEN -Number(body) ELSE Number(body)}
  BY DEF AsInt
<1> HIDE DEF body
<1>3. CASE body = <<>> \/ ~AllDigits(body)
  BY <1>2, <1>3
<1>4. CASE ~ (body = <<>> \/ ~AllDigits(body))
  <2>1. Number(body) \in Nat
    BY <1>1, <1>4, DigitsSeq, NumberNat
  <2> QED BY <1>2, <1>4, <2>1
<1> QED BY <1>3, <1>4

(* Zeros are digits. *)
LEMMA ZerosSeq ==
  ASSUME NEW k \in Int
  PROVE  Zeros(k) \in Seq(Figure)
<1>1. "0" \in Figure
  BY DEF Figure
<1>2. CASE k > 0
  <2>1. Zeros(k) = [i \in 1 .. k |-> "0"]
    BY <1>2 DEF Zeros
  <2> QED BY <1>1, <1>2, <2>1
<1>3. CASE ~ (k > 0)
  BY <1>3 DEF Zeros
<1> QED BY <1>2, <1>3

(* A scaled literal stands for an integer. *)
LEMMA AsScaledRange ==
  ASSUME NEW C, NEW s \in Seq(C), NEW scale \in Nat
  PROVE  AsScaled(s, scale) \subseteq Int
<1> DEFINE cut == Cut(TrimPrefix(TrimPrefix(s, "-"), "+"), ".")
           digits == cut.before \o cut.after \o Zeros(scale - Len(cut.after))
           refused == \/ cut.before = <<>> /\ ~cut.found
                      \/ ~AllDigits(cut.before) \/ ~AllDigits(cut.after)
                      \/ Len(cut.after) > scale \/ digits = <<>>
<1>1. AsScaled(s, scale) = IF refused THEN {}
        ELSE {IF HasPrefix(s, "-") THEN -Number(digits) ELSE Number(digits)}
  BY DEF AsScaled
<1>2. cut.before \in Seq(C) /\ cut.after \in Seq(C)
  BY TrimPrefixSeq, CutSeqs
<1>3. CASE refused
  <2> HIDE DEF refused
  <2> QED BY <1>1, <1>3
<1>4. CASE ~refused
  <2>1. cut.before \in Seq(Figure) /\ cut.after \in Seq(Figure)
    <3>1. AllDigits(cut.before) /\ AllDigits(cut.after)
      BY <1>4
    <3> HIDE DEF cut
    <3> QED BY <1>2, <3>1, DigitsSeq
  <2> HIDE DEF cut, refused
  <2>2. Zeros(scale - Len(cut.after)) \in Seq(Figure)
    BY <2>1, FigureSeq, ZerosSeq
  <2>3. digits \in Seq(Figure)
    BY <2>1, <2>2, ConcatProperties
  <2>4. Number(digits) \in Nat
    BY <2>3, NumberNat
  <2> HIDE DEF digits
  <2> QED BY <1>1, <1>4, <2>4
<1> QED BY <1>3, <1>4

(* A text literal stands for a text. *)
LEMMA AsTextSeq ==
  ASSUME NEW C, "byte" \in C, NEW s \in Seq(C)
  PROVE  AsText(s) \subseteq Seq(C)
<1> DEFINE quote == s[1]
           inside == SubSeq(s, 2, Len(s) - 1)
<1>1. Len(s) \in Nat /\ \A i \in 2 .. Len(s) - 1 : s[i] \in C
  OBVIOUS
<1>2. inside \in Seq(C)
  BY <1>1, SubSeqProperties, 2 \in Int, Len(s) - 1 \in Int
<1>3. AsText(s) \subseteq {inside} \cup Unescape(inside, quote)
  BY DEF AsText
<1> HIDE DEF inside, quote
<1>4. Unescape(inside, quote) \subseteq Seq(C)
  BY <1>2, UnescapeSteps
<1> QED BY <1>2, <1>3, <1>4

(* What a cell under an input column is read as. *)
LEMMA ParsedInput ==
  ASSUME NEW C, "byte" \in C, NEW text \in Seq(C), NEW type \in Type,
         Parse(text, type, FALSE) # NoValue
  PROVE  LET v == Parse(text, type, FALSE) IN
         /\ v.type = type
         /\ type.kind \in Kind \ {"invalid"}
         /\ type.kind \in Integral \cup Scaled => v.int \in Int
         /\ type.kind = "text" => v.text \in Seq(C)
<1> DEFINE s == Trim(text)
           v == Parse(text, type, FALSE)
<1> SUFFICES /\ v.type = type
             /\ type.kind \in Kind \ {"invalid"}
             /\ type.kind \in Integral \cup Scaled => v.int \in Int
             /\ type.kind = "text" => v.text \in Seq(C)
  OBVIOUS
<1>1. s \in Seq(C)
  BY TrimSeq
<1>2. v \in Values(text, type, FALSE)
  BY DEF Parse
<1>3. v \in Read(s, type, FALSE)
  BY <1>2 DEF Values, Raise
<1> HIDE DEF s, v
<1>4. type.kind \in Kind /\ type.scale \in Nat
  BY DEF Type
<1>5. CASE type.kind = "bool"
  <2>1. PICK b : v = [Zero(type) EXCEPT !.bool = b]
    BY <1>3, <1>5 DEF Read, Integral, Scaled
  <2> QED BY <1>5, <2>1 DEF Zero, Kind, Integral, Scaled
<1>6. CASE type.kind = "text"
  <2>1. PICK t \in AsText(s) : v = [Zero(type) EXCEPT !.text = t]
    BY <1>3, <1>6 DEF Read, Integral, Scaled
  <2>2. t \in Seq(C)
    BY <1>1, AsTextSeq
  <2> QED BY <1>6, <2>1, <2>2 DEF Zero, Kind, Integral, Scaled
<1>7. CASE type.kind \in Integral
  <2>1. PICK n \in AsInt(s) : v = [Zero(type) EXCEPT !.int = n]
    BY <1>3, <1>7 DEF Read, Integral, Scaled
  <2>2. n \in Int
    BY <1>1, AsIntRange
  <2> QED BY <1>7, <2>1, <2>2 DEF Zero, Kind, Integral
<1>8. CASE type.kind \in Scaled
  <2>1. PICK n \in AsScaled(s, type.scale) : v = [Zero(type) EXCEPT !.int = n]
    BY <1>3, <1>8 DEF Read, Integral, Scaled
  <2>2. n \in Int
    BY <1>1, <1>4, AsScaledRange
  <2> QED BY <1>8, <2>1, <2>2 DEF Zero, Kind, Scaled
<1>9. CASE type.kind = "float"
  <2>1. PICK f : v \in FloatValue(s, type, f, FALSE)
    BY <1>3, <1>9 DEF Read, Integral, Scaled
  <2>2. v = [Zero(type) EXCEPT !.float = f] \/ \E t : v = [Zero(type) EXCEPT !.float = f, !.tol = t]
    BY <2>1 DEF FloatValue
  <2> QED BY <1>9, <2>2 DEF Zero, Kind, Integral, Scaled
<1>10. CASE type.kind = "date"
  <2>1. PICK d : v = [Zero(type) EXCEPT !.date = d]
    BY <1>3, <1>10 DEF Read, Integral, Scaled
  <2> QED BY <1>10, <2>1 DEF Zero, Kind, Integral, Scaled
<1>11. CASE type.kind = "invalid"
  BY <1>3, <1>11 DEF Read, Integral, Scaled
<1> QED BY <1>4, <1>5, <1>6, <1>7, <1>8, <1>9, <1>10, <1>11 DEF Kind, Integral, Scaled

(* A sequence is the function of its places. *)
LEMMA SeqFunction ==
  ASSUME NEW C, NEW s \in Seq(C)
  PROVE  s = [i \in DOMAIN s |-> s[i]]
OBVIOUS

----------------------------------------------------------------------------
(* The integers and the scaled numbers, written and read back.             *)
(* The space, by name. *)
Blank == " "

(* What TrimSpace leaves neither begins nor ends with a space. *)
Trimmed(s) == s # <<>> /\ s[1] # Blank /\ s[Len(s)] # Blank

(* The places strings.TrimSpace keeps, and what it makes of them. *)
Kept(s) == {i \in DOMAIN s : s[i] # Blank}

(* Trim goes from the first place it keeps to the last. *)
LEMMA TrimKept ==
  ASSUME NEW s
  PROVE  Trim(s) = IF Kept(s) = {} THEN <<>> ELSE SubSeq(s, Min(Kept(s)), Max(Kept(s)))
BY Zenon DEF Trim, Kept, Blank

(* The places it keeps are of the text. *)
LEMMA KeptIn ==
  ASSUME NEW C, NEW s \in Seq(C)
  PROVE  Kept(s) \in SUBSET (1 .. Len(s)) /\ Len(s) \in Nat /\ \A i \in Kept(s) : s[i] # Blank
BY DEF Kept

(* A part of a text. *)
LEMMA SubSeqOf ==
  ASSUME NEW C, NEW s \in Seq(C), NEW m \in 1 .. Len(s), NEW n \in 1 .. Len(s), m <= n
  PROVE  /\ SubSeq(s, m, n) \in Seq(C) /\ Len(SubSeq(s, m, n)) = n - m + 1
         /\ \A i \in 1 .. n - m + 1 : SubSeq(s, m, n)[i] = s[m + i - 1]
<1>1. Len(s) \in Nat /\ \A i \in 1 .. Len(s) : s[i] \in C
  OBVIOUS
<1>2. m \in Int /\ n \in Int /\ \A i \in m .. n : i \in 1 .. Len(s)
  BY <1>1
<1>3. \A i \in m .. n : s[i] \in C
  BY <1>1, <1>2
<1> QED BY <1>2, <1>3, SubSeqProperties

(* A text has a character or is empty. *)
LEMMA NotEmpty ==
  ASSUME NEW C, NEW s \in Seq(C)
  PROVE  Len(s) \in Nat /\ DOMAIN s = 1 .. Len(s) /\ (s # <<>> <=> Len(s) > 0)
OBVIOUS

(* What is trimmed has no space at its ends. *)
LEMMA TrimTrimmed ==
  ASSUME NEW C, NEW s \in Seq(C), Trim(s) # <<>>
  PROVE  Trimmed(Trim(s))
<1> DEFINE m == Min(Kept(s))
           n == Max(Kept(s))
           t == SubSeq(s, m, n)
<1>1. Kept(s) # {} /\ Trim(s) = t
  BY TrimKept
<1>2. m \in Kept(s) /\ n \in Kept(s) /\ m <= n
  BY <1>1, KeptIn, LeastGreatest
<1> HIDE DEF m, n
<1>3. m \in 1 .. Len(s) /\ n \in 1 .. Len(s) /\ s[m] # Blank /\ s[n] # Blank /\ Len(s) \in Nat
  BY <1>2, KeptIn
<1>4. /\ t \in Seq(C) /\ Len(t) = n - m + 1
      /\ \A i \in 1 .. n - m + 1 : t[i] = s[m + i - 1]
  BY <1>2, <1>3, SubSeqOf
<1> HIDE DEF t
<1>5. /\ 1 \in 1 .. n - m + 1 /\ n - m + 1 \in 1 .. n - m + 1 /\ m + 1 - 1 = m
      /\ m + (n - m + 1) - 1 = n /\ n - m + 1 > 0
  BY <1>2, <1>3
<1>6. t[1] = s[m] /\ t[Len(t)] = s[n] /\ t # <<>>
  BY <1>4, <1>5, NotEmpty
<1> QED BY <1>1, <1>3, <1>6 DEF Trimmed

(* So between spaces. *)
LEMMA TrimFrom ==
  ASSUME NEW C, NEW s \in Seq(C), NEW n \in 1 .. Len(s), s[1] # Blank, s[n] # Blank,
         \A i \in n + 1 .. Len(s) : s[i] = Blank
  PROVE  Trim(s) = SubSeq(s, 1, n)
<1>1. Len(s) \in Nat /\ DOMAIN s = 1 .. Len(s)
  OBVIOUS
<1>2. 1 \in Kept(s) /\ n \in Kept(s) /\ Kept(s) \in SUBSET Int
  BY <1>1 DEF Kept
<1>3. \A i \in Kept(s) : 1 <= i /\ i <= n
  BY <1>1 DEF Kept
<1>4. Min(Kept(s)) = 1 /\ Max(Kept(s)) = n
  BY <1>2, <1>3, MinIs, MaxIs
<1> QED BY <1>2, <1>4, TrimKept

(* A text without spaces around it is trimmed to itself. *)
LEMMA TrimSame ==
  ASSUME NEW C, NEW s \in Seq(C), Trimmed(s)
  PROVE  Trim(s) = s
<1>1. Len(s) \in Nat /\ Len(s) \in 1 .. Len(s)
  BY NotEmpty DEF Trimmed
<1>2. \A i \in Len(s) + 1 .. Len(s) : s[i] = Blank
  BY <1>1
<1>3. Trim(s) = SubSeq(s, 1, Len(s))
  BY <1>1, <1>2, TrimFrom DEF Trimmed
<1> QED BY <1>3, SubSeqFull

(* A space behind is dropped. *)
LEMMA TrimBehind ==
  ASSUME NEW C, Blank \in C, NEW s \in Seq(C), Trimmed(s)
  PROVE  Trim(s \o <<Blank>>) = s
<1>1. Len(s) \in Nat /\ DOMAIN s = 1 .. Len(s) /\ Len(s) > 0
  BY NotEmpty DEF Trimmed
<1>2. <<Blank>> \in Seq(C) /\ Len(<<Blank>>) = 1 /\ <<Blank>>[1] = Blank
  OBVIOUS
<1> DEFINE t == s \o <<Blank>>
<1>3. /\ t \in Seq(C) /\ Len(t) = Len(s) + 1 /\ t[Len(s) + 1] = Blank
      /\ \A i \in 1 .. Len(s) : t[i] = s[i]
  BY <1>1, <1>2
<1>4. SubSeq(t, 1, Len(s)) = s
  BY <1>2, Parts
<1> HIDE DEF t
<1>5. Len(s) \in 1 .. Len(t) /\ t[1] # Blank /\ t[Len(s)] # Blank
  BY <1>1, <1>3 DEF Trimmed
<1>6. \A i \in Len(s) + 1 .. Len(t) : t[i] = Blank
  BY <1>1, <1>3
<1>7. Trim(t) = SubSeq(t, 1, Len(s))
  BY <1>3, <1>5, <1>6, TrimFrom
<1> QED BY <1>4, <1>7 DEF t

(* The integer that a numeral stands for is read back from it. *)
LEMMA IntBack ==
  ASSUME NEW n \in Int
  PROVE  LET x == Signed(n, Numeral(Magnitude(n))) IN
         /\ x \in Seq(NumeralChar) /\ x # <<>>
         /\ AsInt(x) = {n}
<1> DEFINE w == Numeral(Magnitude(n))
           x == Signed(n, w)
<1>1. Magnitude(n) \in Nat /\ (IF n < 0 THEN -Magnitude(n) ELSE Magnitude(n)) = n
  BY DEF Magnitude
<1>2. w \in Seq(Figure) /\ Len(w) > 0 /\ Number(w) = Magnitude(n)
  BY <1>1, NumberOfNumeral
<1> HIDE DEF w
<1>3. w \in Seq(NumeralChar) /\ w[1] \in Figure /\ w # <<>> /\ AllDigits(w)
  BY <1>2, FigureSeq, FigureChars, FiguresAreDigits
<1>4. /\ x \in Seq(NumeralChar) /\ x # <<>>
      /\ HasPrefix(x, "-") <=> n < 0
      /\ Unsigned(x) = w
  BY <1>2, <1>3, SignRead
<1>5. AsInt(x) = IF Unsigned(x) = <<>> \/ ~AllDigits(Unsigned(x)) THEN {}
                 ELSE {IF HasPrefix(x, "-") THEN -Number(Unsigned(x)) ELSE Number(Unsigned(x))}
  BY DEF AsInt, Unsigned
<1> HIDE DEF x
<1>6. AsInt(x) = {IF n < 0 THEN -Magnitude(n) ELSE Magnitude(n)}
  BY <1>2, <1>3, <1>4, <1>5
<1> QED BY <1>1, <1>4, <1>6 DEF x, w

(* So is a scaled number. *)
LEMMA ScaledBack ==
  ASSUME NEW n \in Int, NEW scale \in Nat
  PROVE  LET x == ScaledString(n, scale) IN
         /\ x \in Seq(NumeralChar) /\ x # <<>>
         /\ AsScaled(x, scale) = {n}
<1>1. PICK a \in Seq(Figure), b \in Seq(Figure) :
        /\ Len(a) > 0 /\ Len(b) = scale /\ Number(a \o b) = Magnitude(n)
        /\ ScaledString(n, scale) = Signed(n, IF scale = 0 THEN a ELSE a \o <<".">> \o b)
  BY ScaledText
<1> DEFINE body == IF scale = 0 THEN a ELSE a \o <<".">> \o b
           x == ScaledString(n, scale)
<1>2. /\ body \in Seq(NumeralChar) /\ Len(body) > 0 /\ body[1] \in Figure
      /\ Cut(body, ".").before = a /\ Cut(body, ".").after = b
  BY <1>1, CutScaled
<1>3. x = Signed(n, body)
  BY <1>1
<1> HIDE DEF body, x
<1>4. /\ HasPrefix(x, "-") <=> n < 0
      /\ TrimPrefix(TrimPrefix(x, "-"), "+") = body
  BY <1>2, <1>3, SignRead
<1>5. x \in Seq(NumeralChar) /\ x # <<>>
  BY <1>2, <1>3, SignRead
<1>6. a # <<>> /\ AllDigits(a) /\ AllDigits(b) /\ a \o b # <<>> /\ a \o b \o Zeros(scale - Len(b)) = a \o b
  <2>1. a # <<>> /\ AllDigits(a) /\ AllDigits(b)
    BY <1>1, FiguresAreDigits
  <2>2. scale - Len(b) = 0
    BY <1>1
  <2>3. Zeros(0) = <<>>
    BY DEF Zeros
  <2>4. a \o b \in Seq(Figure) /\ Len(a \o b) = Len(a) + Len(b) /\ Len(a) \in Nat /\ Len(b) \in Nat
    BY ConcatProperties, LenProperties
  <2>5. a \o b # <<>>
    BY <1>1, <2>4
  <2>6. (a \o b) \o <<>> = a \o b
    BY <2>4, ConcatEmptySeq
  <2> QED BY <2>1, <2>2, <2>3, <2>5, <2>6
<1>7. AsScaled(x, scale) = {IF n < 0 THEN -Number(a \o b) ELSE Number(a \o b)}
  <2> DEFINE cut == Cut(body, ".")
             digits == cut.before \o cut.after \o Zeros(scale - Len(cut.after))
  <2>1. AsScaled(x, scale) =
          IF \/ cut.before = <<>> /\ ~cut.found
             \/ ~AllDigits(cut.before) \/ ~AllDigits(cut.after)
             \/ Len(cut.after) > scale \/ digits = <<>>
          THEN {} ELSE {IF HasPrefix(x, "-") THEN -Number(digits) ELSE Number(digits)}
    BY <1>4 DEF AsScaled
  <2>2. cut.before = a /\ cut.after = b /\ digits = a \o b
    BY <1>2, <1>6
  <2>3. ~ (Len(b) > scale)
    BY <1>1
  <2> HIDE DEF cut, digits
  <2> QED BY <1>4, <1>6, <2>1, <2>2, <2>3
<1>8. (IF n < 0 THEN -Magnitude(n) ELSE Magnitude(n)) = n
  BY DEF Magnitude
<1> QED BY <1>1, <1>5, <1>7, <1>8 DEF x

----------------------------------------------------------------------------
(* The floats: FormatFloat's shortest numeral, read by ParseFloat.         *)
(* The first k characters, or all. *)
LEMMA TakeAll ==
  ASSUME NEW C, NEW s \in Seq(C), NEW k \in Nat
  PROVE  /\ Take(s, k) \in Seq(C)
         /\ Len(s) <= k => Take(s, k) = s
<1> DEFINE m == IF k <= Len(s) THEN k ELSE Len(s)
<1>1. Len(s) \in Nat
  OBVIOUS
<1>2. {k, Len(s)} \in SUBSET Int /\ m \in {k, Len(s)} /\ \A i \in {k, Len(s)} : m <= i
  BY <1>1
<1>3. m \in 0 .. Len(s) /\ (Len(s) <= k => m = Len(s))
  BY <1>1
<1> HIDE DEF m
<1>4. Min({k, Len(s)}) = m
  BY <1>2, MinIs
<1>5. Take(s, k) = SubSeq(s, 1, m)
  BY <1>4 DEF Take
<1>6. SubSeq(s, 1, m) \in Seq(C)
  BY <1>3, SplitAt
<1>7. SubSeq(s, 1, Len(s)) = s
  BY SubSeqFull
<1> QED BY <1>3, <1>5, <1>6, <1>7

(* k zeros. *)
LEMMA ZerosOf ==
  ASSUME NEW k \in Nat
  PROVE  /\ Zeros(k) \in Seq(Figure) /\ Len(Zeros(k)) = k
         /\ \A i \in 1 .. k : Zeros(k)[i] = "0"
<1>1. CASE k > 0
  <2>1. Zeros(k) = [i \in 1 .. k |-> "0"]
    BY <1>1 DEF Zeros
  <2>2. Len(Zeros(k)) = k /\ \A i \in 1 .. k : Zeros(k)[i] = "0"
    BY <2>1
  <2> QED BY <2>2, ZerosSeq
<1>2. CASE k = 0
  <2>1. Zeros(k) = <<>>
    BY <1>2 DEF Zeros
  <2>2. <<>> \in Seq(Figure) /\ Len(<<>>) = 0
    OBVIOUS
  <2>3. \A i : i \notin 1 .. k
    BY <1>2
  <2> QED BY <1>2, <2>1, <2>2, <2>3, Zenon
<1>3. k > 0 \/ k = 0
  OBVIOUS
<1> QED BY <1>1, <1>2, <1>3, Zenon

(* What FormatFloat writes of a number: its digits, less the zeros that    *)
(* end the places.                                                         *)
LEMMA FloatText ==
  ASSUME FloatPlaces \in Nat, NEW n \in Int
  PROVE  \E a, b \in Seq(Figure) :
           /\ Len(a) > 0 /\ Len(b) <= FloatPlaces
           /\ Number(a \o b \o Zeros(FloatPlaces - Len(b))) = Magnitude(n)
           /\ FloatString(Finite(n)) = Signed(n, IF Len(b) = 0 THEN a ELSE a \o <<".">> \o b)
<1> DEFINE digits == Padded(Magnitude(n), FloatPlaces)
           point == Len(digits) - FloatPlaces
           nonzero == {i \in point + 1 .. Len(digits) : digits[i] # "0"}
           last == Max({point} \cup nonzero)
           a == SubSeq(digits, 1, point)
           b == SubSeq(digits, point + 1, last)
           c == SubSeq(digits, last + 1, Len(digits))
<1>1. Magnitude(n) \in Nat
  BY DEF Magnitude
<1>2. digits \in Seq(Figure) /\ Len(digits) > FloatPlaces /\ Number(digits) = Magnitude(n)
  BY <1>1, PaddedNumeral
<1>3. FloatString(Finite(n)) =
        Signed(n, a \o (IF last = point THEN <<>> ELSE <<".">> \o b))
  BY DEF FloatString, Finite
<1> HIDE DEF digits
<1>4. Len(digits) \in Nat /\ point \in 1 .. Len(digits) /\ Len(digits) - point = FloatPlaces
  BY <1>2, FigureSeq
<1>5. /\ last \in point .. Len(digits)
      /\ \A i \in last + 1 .. Len(digits) : digits[i] = "0"
  <2> DEFINE S == {point} \cup nonzero
  <2>1. S \in SUBSET (1 .. Len(digits)) /\ S # {} /\ point \in S
    BY <1>4
  <2>2. last \in S /\ \A i \in S : i <= last
    <3> HIDE DEF S
    <3>1. Max(S) \in S /\ \A i \in S : i <= Max(S)
      BY <1>4, <2>1, LeastGreatest
    <3> QED BY <3>1 DEF S
  <2> HIDE DEF last
  <2>3. last \in 1 .. Len(digits) /\ point <= last
    BY <2>1, <2>2
  <2>4. ASSUME NEW i \in last + 1 .. Len(digits) PROVE digits[i] = "0"
    <3> HIDE DEF S, point
    <3>1. i \notin S /\ i \in point + 1 .. Len(digits)
      BY <1>4, <2>2, <2>3
    <3> QED BY <3>1 DEF S
  <2> HIDE DEF point
  <2> QED BY <1>4, <2>3, <2>4
<1> HIDE DEF last
<1>6. a \in Seq(Figure) /\ Len(a) = point /\ Len(a) > 0
  BY <1>2, <1>4, SplitAt
<1>7. /\ b \in Seq(Figure) /\ Len(b) = last - point
      /\ SubSeq(digits, 1, last) = a \o b
  <2>1. /\ SubSeq(digits, 1, last) \in Seq(Figure) /\ Len(SubSeq(digits, 1, last)) = last
        /\ \A i \in 1 .. last : SubSeq(digits, 1, last)[i] = digits[i]
    <3>1. last \in 0 .. Len(digits)
      BY <1>4, <1>5
    <3>2. SubSeq(digits, 1, last) \in Seq(Figure) /\ Len(SubSeq(digits, 1, last)) = last
      BY <1>2, <3>1, SplitAt
    <3>3. \A i \in 1 .. last : digits[i] \in Figure
      BY <1>2, <1>4, <3>1, FigureSeq
    <3>4. 1 \in Int /\ last \in Int /\ last - 1 + 1 = last /\ \A i \in Int : 1 + i - 1 = i
      BY <3>1
    <3> HIDE DEF point
    <3>5. \A i \in 1 .. last : SubSeq(digits, 1, last)[i] = digits[i]
      BY <3>3, <3>4, SubSeqProperties
    <3> QED BY <3>2, <3>5
  <2>2. point + 1 \in Int /\ last \in Int /\ \A i \in point + 1 .. last : digits[i] \in Figure
    BY <1>2, <1>4, <1>5, FigureSeq
  <2> HIDE DEF point
  <2>3. b \in Seq(Figure) /\ Len(b) = IF point + 1 <= last THEN last - (point + 1) + 1 ELSE 0
    BY <2>2, SubSeqProperties
  <2>4. Len(b) = last - point
    <3> HIDE DEF b
    <3> QED BY <1>4, <1>5, <2>3
  <2>5. SubSeq(digits, 1, point) \o SubSeq(digits, point + 1, last) = SubSeq(digits, 1, last)
    <3>1. 1 \in 1 .. Len(digits) + 1 /\ point \in 1 - 1 .. Len(digits) /\ last \in point .. Len(digits)
      BY <1>4, <1>5
    <3> QED BY <1>2, <3>1, ConcatAdjacentSubSeq
  <2> QED BY <2>3, <2>4, <2>5
<1>8. c = Zeros(FloatPlaces - Len(b))
  <2>1. last \in 0 .. Len(digits) /\ FloatPlaces - Len(b) = Len(digits) - last
    BY <1>4, <1>5, <1>7
  <2>2. Len(digits) - last \in Nat
    BY <1>4, <2>1
  <2>3. c \in Seq(Figure) /\ Len(c) = Len(digits) - last
    BY <1>2, <2>1, SplitAt
  <2>4. ASSUME NEW i \in 1 .. Len(digits) - last PROVE c[i] = "0"
    <3>1. last + 1 \in Int /\ Len(digits) \in Int /\ last + i \in last + 1 .. Len(digits)
          /\ Len(digits) - (last + 1) + 1 = Len(digits) - last /\ last + 1 + i - 1 = last + i
      BY <1>4, <2>1
    <3>2. \A j \in last + 1 .. Len(digits) : digits[j] \in Figure
      BY <1>2, <2>1, FigureSeq
    <3> HIDE DEF point
    <3>3. c[i] = digits[last + i]
      BY <3>1, <3>2, SubSeqProperties
    <3> QED BY <1>5, <3>1, <3>3
  <2> HIDE DEF c, b, a
  <2>5. \A i \in 1 .. Len(c) : c[i] = Zeros(Len(c))[i]
    BY <2>2, <2>3, <2>4, ZerosOf
  <2>6. c = Zeros(Len(c))
    BY <2>2, <2>3, <2>5, ZerosOf, SeqEqual
  <2> QED BY <2>1, <2>3, <2>6
<1>9. a \o b \o c = digits
  <2>1. last \in 0 .. Len(digits)
    BY <1>4, <1>5
  <2>2. SubSeq(digits, 1, last) \o c = digits
    BY <1>2, <2>1, SplitAt
  <2> QED BY <1>7, <2>2
<1>10. last = point <=> Len(b) = 0
  BY <1>4, <1>5, <1>7
<1>11. a \o (IF last = point THEN <<>> ELSE <<".">> \o b)
         = (IF Len(b) = 0 THEN a ELSE a \o <<".">> \o b)
  <2> HIDE DEF a, b, c, last, point
  <2>1. a \o <<>> = a
    BY <1>6, ConcatEmptySeq
  <2>2. a \o <<".">> \o b = a \o (<<".">> \o b)
    <3>1. a \in Seq(NumeralChar) /\ b \in Seq(NumeralChar) /\ <<".">> \in Seq(NumeralChar)
      BY <1>6, <1>7, FigureChars
    <3> QED BY <3>1, ConcatAssociative
  <2> QED BY <1>10, <2>1, <2>2
<1>12. Len(b) <= FloatPlaces
  BY <1>4, <1>5, <1>7
<1> HIDE DEF a, b, c, last, point
<1> QED BY <1>2, <1>3, <1>6, <1>7, <1>8, <1>9, <1>11, <1>12

(* The floats there are, and the characters they are written with. *)
IsFloat(f) == f \in {NaN, Inf(1), Inf(-1)} \/ \E n \in Int : f = Finite(n)
(* The characters of the text of a float. *)
FloatChar == NumeralChar \cup {"nan", "inf"}

(* The digits strconv.ParseFloat reads, and the sign before them. *)
FloatDigits(s) ==
  LET cut == Cut(Unsigned(s), ".")
  IN cut.before \o Take(cut.after, FloatPlaces) \o Zeros(FloatPlaces - Len(cut.after))
FloatSign(s) == IF HasPrefix(s, "-") THEN -1 ELSE 1

(* strconv.ParseFloat by parts. *)
LEMMA FloatReads ==
  ASSUME NEW s
  PROVE  LET cut == Cut(Unsigned(s), ".") IN
         AsFloat(s) = IF s = <<"nan">> THEN {NaN}
                      ELSE IF Unsigned(s) = <<"inf">> THEN {Inf(FloatSign(s))}
                      ELSE IF cut.before \o cut.after = <<>> \/ ~AllDigits(cut.before \o cut.after) THEN {}
                      ELSE {Finite(FloatSign(s) * Number(FloatDigits(s)))}
BY DEF AsFloat, Unsigned, FloatSign, FloatDigits

(* A numeral is a text of a float; no digit is a word. *)
LEMMA FloatChars ==
  /\ Seq(NumeralChar) \subseteq Seq(FloatChar) /\ "-" \in FloatChar
  /\ "nan" \in FloatChar /\ "inf" \in FloatChar
  /\ \A c \in Figure : c # "nan" /\ c # "inf"
<1>1. NumeralChar \subseteq FloatChar
  BY DEF FloatChar
<1>2. Seq(NumeralChar) \subseteq Seq(FloatChar)
  BY <1>1, SeqMonotonic
<1>3. "nan" \in FloatChar /\ "inf" \in FloatChar
  BY DEF FloatChar
<1>4. \A c \in Figure : c # "nan" /\ c # "inf"
  BY DEF Figure
<1> QED BY <1>1, <1>2, <1>3, <1>4, FigureChars

(* The text that is cut at its point. *)
LEMMA CutFloat ==
  ASSUME NEW a \in Seq(Figure), NEW b \in Seq(Figure), Len(a) > 0
  PROVE  LET body == IF Len(b) = 0 THEN a ELSE a \o <<".">> \o b
             cut == Cut(body, ".")
         IN /\ body \in Seq(NumeralChar) /\ Len(body) > 0 /\ body[1] \in Figure
            /\ cut.before = a /\ cut.after = b
BY CutScaled, FigureSeq

(* A finite float is read back from its shortest numeral. *)
LEMMA FiniteBack ==
  ASSUME FloatPlaces \in Nat, NEW n \in Int
  PROVE  LET x == FloatString(Finite(n)) IN
         x \in Seq(FloatChar) /\ x # <<>> /\ AsFloat(x) = {Finite(n)}
<1>1. PICK a \in Seq(Figure), b \in Seq(Figure) :
        /\ Len(a) > 0 /\ Len(b) <= FloatPlaces
        /\ Number(a \o b \o Zeros(FloatPlaces - Len(b))) = Magnitude(n)
        /\ FloatString(Finite(n)) = Signed(n, IF Len(b) = 0 THEN a ELSE a \o <<".">> \o b)
  BY FloatText
<1> DEFINE body == IF Len(b) = 0 THEN a ELSE a \o <<".">> \o b
           x == FloatString(Finite(n))
<1>2. /\ body \in Seq(NumeralChar) /\ Len(body) > 0 /\ body[1] \in Figure
      /\ Cut(body, ".").before = a /\ Cut(body, ".").after = b
  BY <1>1, CutFloat
<1>3. x = Signed(n, body)
  BY <1>1
<1> HIDE DEF body, x
<1>4. /\ x \in Seq(NumeralChar) /\ x # <<>>
      /\ HasPrefix(x, "-") <=> n < 0
      /\ Unsigned(x) = body
  BY <1>2, <1>3, SignRead
<1>5. x[1] = IF n < 0 THEN "-" ELSE body[1]
  BY <1>2, <1>3, SignedText, FigureChars
<1>6. x # <<"nan">> /\ body # <<"inf">>
  <2>1. body[1] # "inf" /\ body[1] # "nan"
    BY <1>2, FloatChars
  <2>2. x[1] # "nan"
    BY <1>5, <2>1
  <2> QED BY <2>1, <2>2
<1>7. a \o b # <<>> /\ AllDigits(a \o b)
  <2>1. a \o b \in Seq(Figure) /\ Len(a \o b) = Len(a) + Len(b) /\ Len(a) \in Nat /\ Len(b) \in Nat
    BY ConcatProperties, LenProperties
  <2>2. AllDigits(a \o b)
    BY <2>1, FiguresAreDigits
  <2>3. Len(a \o b) # 0 /\ Len(<<>>) = 0
    BY <1>1, <2>1
  <2> QED BY <2>2, <2>3
<1>8. FloatDigits(x) = a \o b \o Zeros(FloatPlaces - Len(b))
  <2>1. Take(b, FloatPlaces) = b
    BY <1>1, TakeAll
  <2> QED BY <1>2, <1>4, <2>1 DEF FloatDigits
<1>9. AsFloat(x) = {Finite(FloatSign(x) * Number(FloatDigits(x)))}
  BY <1>2, <1>4, <1>6, <1>7, FloatReads, Zenon
<1>10. FloatSign(x) * Magnitude(n) = n
  BY <1>4 DEF FloatSign, Magnitude
<1>11. x \in Seq(FloatChar)
  BY <1>4, FloatChars
<1> QED BY <1>1, <1>4, <1>8, <1>9, <1>10, <1>11 DEF x

(* So are nan and the infinities: any float. *)
LEMMA FloatBack ==
  ASSUME FloatPlaces \in Nat, NEW f, IsFloat(f)
  PROVE  LET x == FloatString(f) IN
         x \in Seq(FloatChar) /\ x # <<>> /\ AsFloat(x) = {f}
<1>1. CASE f = NaN
  <2>1. FloatString(f) = <<"nan">>
    BY <1>1 DEF FloatString, NaN
  <2>2. AsFloat(<<"nan">>) = {NaN}
    BY DEF AsFloat
  <2>3. <<"nan">> \in Seq(FloatChar) /\ <<"nan">> # <<>>
    BY FloatChars
  <2> QED BY <1>1, <2>1, <2>2, <2>3
<1>2. ASSUME NEW n \in {1, -1}, f = Inf(n)
      PROVE  FloatString(f) \in Seq(FloatChar) /\ FloatString(f) # <<>> /\ AsFloat(FloatString(f)) = {f}
  <2> DEFINE w == <<"inf">>
             x == Signed(n, w)
  <2>1. FloatString(f) = x
    BY <1>2 DEF FloatString, Inf
  <2>2. w \in Seq(FloatChar) /\ Len(w) > 0 /\ w[1] = "inf"
    BY FloatChars
  <2> HIDE DEF w
  <2>3. "inf" # "-" /\ "inf" # "+"
    OBVIOUS
  <2>4. /\ x \in Seq(FloatChar) /\ x # <<>> /\ x[1] = IF n < 0 THEN "-" ELSE "inf"
        /\ HasPrefix(x, "-") <=> n < 0
        /\ Unsigned(x) = w
    BY <2>2, <2>3, SignedText, FloatChars
  <2> HIDE DEF x
  <2>5. x # <<"nan">>
    BY <2>4
  <2>6. AsFloat(x) = {Inf(FloatSign(x))}
    BY <2>4, <2>5, FloatReads, Zenon DEF w
  <2>7. FloatSign(x) = n
    BY <2>4 DEF FloatSign
  <2> QED BY <1>2, <2>1, <2>4, <2>6, <2>7
<1>3. CASE \E n \in Int : f = Finite(n)
  BY <1>3, FiniteBack
<1> QED BY <1>1, <1>2, <1>3 DEF IsFloat

(* What is read is a float. *)
LEMMA AsFloatRange ==
  ASSUME FloatPlaces \in Nat, NEW C, NEW s \in Seq(C), NEW f \in AsFloat(s)
  PROVE  IsFloat(f)
<1> DEFINE cut == Cut(Unsigned(s), ".")
<1>1. FloatSign(s) \in {1, -1}
  BY DEF FloatSign
<1>2. CASE s = <<"nan">> \/ Unsigned(s) = <<"inf">>
  BY <1>1, <1>2, FloatReads, Zenon DEF IsFloat
<1>3. CASE ~ (s = <<"nan">> \/ Unsigned(s) = <<"inf">>)
  <2>1. AllDigits(cut.before \o cut.after) /\ f = Finite(FloatSign(s) * Number(FloatDigits(s)))
    BY <1>3, FloatReads, Zenon
  <2>2. cut.before \in Seq(C) /\ cut.after \in Seq(C)
    <3>1. Unsigned(s) \in Seq(C)
      BY TailSeq DEF Unsigned, HasPrefix
    <3> QED BY <3>1, CutSeqs
  <2>3. FloatDigits(s) = cut.before \o Take(cut.after, FloatPlaces) \o Zeros(FloatPlaces - Len(cut.after))
    BY DEF FloatDigits
  <2> HIDE DEF cut
  <2> DEFINE a == cut.before
             b == cut.after
  <2> HIDE DEF a, b
  <2>4. a \o b \in Seq(C) /\ a \in Seq(C) /\ b \in Seq(C) /\ AllDigits(a \o b)
    BY <2>1, <2>2, ConcatProperties DEF a, b
  <2>5. a \o b \in Seq(Figure)
    BY <2>4, DigitsSeq
  <2>6. a = SubSeq(a \o b, 1, Len(a)) /\ b = SubSeq(a \o b, Len(a) + 1, Len(a \o b))
    BY <2>4, Parts
  <2>7. Len(a) \in 0 .. Len(a \o b)
    BY <2>4
  <2>8. a \in Seq(Figure) /\ b \in Seq(Figure)
    BY <2>5, <2>6, <2>7, SplitAt
  <2>9. Take(b, FloatPlaces) \in Seq(Figure) /\ Zeros(FloatPlaces - Len(b)) \in Seq(Figure)
    <3>1. FloatPlaces - Len(b) \in Int
      BY <2>8, FigureSeq
    <3>2. Zeros(FloatPlaces - Len(b)) \in Seq(Figure)
      BY <3>1, ZerosSeq
    <3> QED BY <2>8, <3>2, TakeAll
  <2>10. FloatDigits(s) \in Seq(Figure)
    BY <2>3, <2>8, <2>9, ConcatProperties DEF a, b
  <2>11. FloatSign(s) * Number(FloatDigits(s)) \in Int
    BY <1>1, <2>10, NumberNat
  <2> QED BY <2>1, <2>11 DEF IsFloat
<1> QED BY <1>2, <1>3

----------------------------------------------------------------------------
(* Texts: strconv.Quote, undone by Unquote.                                *)
(* The characters that quoting brings in. *)
QuoteChars == {"\"", "\\", "xff", "byte"}

(* A character is written as itself, or behind a backslash. *)
LEMMA EscapedRead ==
  ASSUME NEW C, QuoteChars \subseteq C, NEW c \in C
  PROVE  /\ Escaped(c) \in Seq(C)
         /\ \/ /\ Len(Escaped(c)) = 1 /\ Escaped(c)[1] = c /\ c # "\"" /\ c # "\\"
            \/ /\ Len(Escaped(c)) = 2 /\ Escaped(c)[1] = "\\" /\ Escaped(c)[2] \in Escapes("\"")
               /\ Unescaped(Escaped(c)[2]) = c
<1>1. "\\" \in C /\ "xff" \in C /\ "\\" # "\""
  BY DEF QuoteChars
<1>2. CASE c \in {"\"", "\\"}
  <2>1. Escaped(c) = <<"\\", c>>
    BY <1>2 DEF Escaped
  <2>2. <<"\\", c>> \in Seq(C)
    BY <1>1
  <2>3. c \in Escapes("\"") /\ Unescaped(c) = c
    BY <1>2 DEF Escapes, Unescaped
  <2>4. Len(<<"\\", c>>) = 2 /\ <<"\\", c>>[1] = "\\" /\ <<"\\", c>>[2] = c
    OBVIOUS
  <2> QED BY <2>1, <2>2, <2>3, <2>4, Zenon
<1>3. CASE c = "byte"
  <2>1. Escaped(c) = <<"\\", "xff">>
    BY <1>3 DEF Escaped
  <2>2. <<"\\", "xff">> \in Seq(C)
    BY <1>1
  <2>3. "xff" \in Escapes("\"") /\ Unescaped("xff") = c
    BY <1>3 DEF Escapes, Unescaped
  <2>4. Len(<<"\\", "xff">>) = 2 /\ <<"\\", "xff">>[1] = "\\" /\ <<"\\", "xff">>[2] = "xff"
    OBVIOUS
  <2> QED BY <2>1, <2>2, <2>3, <2>4, Zenon
<1>4. CASE c \notin {"\"", "\\", "byte"}
  <2>1. Escaped(c) = <<c>>
    BY <1>4 DEF Escaped
  <2>2. <<c>> \in Seq(C)
    OBVIOUS
  <2>3. Len(<<c>>) = 1 /\ <<c>>[1] = c /\ c # "\"" /\ c # "\\"
    BY <1>4
  <2> QED BY <2>1, <2>2, <2>3, Zenon
<1> QED BY <1>2, <1>3, <1>4

(* Quote writes one character after the other. *)
Quotes(t, g) ==
  g = [k \in 0 .. Len(t) |-> IF k = 0 THEN <<"\"">> ELSE g[k - 1] \o Escaped(t[k])]
(* Quote, as the function that writes a character more at each step. *)
Quoting(t) ==
  LET upTo[k \in 0 .. Len(t)] == IF k = 0 THEN <<"\"">> ELSE upTo[k - 1] \o Escaped(t[k])
  IN upTo

(* Three texts, one behind the other. *)
LEMMA Regroup ==
  ASSUME NEW C
  PROVE  \A x, y, z \in Seq(C) : x \o (y \o z) = (x \o y) \o z
BY ConcatAssociative, SMTT(30)

(* What stands between the quotes, and each beginning of it. *)
Escapings(t, w) == w[0] = <<>> /\ \A k \in 1 .. Len(t) : w[k] = w[k - 1] \o Escaped(t[k])

(* Quote puts the escapes of a text between two quotes. *)
LEMMA QuoteWritten ==
  ASSUME NEW C, QuoteChars \subseteq C, NEW t \in Seq(C)
  PROVE  \E w \in [0 .. Len(t) -> Seq(C)] :
           Escapings(t, w) /\ Quote(t) = <<"\"">> \o w[Len(t)] \o <<"\"">>
<1> DEFINE n == Len(t)
           T == Seq(C)
           step == [x \in (1 .. n) \X T |-> x[2] \o Escaped(t[x[1]])]
<1>1. n \in Nat /\ \A k \in 1 .. n : t[k] \in C /\ Escaped(t[k]) \in T
  <2>1. n \in Nat /\ \A k \in 1 .. n : t[k] \in C
    OBVIOUS
  <2>2. ASSUME NEW k \in 1 .. n PROVE Escaped(t[k]) \in T
    <3>1. t[k] \in C
      BY <2>1
    <3> QED BY <3>1, EscapedRead
  <2> QED BY <2>1, <2>2
<1>2. step \in [(1 .. n) \X T -> T]
  <2> SUFFICES ASSUME NEW x \in (1 .. n) \X T PROVE x[2] \o Escaped(t[x[1]]) \in T
    OBVIOUS
  <2>1. x[1] \in 1 .. n /\ x[2] \in T
    OBVIOUS
  <2> QED BY <1>1, <2>1, ConcatProperties
<1>3. <<>> \in T
  OBVIOUS
<1>4. PICK w \in [0 .. n -> T] : Climbs(w, n, <<>>, step)
  <2> HIDE DEF step, T
  <2> QED BY <1>1, <1>2, <1>3, UpRecursion
<1>5. w[0] = <<>> /\ \A k \in 1 .. n : w[k] = w[k - 1] \o Escaped(t[k])
  <2>1. w[0] = <<>>
    BY <1>4 DEF Climbs
  <2>2. ASSUME NEW k \in 1 .. n PROVE w[k] = w[k - 1] \o Escaped(t[k])
    <3>1. k - 1 \in 0 .. n
      BY <1>1
    <3>2. <<k, w[k - 1]>> \in (1 .. n) \X T
      BY <3>1
    <3>3. w[k] = step[<<k, w[k - 1]>>]
      BY <1>4 DEF Climbs
    <3> QED BY <3>2, <3>3
  <2> QED BY <2>1, <2>2
<1> HIDE DEF step
<1>6. Escapings(t, w)
  BY <1>5 DEF Escapings
<1> DEFINE q == <<"\"">>
           g == [k \in 0 .. n |-> q \o w[k]]
<1>7. q \in T /\ \A k \in 0 .. n : w[k] \in T
  <2>1. "\"" \in C
    BY DEF QuoteChars
  <2>3. \A c \in C : <<c>> \in Seq(C)
    OBVIOUS
  <2>2. q \in T
    BY <2>1, <2>3, Zenon
  <2> HIDE DEF q, g
  <2> QED BY <2>2
<1> HIDE DEF q
<1>8. \A k \in 0 .. n : g[k] = IF k = 0 THEN q ELSE g[k - 1] \o Escaped(t[k])
  <2> TAKE k \in 0 .. n
  <2>1. CASE k = 0
    <3>1. g[k] = q \o <<>>
      BY <1>5, <2>1
    <3> QED BY <1>7, <2>1, <3>1, ConcatEmptySeq
  <2>2. CASE k # 0
    <3>1. k \in 1 .. n /\ k - 1 \in 0 .. n
      BY <1>1, <2>2
    <3>2. w[k] = w[k - 1] \o Escaped(t[k]) /\ w[k - 1] \in T /\ Escaped(t[k]) \in T
      BY <1>1, <1>5, <1>7, <3>1
    <3>3. q \o (w[k - 1] \o Escaped(t[k])) = (q \o w[k - 1]) \o Escaped(t[k])
      <4>1. \A x, y, z \in T : x \o (y \o z) = (x \o y) \o z
        BY Regroup, SMTT(30)
      <4> HIDE DEF g, T
      <4> QED BY <1>7, <3>2, <4>1
    <3>4. g[k] = q \o w[k] /\ g[k - 1] = q \o w[k - 1]
      BY <3>1
    <3> HIDE DEF g
    <3> QED BY <2>2, <3>2, <3>3, <3>4
  <2> QED BY <2>1, <2>2
<1>9. Quotes(t, g)
  BY <1>8 DEF Quotes, q
<1>10. Quotes(t, Quoting(t))
  BY <1>9 DEF Quoting, Quotes
<1>11. \A k \in 0 .. n : Quoting(t)[k] = g[k]
  <2> DEFINE f == Quoting(t)
             S == {k \in Nat : k \in 0 .. n => f[k] = g[k]}
  <2>1. \A k \in 0 .. n : f[k] = IF k = 0 THEN q ELSE f[k - 1] \o Escaped(t[k])
    BY <1>10 DEF Quotes, q
  <2> HIDE DEF f, g
  <2>2. 0 \in S
    <3>1. 0 \in 0 .. n
      BY <1>1
    <3> QED BY <1>8, <2>1, <3>1
  <2>3. ASSUME NEW k \in Nat, k \in S PROVE k + 1 \in S
    <3> SUFFICES ASSUME k + 1 \in 0 .. n PROVE f[k + 1] = g[k + 1]
      OBVIOUS
    <3>1. k \in 0 .. n /\ k + 1 # 0 /\ (k + 1) - 1 = k
      BY <1>1
    <3>2. f[k] = g[k]
      BY <2>3, <3>1
    <3>3. f[k + 1] = f[k] \o Escaped(t[k + 1]) /\ g[k + 1] = g[k] \o Escaped(t[k + 1])
      BY <1>8, <2>1, <3>1
    <3> QED BY <3>2, <3>3
  <2> HIDE DEF S
  <2>4. Nat \subseteq S
    BY <2>2, <2>3, NatSetInduction
  <2>5. \A k \in 0 .. n : k \in S
    BY <1>1, <2>4
  <2> QED BY <2>5 DEF S, f
<1>12. n \in 0 .. n
  BY <1>1
<1>13. Quote(t) = Append(Quoting(t)[n], "\"")
  BY DEF Quote, Quoting
<1>14. Quoting(t)[n] = q \o w[n] /\ q \o w[n] \in T
  BY <1>7, <1>11, <1>12, ConcatProperties
<1>15. Append(q \o w[n], "\"") = q \o w[n] \o <<"\"">>
  BY <1>14, AppendIsConcat, "\"" \in C DEF QuoteChars
<1> QED BY <1>6, <1>13, <1>14, <1>15 DEF q

(* A text that grows by x[k] at k. *)
Grows(w, x, n) == \A k \in 1 .. n : w[k] = w[k - 1] \o x[k]

(* a stands at the beginning of b. *)
StartOf(a, b) == Len(a) <= Len(b) /\ \A i \in 1 .. Len(a) : b[i] = a[i]

(* What grows begins with what it was. *)
LEMMA Beginnings ==
  ASSUME NEW C, NEW n \in Nat, NEW w \in [0 .. n -> Seq(C)], NEW x \in [1 .. n -> Seq(C)],
         Grows(w, x, n), NEW k \in 0 .. n, NEW j \in k .. n
  PROVE  StartOf(w[k], w[j])
<1> DEFINE S == {m \in Nat : k + m \in k .. n => StartOf(w[k], w[k + m])}
<1>1. 0 \in S
  <2>1. Len(w[k]) \in Nat /\ k + 0 = k
    OBVIOUS
  <2> QED BY <2>1 DEF StartOf
<1>2. ASSUME NEW m \in Nat, m \in S PROVE m + 1 \in S
  <2> DEFINE a == w[k + m]
             b == x[k + m + 1]
  <2> SUFFICES ASSUME k + (m + 1) \in k .. n PROVE StartOf(w[k], w[k + (m + 1)])
    OBVIOUS
  <2>1. /\ k + m \in k .. n /\ k + m \in 0 .. n /\ k + m + 1 \in 1 .. n
        /\ (k + m + 1) - 1 = k + m /\ k + (m + 1) = k + m + 1
    OBVIOUS
  <2>2. StartOf(w[k], w[k + m])
    BY <1>2, <2>1
  <2>3. w[k + m + 1] = a \o b
    BY <2>1 DEF Grows
  <2>4. a \in Seq(C) /\ b \in Seq(C) /\ w[k] \in Seq(C)
    BY <2>1
  <2>5. Len(w[k]) <= Len(a) /\ \A i \in 1 .. Len(w[k]) : a[i] = w[k][i]
    BY <2>2 DEF StartOf
  <2> HIDE DEF a, b
  <2>6. /\ Len(a \o b) = Len(a) + Len(b) /\ Len(a) \in Nat /\ Len(b) \in Nat /\ Len(w[k]) \in Nat
        /\ \A i \in 1 .. Len(a) : (a \o b)[i] = a[i]
    BY <2>4
  <2>7. \A i \in 1 .. Len(w[k]) : i \in 1 .. Len(a)
    BY <2>5, <2>6
  <2>8. Len(w[k]) <= Len(a \o b) /\ \A i \in 1 .. Len(w[k]) : (a \o b)[i] = w[k][i]
    <3>1. Len(w[k]) <= Len(a \o b)
      BY <2>5, <2>6
    <3>2. ASSUME NEW i \in 1 .. Len(w[k]) PROVE (a \o b)[i] = w[k][i]
      BY <2>5, <2>6, <2>7, Zenon
    <3> QED BY <3>1, <3>2
  <2> QED BY <2>1, <2>3, <2>8 DEF StartOf
<1> HIDE DEF S
<1>3. Nat \subseteq S
  BY <1>1, <1>2, NatSetInduction
<1>4. j - k \in Nat /\ k + (j - k) = j
  OBVIOUS
<1>5. StartOf(w[k], w[j])
  <2>1. k + (j - k) \in k .. n => StartOf(w[k], w[k + (j - k)])
    BY <1>3, <1>4 DEF S
  <2> QED BY <1>4, <2>1
<1> QED BY <1>5

(* What each character is read as, at its place. *)
LEMMA UnescapeAt ==
  ASSUME NEW C, "byte" \in C, NEW s \in Seq(C), NEW quote, NEW k \in 1 .. Len(s) + 1
  PROVE  LET f == Unescaping(s, quote) IN
         f[k] = IF k > Len(s) THEN {<<>>}
                ELSE IF s[k] = quote THEN {}
                ELSE IF s[k] # "\\" THEN Led(s[k], f[k + 1])
                ELSE IF k = Len(s) \/ s[k + 1] \notin Escapes(quote) THEN {}
                ELSE Led(Unescaped(s[k + 1]), f[k + 2])
<1> DEFINE f == Unescaping(s, quote)
<1>1. Unescapes(s, quote, f)
  BY UnescapeSteps
<1> HIDE DEF f
<1>2. f[k] = IF k > Len(s) THEN {<<>>}
             ELSE IF s[k] = quote THEN {}
             ELSE IF s[k] # "\\" THEN {<<s[k]>> \o rest : rest \in f[k + 1]}
             ELSE IF k = Len(s) \/ s[k + 1] \notin Escapes(quote) THEN {}
             ELSE {<<Unescaped(s[k + 1])>> \o rest : rest \in f[k + 2]}
  BY <1>1 DEF Unescapes
<1> QED BY <1>2, Zenon DEF Led, f

(* A character by itself, and one behind a backslash. *)
LEMMA UnescapeCases ==
  ASSUME NEW C, "byte" \in C, NEW s \in Seq(C), NEW quote, quote # "\\"
  PROVE  /\ Unescaping(s, quote)[Len(s) + 1] = {<<>>}
         /\ \A k \in 1 .. Len(s) : s[k] # quote /\ s[k] # "\\" =>
              Unescaping(s, quote)[k] = Led(s[k], Unescaping(s, quote)[k + 1])
         /\ \A k \in 1 .. Len(s) - 1 : s[k] = "\\" /\ s[k + 1] \in Escapes(quote) =>
              Unescaping(s, quote)[k] = Led(Unescaped(s[k + 1]), Unescaping(s, quote)[k + 2])
<1> DEFINE f == Unescaping(s, quote)
<1>1. Len(s) \in Nat
  OBVIOUS
<1>2. ASSUME NEW k \in 1 .. Len(s) + 1
      PROVE  f[k] = IF k > Len(s) THEN {<<>>}
                    ELSE IF s[k] = quote THEN {}
                    ELSE IF s[k] # "\\" THEN Led(s[k], f[k + 1])
                    ELSE IF k = Len(s) \/ s[k + 1] \notin Escapes(quote) THEN {}
                    ELSE Led(Unescaped(s[k + 1]), f[k + 2])
  BY UnescapeAt
<1> HIDE DEF f
<1>3. Len(s) + 1 \in 1 .. Len(s) + 1 /\ Len(s) + 1 > Len(s)
  BY <1>1
<1>4. f[Len(s) + 1] = {<<>>}
  BY <1>2, <1>3, Zenon
<1>5. ASSUME NEW k \in 1 .. Len(s), s[k] # quote, s[k] # "\\"
      PROVE  f[k] = Led(s[k], f[k + 1])
  <2>1. k \in 1 .. Len(s) + 1 /\ ~ (k > Len(s))
    BY <1>1
  <2> QED BY <1>2, <1>5, <2>1, Zenon
<1>6. ASSUME NEW k \in 1 .. Len(s) - 1, s[k] = "\\", s[k + 1] \in Escapes(quote)
      PROVE  f[k] = Led(Unescaped(s[k + 1]), f[k + 2])
  <2>1. k \in 1 .. Len(s) + 1 /\ ~ (k > Len(s)) /\ k # Len(s) /\ s[k] # quote
    BY <1>1, <1>6
  <2> QED BY <1>2, <1>6, <2>1, Zenon
<1> QED BY <1>4, <1>5, <1>6 DEF f

(* Where the escape of a character stands: b after a, in what begins e. *)
Stretch(a, b, c, e) ==
  /\ Len(a) \in Nat /\ Len(b) \in Nat /\ Len(e) \in Nat
  /\ Len(c) = Len(a) + Len(b) /\ Len(a) + Len(b) <= Len(e)
  /\ \A i \in 1 .. Len(b) : e[Len(a) + i] = b[i]

(* Where the escape of a character stands in the whole. *)
LEMMA EscapeAt ==
  ASSUME NEW C, NEW n \in Nat, NEW w \in [0 .. n -> Seq(C)], NEW x \in [1 .. n -> Seq(C)],
         Grows(w, x, n), NEW k \in 1 .. n
  PROVE  Stretch(w[k - 1], x[k], w[k], w[n])
<1>1. k - 1 \in 0 .. n /\ k \in 0 .. n /\ n \in 0 .. n /\ n \in k .. n
  OBVIOUS
<1>8. \A m \in 0 .. n : n \in m .. n => StartOf(w[m], w[n])
  BY Beginnings
<1> DEFINE a == w[k - 1]
           b == x[k]
           c == w[k]
           e == w[n]
<1>2. a \in Seq(C) /\ b \in Seq(C) /\ e \in Seq(C) /\ c = a \o b
  BY <1>1 DEF Grows
<1>3. Len(c) <= Len(e) /\ \A i \in 1 .. Len(c) : e[i] = c[i]
  BY <1>1, <1>8 DEF StartOf
<1> HIDE DEF a, b, c, e
<1>4. /\ Len(a) \in Nat /\ Len(b) \in Nat /\ Len(e) \in Nat /\ Len(c) = Len(a) + Len(b)
      /\ \A i \in 1 .. Len(b) : c[Len(a) + i] = b[i]
  <2>1. /\ Len(a) \in Nat /\ Len(b) \in Nat /\ Len(e) \in Nat /\ Len(a \o b) = Len(a) + Len(b)
        /\ \A i \in 1 .. Len(b) : (a \o b)[Len(a) + i] = b[i]
    BY <1>2
  <2> QED BY <1>2, <2>1
<1>5. \A i \in 1 .. Len(b) : Len(a) + i \in 1 .. Len(c)
  BY <1>4
<1>6. \A i \in 1 .. Len(b) : e[Len(a) + i] = b[i]
  BY <1>3, <1>4, <1>5, Zenon
<1>7. Len(a) + Len(b) <= Len(e)
  BY <1>3, <1>4
<1>9. Stretch(a, b, c, e)
  BY <1>4, <1>6, <1>7 DEF Stretch
<1> QED BY <1>9 DEF a, b, c, e

(* A character before what follows it. *)
LEMMA LedOne ==
  ASSUME NEW C, NEW t \in Seq(C), NEW k \in 1 .. Len(t)
  PROVE  Led(t[k], {SubSeq(t, k + 1, Len(t))}) = {SubSeq(t, k, Len(t))}
<1> DEFINE n == Len(t)
           a == SubSeq(t, k, k)
<1>1. n \in Nat /\ k \in Int /\ \A i \in 1 .. n : t[i] \in C
  OBVIOUS
<1>2. a = <<t[k]>>
  <2>1. a \in Seq(C) /\ Len(a) = 1 /\ a[1] = t[k]
    <3>1. a \in Seq(C) /\ Len(a) = k - k + 1 /\ \A i \in 1 .. k - k + 1 : a[i] = t[k + i - 1]
      BY SubSeqOf
    <3>2. k - k + 1 = 1 /\ k + 1 - 1 = k /\ 1 \in 1 .. 1
      OBVIOUS
    <3> HIDE DEF a
    <3> QED BY <3>1, <3>2
  <2>2. <<t[k]>> \in Seq(C) /\ Len(<<t[k]>>) = 1 /\ <<t[k]>>[1] = t[k]
    BY <1>1
  <2>3. \A i \in 1 .. 1 : i = 1
    OBVIOUS
  <2> HIDE DEF a
  <2> QED BY <2>1, <2>2, <2>3, SeqEqual
<1>3. a \o SubSeq(t, k + 1, n) = SubSeq(t, k, n)
  <2>1. k \in 1 .. n + 1 /\ k \in k - 1 .. n /\ n \in k .. n
    BY <1>1
  <2> QED BY <2>1, ConcatAdjacentSubSeq
<1> QED BY <1>2, <1>3, Zenon DEF Led

(* What Quote writes is read back as what it was given. *)
LEMMA EscapingsRead ==
  ASSUME NEW C, QuoteChars \subseteq C, NEW t \in Seq(C), NEW w \in [0 .. Len(t) -> Seq(C)],
         Escapings(t, w)
  PROVE  Unescape(w[Len(t)], "\"") = {t}
<1> DEFINE n == Len(t)
           q == "\""
           e == w[n]
           f == Unescaping(e, q)
           at == [k \in 0 .. n |-> Len(w[k]) + 1]
           x == [k \in 1 .. n |-> Escaped(t[k])]
           S == {m \in Nat : m \in 0 .. n => f[at[n - m]] = {SubSeq(t, n - m + 1, n)}}
<1>1. n \in Nat /\ n \in 0 .. n /\ e \in Seq(C) /\ "byte" \in C /\ Len(e) \in Nat
  <2>1. n \in Nat /\ n \in 0 .. n
    OBVIOUS
  <2>2. e \in Seq(C)
    BY <2>1
  <2>3. "byte" \in C
    BY DEF QuoteChars
  <2>4. Len(e) \in Nat
    BY <2>2, LenProperties
  <2> QED BY <2>1, <2>2, <2>3, <2>4
<1>2. /\ w[0] = <<>> /\ Grows(w, x, n)
      /\ x \in [1 .. n -> Seq(C)]
  <2>1. ASSUME NEW k \in 1 .. n PROVE Escaped(t[k]) \in Seq(C)
    <3>1. t[k] \in C
      OBVIOUS
    <3> QED BY <3>1, EscapedRead
  <2> QED BY <2>1 DEF Escapings, Grows
<1>3. \A k \in 0 .. n : at[k] = Len(w[k]) + 1 /\ Len(w[k]) \in Nat /\ w[k] \in Seq(C)
  OBVIOUS
<1> HIDE DEF e, f, at, x
<1>11. w \in [0 .. n -> Seq(C)]
  OBVIOUS
<1> HIDE DEF n
<1>4. 0 \in S
  <2>1. at[n] = Len(e) + 1
    BY <1>1, <1>3 DEF e
  <2>2. f[Len(e) + 1] = {<<>>}
    <3>1. q # "\\"
      OBVIOUS
    <3> QED BY <1>1, <3>1, UnescapeCases DEF f
  <2>3. SubSeq(t, n + 1, n) = <<>>
    BY <1>1, SubSeqEmpty
  <2>4. n - 0 = n
    BY <1>1
  <2> QED BY <2>1, <2>2, <2>3, <2>4
<1>5. ASSUME NEW m \in Nat, m \in S PROVE m + 1 \in S
  <2> SUFFICES ASSUME m + 1 \in 0 .. n
               PROVE  f[at[n - (m + 1)]] = {SubSeq(t, n - (m + 1) + 1, n)}
    OBVIOUS
  <2> DEFINE k == n - m
             p == at[k - 1]
             c == t[k]
  <2>1. k \in 1 .. n /\ k - 1 \in 0 .. n /\ k \in 0 .. n /\ n - (m + 1) = k - 1 /\ n - (m + 1) + 1 = k
        /\ m \in 0 .. n /\ k \in Nat
    BY <1>1
  <2>2. f[at[k]] = {SubSeq(t, k + 1, n)}
    BY <1>5, <2>1
  <2> HIDE DEF S, k
  <2>3. c \in C
    BY <2>1 DEF n
  <2>4. /\ x[k] \in Seq(C)
        /\ \/ Len(x[k]) = 1 /\ x[k][1] = c /\ c # q /\ c # "\\"
           \/ /\ Len(x[k]) = 2 /\ x[k][1] = "\\" /\ x[k][2] \in Escapes(q)
              /\ Unescaped(x[k][2]) = c
    <3>1. x[k] = Escaped(c)
      BY <2>1 DEF x
    <3> QED BY <2>3, <3>1, EscapedRead
  <2> HIDE DEF c, q
  <2>5. /\ Len(w[k - 1]) \in Nat /\ Len(w[k]) = Len(w[k - 1]) + Len(x[k])
        /\ Len(w[k - 1]) + Len(x[k]) <= Len(e)
        /\ \A i \in 1 .. Len(x[k]) : e[Len(w[k - 1]) + i] = x[k][i]
    <3>1. Stretch(w[k - 1], x[k], w[k], w[n])
      BY <1>1, <1>2, <1>11, <2>1, EscapeAt
    <3> QED BY <3>1 DEF Stretch, e
  <2>6. p = Len(w[k - 1]) + 1 /\ at[k] = Len(w[k]) + 1
    BY <1>3, <2>1
  <2> HIDE DEF p
  <2>7. q # "\\"
    BY DEF q
  <2>8. f[p] = Led(c, f[at[k]])
    <3>1. CASE Len(x[k]) = 1 /\ x[k][1] = c /\ c # q /\ c # "\\"
      <4>1. p \in 1 .. Len(e) /\ 1 \in 1 .. Len(x[k]) /\ at[k] = p + 1
        BY <1>1, <2>5, <2>6, <3>1
      <4>2. e[p] = c
        BY <2>5, <2>6, <3>1, <4>1
      <4> QED BY <1>1, <2>7, <3>1, <4>1, <4>2, UnescapeCases DEF f
    <3>2. CASE Len(x[k]) = 2 /\ x[k][1] = "\\" /\ x[k][2] \in Escapes(q) /\ Unescaped(x[k][2]) = c
      <4>1. /\ p \in 1 .. Len(e) - 1 /\ 1 \in 1 .. Len(x[k]) /\ 2 \in 1 .. Len(x[k]) /\ at[k] = p + 2
            /\ Len(w[k - 1]) + 2 = p + 1
        BY <1>1, <2>5, <2>6, <3>2
      <4>2. e[p] = "\\" /\ e[p + 1] = x[k][2]
        BY <2>5, <2>6, <3>2, <4>1
      <4> QED BY <1>1, <2>7, <3>2, <4>1, <4>2, UnescapeCases DEF f
    <3> QED BY <2>4, <3>1, <3>2, Zenon
  <2>9. Led(c, {SubSeq(t, k + 1, n)}) = {SubSeq(t, k, n)}
    BY <2>1, LedOne DEF c, n
  <2> QED BY <2>1, <2>2, <2>8, <2>9, Zenon DEF p
<1> HIDE DEF S
<1>6. Nat \subseteq S
  BY <1>4, <1>5, NatSetInduction
<1>7. f[at[0]] = {SubSeq(t, 1, n)}
  <2>1. n - n = 0 /\ 0 + 1 = 1 /\ n \in S
    BY <1>1, <1>6
  <2> QED BY <1>1, <2>1 DEF S
<1>8. at[0] = 1
  <2>1. 0 \in 0 .. n
    BY <1>1
  <2> QED BY <1>2, <1>3, <2>1
<1>9. SubSeq(t, 1, n) = t
  BY SubSeqFull DEF n
<1>10. Unescape(e, q) = f[1]
  BY <1>1, UnescapeSteps DEF f
<1> QED BY <1>7, <1>8, <1>9, <1>10 DEF e, n

(* Between the quotes of a text. *)
LEMMA Inside ==
  ASSUME NEW C, NEW w \in Seq(C), NEW q \in C
  PROVE  LET s == <<q>> \o w \o <<q>> IN
         /\ s \in Seq(C) /\ Len(s) >= 2 /\ s[1] = q /\ s[Len(s)] = q
         /\ SubSeq(s, 2, Len(s) - 1) = w
<1> DEFINE s == <<q>> \o w \o <<q>>
           m == Len(s) - 1
           u == SubSeq(s, 2, m)
<1>1. /\ s \in Seq(C) /\ Len(s) = Len(w) + 2 /\ Len(w) \in Nat /\ s[1] = q /\ s[Len(w) + 2] = q
      /\ \A i \in 1 .. Len(w) : s[i + 1] = w[i]
  OBVIOUS
<1> HIDE DEF s
<1>2. m \in Int /\ m = Len(w) + 1 /\ \A i \in 2 .. m : s[i] \in C
  BY <1>1
<1> HIDE DEF m
<1>3. /\ u \in Seq(C) /\ Len(u) = (IF 2 <= m THEN m - 2 + 1 ELSE 0)
      /\ \A i \in 1 .. m - 2 + 1 : u[i] = s[2 + i - 1]
  BY <1>2, SubSeqProperties, 2 \in Int
<1> HIDE DEF u
<1>4. Len(u) = Len(w)
  BY <1>1, <1>2, <1>3
<1>5. \A i \in 1 .. Len(w) : i \in 1 .. m - 2 + 1 /\ 2 + i - 1 = i + 1
  BY <1>1, <1>2
<1>6. \A i \in 1 .. Len(w) : u[i] = w[i]
  BY <1>1, <1>3, <1>5
<1>7. u = w
  BY <1>3, <1>4, <1>6, SeqEqual
<1> QED BY <1>1, <1>7 DEF u, m, s

(* The text between the quotes is read back. *)
LEMMA QuoteBack ==
  ASSUME NEW C, QuoteChars \subseteq C, NEW t \in Seq(C)
  PROVE  /\ Quote(t) \in Seq(C) /\ Quote(t) # <<>>
         /\ Quote(t)[1] = "\"" /\ Quote(t)[Len(Quote(t))] = "\""
         /\ AsText(Quote(t)) = {t}
<1> DEFINE q == "\""
<1>1. PICK w \in [0 .. Len(t) -> Seq(C)] :
        Escapings(t, w) /\ Quote(t) = <<q>> \o w[Len(t)] \o <<q>>
  BY QuoteWritten
<1> DEFINE e == w[Len(t)]
           s == Quote(t)
<1>2. Unescape(e, q) = {t}
  BY <1>1, EscapingsRead
<1>3. q \in C /\ q # "backquote"
  BY DEF QuoteChars
<1> HIDE DEF q
<1>4. e \in Seq(C)
  <2>1. Len(t) \in 0 .. Len(t)
    OBVIOUS
  <2> QED BY <2>1
<1>5. s = <<q>> \o e \o <<q>>
  BY <1>1
<1> HIDE DEF e, s
<1>6. /\ s \in Seq(C) /\ Len(s) >= 2 /\ s[1] = q /\ s[Len(s)] = q
      /\ SubSeq(s, 2, Len(s) - 1) = e
  BY <1>3, <1>4, <1>5, Inside
<1>7. s # <<>> /\ ~ (Len(s) < 2)
  BY <1>6
<1>8. AsText(s) = Unescape(e, q)
  <2>1. AsText(s) = LET quote == s[1]
                        inside == SubSeq(s, 2, Len(s) - 1)
                    IN IF Len(s) < 2 \/ quote # s[Len(s)] THEN {}
                       ELSE IF quote = "backquote" THEN {u \in {inside} : \A i \in DOMAIN u : u[i] # "backquote"}
                       ELSE IF quote = q THEN Unescape(inside, quote)
                       ELSE IF quote = "'" THEN {u \in Unescape(inside, quote) : Len(u) = 1}
                       ELSE {}
    BY Zenon DEF AsText, q
  <2> QED BY <1>3, <1>6, <1>7, <2>1, Zenon
<1>9. s \in Seq(C) /\ s # <<>> /\ s[1] = q /\ s[Len(s)] = q /\ AsText(s) = {t}
  BY <1>2, <1>6, <1>7, <1>8, Zenon
<1> QED BY <1>9, Zenon DEF s, q

(* What a cell was read from. *)
LEMMA ReadFrom ==
  ASSUME NEW C, NEW text \in Seq(C), NEW type, NEW expected,
         Parse(text, type, expected) # NoValue
  PROVE  LET s == Trim(text)
             v == Parse(text, type, expected)
         IN /\ s \in Seq(C) /\ Trimmed(s)
            /\ \/ s[1] = "!" /\ v \in Raise(s, type, expected)
               \/ s[1] # "!" /\ v \in Read(s, type, expected)
<1> DEFINE s == Trim(text)
           v == Parse(text, type, expected)
<1>1. s \in Seq(C)
  BY TrimSeq
<1>2. v \in Values(text, type, expected)
  BY DEF Parse
<1>3. s # <<>> /\ v \in IF s[1] = "!" THEN Raise(s, type, expected) ELSE Read(s, type, expected)
  BY <1>2, Zenon DEF Values
<1>4. Trimmed(s)
  BY <1>3, TrimTrimmed
<1> QED BY <1>1, <1>3, <1>4

(* A text without spaces around it that is read as one value. *)
LEMMA ReadOne ==
  ASSUME NEW C, NEW x \in Seq(C), Trimmed(x), x[1] # "!", NEW type, NEW expected, NEW v,
         Read(x, type, expected) = {v}
  PROVE  Parse(x, type, expected) = v
<1>1. Trim(x) = x /\ x # <<>>
  BY TrimSame DEF Trimmed
<1>2. Values(x, type, expected) = {v}
  BY <1>1, Zenon DEF Values
<1> QED BY <1>2 DEF Parse

(* What an expected raise names is read back. *)
LEMMA RaiseBack ==
  ASSUME NEW C, "!" \in C, NEW text \in Seq(C), NEW type, NEW expected, NEW v,
         LET s == Trim(text) IN s[1] = "!" /\ s \in Seq(C) /\ Trimmed(s) /\ v \in Raise(s, type, expected)
  PROVE  Parse(String(v), type, expected) = v
<1> DEFINE s == Trim(text)
           r == Trim(Tail(s))
           x == <<"!">> \o r
<1>1. s \in Seq(C) /\ s # <<>> /\ v \in Raise(s, type, expected)
  BY DEF Trimmed
<1>2. expected /\ r # <<>> /\ v = [Zero(type) EXCEPT !.raises = r]
  BY <1>1 DEF Raise
<1>3. r \in Seq(C) /\ Trimmed(r)
  BY <1>1, <1>2, TailSeq, TrimSeq, TrimTrimmed
<1>4. String(v) = x
  BY <1>2 DEF String, IsRaise, Zero
<1> HIDE DEF r, s
<1>5. <<"!">> \in Seq(C) /\ Len(<<"!">>) = 1 /\ <<"!">>[1] = "!"
  OBVIOUS
<1>6. x \in Seq(C) /\ Len(x) = 1 + Len(r) /\ x[1] = "!" /\ Len(r) \in Nat
      /\ \A i \in 1 .. Len(r) : x[i + 1] = r[i]
  BY <1>3, <1>5
<1>7. Len(r) > 0
  BY <1>2, <1>3, NotEmpty
<1> HIDE DEF x
<1>8. x # <<>>
  BY <1>6
<1>9. Tail(x) = r
  <2>1. Tail(x) \in Seq(C) /\ Len(Tail(x)) = Len(x) - 1
        /\ \A i \in 1 .. Len(Tail(x)) : Tail(x)[i] = x[i + 1]
    BY <1>6, <1>8, HeadTailProperties
  <2>2. Len(Tail(x)) = Len(r)
    BY <1>6, <2>1
  <2>3. \A i \in 1 .. Len(r) : Tail(x)[i] = r[i]
    BY <1>6, <2>1, <2>2
  <2> QED BY <1>3, <2>1, <2>2, <2>3, SeqEqual
<1>10. Trimmed(x)
  <2>1. x[Len(x)] = r[Len(r)]
    <3>1. Len(r) \in 1 .. Len(r) /\ Len(x) = Len(r) + 1
      BY <1>6, <1>7
    <3> QED BY <1>6, <3>1
  <2>2. x[1] # Blank
    BY <1>6 DEF Blank
  <2> QED BY <1>3, <1>8, <2>1, <2>2 DEF Trimmed
<1>11. Trim(x) = x /\ Trim(r) = r
  BY <1>3, <1>6, <1>10, TrimSame
<1>12. Values(x, type, expected) = {v}
  <2>1. Values(x, type, expected) = Raise(x, type, expected)
    BY <1>6, <1>8, <1>11, Zenon DEF Values
  <2>2. Raise(x, type, expected) = {[Zero(type) EXCEPT !.raises = r]}
    BY <1>2, <1>9, <1>11, Zenon DEF Raise
  <2> QED BY <1>2, <2>1, <2>2
<1>13. Parse(x, type, expected) = v
  BY <1>12 DEF Parse
<1> QED BY <1>4, <1>13

----------------------------------------------------------------------------
(* types.Parse of Value.String.                                            *)
(* The characters that writing a value may bring in. *)
WrittenChars == QuoteChars \cup FloatChar \cup {Blank, "!", "~", "true", "false"}

(* No character of a numeral is a space, an exclamation mark or a tilde. *)
LEMMA NumeralsApart ==
  \A c \in FloatChar : c # Blank /\ c # "!" /\ c # "~"
BY Zenon DEF FloatChar, NumeralChar, Figure, Blank

(* A numeral is trimmed, names no raise and has no tolerance. *)
LEMMA NumeralTrimmed ==
  ASSUME NEW x \in Seq(FloatChar), x # <<>>
  PROVE  Trimmed(x) /\ x[1] # "!" /\ \A i \in DOMAIN x : x[i] # "~"
<1>1. Len(x) \in Nat /\ DOMAIN x = 1 .. Len(x) /\ Len(x) > 0
  BY NotEmpty
<1>2. \A i \in 1 .. Len(x) : x[i] \in FloatChar
  OBVIOUS
<1>3. 1 \in 1 .. Len(x) /\ Len(x) \in 1 .. Len(x)
  BY <1>1
<1>4. \A i \in 1 .. Len(x) : x[i] # Blank /\ x[i] # "!" /\ x[i] # "~"
  BY <1>2, NumeralsApart
<1> QED BY <1>1, <1>3, <1>4 DEF Trimmed

(* A value of an integer type is read back from its canonical form; *)
LEMMA IntegerBack ==
  ASSUME NEW type, type.kind \in Integral, NEW s, NEW expected, NEW v, v \in Read(s, type, expected),
         NEW C, s \in Seq(C)
  PROVE  Parse(String(v), type, expected) = v
<1>1. PICK n \in AsInt(s) : v = [Zero(type) EXCEPT !.int = n] /\ Fits(n, type)
  BY DEF Read, Integral, Scaled
<1>2. n \in Int
  BY AsIntRange
<1> DEFINE x == Signed(n, Numeral(Magnitude(n)))
<1>3. x \in Seq(NumeralChar) /\ x # <<>> /\ AsInt(x) = {n}
  BY <1>2, IntBack
<1>4. String(v) = x
  <2>1. v.type = type /\ v.int = n /\ v.raises = <<>>
    BY <1>1 DEF Zero
  <2>2. String(v) = Signed(v.int, Numeral(Magnitude(v.int)))
    BY <2>1 DEF String, IsRaise, Integral, Scaled
  <2> QED BY <2>1, <2>2
<1> HIDE DEF x
<1>5. x \in Seq(FloatChar) /\ Trimmed(x) /\ x[1] # "!"
  BY <1>3, FloatChars, NumeralTrimmed
<1>6. Read(x, type, expected) = {v}
  <2>1. Read(x, type, expected) =
          {[Zero(type) EXCEPT !.int = m] : m \in {k \in AsInt(x) : Fits(k, type)}}
    BY DEF Read, Integral, Scaled
  <2>2. {k \in AsInt(x) : Fits(k, type)} = {n}
    BY <1>1, <1>3
  <2> QED BY <1>1, <2>1, <2>2
<1> QED BY <1>4, <1>5, <1>6, ReadOne

(* so is one of a scaled type, *)
LEMMA FixedBack ==
  ASSUME NEW type, type.kind \in Scaled, type.scale \in Nat, NEW s, NEW expected, NEW v,
         v \in Read(s, type, expected), NEW C, s \in Seq(C)
  PROVE  Parse(String(v), type, expected) = v
<1>1. PICK n \in AsScaled(s, type.scale) : v = [Zero(type) EXCEPT !.int = n] /\ Holds(n, type)
  BY DEF Read, Integral, Scaled
<1>2. n \in Int
  BY AsScaledRange
<1> DEFINE x == ScaledString(n, type.scale)
<1>3. x \in Seq(NumeralChar) /\ x # <<>> /\ AsScaled(x, type.scale) = {n}
  BY <1>2, ScaledBack
<1>4. String(v) = x
  <2>1. v.type = type /\ v.int = n /\ v.raises = <<>>
    BY <1>1 DEF Zero
  <2>2. String(v) = ScaledString(v.int, v.type.scale)
    BY <2>1 DEF String, IsRaise, Scaled
  <2> QED BY <2>1, <2>2
<1> HIDE DEF x
<1>5. x \in Seq(FloatChar) /\ Trimmed(x) /\ x[1] # "!"
  BY <1>3, FloatChars, NumeralTrimmed
<1>6. Read(x, type, expected) = {v}
  <2>1. Read(x, type, expected) =
          {[Zero(type) EXCEPT !.int = m] : m \in {k \in AsScaled(x, type.scale) : Holds(k, type)}}
    BY DEF Read, Integral, Scaled
  <2>2. {k \in AsScaled(x, type.scale) : Holds(k, type)} = {n}
    BY <1>1, <1>3
  <2> QED BY <1>1, <2>1, <2>2
<1> QED BY <1>4, <1>5, <1>6, ReadOne

(* a bool, *)
LEMMA BoolBack ==
  ASSUME NEW type, type.kind = "bool", NEW s, NEW expected, NEW v, v \in Read(s, type, expected)
  PROVE  Parse(String(v), type, expected) = v
<1>1. PICK b \in BOOLEAN : v = [Zero(type) EXCEPT !.bool = b]
  BY DEF Read, AsBool, Integral, Scaled
<1> DEFINE w == IF b THEN "true" ELSE "false"
           x == <<w>>
<1>2. String(v) = x
  <2>1. v.type = type /\ v.bool = b /\ v.raises = <<>>
    BY <1>1 DEF Zero
  <2> QED BY <2>1 DEF String, IsRaise, Scaled
<1>3. w # Blank /\ w # "!"
  BY Zenon DEF Blank
<1>4. AsBool(x) = {b}
  <2>1. <<"true">> # <<"false">>
    <3>1. <<"true">>[1] = "true" /\ <<"false">>[1] = "false" /\ "true" # "false"
      OBVIOUS
    <3> QED BY <3>1
  <2>2. \A c \in BOOLEAN : x = (IF c THEN <<"true">> ELSE <<"false">>) <=> c = b
    <3>1. x = IF b THEN <<"true">> ELSE <<"false">>
      OBVIOUS
    <3> HIDE DEF x
    <3> TAKE c \in BOOLEAN
    <3>2. (c = TRUE \/ c = FALSE) /\ (b = TRUE \/ b = FALSE)
      OBVIOUS
    <3>3. CASE c = TRUE
      BY <2>1, <3>1, <3>2, <3>3
    <3>4. CASE c = FALSE
      BY <2>1, <3>1, <3>2, <3>4
    <3> QED BY <3>2, <3>3, <3>4
  <2> QED BY <2>2, Zenon DEF AsBool
<1> HIDE DEF w
<1>5. x \in Seq({w}) /\ x # <<>> /\ Len(x) = 1 /\ x[1] = w
  OBVIOUS
<1>6. Trimmed(x) /\ x[1] # "!"
  BY <1>3, <1>5 DEF Trimmed
<1> HIDE DEF x
<1>7. Read(x, type, expected) = {v}
  BY <1>1, <1>4 DEF Read, Integral, Scaled
<1> QED BY <1>2, <1>5, <1>6, <1>7, ReadOne

(* a date *)
LEMMA DateBack ==
  ASSUME NEW type, type.kind = "date", NEW C, NEW s \in Seq(C), Trimmed(s), s[1] # "!",
         NEW expected, NEW v, v \in Read(s, type, expected)
  PROVE  Parse(String(v), type, expected) = v
<1>1. PICK d \in Dates : s = <<d>> /\ v = [Zero(type) EXCEPT !.date = d]
  BY DEF Read, AsDate, Integral, Scaled
<1>2. String(v) = s
  <2>1. v.type = type /\ v.date = d /\ v.raises = <<>>
    BY <1>1 DEF Zero
  <2> QED BY <1>1, <2>1 DEF String, IsRaise, Scaled
<1>3. Read(s, type, expected) = {v}
  <2>1. AsDate(s) = {d}
    BY <1>1 DEF AsDate
  <2> QED BY <1>1, <2>1 DEF Read, Integral, Scaled
<1> QED BY <1>2, <1>3, ReadOne

(* and a text. *)
LEMMA TextBack ==
  ASSUME NEW type, type.kind = "text", NEW C, QuoteChars \subseteq C, NEW s \in Seq(C),
         NEW expected, NEW v, v \in Read(s, type, expected)
  PROVE  Parse(String(v), type, expected) = v
<1>1. PICK t \in AsText(s) : v = [Zero(type) EXCEPT !.text = t]
  BY DEF Read, Integral, Scaled
<1>2. t \in Seq(C)
  <2>1. "byte" \in C
    BY DEF QuoteChars
  <2> QED BY <2>1, AsTextSeq
<1> DEFINE x == Quote(t)
<1>3. String(v) = x
  <2>1. v.type = type /\ v.text = t /\ v.raises = <<>>
    BY <1>1 DEF Zero
  <2> QED BY <2>1 DEF String, IsRaise, Scaled
<1> HIDE DEF x
<1>4. x \in Seq(C) /\ x # <<>> /\ AsText(x) = {t}
  BY <1>2, QuoteBack DEF x
<1>5. Trimmed(x) /\ x[1] # "!"
  <2>1. x[1] = "\"" /\ x[Len(x)] = "\""
    BY <1>2, QuoteBack, Zenon DEF x
  <2>2. "\"" # Blank /\ "\"" # "!"
    BY Zenon DEF Blank
  <2> QED BY <1>4, <2>1, <2>2, Zenon DEF Trimmed
<1>6. Read(x, type, expected) = {v}
  BY <1>1, <1>4 DEF Read, Integral, Scaled
<1> QED BY <1>3, <1>4, <1>5, <1>6, ReadOne

(* What a float cell holds: a float, with a tolerance or, in an input, without. *)
BareFloat(type, f) == [Zero(type) EXCEPT !.float = f]
TolerantFloat(type, f, t) == [Zero(type) EXCEPT !.float = f, !.tol = t]
Held(f) == IsFloat(f) /\ f.class # "inf"
Tolerated(t) == IsFloat(t) /\ (t.class # "nan" => t.n > 0)
FloatHeld(type, expected, v) ==
  \E f : /\ Held(f)
         /\ \/ ~expected /\ v = BareFloat(type, f)
            \/ \E t : Tolerated(t) /\ v = TolerantFloat(type, f, t)

(* A float that a cell may hold; with a tolerance it stands before it. *)
LEMMA FloatCell ==
  ASSUME FloatPlaces \in Nat, NEW type, type.kind = "float", NEW C, NEW s \in Seq(C),
         NEW expected, NEW v, v \in Read(s, type, expected)
  PROVE  FloatHeld(type, expected, v)
<1> DEFINE cut == Cut(s, "~")
<1>1. PICK f \in AsFloat(Trim(cut.before)) : v \in FloatValue(s, type, f, expected)
  BY DEF Read, Integral, Scaled
<1>2. cut.before \in Seq(C) /\ cut.after \in Seq(C)
  BY CutSeqs
<1>3. Trim(cut.before) \in Seq(C) /\ Trim(cut.after) \in Seq(C)
  <2> HIDE DEF cut
  <2> QED BY <1>2, TrimSeq
<1>4. IsFloat(f)
  BY <1>1, <1>3, AsFloatRange
<1>5. FloatValue(s, type, f, expected) =
        IF f.class = "inf" THEN {}
        ELSE IF cut.found THEN {[Zero(type) EXCEPT !.float = f, !.tol = t] : t \in AsTolerance(Trim(cut.after))}
        ELSE IF expected THEN {} ELSE {[Zero(type) EXCEPT !.float = f]}
  BY DEF FloatValue
<1>6. \A t \in AsTolerance(Trim(cut.after)) : IsFloat(t) /\ (t.class # "nan" => t.n > 0)
  <2> HIDE DEF cut
  <2> QED BY <1>3, AsFloatRange DEF AsTolerance
<1> HIDE DEF cut
<1>7. f.class # "inf"
  BY <1>1, <1>5
<1>8. \/ ~expected /\ v = [Zero(type) EXCEPT !.float = f]
      \/ \E t \in AsTolerance(Trim(cut.after)) : v = [Zero(type) EXCEPT !.float = f, !.tol = t]
  <2>1. CASE cut.found
    <3>1. v \in {[Zero(type) EXCEPT !.float = f, !.tol = t] : t \in AsTolerance(Trim(cut.after))}
      BY <1>1, <1>5, <1>7, <2>1, Zenon
    <3> QED BY <3>1, Zenon
  <2>2. CASE ~cut.found
    <3>1. v \in IF expected THEN {} ELSE {[Zero(type) EXCEPT !.float = f]}
      BY <1>1, <1>5, <1>7, <2>2, Zenon
    <3> QED BY <3>1, Zenon
  <2> QED BY <2>1, <2>2, Zenon
<1> QED BY <1>4, <1>6, <1>7, <1>8, Zenon DEF FloatHeld, BareFloat, TolerantFloat, Held, Tolerated

(* How a float is written, with its tolerance. *)
LEMMA FloatString1 ==
  ASSUME NEW v, v.type.kind = "float", v.raises = <<>>
  PROVE  String(v) = FloatString(v.float) \o
           (IF v.tol = NoFloat THEN <<>> ELSE <<Blank, "~">> \o FloatString(v.tol))
BY DEF String, IsRaise, Scaled, Blank

(* A float without a tolerance, in an input, is read back; *)
LEMMA BareFloatBack ==
  ASSUME FloatPlaces \in Nat, NEW type, type.kind = "float", NEW f, Held(f),
         NEW expected, ~expected
  PROVE  Parse(String(BareFloat(type, f)), type, expected) = BareFloat(type, f)
<1> DEFINE x == FloatString(f)
           v == BareFloat(type, f)
<1> USE DEF BareFloat, Held
<1>1. x \in Seq(FloatChar) /\ x # <<>> /\ AsFloat(x) = {f}
  BY FloatBack
<1>2. String(v) = x
  <2>1. v.type = type /\ v.float = f /\ v.raises = <<>> /\ v.tol = NoFloat
    BY DEF Zero
  <2>2. String(v) = x \o <<>>
    BY <2>1, FloatString1
  <2> QED BY <1>1, <2>2, ConcatEmptySeq
<1> HIDE DEF x
<1>3. Trimmed(x) /\ x[1] # "!" /\ \A i \in DOMAIN x : x[i] # "~"
  BY <1>1, NumeralTrimmed
<1>4. Cut(x, "~").before = x /\ ~Cut(x, "~").found /\ Trim(x) = x
  BY <1>1, <1>3, CutNone, TrimSame
<1>5. FloatValue(x, type, f, expected) = {v}
  BY <1>4 DEF FloatValue
<1>6. Read(x, type, expected) = UNION {FloatValue(x, type, g, expected) : g \in {f}}
  BY <1>1, <1>4 DEF Read, Integral, Scaled
<1>7. Read(x, type, expected) = {v}
  BY <1>5, <1>6
<1>8. Parse(x, type, expected) = v
  BY <1>1, <1>3, <1>7, ReadOne
<1> QED BY <1>2, <1>8

(* Two texts with a character between them. *)
LEMMA Around ==
  ASSUME NEW C, NEW u \in Seq(C), NEW c \in C, NEW b \in Seq(C)
  PROVE  /\ (u \o <<c>>) \o b \in Seq(C)
         /\ Len((u \o <<c>>) \o b) = Len(u) + 1 + Len(b) /\ Len(u) \in Nat
         /\ \A i \in 1 .. Len(u) : ((u \o <<c>>) \o b)[i] = u[i]
         /\ \A i \in 1 .. Len(b) : ((u \o <<c>>) \o b)[Len(u) + 1 + i] = b[i]
<1> DEFINE y == u \o <<c>>
<1>1. /\ y \in Seq(C) /\ Len(y) = Len(u) + 1 /\ Len(u) \in Nat /\ Len(b) \in Nat
      /\ \A i \in 1 .. Len(u) : y[i] = u[i]
  OBVIOUS
<1> HIDE DEF y
<1>2. /\ y \o b \in Seq(C) /\ Len(y \o b) = Len(y) + Len(b)
      /\ \A i \in 1 .. Len(y) : (y \o b)[i] = y[i]
      /\ \A i \in 1 .. Len(b) : (y \o b)[Len(y) + i] = b[i]
  BY <1>1
<1>3. \A i \in 1 .. Len(u) : i \in 1 .. Len(y)
  BY <1>1
<1>4. /\ y \o b \in Seq(C) /\ Len(y \o b) = Len(u) + 1 + Len(b) /\ Len(u) \in Nat
      /\ \A i \in 1 .. Len(u) : (y \o b)[i] = u[i]
      /\ \A i \in 1 .. Len(b) : (y \o b)[Len(u) + 1 + i] = b[i]
  BY <1>1, <1>2, <1>3
<1> QED BY <1>4, Zenon DEF y

(* The float and its tolerance, as they stand in the text. *)
LEMMA ToleranceText ==
  ASSUME NEW C, WrittenChars \subseteq C, NEW a \in Seq(FloatChar), NEW b \in Seq(FloatChar),
         a # <<>>, b # <<>>
  PROVE  LET x == a \o (<<Blank, "~">> \o b) IN
         /\ x \in Seq(C) /\ Trimmed(x) /\ x[1] = a[1]
         /\ Cut(x, "~").before = a \o <<Blank>> /\ Cut(x, "~").after = b /\ Cut(x, "~").found
<1> DEFINE c == "~"
           d == Blank
           u == a \o <<d>>
           x == a \o (<<d, c>> \o b)
<1>1. /\ c \in C /\ d \in C /\ c # d /\ FloatChar \subseteq C
      /\ \A e \in FloatChar : e # c
  BY NumeralsApart, Zenon DEF WrittenChars, Blank
<1> HIDE DEF c, d
<1>2. a \in Seq(C) /\ b \in Seq(C)
  BY <1>1, SeqMonotonic
<1>3. Trimmed(a) /\ Trimmed(b)
  BY NumeralTrimmed
<1>4. x = u \o <<c>> \o b
  <2>1. <<d, c>> = <<d>> \o <<c>>
    BY <1>1
  <2>2. <<d>> \in Seq(C) /\ <<c>> \in Seq(C)
    BY <1>1
  <2>3. (<<d>> \o <<c>>) \o b = <<d>> \o (<<c>> \o b)
    BY <1>2, <2>2, ConcatAssociative
  <2>4. <<c>> \o b \in Seq(C)
    BY <1>2, <2>2, ConcatProperties
  <2>5. a \o (<<d>> \o (<<c>> \o b)) = (a \o <<d>>) \o (<<c>> \o b)
    BY <1>2, <2>2, <2>4, ConcatAssociative
  <2>6. a \o <<d>> \in Seq(C)
    BY <1>2, <2>2, ConcatProperties
  <2>7. (a \o <<d>>) \o (<<c>> \o b) = ((a \o <<d>>) \o <<c>>) \o b
    BY <1>2, <2>2, <2>6, ConcatAssociative
  <2> QED BY <2>1, <2>3, <2>5, <2>7, Zenon
<1>5. /\ u \in Seq(C) /\ Len(u) = Len(a) + 1 /\ Len(a) \in Nat /\ u[Len(a) + 1] = d
      /\ \A i \in 1 .. Len(a) : u[i] = a[i] /\ a[i] \in FloatChar
  BY <1>1, <1>2
<1>6. \A i \in 1 .. Len(u) : u[i] # c
  <2> TAKE i \in 1 .. Len(u)
  <2>1. i \in 1 .. Len(a) \/ i = Len(a) + 1
    BY <1>5
  <2> HIDE DEF u
  <2> QED BY <1>1, <1>5, <2>1
<1> HIDE DEF u
<1>7. Cut(u \o <<c>> \o b, c).before = u /\ Cut(u \o <<c>> \o b, c).after = b /\ Cut(u \o <<c>> \o b, c).found
  BY <1>1, <1>2, <1>5, <1>6, CutFound
<1>8. x \in Seq(C) /\ Trimmed(x) /\ x[1] = a[1]
  <2> DEFINE w == u \o <<c>> \o b
  <2>1. Len(a) > 0 /\ Len(b) > 0 /\ Len(b) \in Nat /\ Len(a) \in Nat
    BY <1>2, NotEmpty
  <2>2. /\ w \in Seq(C) /\ Len(w) = Len(u) + 1 + Len(b) /\ Len(u) \in Nat
        /\ \A i \in 1 .. Len(u) : w[i] = u[i]
        /\ \A i \in 1 .. Len(b) : w[Len(u) + 1 + i] = b[i]
    <3>1. u \in Seq(C) /\ c \in C /\ b \in Seq(C)
      BY <1>1, <1>2, <1>5
    <3> QED BY <3>1, Around
  <2> HIDE DEF w
  <2>3. 1 \in 1 .. Len(u) /\ 1 \in 1 .. Len(a) /\ Len(b) \in 1 .. Len(b) /\ Len(w) # 0
    BY <1>5, <2>1, <2>2
  <2>4. w[1] = a[1] /\ w[Len(w)] = b[Len(b)] /\ w # <<>>
    BY <1>5, <2>2, <2>3
  <2>5. Trimmed(w)
    BY <1>3, <2>4 DEF Trimmed
  <2> QED BY <1>4, <2>2, <2>4, <2>5 DEF w
<1> HIDE DEF x
<1> QED BY <1>4, <1>7, <1>8, Zenon DEF x, u, c, d

(* so is one with a tolerance. *)
LEMMA TolerantFloatBack ==
  ASSUME FloatPlaces \in Nat, NEW type, type.kind = "float", NEW f, Held(f), NEW t, Tolerated(t),
         NEW expected
  PROVE  Parse(String(TolerantFloat(type, f, t)), type, expected) = TolerantFloat(type, f, t)
<1> USE DEF TolerantFloat, Held, Tolerated
<1> DEFINE v == TolerantFloat(type, f, t)
           a == FloatString(f)
           b == FloatString(t)
           x == a \o (<<Blank, "~">> \o b)
<1>1. /\ a \in Seq(FloatChar) /\ a # <<>> /\ AsFloat(a) = {f}
      /\ b \in Seq(FloatChar) /\ b # <<>> /\ AsFloat(b) = {t}
  BY FloatBack
<1>2. String(v) = x
  <2>1. v.type = type /\ v.float = f /\ v.raises = <<>> /\ v.tol = t
    BY DEF Zero
  <2>2. t # NoFloat
    BY DEF IsFloat, NoFloat, NaN, Inf, Finite
  <2> QED BY <2>1, <2>2, FloatString1, Zenon
<1> HIDE DEF a, b
<1> DEFINE C == WrittenChars
<1>3. /\ x \in Seq(C) /\ Trimmed(x) /\ x[1] = a[1]
      /\ Cut(x, "~").before = a \o <<Blank>> /\ Cut(x, "~").after = b /\ Cut(x, "~").found
  <2> HIDE DEF C
  <2> QED BY <1>1, ToleranceText DEF C
<1> HIDE DEF C, x
<1>4. /\ Trimmed(a) /\ Trimmed(b) /\ x[1] # "!"
      /\ Trim(b) = b
  BY <1>1, <1>3, NumeralTrimmed, TrimSame
<1>5. Trim(a \o <<Blank>>) = a
  <2> DEFINE D == FloatChar \cup {Blank}
  <2>1. FloatChar \subseteq D /\ Blank \in D
    OBVIOUS
  <2> HIDE DEF D
  <2>2. a \in Seq(D)
    BY <1>1, <2>1, SeqMonotonic
  <2> QED BY <1>4, <2>1, <2>2, TrimBehind
<1>6. AsTolerance(b) = {t}
  BY <1>1 DEF AsTolerance
<1>7. FloatValue(x, type, f, expected) = {v}
  <2>1. FloatValue(x, type, f, expected) =
          {[Zero(type) EXCEPT !.float = f, !.tol = u] : u \in AsTolerance(b)}
    BY <1>3, <1>4, Zenon DEF FloatValue
  <2> QED BY <1>6, <2>1
<1>8. Read(x, type, expected) = UNION {FloatValue(x, type, g, expected) : g \in {f}}
  <2>1. Read(x, type, expected) =
          UNION {FloatValue(x, type, g, expected) : g \in AsFloat(Trim(Cut(x, "~").before))}
    BY DEF Read, Integral, Scaled
  <2> QED BY <1>1, <1>3, <1>5, <2>1, Zenon
<1>9. Read(x, type, expected) = {v}
  BY <1>7, <1>8
<1>10. Parse(x, type, expected) = v
  <2>1. x \in Seq(C) /\ Trimmed(x)
    BY <1>3
  <2>2. x[1] # "!"
    BY <1>4
  <2> QED BY <1>9, <2>1, <2>2, ReadOne, Zenon
<1> QED BY <1>2, <1>10

(* Whatever text types.Parse accepts, for whatever type, Value.String      *)
(* writes as a literal that Parse accepts again, for the same value.       *)
THEOREM WrittenBack ==
  ASSUME FloatPlaces \in Nat, NEW C, WrittenChars \subseteq C, NEW text \in Seq(C),
         NEW type \in Type, NEW expected, NEW v,
         Parse(text, type, expected) = v, v # NoValue
  PROVE  Parse(String(v), type, expected) = v
<1> DEFINE s == Trim(text)
<1>1. /\ s \in Seq(C) /\ Trimmed(s)
      /\ \/ s[1] = "!" /\ v \in Raise(s, type, expected)
         \/ s[1] # "!" /\ v \in Read(s, type, expected)
  BY ReadFrom
<1>2. CASE s[1] = "!" /\ v \in Raise(s, type, expected)
  <2>1. "!" \in C
    BY Zenon DEF WrittenChars
  <2> QED BY <1>1, <1>2, <2>1, RaiseBack
<1> HIDE DEF s
<1>3. type.kind \in Kind /\ type.scale \in Nat
  BY DEF Type
<1>4. QuoteChars \subseteq C
  BY Zenon DEF WrittenChars
<1>5. CASE s[1] # "!" /\ v \in Read(s, type, expected)
  <2>1. CASE type.kind \in Integral
    BY <1>1, <1>5, <2>1, IntegerBack
  <2>2. CASE type.kind \in Scaled
    BY <1>1, <1>3, <1>5, <2>2, FixedBack
  <2>3. CASE type.kind = "bool"
    BY <1>5, <2>3, BoolBack
  <2>4. CASE type.kind = "text"
    BY <1>1, <1>4, <1>5, <2>4, TextBack
  <2>5. CASE type.kind = "date"
    BY <1>1, <1>5, <2>5, DateBack
  <2>6. CASE type.kind = "float"
    <3>1. FloatHeld(type, expected, v)
      BY <1>1, <1>5, <2>6, FloatCell, Zenon
    <3>2. PICK f : /\ Held(f)
                   /\ \/ ~expected /\ v = BareFloat(type, f)
                      \/ \E t : Tolerated(t) /\ v = TolerantFloat(type, f, t)
      BY <3>1 DEF FloatHeld
    <3>3. CASE ~expected /\ v = BareFloat(type, f)
      BY <2>6, <3>2, <3>3, BareFloatBack
    <3>4. CASE \E t : Tolerated(t) /\ v = TolerantFloat(type, f, t)
      BY <2>6, <3>2, <3>4, TolerantFloatBack
    <3> QED BY <3>2, <3>3, <3>4
  <2>7. CASE type.kind = "invalid"
    <3>1. Read(s, type, expected) = {}
      BY <2>7 DEF Read, Integral, Scaled
    <3> QED BY <1>5, <3>1
  <2> QED BY <1>3, <2>1, <2>2, <2>3, <2>4, <2>5, <2>6, <2>7, Zenon DEF Kind, Integral, Scaled
<1> QED BY <1>1, <1>2, <1>5

----------------------------------------------------------------------------
(* Powers of ten: what digits and zeros behind a numeral do to it.         *)
(* PowerOfTen, as the function that multiplies by ten at each step. *)
Multiplies(f) == f = [m \in Nat |-> IF m = 0 THEN 1 ELSE 10 * f[m - 1]]
Multiplied == LET of[m \in Nat] == IF m = 0 THEN 1 ELSE 10 * of[m - 1] IN of

(* Each power is ten times the last. *)
LEMMA Tens ==
  /\ PowerOfTen(0) = 1
  /\ \A k \in Nat : PowerOfTen(k) \in Nat \ {0} /\ PowerOfTen(k + 1) = 10 * PowerOfTen(k)
<1> DEFINE T == Nat \ {0}
           Leaf == {0}
           rank == [i \in Nat |-> i]
           prev == [i \in Nat |-> IF i = 0 THEN 0 ELSE i - 1]
           base == [i \in Nat |-> 1]
           step == [x \in Nat \X T |-> 10 * x[2]]
<1>1. base \in [Nat -> T] /\ Leaf \in SUBSET Nat /\ rank \in [Nat -> Nat] /\ prev \in [Nat -> Nat]
  OBVIOUS
<1>2. step \in [Nat \X T -> T]
  <2> SUFFICES ASSUME NEW x \in Nat \X T PROVE 10 * x[2] \in T
    OBVIOUS
  <2>1. x[2] \in T
    OBVIOUS
  <2> QED BY <2>1
<1>3. \A i \in Nat \ Leaf : rank[prev[i]] < rank[i]
  OBVIOUS
<1>4. PICK f \in [Nat -> T] : \A i \in Nat : Follows(f, i, Leaf, prev, base, step)
  <2> HIDE DEF T, Leaf, rank, prev, base, step
  <2> QED BY <1>1, <1>2, <1>3, Recursion
<1>5. ASSUME NEW m \in Nat
      PROVE  f[m] = IF m = 0 THEN 1 ELSE 10 * f[m - 1]
  <2>1. CASE m = 0
    BY <1>4, <2>1 DEF Follows
  <2>2. CASE m # 0
    <3>1. m \notin Leaf /\ prev[m] = m - 1 /\ m - 1 \in Nat
      BY <2>2
    <3>2. <<m, f[m - 1]>> \in Nat \X T
      BY <3>1
    <3>3. f[m] = step[<<m, f[m - 1]>>]
      BY <1>4, <3>1 DEF Follows
    <3>4. step[<<m, f[m - 1]>>] = 10 * f[m - 1]
      BY <3>2
    <3> QED BY <2>2, <3>3, <3>4
  <2> QED BY <2>1, <2>2
<1>6. Multiplies(f)
  BY <1>5 DEF Multiplies
<1>7. Multiplies(Multiplied)
  BY <1>6, Zenon DEF Multiplies, Multiplied
<1>8. \A m \in Nat : Multiplied[m] = IF m = 0 THEN 1 ELSE 10 * Multiplied[m - 1]
  BY <1>7 DEF Multiplies
<1>9. \A k : PowerOfTen(k) = Multiplied[k]
  BY DEF PowerOfTen, Multiplied
<1> DEFINE S == {m \in Nat : Multiplied[m] = f[m]}
<1> HIDE DEF T
<1>10. 0 \in S
  BY <1>5, <1>8
<1>11. ASSUME NEW m \in Nat, m \in S PROVE m + 1 \in S
  <2>1. m + 1 # 0 /\ (m + 1) - 1 = m /\ m + 1 \in Nat
    OBVIOUS
  <2> QED BY <1>5, <1>8, <1>11, <2>1
<1> HIDE DEF S
<1>12. Nat \subseteq S
  BY <1>10, <1>11, NatSetInduction
<1>13. \A k \in Nat : PowerOfTen(k) = f[k]
  BY <1>9, <1>12 DEF S
<1>14. ASSUME NEW k \in Nat PROVE PowerOfTen(k) \in Nat \ {0} /\ PowerOfTen(k + 1) = 10 * PowerOfTen(k)
  <2>1. k + 1 # 0 /\ (k + 1) - 1 = k /\ k + 1 \in Nat
    OBVIOUS
  <2> QED BY <1>4, <1>5, <1>13, <2>1 DEF T
<1> QED BY <1>5, <1>13, <1>14

(* The zeros of two powers add up. *)
LEMMA TensAdd ==
  ASSUME NEW a \in Nat, NEW b \in Nat
  PROVE  PowerOfTen(a + b) = PowerOfTen(a) * PowerOfTen(b)
<1> DEFINE S == {k \in Nat : PowerOfTen(a + k) = PowerOfTen(a) * PowerOfTen(k)}
<1>1. 0 \in S
  <2>1. PowerOfTen(a) \in Nat /\ a + 0 = a /\ PowerOfTen(0) = 1
    BY Tens
  <2> QED BY <2>1
<1>2. ASSUME NEW k \in Nat, k \in S PROVE k + 1 \in S
  <2> DEFINE p == PowerOfTen(a)
             q == PowerOfTen(k)
  <2>1. /\ p \in Nat /\ q \in Nat /\ PowerOfTen(k + 1) = 10 * q
        /\ a + k \in Nat /\ a + (k + 1) = (a + k) + 1
        /\ PowerOfTen((a + k) + 1) = 10 * PowerOfTen(a + k)
    BY Tens
  <2>2. PowerOfTen(a + k) = p * q
    BY <1>2
  <2> HIDE DEF p, q
  <2>3. 10 * (p * q) = p * (10 * q)
    BY <2>1
  <2>4. PowerOfTen(a + (k + 1)) = p * PowerOfTen(k + 1)
    BY <2>1, <2>2, <2>3
  <2> QED BY <2>4 DEF p
<1> HIDE DEF S
<1>3. Nat \subseteq S
  BY <1>1, <1>2, NatSetInduction
<1> QED BY <1>3 DEF S

(* What digits behind add: they count, and what is before them is shifted. *)
LEMMA NumberConcat ==
  ASSUME NEW s \in Seq(Figure), NEW t \in Seq(Figure)
  PROVE  /\ Number(s \o t) = Number(s) * PowerOfTen(Len(t)) + Number(t)
         /\ Number(t) < PowerOfTen(Len(t))
<1> DEFINE S == {k \in Nat : \A u \in Seq(Figure) : Len(u) = k =>
                   /\ Number(s \o u) = Number(s) * PowerOfTen(Len(u)) + Number(u)
                   /\ Number(u) < PowerOfTen(Len(u))}
<1>1. 0 \in S
  <2> SUFFICES ASSUME NEW u \in Seq(Figure), Len(u) = 0
               PROVE  /\ Number(s \o u) = Number(s) * PowerOfTen(Len(u)) + Number(u)
                      /\ Number(u) < PowerOfTen(Len(u))
    OBVIOUS
  <2>1. u = <<>> /\ s \o u = s
    OBVIOUS
  <2>2. Number(s) \in Nat /\ Number(u) = 0 /\ PowerOfTen(Len(u)) = 1
    BY <2>1, NumberNat, NumberEmpty, Tens
  <2> QED BY <2>1, <2>2
<1>2. ASSUME NEW k \in Nat, k \in S PROVE k + 1 \in S
  <2> SUFFICES ASSUME NEW u \in Seq(Figure), Len(u) = k + 1
               PROVE  /\ Number(s \o u) = Number(s) * PowerOfTen(Len(u)) + Number(u)
                      /\ Number(u) < PowerOfTen(Len(u))
    OBVIOUS
  <2> DEFINE w == SubSeq(u, 1, k)
             c == u[k + 1]
  <2>1. w \in Seq(Figure) /\ Len(w) = k /\ c \in Figure /\ u = Append(w, c)
    OBVIOUS
  <2> HIDE DEF w, c
  <2>2. s \o u = Append(s \o w, c) /\ s \o w \in Seq(Figure)
    BY <2>1
  <2>3. /\ Number(s \o u) = 10 * Number(s \o w) + DigitValue(c)
        /\ Number(u) = 10 * Number(w) + DigitValue(c)
    BY <2>1, <2>2, NumberAppend
  <2>4. /\ Number(s \o w) = Number(s) * PowerOfTen(k) + Number(w)
        /\ Number(w) < PowerOfTen(k)
    BY <1>2, <2>1
  <2>5. /\ Number(s) \in Nat /\ Number(w) \in Nat /\ DigitValue(c) \in 0 .. 9
        /\ PowerOfTen(k) \in Nat /\ PowerOfTen(Len(u)) = 10 * PowerOfTen(k)
    BY <2>1, NumberNat, FigureValue, Tens
  <2> DEFINE n == Number(s)
             m == Number(w)
             p == PowerOfTen(k)
             d == DigitValue(c)
  <2>6. \A i, j, l \in Nat : 10 * (i * j + l) = i * (10 * j) + 10 * l
    OBVIOUS
  <2>7. 10 * (n * p + m) = n * (10 * p) + 10 * m
    BY <2>5, <2>6
  <2>8. n * p \in Nat /\ n * (10 * p) \in Nat
    <3>1. \A i, j \in Nat : i * j \in Nat /\ 10 * j \in Nat
      OBVIOUS
    <3>2. n \in Nat /\ p \in Nat
      BY <2>5
    <3> HIDE DEF n, p
    <3> QED BY <3>1, <3>2
  <2> HIDE DEF n, m, p, d
  <2>9. /\ Number(s \o u) = 10 * (n * p + m) + d /\ Number(u) = 10 * m + d /\ m < p
        /\ PowerOfTen(Len(u)) = 10 * p /\ n \in Nat /\ m \in Nat /\ p \in Nat /\ d \in 0 .. 9
    BY <2>3, <2>4, <2>5 DEF n, m, p, d
  <2>10. Number(s \o u) = n * PowerOfTen(Len(u)) + Number(u) /\ Number(u) < PowerOfTen(Len(u))
    BY <2>7, <2>8, <2>9
  <2> QED BY <2>10 DEF n
<1> HIDE DEF S
<1>3. Nat \subseteq S /\ Len(t) \in Nat
  BY <1>1, <1>2, NatSetInduction
<1>4. Len(t) \in S
  BY <1>3
<1>5. \A u \in Seq(Figure) : Len(u) = Len(t) =>
        /\ Number(s \o u) = Number(s) * PowerOfTen(Len(u)) + Number(u)
        /\ Number(u) < PowerOfTen(Len(u))
  BY <1>4 DEF S
<1> QED BY <1>5

(* Zeros behind multiply. *)
LEMMA NumberZeros ==
  ASSUME NEW s \in Seq(Figure), NEW k \in Nat
  PROVE  Number(s \o Zeros(k)) = Number(s) * PowerOfTen(k)
<1>1. Zeros(k) \in Seq(Figure) /\ Len(Zeros(k)) = k
  BY ZerosOf
<1>2. Number(Zeros(k)) = 0
  <2>1. <<>> \in Seq(Figure) /\ Zeros(k) \o <<>> = Zeros(k) /\ k \in Int
    BY <1>1
  <2> QED BY <2>1, LeadingZeros, NumberEmpty
<1>3. Number(s \o Zeros(k)) = Number(s) * PowerOfTen(k) + 0
  BY <1>1, <1>2, NumberConcat
<1>4. Number(s) * PowerOfTen(k) \in Int
  BY NumberNat, Tens
<1> QED BY <1>3, <1>4

(* A quotient, and the remainder. *)
LEMMA Quotient ==
  ASSUME NEW n \in Nat, NEW p \in Nat \ {0}, NEW m \in Nat, m < p
  PROVE  (n * p + m) \div p = n
<1> DEFINE q == (n * p + m) \div p
<1>1. n * p \in Nat
  OBVIOUS
<1>2. q \in Int /\ p * q <= n * p + m /\ n * p + m < p * q + p
  BY <1>1
<1> HIDE DEF q
<1>3. q <= n
  <2> SUFFICES ASSUME q >= n + 1 PROVE FALSE
    BY <1>2
  <2>1. p * q >= p * (n + 1)
    BY <1>2
  <2>2. p * (n + 1) = n * p + p
    OBVIOUS
  <2> QED BY <1>1, <1>2, <2>1, <2>2
<1>4. q >= n
  <2> SUFFICES ASSUME q <= n - 1 PROVE FALSE
    BY <1>2
  <2>1. p * q <= p * (n - 1)
    BY <1>2
  <2>2. p * (n - 1) = n * p - p
    OBVIOUS
  <2> QED BY <1>1, <1>2, <2>1, <2>2
<1> QED BY <1>2, <1>3, <1>4 DEF q

(* Digits that are cut off are divided away. *)
LEMMA NumberCut ==
  ASSUME NEW s \in Seq(Figure), NEW t \in Seq(Figure)
  PROVE  Number(s \o t) \div PowerOfTen(Len(t)) = Number(s)
<1>1. /\ Number(s \o t) = Number(s) * PowerOfTen(Len(t)) + Number(t)
      /\ Number(t) < PowerOfTen(Len(t)) /\ Number(s) \in Nat /\ Number(t) \in Nat
      /\ PowerOfTen(Len(t)) \in Nat \ {0}
  BY NumberConcat, NumberNat, Tens, FigureSeq
<1> QED BY <1>1, Quotient

----------------------------------------------------------------------------
(* What each reader makes of a numeral with a point, and of what is none.  *)
(* A numeral with a point, if there are digits behind it, and a sign. *)
WithPoint(a, b) == IF Len(b) = 0 THEN a ELSE a \o <<".">> \o b
WithSign(g, n) == IF g < 0 THEN -n ELSE n

(* Where its sign, its point and its digits are. *)
LEMMA SpelledBack ==
  ASSUME NEW a \in Seq(Figure), NEW b \in Seq(Figure), Len(a) > 0, NEW g \in Int
  PROVE  LET x == Signed(g, WithPoint(a, b)) IN
         /\ x \in Seq(NumeralChar) /\ x # <<>>
         /\ HasPrefix(x, "-") <=> g < 0
         /\ TrimPrefix(TrimPrefix(x, "-"), "+") = WithPoint(a, b) /\ Unsigned(x) = WithPoint(a, b)
         /\ Cut(WithPoint(a, b), ".").before = a /\ Cut(WithPoint(a, b), ".").after = b
         /\ x # <<"nan">> /\ WithPoint(a, b) # <<"inf">>
<1> DEFINE body == WithPoint(a, b)
           x == Signed(g, body)
<1>1. /\ body \in Seq(NumeralChar) /\ Len(body) > 0 /\ body[1] \in Figure
      /\ Cut(body, ".").before = a /\ Cut(body, ".").after = b
  BY CutFloat DEF WithPoint
<1> HIDE DEF body
<1>2. /\ x \in Seq(NumeralChar) /\ x # <<>>
      /\ HasPrefix(x, "-") <=> g < 0
      /\ TrimPrefix(TrimPrefix(x, "-"), "+") = body /\ Unsigned(x) = body
  BY <1>1, SignRead
<1>3. x[1] = IF g < 0 THEN "-" ELSE body[1]
  BY <1>1, SignedText, FigureChars
<1> HIDE DEF x
<1>4. x # <<"nan">> /\ body # <<"inf">>
  <2>1. body[1] # "inf" /\ body[1] # "nan"
    BY <1>1, FloatChars
  <2>2. x[1] # "nan"
    BY <1>3, <2>1
  <2> QED BY <2>1, <2>2
<1> QED BY <1>1, <1>2, <1>4 DEF x, body

(* Two numerals, one behind the other. *)
LEMMA TwoNumerals ==
  ASSUME NEW a \in Seq(Figure), NEW b \in Seq(Figure), Len(a) > 0
  PROVE  /\ a \o b \in Seq(Figure) /\ a \o b # <<>> /\ a # <<>> /\ Len(a) \in Nat /\ Len(b) \in Nat
         /\ AllDigits(a \o b) /\ AllDigits(a) /\ AllDigits(b)
<1>1. a \o b \in Seq(Figure) /\ Len(a \o b) = Len(a) + Len(b) /\ Len(a) \in Nat /\ Len(b) \in Nat
  BY ConcatProperties, LenProperties
<1>2. AllDigits(a \o b) /\ AllDigits(a) /\ AllDigits(b)
  BY <1>1, FiguresAreDigits
<1>3. Len(a \o b) # 0 /\ Len(<<>>) = 0
  BY <1>1
<1> QED BY <1>1, <1>2, <1>3

(* big.Int reads a numeral without a point. *)
LEMMA SpelledInt ==
  ASSUME NEW a \in Seq(Figure), NEW b \in Seq(Figure), Len(a) > 0, NEW g \in Int
  PROVE  AsInt(Signed(g, WithPoint(a, b))) = IF Len(b) = 0 THEN {WithSign(g, Number(a))} ELSE {}
<1> DEFINE x == Signed(g, WithPoint(a, b))
<1>1. (HasPrefix(x, "-") <=> g < 0) /\ Unsigned(x) = WithPoint(a, b)
  BY SpelledBack
<1>2. AsInt(x) = IF Unsigned(x) = <<>> \/ ~AllDigits(Unsigned(x)) THEN {}
                 ELSE {IF HasPrefix(x, "-") THEN -Number(Unsigned(x)) ELSE Number(Unsigned(x))}
  BY DEF AsInt, Unsigned
<1> HIDE DEF x
<1>3. CASE Len(b) = 0
  <2>1. WithPoint(a, b) = a /\ a # <<>> /\ AllDigits(a)
    BY <1>3, TwoNumerals DEF WithPoint
  <2> QED BY <1>1, <1>2, <1>3, <2>1 DEF WithSign, x
<1>4. CASE Len(b) # 0
  <2>1. WithPoint(a, b) = a \o <<".">> \o b
    BY <1>4 DEF WithPoint
  <2>2. /\ Len(a) \in Nat /\ Len(b) \in Nat /\ Len(a \o <<".">> \o b) = Len(a) + 1 + Len(b)
        /\ (a \o <<".">> \o b)[Len(a) + 1] = "."
    OBVIOUS
  <2>3. Len(a) + 1 \in DOMAIN (a \o <<".">> \o b)
    <3>1. a \o <<".">> \o b \in Seq(NumeralChar)
      BY <2>1, CutFloat DEF WithPoint
    <3> QED BY <2>2, <3>1
  <2>4. ~IsDigit(".")
    BY FigureValue, FigureChars
  <2>5. ~AllDigits(WithPoint(a, b))
    BY <2>1, <2>2, <2>3, <2>4 DEF AllDigits
  <2> QED BY <1>1, <1>2, <1>4, <2>5 DEF x
<1> QED BY <1>3, <1>4

(* parseScaled reads a numeral with no more places than the scale. *)
LEMMA SpelledScaled ==
  ASSUME NEW a \in Seq(Figure), NEW b \in Seq(Figure), Len(a) > 0, NEW g \in Int, NEW scale \in Nat
  PROVE  AsScaled(Signed(g, WithPoint(a, b)), scale) =
           IF Len(b) > scale THEN {}
           ELSE {WithSign(g, Number(a \o b) * PowerOfTen(scale - Len(b)))}
<1> DEFINE x == Signed(g, WithPoint(a, b))
           cut == Cut(WithPoint(a, b), ".")
           digits == cut.before \o cut.after \o Zeros(scale - Len(cut.after))
<1>1. /\ HasPrefix(x, "-") <=> g < 0
      /\ TrimPrefix(TrimPrefix(x, "-"), "+") = WithPoint(a, b)
      /\ cut.before = a /\ cut.after = b
  BY SpelledBack
<1>2. AsScaled(x, scale) =
        IF \/ cut.before = <<>> /\ ~cut.found
           \/ ~AllDigits(cut.before) \/ ~AllDigits(cut.after)
           \/ Len(cut.after) > scale \/ digits = <<>>
        THEN {} ELSE {IF HasPrefix(x, "-") THEN -Number(digits) ELSE Number(digits)}
  BY <1>1 DEF AsScaled
<1>3. digits = a \o b \o Zeros(scale - Len(b))
  BY <1>1
<1> HIDE DEF x, cut, digits
<1>4. /\ a \o b \in Seq(Figure) /\ a \o b # <<>> /\ a # <<>> /\ AllDigits(a) /\ AllDigits(b)
      /\ Len(b) \in Nat
  BY TwoNumerals
<1>5. CASE Len(b) > scale
  BY <1>1, <1>2, <1>5 DEF x
<1>6. CASE ~ (Len(b) > scale)
  <2>1. scale - Len(b) \in Nat
    BY <1>4, <1>6
  <2>2. Number(digits) = Number(a \o b) * PowerOfTen(scale - Len(b))
    BY <1>3, <1>4, <2>1, NumberZeros
  <2>3. digits # <<>>
    <3>1. Zeros(scale - Len(b)) \in Seq(Figure) /\ Len(a \o b) > 0
      BY <1>4, <2>1, ZerosOf, NotEmpty
    <3>2. Len(digits) = Len(a \o b) + Len(Zeros(scale - Len(b)))
      BY <1>3, <1>4, <3>1
    <3>3. Len(digits) > 0 /\ Len(<<>>) = 0
      BY <3>1, <3>2, <1>4
    <3> QED BY <3>3
  <2> QED BY <1>1, <1>2, <1>4, <1>6, <2>2, <2>3 DEF WithSign, x
<1> QED BY <1>5, <1>6

(* strconv.ParseFloat reads every numeral, to the places that a float has. *)
LEMMA SpelledFloat ==
  ASSUME FloatPlaces \in Nat,
         NEW a \in Seq(Figure), NEW b \in Seq(Figure), Len(a) > 0, NEW g \in Int
  PROVE  AsFloat(Signed(g, WithPoint(a, b))) =
           {Finite(WithSign(g, IF Len(b) <= FloatPlaces
                               THEN Number(a \o b) * PowerOfTen(FloatPlaces - Len(b))
                               ELSE Number(a \o b) \div PowerOfTen(Len(b) - FloatPlaces)))}
<1> DEFINE x == Signed(g, WithPoint(a, b))
           n == IF Len(b) <= FloatPlaces THEN Number(a \o b) * PowerOfTen(FloatPlaces - Len(b))
                ELSE Number(a \o b) \div PowerOfTen(Len(b) - FloatPlaces)
<1>1. /\ HasPrefix(x, "-") <=> g < 0
      /\ Unsigned(x) = WithPoint(a, b) /\ x # <<"nan">> /\ WithPoint(a, b) # <<"inf">>
      /\ Cut(WithPoint(a, b), ".").before = a /\ Cut(WithPoint(a, b), ".").after = b
  BY SpelledBack
<1>2. /\ a \o b \in Seq(Figure) /\ a \o b # <<>> /\ AllDigits(a \o b)
      /\ Len(b) \in Nat
  BY TwoNumerals
<1> HIDE DEF x
<1>3. AsFloat(x) = {Finite(FloatSign(x) * Number(FloatDigits(x)))}
  BY <1>1, <1>2, FloatReads, Zenon
<1>4. FloatDigits(x) = a \o Take(b, FloatPlaces) \o Zeros(FloatPlaces - Len(b))
  BY <1>1 DEF FloatDigits
<1>6. Number(FloatDigits(x)) = n
  <2>1. CASE Len(b) <= FloatPlaces
    <3>1. Take(b, FloatPlaces) = b /\ FloatPlaces - Len(b) \in Nat
      BY <1>2, <2>1, TakeAll
    <3> QED BY <1>2, <1>4, <2>1, <3>1, NumberZeros
  <2>2. CASE ~ (Len(b) <= FloatPlaces)
    <3> DEFINE p == FloatPlaces
               u == SubSeq(b, 1, p)
               w == SubSeq(b, p + 1, Len(b))
    <3>1. p \in 0 .. Len(b) /\ Min({p, Len(b)}) = p
      <4>1. {p, Len(b)} \in SUBSET Int /\ p \in {p, Len(b)} /\ \A i \in {p, Len(b)} : p <= i
        BY <1>2, <2>2
      <4>2. Min({p, Len(b)}) = p
        BY <4>1, MinIs
      <4>3. p \in Nat /\ Len(b) \in Nat /\ p <= Len(b)
        BY <1>2, <2>2
      <4> QED BY <4>2, <4>3
    <3>2. Take(b, p) = u
      BY <3>1 DEF Take
    <3>3. u \in Seq(Figure) /\ w \in Seq(Figure) /\ Len(w) = Len(b) - p /\ u \o w = b
      BY <3>1, SplitAt
    <3> HIDE DEF u, w
    <3>4. Zeros(p - Len(b)) = <<>>
      BY <1>2, <2>2 DEF Zeros
    <3>5. FloatDigits(x) = a \o u
      <4>1. a \o u \in Seq(Figure)
        BY <3>3
      <4> QED BY <1>4, <3>2, <3>4, <4>1, ConcatEmptySeq
    <3>6. (a \o u) \o w = a \o b /\ a \o u \in Seq(Figure)
      <4>1. a \o (u \o w) = (a \o u) \o w
        <5>1. \A x1, y1, z1 \in Seq(Figure) : x1 \o (y1 \o z1) = (x1 \o y1) \o z1
          BY Regroup, SMTT(30)
        <5> QED BY <3>3, <5>1
      <4>2. a \o u \in Seq(Figure)
        BY <3>3, ConcatProperties
      <4> QED BY <3>3, <4>1, <4>2
    <3>7. Number(a \o u) = Number(a \o b) \div PowerOfTen(Len(b) - p)
      BY <3>3, <3>6, NumberCut
    <3> QED BY <2>2, <3>5, <3>7
  <2> QED BY <2>1, <2>2
<1>7. n \in Int
  <2>1. Number(a \o b) \in Nat /\ \A k \in Nat : PowerOfTen(k) \in Nat \ {0}
    BY <1>2, NumberNat, Tens
  <2>2. \A i \in Nat, k \in Nat \ {0} : i * k \in Int /\ i \div k \in Int
    OBVIOUS
  <2>3. Len(b) <= FloatPlaces => FloatPlaces - Len(b) \in Nat
    BY <1>2
  <2>4. ~ (Len(b) <= FloatPlaces) => Len(b) - FloatPlaces \in Nat
    BY <1>2
  <2> QED BY <2>1, <2>2, <2>3, <2>4
<1> HIDE DEF n
<1>8. FloatSign(x) * n = WithSign(g, n)
  BY <1>1, <1>7 DEF FloatSign, WithSign
<1>9. AsFloat(x) = {Finite(WithSign(g, n))}
  BY <1>3, <1>6, <1>8
<1> QED BY <1>9 DEF n, x

(* A character stands somewhere in a text: so it does when a sign is taken  *)
(* off, or the text is cut, at another.                                     *)
Has(s, c) == \E i \in DOMAIN s : s[i] = c

(* Texts that hold what no digit is are no numerals. *)
LEMMA NoDigits ==
  ASSUME NEW s, NEW c, Has(s, c), c \notin Figure
  PROVE  ~AllDigits(s)
BY FigureValue DEF Has, AllDigits

(* Behind its first character, if that is another; *)
LEMMA HasBehind ==
  ASSUME NEW C, NEW s \in Seq(C), NEW c, Has(s, c), s # <<>>, s[1] # c
  PROVE  Has(Tail(s), c)
<1>1. PICK i \in DOMAIN s : s[i] = c
  BY DEF Has
<1>2. i \in 2 .. Len(s) /\ DOMAIN Tail(s) = 1 .. Len(s) - 1 /\ Tail(s)[i - 1] = s[i]
  BY <1>1
<1>3. i - 1 \in DOMAIN Tail(s)
  BY <1>2
<1> QED BY <1>1, <1>2, <1>3 DEF Has

(* behind its sign; *)
LEMMA HasUnsigned ==
  ASSUME NEW C, NEW s \in Seq(C), NEW c, Has(s, c), c # "-", c # "+"
  PROVE  Has(Unsigned(s), c) /\ Has(TrimPrefix(TrimPrefix(s, "-"), "+"), c)
<1>1. \A x \in Seq(C) : \A p : Has(x, c) /\ c # p => Has(TrimPrefix(x, p), c)
  BY HasBehind DEF TrimPrefix, HasPrefix
<1>2. TrimPrefix(s, "-") \in Seq(C)
  BY TrimPrefixSeq
<1>3. Has(Unsigned(s), c)
  BY HasBehind DEF Unsigned, HasPrefix
<1> QED BY <1>1, <1>2, <1>3

(* on one side of a cut; *)
LEMMA HasCut ==
  ASSUME NEW C, NEW s \in Seq(C), NEW c, Has(s, c), NEW p, c # p
  PROVE  LET cut == Cut(s, p) IN Has(cut.before, c) \/ Has(cut.after, c)
<1> DEFINE at == {i \in DOMAIN s : s[i] = p}
<1>1. PICK i \in DOMAIN s : s[i] = c
  BY DEF Has
<1>2. CASE at = {}
  BY <1>2 DEF Cut
<1>3. CASE at # {}
  <2> DEFINE m == Min(at)
  <2>1. m \in at
    <3>1. Len(s) \in Nat /\ at \in SUBSET (1 .. Len(s))
      OBVIOUS
    <3> HIDE DEF at
    <3> QED BY <1>3, <3>1, LeastGreatest
  <2>2. m \in 1 .. Len(s) /\ s[m] = p
    BY <2>1
  <2>3. Cut(s, p) = [before |-> SubSeq(s, 1, m - 1), after |-> SubSeq(s, m + 1, Len(s)), found |-> TRUE]
    BY <1>3 DEF Cut
  <2> HIDE DEF m, at
  <2>4. i # m
    BY <1>1, <2>2
  <2>5. CASE i < m
    <3>1. i \in DOMAIN SubSeq(s, 1, m - 1) /\ SubSeq(s, 1, m - 1)[i] = c
      BY <1>1, <2>2, <2>5
    <3>2. Has(SubSeq(s, 1, m - 1), c)
      BY <3>1, Zenon DEF Has
    <3> QED BY <2>3, <3>2
  <2>6. CASE i > m
    <3>1. i - m \in DOMAIN SubSeq(s, m + 1, Len(s)) /\ SubSeq(s, m + 1, Len(s))[i - m] = c
      BY <1>1, <2>2, <2>6
    <3>2. Has(SubSeq(s, m + 1, Len(s)), c)
      BY <3>1, Zenon DEF Has
    <3> QED BY <2>3, <3>2
  <2> QED BY <1>1, <2>2, <2>4, <2>5, <2>6
<1> QED BY <1>2, <1>3

(* in either of two texts that are put together. *)
LEMMA HasEither ==
  ASSUME NEW C, NEW a \in Seq(C), NEW b \in Seq(C), NEW c, Has(a, c) \/ Has(b, c)
  PROVE  Has(a \o b, c)
<1>1. ASSUME NEW i \in DOMAIN a, a[i] = c PROVE Has(a \o b, c)
  <2>1. i \in DOMAIN (a \o b) /\ (a \o b)[i] = c
    BY <1>1
  <2> QED BY <2>1, Zenon DEF Has
<1>2. ASSUME NEW i \in DOMAIN b, b[i] = c PROVE Has(a \o b, c)
  <2>1. Len(a) + i \in DOMAIN (a \o b) /\ (a \o b)[Len(a) + i] = c
    BY <1>2
  <2> QED BY <2>1, Zenon DEF Has
<1> QED BY <1>1, <1>2, Zenon DEF Has

(* A text that holds another character than a number's is none. *)
LEMMA AlienNumber ==
  ASSUME NEW C, NEW s \in Seq(C), NEW c, Has(s, c), c \notin FloatChar, NEW scale \in Nat
  PROVE  AsInt(s) = {} /\ AsScaled(s, scale) = {} /\ AsFloat(s) = {}
<1>1. c \notin Figure /\ c # "-" /\ c # "+" /\ c # "." /\ c # "nan" /\ c # "inf"
  BY DEF FloatChar, NumeralChar
<1>2. Has(Unsigned(s), c) /\ Has(TrimPrefix(TrimPrefix(s, "-"), "+"), c)
  BY <1>1, HasUnsigned
<1>3. Unsigned(s) \in Seq(C) /\ TrimPrefix(TrimPrefix(s, "-"), "+") \in Seq(C)
  <2>1. TrimPrefix(s, "-") \in Seq(C)
    BY TrimPrefixSeq
  <2>2. Unsigned(s) \in Seq(C)
    BY TailSeq DEF Unsigned, HasPrefix
  <2> QED BY <2>1, <2>2, TrimPrefixSeq
<1>4. AsInt(s) = {}
  <2>1. ~AllDigits(Unsigned(s))
    BY <1>1, <1>2, NoDigits
  <2> QED BY <2>1 DEF AsInt, Unsigned
<1>5. AsScaled(s, scale) = {}
  <2> DEFINE cut == Cut(TrimPrefix(TrimPrefix(s, "-"), "+"), ".")
  <2>1. Has(cut.before, c) \/ Has(cut.after, c)
    BY <1>1, <1>2, <1>3, HasCut
  <2>2. ~AllDigits(cut.before) \/ ~AllDigits(cut.after)
    BY <1>1, <2>1, NoDigits
  <2> QED BY <2>2 DEF AsScaled
<1>6. AsFloat(s) = {}
  <2> DEFINE cut == Cut(Unsigned(s), ".")
  <2>1. Has(cut.before, c) \/ Has(cut.after, c)
    BY <1>1, <1>2, <1>3, HasCut
  <2>2. cut.before \in Seq(C) /\ cut.after \in Seq(C)
    BY <1>3, CutSeqs
  <2>3. s # <<"nan">> /\ Unsigned(s) # <<"inf">>
    BY <1>1, <1>2 DEF Has
  <2>4. ~AllDigits(cut.before \o cut.after)
    <3> HIDE DEF cut
    <3>1. Has(cut.before \o cut.after, c)
      BY <2>1, <2>2, HasEither
    <3> QED BY <1>1, <3>1, NoDigits
  <2> QED BY <2>3, <2>4, FloatReads
<1> QED BY <1>4, <1>5, <1>6

(* The smaller of two numbers. *)
LEMMA MinOf ==
  ASSUME NEW x \in Int, NEW y \in Int, x <= y
  PROVE  Min({x, y}) = x
<1>1. x \in {x, y} /\ {x, y} \in SUBSET Int /\ \A i \in {x, y} : x <= i
  OBVIOUS
<1> QED BY <1>1, MinIs

(* And the greater one. *)
LEMMA MaxOf ==
  ASSUME NEW x \in Int, NEW y \in Int, x <= y
  PROVE  Max({x, y}) = y
<1>1. y \in {x, y} /\ {x, y} \in SUBSET Int /\ \A i \in {x, y} : i <= y
  OBVIOUS
<1> QED BY <1>1, MaxIs

----------------------------------------------------------------------------
(* A sum over a set, one element at a time.                                *)
(* The element a fold takes first. *)
Some(T) == CHOOSE x \in T : TRUE

(* f gives the sum of g over each part of its domain. *)
Sums(f, g) ==
  f = [T \in SUBSET DOMAIN g |-> IF T = {} THEN 0 ELSE g[Some(T)] + f[T \ {Some(T)}]]

(* A set without one of its elements has one less. *)
LEMMA Fewer ==
  ASSUME NEW T, IsFiniteSet(T), NEW x \in T
  PROVE  /\ IsFiniteSet(T \ {x}) /\ Cardinality(T) \in Nat /\ Cardinality(T \ {x}) \in Nat
         /\ Cardinality(T \ {x}) = Cardinality(T) - 1
BY FS_RemoveElement, FS_CardinalityType

(* There are such sums. *)
LEMMA SumExists ==
  ASSUME NEW D, IsFiniteSet(D), NEW g \in [D -> Int]
  PROVE  \E f \in [SUBSET D -> Int] : Sums(f, g)
<1> DEFINE I == SUBSET D
           Leaf == {{}}
           rank == [T \in I |-> Cardinality(T)]
           prev == [T \in I |-> IF T = {} THEN {} ELSE T \ {Some(T)}]
           base == [T \in I |-> 0]
           step == [x \in I \X Int |-> (IF x[1] = {} THEN 0 ELSE g[Some(x[1])]) + x[2]]
<1>1. \A T \in I : IsFiniteSet(T) /\ Cardinality(T) \in Nat
  BY FS_Subset, FS_CardinalityType
<1>2. \A T \in I : T # {} => Some(T) \in T
  BY DEF Some
<1>3. Leaf \in SUBSET I /\ rank \in [I -> Nat] /\ prev \in [I -> I] /\ base \in [I -> Int]
  BY <1>1
<1>4. step \in [I \X Int -> Int]
  <2> SUFFICES ASSUME NEW x \in I \X Int
               PROVE  (IF x[1] = {} THEN 0 ELSE g[Some(x[1])]) + x[2] \in Int
    OBVIOUS
  <2>1. x[1] \in I /\ x[2] \in Int
    OBVIOUS
  <2>2. x[1] # {} => Some(x[1]) \in D
    BY <1>2, <2>1
  <2>3. (IF x[1] = {} THEN 0 ELSE g[Some(x[1])]) \in Int
    BY <2>2
  <2> QED BY <2>1, <2>3
<1>5. \A T \in I \ Leaf : rank[prev[T]] < rank[T]
  <2> SUFFICES ASSUME NEW T \in I, T # {} PROVE Cardinality(T \ {Some(T)}) < Cardinality(T)
    OBVIOUS
  <2>1. Some(T) \in T /\ IsFiniteSet(T)
    BY <1>1, <1>2
  <2> QED BY <2>1, Fewer
<1>6. PICK f \in [I -> Int] : \A T \in I : Follows(f, T, Leaf, prev, base, step)
  <2> HIDE DEF I, Leaf, rank, prev, base, step
  <2> QED BY <1>3, <1>4, <1>5, Recursion
<1>7. ASSUME NEW T \in I
      PROVE  f[T] = IF T = {} THEN 0 ELSE g[Some(T)] + f[T \ {Some(T)}]
  <2>1. CASE T = {}
    BY <1>6, <2>1 DEF Follows
  <2>2. CASE T # {}
    <3>1. T \notin Leaf /\ prev[T] = T \ {Some(T)} /\ T \ {Some(T)} \in I
      BY <2>2
    <3>2. <<T, f[T \ {Some(T)}]>> \in I \X Int
      BY <3>1
    <3>3. f[T] = step[<<T, f[T \ {Some(T)}]>>]
      BY <1>6, <3>1 DEF Follows
    <3>4. step[<<T, f[T \ {Some(T)}]>>] = g[Some(T)] + f[T \ {Some(T)}]
      BY <2>2, <3>2
    <3> QED BY <2>2, <3>3, <3>4
  <2> QED BY <2>1, <2>2
<1>8. DOMAIN g = D
  OBVIOUS
<1> QED BY <1>7, <1>8 DEF Sums

(* Whichever of its elements is taken first, a sum is the same. *)
AnyFirst(f, g, T) == \A x \in T : f[T] = g[x] + f[T \ {x}]

(* The parts of D that have n elements. *)
Sized(D, n) == {T \in SUBSET D : Cardinality(T) = n}

(* Induction over the parts of a finite set: {} and, from each, a greater one. *)
LEMMA SizedInduction ==
  ASSUME NEW D, IsFiniteSet(D), NEW Q, {} \in Q,
         \A T \in SUBSET D : T # {} /\ (\A x \in T : T \ {x} \in Q) => T \in Q
  PROVE  SUBSET D \subseteq Q
<1> DEFINE S == {n \in Nat : Sized(D, n) \subseteq Q}
<1>1. \A T \in SUBSET D : IsFiniteSet(T) /\ Cardinality(T) \in Nat
  BY FS_Subset, FS_CardinalityType
<1>2. 0 \in S
  BY <1>1, FS_EmptySet DEF Sized
<1>3. ASSUME NEW n \in Nat, n \in S PROVE n + 1 \in S
  <2>1. ASSUME NEW T \in Sized(D, n + 1) PROVE T \in Q
    <3>1. T \in SUBSET D /\ Cardinality(T) = n + 1 /\ T # {}
      BY <1>1, FS_EmptySet DEF Sized
    <3>2. \A x \in T : T \ {x} \in Sized(D, n)
      BY <1>1, <3>1, Fewer DEF Sized
    <3> QED BY <1>3, <3>1, <3>2
  <2> QED BY <2>1
<1> HIDE DEF S
<1>4. Nat \subseteq S
  BY <1>2, <1>3, NatSetInduction
<1> QED BY <1>1, <1>4 DEF S, Sized

(* They are integers, and it does not matter what is taken first. *)
LEMMA SumAny ==
  ASSUME NEW D, IsFiniteSet(D), NEW g \in [D -> Int], NEW f, Sums(f, g)
  PROVE  /\ f[{}] = 0
         /\ \A T \in SUBSET D : f[T] \in Int /\ AnyFirst(f, g, T)
<1>1. \A T \in SUBSET D : f[T] = IF T = {} THEN 0 ELSE g[Some(T)] + f[T \ {Some(T)}]
  BY DEF Sums
<1>2. \A T \in SUBSET D : T # {} => Some(T) \in T /\ Some(T) \in D
  BY DEF Some
<1>3. f[{}] = 0
  BY <1>1
<1> DEFINE Q == {T \in SUBSET D : f[T] \in Int}
<1>4. SUBSET D \subseteq Q
  <2>1. {} \in Q
    BY <1>3
  <2>2. ASSUME NEW T \in SUBSET D, T # {}, \A x \in T : T \ {x} \in Q PROVE T \in Q
    <3>1. f[T] = g[Some(T)] + f[T \ {Some(T)}] /\ g[Some(T)] \in Int /\ f[T \ {Some(T)}] \in Int
      BY <1>1, <1>2, <2>2
    <3> QED BY <3>1
  <2> HIDE DEF Q
  <2> QED BY <2>1, <2>2, SizedInduction
<1>5. \A T \in SUBSET D : f[T] \in Int
  BY <1>4
<1> HIDE DEF Q
<1> DEFINE R == {T \in SUBSET D : AnyFirst(f, g, T)}
<1>6. SUBSET D \subseteq R
  <2>1. {} \in R
    BY DEF AnyFirst
  <2>2. ASSUME NEW T \in SUBSET D, T # {}, \A x \in T : T \ {x} \in R PROVE T \in R
    <3> DEFINE c == Some(T)
    <3>1. c \in T /\ c \in D /\ f[T] = g[c] + f[T \ {c}]
      BY <1>1, <1>2, <2>2
    <3> HIDE DEF c
    <3>2. ASSUME NEW x \in T, x # c PROVE f[T] = g[x] + f[T \ {x}]
      <4>1. x \in T \ {c} /\ c \in T \ {x} /\ (T \ {c}) \ {x} = (T \ {x}) \ {c}
        BY <3>1, <3>2
      <4>2. AnyFirst(f, g, T \ {c}) /\ AnyFirst(f, g, T \ {x})
        BY <2>2, <3>1
      <4> DEFINE rest == f[(T \ {x}) \ {c}]
      <4>3. f[T \ {c}] = g[x] + rest /\ f[T \ {x}] = g[c] + rest
        BY <4>1, <4>2 DEF AnyFirst
      <4>4. rest \in Int /\ g[x] \in Int /\ g[c] \in Int
        BY <1>5, <3>1
      <4> HIDE DEF rest
      <4> QED BY <3>1, <4>3, <4>4
    <3>3. AnyFirst(f, g, T)
      BY <3>1, <3>2 DEF AnyFirst
    <3> QED BY <3>3
  <2> HIDE DEF R
  <2> QED BY <2>1, <2>2, SizedInduction
<1> QED BY <1>3, <1>5, <1>6
=============================================================================
