----------------------------- MODULE DoreProofs -----------------------------
(***************************************************************************)
(* That the command tells its user and CI what happened: the exit code and *)
(* everything printed, for every number of files, whatever they report and *)
(* whatever an assay finds.                                                *)
(*                                                                         *)
(* The argument is in three parts.  Items sorts: the diagnostics of a bag  *)
(* have different ranks, so the ranks are its places and the sort loses,   *)
(* repeats and swaps nothing.  runCheck's bag is what FlattenSeq makes of  *)
(* the files' reports, a recursive function, whose values are shown to     *)
(* exist by induction on a set of numbers.  assay's numbers are those of   *)
(* sets of rows, which the rows shown in red are in bijection with.  The   *)
(* invariant DoreInv says what each stage of the command has gathered.     *)
(***************************************************************************)
EXTENDS Dore, Workspace, FiniteSetTheorems, TLAPS

----------------------------------------------------------------------------
(* Counting, and induction over the natural numbers. *)

(* The numbers up to n are n. *)
LEMMA UpTo ==
  ASSUME NEW n \in Nat
  PROVE  IsFiniteSet(1 .. n) /\ Cardinality(1 .. n) = n
<1>1. /\ IsFiniteSet(1 .. n)
      /\ Cardinality(1 .. n) = IF 1 > n THEN 0 ELSE n - 1 + 1
  BY FS_Interval
<1> QED BY <1>1

(* Bijections keep the number of elements. *)
LEMMA SameSize ==
  ASSUME NEW S, NEW T, IsFiniteSet(S), NEW f \in [S -> T],
         \A x, y \in S : f[x] = f[y] => x = y,
         \A t \in T : \E s \in S : f[s] = t
  PROVE  IsFiniteSet(T) /\ Cardinality(T) = Cardinality(S)
<1>1. f \in Bijection(S, T)
  BY DEF Bijection, Injection, Surjection, IsInjective
<1>2. ExistsBijection(S, T)
  BY <1>1 DEF ExistsBijection
<1> QED BY <1>2, FS_Bijection

(* A set with 0 and the successor of each of its numbers has them all. *)
LEMMA NatSetInduction ==
  ASSUME NEW S, 0 \in S, \A n \in Nat : n \in S => n + 1 \in S
  PROVE  Nat \subseteq S
<1> DEFINE R == OpToRel(<, Nat)
<1>1. SUFFICES ASSUME Nat \ S # {} PROVE FALSE
  OBVIOUS
<1>2. IsWellFoundedOn(R, Nat)
  BY NatLessThanWellFounded
<1>3. \A x, y \in Nat : x < y => <<x, y>> \in R
  BY DEF OpToRel
<1> HIDE DEF R
<1>4. PICK x \in Nat \ S : \A y \in Nat \ S : ~ (<<y, x>> \in R)
  BY <1>1, <1>2, WFMin
<1>5. x \in Nat /\ x # 0 /\ x - 1 \in Nat /\ x - 1 < x /\ (x - 1) + 1 = x
  OBVIOUS
<1>6. x - 1 \notin S
  BY <1>5
<1>7. <<x - 1, x>> \in R
  BY <1>3, <1>5
<1> QED BY <1>4, <1>5, <1>6, <1>7

----------------------------------------------------------------------------
(* The order diagnostics are told in: Items is a stable sort. *)

(* The types of a bag's diagnostics. *)
LEMMA DiagType ==
  ASSUME NEW b \in Seq(Diagnostics)
  PROVE  /\ Len(b) \in Nat /\ DOMAIN b = 1 .. Len(b)
         /\ \A i \in DOMAIN b : /\ i \in Nat /\ b[i] \in Diagnostics
                                /\ b[i].name \in Nat /\ b[i].offset \in Nat
<1>1. Len(b) \in Nat /\ DOMAIN b = 1 .. Len(b)
  OBVIOUS
<1>2. ASSUME NEW i \in 1 .. Len(b)
      PROVE  b[i] \in Diagnostics
  OBVIOUS
<1> QED BY <1>1, <1>2 DEF Diagnostics

(* What stands before what is a strict total order of the places. *)
LEMMA BeforeOrders ==
  ASSUME NEW b \in Seq(Diagnostics),
         NEW i \in DOMAIN b, NEW j \in DOMAIN b, NEW k \in DOMAIN b
  PROVE  /\ ~ Before(b, i, i)
         /\ Before(b, i, j) /\ Before(b, j, k) => Before(b, i, k)
         /\ i # j => Before(b, i, j) \/ Before(b, j, i)
         /\ ~ (Before(b, i, j) /\ Before(b, j, i))
<1>1. /\ i \in Nat /\ j \in Nat /\ k \in Nat
      /\ b[i].name \in Nat /\ b[j].name \in Nat /\ b[k].name \in Nat
      /\ b[i].offset \in Nat /\ b[j].offset \in Nat /\ b[k].offset \in Nat
  BY DiagType
<1> QED BY <1>1 DEF Before, Less

(* What Rank counts. *)
Earlier(b, j) == {i \in DOMAIN b : Before(b, i, j)}

(* A rank is a place. *)
LEMMA RankType ==
  ASSUME NEW b \in Seq(Diagnostics), NEW j \in DOMAIN b
  PROVE  /\ IsFiniteSet(Earlier(b, j)) /\ Rank(b, j) \in 1 .. Len(b)
         /\ Rank(b, j) = Cardinality(Earlier(b, j)) + 1
<1>1. /\ Len(b) \in Nat /\ DOMAIN b = 1 .. Len(b) /\ j \in 1 .. Len(b)
  BY DiagType
<1>2. IsFiniteSet(1 .. Len(b)) /\ Cardinality(1 .. Len(b)) = Len(b)
  BY <1>1, UpTo, Zenon
<1>3. /\ IsFiniteSet((1 .. Len(b)) \ {j})
      /\ Cardinality((1 .. Len(b)) \ {j}) = Len(b) - 1
  <2>1. /\ IsFiniteSet((1 .. Len(b)) \ {j})
        /\ Cardinality((1 .. Len(b)) \ {j}) =
             IF j \in 1 .. Len(b) THEN Cardinality(1 .. Len(b)) - 1
                                 ELSE Cardinality(1 .. Len(b))
    BY <1>2, FS_RemoveElement, Zenon
  <2> QED BY <1>1, <1>2, <2>1, Zenon
<1>4. Earlier(b, j) \in SUBSET ((1 .. Len(b)) \ {j})
  <2>1. ~ Before(b, j, j)
    BY BeforeOrders
  <2> QED BY <1>1, <2>1 DEF Earlier
<1>5. /\ IsFiniteSet(Earlier(b, j))
      /\ Cardinality(Earlier(b, j)) <= Cardinality((1 .. Len(b)) \ {j})
  BY <1>3, <1>4, FS_Subset
<1>6. Cardinality(Earlier(b, j)) \in Nat
  BY <1>5, FS_CardinalityType
<1>7. Rank(b, j) = Cardinality(Earlier(b, j)) + 1
  BY DEF Rank, Earlier
<1> QED BY <1>1, <1>3, <1>5, <1>6, <1>7

(* Ranks are ordered as the diagnostics are. *)
LEMMA RankRises ==
  ASSUME NEW b \in Seq(Diagnostics), NEW i \in DOMAIN b, NEW j \in DOMAIN b
  PROVE  Before(b, i, j) <=> Rank(b, i) < Rank(b, j)
<1>1. ASSUME NEW x \in DOMAIN b, NEW y \in DOMAIN b, Before(b, x, y)
      PROVE  Rank(b, x) < Rank(b, y)
  <2>1. Earlier(b, x) \in SUBSET Earlier(b, y)
    BY <1>1, BeforeOrders DEF Earlier
  <2>2. x \in Earlier(b, y) /\ x \notin Earlier(b, x)
    BY <1>1, BeforeOrders DEF Earlier
  <2>3. /\ IsFiniteSet(Earlier(b, x)) /\ IsFiniteSet(Earlier(b, y))
        /\ Rank(b, x) = Cardinality(Earlier(b, x)) + 1
        /\ Rank(b, y) = Cardinality(Earlier(b, y)) + 1
    BY RankType
  <2>4. /\ Cardinality(Earlier(b, x)) <= Cardinality(Earlier(b, y))
        /\ Cardinality(Earlier(b, x)) # Cardinality(Earlier(b, y))
    BY <2>1, <2>2, <2>3, FS_Subset
  <2>5. Cardinality(Earlier(b, x)) \in Nat /\ Cardinality(Earlier(b, y)) \in Nat
    BY <2>3, FS_CardinalityType
  <2> QED BY <2>3, <2>4, <2>5
<1>2. Rank(b, i) \in Nat /\ Rank(b, j) \in Nat
  BY RankType
<1>3. i # j => Before(b, i, j) \/ Before(b, j, i)
  BY BeforeOrders
<1>4. CASE Before(b, i, j)
  BY <1>1, <1>4
<1>5. CASE Before(b, j, i)
  <2>1. ~ Before(b, i, j)
    BY <1>5, BeforeOrders
  <2>2. Rank(b, j) < Rank(b, i)
    BY <1>1, <1>5
  <2> QED BY <1>2, <2>1, <2>2
<1>6. CASE i = j
  BY <1>2, <1>6, BeforeOrders
<1> QED BY <1>3, <1>4, <1>5, <1>6

(* The ranks of a bag's diagnostics are its places, each once. *)
LEMMA FromRank ==
  ASSUME NEW b \in Seq(Diagnostics), NEW k \in DOMAIN b
  PROVE  /\ From(b, k) \in DOMAIN b /\ Rank(b, From(b, k)) = k
         /\ Rank(b, k) \in DOMAIN b /\ From(b, Rank(b, k)) = k
<1> DEFINE P == 1 .. Len(b)
           f == [j \in P |-> Rank(b, j)]
<1>1. Len(b) \in Nat /\ DOMAIN b = P
  BY DiagType
<1>2. f \in [P -> P]
  BY <1>1, RankType
<1>3. \A x, y \in P : f[x] = f[y] => x = y
  <2> SUFFICES ASSUME NEW x \in P, NEW y \in P, Rank(b, x) = Rank(b, y)
               PROVE  x = y
    OBVIOUS
  <2>1. Rank(b, x) \in Nat /\ Rank(b, y) \in Nat
    BY <1>1, RankType
  <2>2. ~ Before(b, x, y) /\ ~ Before(b, y, x)
    BY <1>1, <2>1, RankRises
  <2> QED BY <1>1, <2>2, BeforeOrders
<1>4. f \in Injection(P, P)
  BY <1>2, <1>3 DEF Injection, IsInjective
<1>5. f \in Surjection(P, P)
  BY <1>1, <1>4, UpTo, FS_Injection
<1>6. \A n \in P : \E j \in P : f[j] = n
  BY <1>5 DEF Surjection
<1>7. \A n \in P : \E j \in DOMAIN b : Rank(b, j) = n
  BY <1>1, <1>6
<1>8. \A n \in P : From(b, n) \in DOMAIN b /\ Rank(b, From(b, n)) = n
  BY <1>7 DEF From
<1>9. Rank(b, k) \in P
  BY RankType
<1>10. Rank(b, From(b, Rank(b, k))) = Rank(b, k) /\ From(b, Rank(b, k)) \in P
  BY <1>1, <1>8, <1>9
<1> QED BY <1>1, <1>3, <1>8, <1>9, <1>10

(* Items rearranges a bag. *)
LEMMA ItemsPlaces ==
  ASSUME NEW b \in Seq(Diagnostics)
  PROVE  /\ Items(b) \in Seq(Diagnostics)
         /\ Len(Items(b)) = Len(b) /\ DOMAIN Items(b) = DOMAIN b
         /\ \A k \in DOMAIN b : Items(b)[k] = b[From(b, k)]
         /\ Range(Items(b)) = Range(b)
<1>1. Len(b) \in Nat /\ DOMAIN b = 1 .. Len(b) /\ \A i \in DOMAIN b : b[i] \in Diagnostics
  BY DiagType
<1>2. \A k \in DOMAIN b : From(b, k) \in DOMAIN b
  BY FromRank
<1>3. Items(b) \in [1 .. Len(b) -> Diagnostics]
  BY <1>1, <1>2 DEF Items
<1>4. Items(b) \in Seq(Diagnostics) /\ Len(Items(b)) = Len(b) /\ DOMAIN Items(b) = DOMAIN b
  BY <1>1, <1>3
<1>5. \A k \in DOMAIN b : Items(b)[k] = b[From(b, k)]
  BY DEF Items
<1>6. ASSUME NEW i \in DOMAIN b
      PROVE  \E k \in DOMAIN b : Items(b)[k] = b[i]
  <2>1. Rank(b, i) \in DOMAIN b /\ From(b, Rank(b, i)) = i
    BY FromRank
  <2> QED BY <1>5, <2>1
<1>7. Range(Items(b)) = Range(b)
  <2>1. ASSUME NEW d \in Range(Items(b)) PROVE d \in Range(b)
    <3>1. PICK k \in DOMAIN b : d = Items(b)[k]
      BY <1>4, <2>1 DEF Range
    <3> QED BY <1>2, <1>5, <3>1 DEF Range
  <2>2. ASSUME NEW d \in Range(b) PROVE d \in Range(Items(b))
    <3>1. PICK i \in DOMAIN b : d = b[i]
      BY <2>2 DEF Range
    <3>2. PICK k \in DOMAIN b : Items(b)[k] = d
      BY <1>6, <3>1
    <3> QED BY <1>4, <3>2 DEF Range
  <2> QED BY <2>1, <2>2
<1> QED BY <1>4, <1>5, <1>7

(* Items is sorted by file and place. *)
LEMMA ItemsSorted ==
  ASSUME NEW b \in Seq(Diagnostics), NEW i \in DOMAIN b, NEW j \in DOMAIN b, i < j
  PROVE  /\ Items(b)[i].name <= Items(b)[j].name
         /\ Items(b)[i].name = Items(b)[j].name => Items(b)[i].offset <= Items(b)[j].offset
<1> DEFINE x == From(b, i)
           y == From(b, j)
<1>1. x \in DOMAIN b /\ y \in DOMAIN b /\ Rank(b, x) = i /\ Rank(b, y) = j
  BY FromRank
<1>2. Before(b, x, y)
  BY <1>1, RankRises
<1>3. /\ b[x].name \in Nat /\ b[y].name \in Nat
      /\ b[x].offset \in Nat /\ b[y].offset \in Nat
  BY <1>1, DiagType
<1>4. Items(b)[i] = b[x] /\ Items(b)[j] = b[y]
  BY ItemsPlaces
<1> HIDE DEF x, y
<1> QED BY <1>2, <1>3, <1>4 DEF Before, Less

(* Of two diagnostics about one place the one reported first stands first. *)
LEMMA StableAt ==
  ASSUME NEW b \in Seq(Diagnostics), NEW i \in DOMAIN b, NEW j \in DOMAIN b,
         SamePlace(b[i], b[j])
  PROVE  i <= j <=> Rank(b, i) <= Rank(b, j)
<1>1. /\ i \in Nat /\ j \in Nat /\ b[i].name \in Nat /\ b[j].name \in Nat
      /\ b[i].offset \in Nat /\ b[j].offset \in Nat
  BY DiagType
<1>2. Before(b, j, i) <=> j < i
  BY <1>1 DEF SamePlace, Before, Less
<1>3. Rank(b, i) \in Nat /\ Rank(b, j) \in Nat
  BY RankType
<1>4. j < i <=> Rank(b, j) < Rank(b, i)
  BY <1>2, RankRises
<1> QED BY <1>1, <1>3, <1>4

(* A diagnostic has as many before it about its place as were reported     *)
(* before it.                                                              *)
LEMMA ItemsStable ==
  ASSUME NEW b \in Seq(Diagnostics), NEW k \in DOMAIN b
  PROVE  AboutIt(Items(b), k) = AboutIt(b, From(b, k))
<1> DEFINE t == Items(b)
           i == From(b, k)
           S == {x \in 1 .. i : SamePlace(b[x], b[i])}
           T == {j \in 1 .. k : SamePlace(t[j], t[k])}
           f == [x \in S |-> Rank(b, x)]
<1>1. /\ i \in DOMAIN b /\ Rank(b, i) = k /\ t[k] = b[i]
  BY FromRank, ItemsPlaces
<1>2. /\ Len(b) \in Nat /\ DOMAIN b = 1 .. Len(b) /\ i \in Nat /\ k \in Nat
  BY <1>1, DiagType
<1> HIDE DEF t, i
<1>3. S \subseteq DOMAIN b /\ T \subseteq DOMAIN b /\ IsFiniteSet(S)
  <2>1. S \in SUBSET (1 .. i) /\ T \in SUBSET (1 .. k)
    OBVIOUS
  <2>2. 1 .. i \subseteq DOMAIN b /\ 1 .. k \subseteq DOMAIN b
    BY <1>1, <1>2
  <2>3. IsFiniteSet(S)
    BY <1>2, <2>1, UpTo, FS_Subset
  <2> QED BY <2>1, <2>2, <2>3
<1>4. ASSUME NEW x \in S
      PROVE  f[x] \in T /\ From(b, f[x]) = x
  <2>1. x \in DOMAIN b /\ x <= i /\ SamePlace(b[x], b[i])
    BY <1>3
  <2>2. Rank(b, x) \in DOMAIN b /\ From(b, Rank(b, x)) = x /\ Rank(b, x) <= k
    BY <1>1, <2>1, FromRank, StableAt
  <2>3. t[Rank(b, x)] = b[x]
    BY <2>2, ItemsPlaces DEF t
  <2>4. SamePlace(t[Rank(b, x)], t[k])
    BY <1>1, <2>1, <2>3
  <2>5. Rank(b, x) \in 1 .. k
    BY <1>2, <2>2
  <2> QED BY <2>2, <2>4, <2>5
<1>5. f \in [S -> T]
  BY <1>4
<1>6. \A x, y \in S : f[x] = f[y] => x = y
  <2> SUFFICES ASSUME NEW x \in S, NEW y \in S, f[x] = f[y] PROVE x = y
    OBVIOUS
  <2>1. From(b, f[x]) = x /\ From(b, f[y]) = y
    BY <1>4
  <2> QED BY <2>1
<1>7. ASSUME NEW j \in T
      PROVE  \E x \in S : f[x] = j
  <2>1. j \in DOMAIN b /\ j <= k /\ SamePlace(t[j], t[k])
    BY <1>3
  <2>2. From(b, j) \in DOMAIN b /\ Rank(b, From(b, j)) = j /\ t[j] = b[From(b, j)]
    BY <2>1, FromRank, ItemsPlaces DEF t
  <2>3. SamePlace(b[From(b, j)], b[i])
    BY <1>1, <2>1, <2>2
  <2>4. From(b, j) <= i
    BY <1>1, <2>1, <2>2, <2>3, StableAt
  <2>5. From(b, j) \in S
    BY <1>2, <2>2, <2>3, <2>4
  <2> QED BY <2>2, <2>5
<1>8. IsFiniteSet(T) /\ Cardinality(T) = Cardinality(S)
  <2> HIDE DEF S, T, f
  <2> QED BY <1>3, <1>5, <1>6, <1>7, SameSize
<1> QED BY <1>8 DEF AboutIt, t, i

(* Counting finds an error when there is one, and the last line tells the  *)
(* numbers.                                                                *)
LEMMA CountsErrors ==
  ASSUME NEW b \in Seq(Diagnostics)
  PROVE  /\ \A severity \in Severity : Count(b, severity) \in Nat
         /\ HasErrors(b) <=> ErrorsOf(b) # {}
<1>1. ASSUME NEW severity
      PROVE  LET S == {i \in DOMAIN b : b[i].severity = severity}
             IN  IsFiniteSet(S) /\ Count(b, severity) = Cardinality(S) /\ Count(b, severity) \in Nat
  <2> DEFINE S == {i \in DOMAIN b : b[i].severity = severity}
  <2>1. Len(b) \in Nat /\ S \in SUBSET (1 .. Len(b))
    BY DiagType
  <2>2. IsFiniteSet(S)
    BY <2>1, UpTo, FS_Subset
  <2>3. Cardinality(S) \in Nat
    BY <2>2, FS_CardinalityType
  <2> QED BY <2>2, <2>3 DEF Count
<1> DEFINE E == {i \in DOMAIN b : b[i].severity = "error"}
<1>2. IsFiniteSet(E) /\ Count(b, "error") = Cardinality(E) /\ Count(b, "error") \in Nat
  BY <1>1
<1>3. Cardinality(E) = 0 <=> E = {}
  BY <1>2, FS_EmptySet
<1>4. HasErrors(b) <=> E # {}
  BY <1>2, <1>3 DEF HasErrors
<1>5. E # {} <=> ErrorsOf(b) # {}
  BY DEF ErrorsOf, Range
<1> QED BY <1>1, <1>4, <1>5

----------------------------------------------------------------------------
(* What runCheck gathers. *)

(* What FlattenSeq has joined after each of the sequences. *)
Joins(seqs) ==
  LET flatten[i \in 1 .. Len(seqs)] ==
        IF i = 1 THEN seqs[i] ELSE flatten[i - 1] \o seqs[i]
  IN flatten

(* The recursive function of FlattenSeq has the values it says. *)
LEMMA JoinsStep ==
  ASSUME NEW s, Len(s) \in Nat \ {0}
  PROVE  /\ FlattenSeq(s) = Joins(s)[Len(s)]
         /\ Joins(s)[1] = s[1]
         /\ \A i \in 2 .. Len(s) : Joins(s)[i] = Joins(s)[i - 1] \o s[i]
<1> DEFINE n == Len(s)
           Upto(m, g) == g = [i \in 1 .. m |-> IF i = 1 THEN s[i] ELSE g[i - 1] \o s[i]]
           S == {m \in Nat : \E g : Upto(m, g)}
<1>1. 0 \in S
  <2>1. Upto(0, [i \in 1 .. 0 |-> 0])
    OBVIOUS
  <2> QED BY <2>1
<1>2. ASSUME NEW m \in Nat, m \in S
      PROVE  m + 1 \in S
  <2>1. PICK g : Upto(m, g)
    BY <1>2
  <2> DEFINE h == [i \in 1 .. m + 1 |->
                     IF i = m + 1 THEN IF i = 1 THEN s[i] ELSE g[i - 1] \o s[i] ELSE g[i]]
  <2>2. ASSUME NEW i \in 1 .. m + 1
        PROVE  h[i] = IF i = 1 THEN s[i] ELSE h[i - 1] \o s[i]
    <3>1. CASE i = m + 1
      <4>1. i # 1 => i - 1 \in 1 .. m + 1 /\ i - 1 # m + 1
        BY <3>1
      <4>2. i # 1 => h[i - 1] = g[i - 1]
        BY <4>1
      <4> QED BY <3>1, <4>2
    <3>2. CASE i # m + 1
      <4>1. i \in 1 .. m /\ (i # 1 => i - 1 \in 1 .. m /\ i - 1 \in 1 .. m + 1 /\ i - 1 # m + 1)
        BY <3>2
      <4>2. h[i] = g[i] /\ (i # 1 => h[i - 1] = g[i - 1])
        BY <4>1, <3>2
      <4>3. g[i] = IF i = 1 THEN s[i] ELSE g[i - 1] \o s[i]
        BY <2>1, <4>1
      <4> QED BY <4>2, <4>3
    <3> QED BY <3>1, <3>2
  <2>3. Upto(m + 1, h)
    <3>1. h = [i \in 1 .. m + 1 |-> h[i]]
      OBVIOUS
    <3> HIDE DEF h
    <3> QED BY <3>1, <2>2
  <2>4. \E k : Upto(m + 1, k)
    BY <2>3
  <2> HIDE DEF Upto
  <2> QED BY <2>4
<1>3. n \in S
  <2> HIDE DEF S
  <2> QED BY <1>1, <1>2, NatSetInduction
<1>4. PICK g : Upto(n, g)
  BY <1>3
<1>5. Upto(n, Joins(s))
  BY <1>4 DEF Joins
<1>6. \A i \in 1 .. n : Joins(s)[i] = IF i = 1 THEN s[i] ELSE Joins(s)[i - 1] \o s[i]
  BY <1>5
<1>7. FlattenSeq(s) = Joins(s)[Len(s)]
  BY DEF FlattenSeq, Joins
<1> HIDE DEF Upto, S
<1>8. 1 \in 1 .. n /\ \A i \in 2 .. n : i \in 1 .. n /\ i # 1
  OBVIOUS
<1>9. Joins(s)[1] = s[1]
  BY <1>6, <1>8
<1>10. \A i \in 2 .. n : Joins(s)[i] = Joins(s)[i - 1] \o s[i]
  BY <1>6, <1>8
<1> QED BY <1>7, <1>9, <1>10

(* What a check prints of a bag. *)
LEMMA RendersInOrder ==
  ASSUME NEW b \in Seq(Diagnostics)
  PROVE  /\ Len(Items(b)) = Len(b)
         /\ \A k \in DOMAIN Items(b) : \E i \in DOMAIN b :
              Items(b)[k] = b[i] /\ AboutIt(Items(b), k) = AboutIt(b, i)
         /\ \A i \in 2 .. Len(Items(b)) :
              /\ Items(b)[i - 1].name <= Items(b)[i].name
              /\ Items(b)[i - 1].name = Items(b)[i].name =>
                   Items(b)[i - 1].offset <= Items(b)[i].offset
         /\ Tally(b).kind = "failed" <=> HasErrors(b)
         /\ Tally(b).kind = "failed" => Tally(b).errors = Many(b, "error")
         /\ Tally(b).kind # "none" => Tally(b).warnings = Many(b, "warning")
         /\ Tally(b).kind = "none" => Many(b, "error") + Many(b, "warning") = 0
<1>1. Len(b) \in Nat /\ DOMAIN b = 1 .. Len(b)
  BY DiagType
<1>2. Len(Items(b)) = Len(b) /\ DOMAIN Items(b) = DOMAIN b
  BY ItemsPlaces
<1>3. ASSUME NEW k \in DOMAIN Items(b)
      PROVE  \E i \in DOMAIN b :
               Items(b)[k] = b[i] /\ AboutIt(Items(b), k) = AboutIt(b, i)
  <2>1. k \in DOMAIN b
    BY <1>2
  <2>2. /\ From(b, k) \in DOMAIN b /\ Items(b)[k] = b[From(b, k)]
        /\ AboutIt(Items(b), k) = AboutIt(b, From(b, k))
    BY <2>1, FromRank, ItemsPlaces, ItemsStable
  <2> QED BY <2>2
<1>4. ASSUME NEW i \in 2 .. Len(Items(b))
      PROVE  /\ Items(b)[i - 1].name <= Items(b)[i].name
             /\ Items(b)[i - 1].name = Items(b)[i].name =>
                  Items(b)[i - 1].offset <= Items(b)[i].offset
  <2>1. i \in DOMAIN b /\ i - 1 \in DOMAIN b /\ i - 1 < i
    BY <1>1, <1>2
  <2> QED BY <2>1, ItemsSorted
<1>5. /\ Many(b, "error") = Count(b, "error") /\ Many(b, "warning") = Count(b, "warning")
      /\ Count(b, "error") \in Nat /\ Count(b, "warning") \in Nat
  BY CountsErrors DEF Many, Count, Severity
<1>6. /\ Tally(b).kind = "failed" <=> HasErrors(b)
      /\ Tally(b).kind = "failed" => Tally(b).errors = Count(b, "error")
      /\ Tally(b).kind # "none" => Tally(b).warnings = Count(b, "warning")
      /\ Tally(b).kind = "none" => Count(b, "error") + Count(b, "warning") = 0
  <2> DEFINE e == Count(b, "error")
             w == Count(b, "warning")
  <2>1. e \in Nat /\ w \in Nat /\ (HasErrors(b) <=> e > 0)
    BY <1>5 DEF HasErrors
  <2>2. /\ e > 0 => Tally(b) = [kind |-> "failed", errors |-> e, warnings |-> w]
        /\ ~ (e > 0) /\ w > 0 => Tally(b) = [kind |-> "ok", warnings |-> w]
        /\ ~ (e > 0) /\ ~ (w > 0) => Tally(b) = [kind |-> "none"]
    BY DEF Tally, NoTally
  <2> HIDE DEF e, w
  <2>3. CASE e > 0
    BY <2>1, <2>2, <2>3 DEF e, w
  <2>4. CASE ~ (e > 0) /\ w > 0
    BY <2>1, <2>2, <2>4 DEF e, w
  <2>5. CASE ~ (e > 0) /\ ~ (w > 0)
    <3>1. e = 0 /\ w = 0
      BY <2>1, <2>5
    <3> QED BY <2>1, <2>2, <2>5, <3>1 DEF e, w
  <2> QED BY <2>3, <2>4, <2>5
<1> QED BY <1>2, <1>3, <1>4, <1>5, <1>6

(* Of a file, the constants. *)
LEMMA SourceType ==
  ASSUME NEW s \in Sources
  PROVE  /\ s.dore \in BOOLEAN /\ s.readable \in BOOLEAN
         /\ Reported(s) \in Seq(Diagnostics)
         /\ s.decls \in Seq([mode : {"frozen", "live"}, rows : Nat])
         /\ Len(s.decls) \in Nat /\ DOMAIN s.decls = 1 .. Len(s.decls)
         /\ \A d \in DOMAIN s.decls :
              s.decls[d].mode \in {"frozen", "live"} /\ s.decls[d].rows \in Nat
         /\ ~ HasErrors(Reported(s)) =>
              \A d \in DOMAIN s.decls : s.decls[d].mode = "frozen" => s.decls[d].rows > 0
<1>1. /\ s.dore \in BOOLEAN /\ s.readable \in BOOLEAN
      /\ s.parse \in Seq(Diagnostics) /\ s.check \in Seq(Diagnostics)
      /\ s.decls \in Seq([mode : {"frozen", "live"}, rows : Nat])
      /\ ~ HasErrors(Reported(s)) =>
           \A d \in DOMAIN s.decls : s.decls[d].mode = "frozen" => s.decls[d].rows > 0
  BY DoreAssumption
<1>2. Reported(s) \in Seq(Diagnostics)
  BY <1>1 DEF Reported, Merge
<1>3. \A T, q : q \in Seq(T) => /\ Len(q) \in Nat /\ DOMAIN q = 1 .. Len(q)
                                /\ \A d \in DOMAIN q : q[d] \in T
  OBVIOUS
<1>4. \A r : r \in [mode : {"frozen", "live"}, rows : Nat] =>
        r.mode \in {"frozen", "live"} /\ r.rows \in Nat
  OBVIOUS
<1> QED BY <1>1, <1>2, <1>3, <1>4

(* Of a command, the types. *)
LEMMA CommandType ==
  ASSUME cmd \in Commands
  PROVE  /\ cmd.verb \in {"check", "assay", "help", "other"}
         /\ cmd.impl \in {"none", "missing", "py", "other"}
         /\ Len(cmd.paths) \in Nat /\ DOMAIN cmd.paths = 1 .. Len(cmd.paths)
         /\ \A i \in DOMAIN cmd.paths : cmd.paths[i] \in Sources
<1>1. /\ cmd.verb \in {"check", "assay", "help", "other"} /\ cmd.paths \in Paths
      /\ cmd.impl \in {"none", "missing", "py", "other"}
  BY DEF Commands
<1>2. PICK n \in 0 .. MaxPaths : cmd.paths \in [1 .. n -> Sources]
  BY <1>1 DEF Paths
<1>3. n \in Nat
  BY DoreAssumption
<1>4. cmd.paths \in Seq(Sources)
  BY <1>2, <1>3
<1> QED BY <1>1, <1>4

----------------------------------------------------------------------------
(* What the report of an assay counts and shows. *)

Outcome == {"passed", "differs", "problem"}
(* A result runFn can give for a function that has rows. *)
Verdicts ==
  {r \in [problem : BOOLEAN, rows : Seq(Outcome)] :
     /\ r.problem => r.rows = <<>>
     /\ ~ r.problem => Len(r.rows) > 0}

(* Of a result, the types. *)
LEMMA VerdictType ==
  ASSUME NEW r \in Verdicts
  PROVE  /\ r.problem \in BOOLEAN
         /\ Len(r.rows) \in Nat /\ DOMAIN r.rows = 1 .. Len(r.rows)
         /\ \A k \in DOMAIN r.rows : r.rows[k] \in Outcome
         /\ r.problem => DOMAIN r.rows = {}
         /\ ~ r.problem => Len(r.rows) > 0
<1>1. /\ r.problem \in BOOLEAN /\ r.rows \in Seq(Outcome)
      /\ (r.problem => r.rows = <<>>) /\ (~ r.problem => Len(r.rows) > 0)
  BY DEF Verdicts
<1>2. Len(r.rows) \in Nat /\ DOMAIN r.rows = 1 .. Len(r.rows)
  BY <1>1
<1>3. \A k \in DOMAIN r.rows : r.rows[k] \in Outcome
  BY <1>1
<1>4. r.problem => DOMAIN r.rows = {}
  BY <1>1
<1> QED BY <1>1, <1>2, <1>3, <1>4

(* A function passes when it has no problem and no row that did not. *)
LEMMA PassesWhen ==
  ASSUME NEW r \in Verdicts
  PROVE  FnPassed(r) <=> ~ r.problem /\ \A k \in DOMAIN r.rows : r.rows[k] = "passed"
<1> DEFINE n == Len(r.rows)
           S == {i \in DOMAIN r.rows : r.rows[i] = "passed"}
<1>1. n \in Nat /\ DOMAIN r.rows = 1 .. n
  BY VerdictType
<1>2. IsFiniteSet(1 .. n) /\ Cardinality(1 .. n) = n
  BY <1>1, UpTo
<1>3. S \in SUBSET (1 .. n)
  BY <1>1
<1>4. Cardinality(S) = n <=> S = 1 .. n
  <2> HIDE DEF S, n
  <2>1. Cardinality(1 .. n) = Cardinality(S) => 1 .. n = S
    BY <1>2, <1>3, FS_Subset
  <2> QED BY <1>2, <2>1
<1>5. S = 1 .. n <=> \A k \in DOMAIN r.rows : r.rows[k] = "passed"
  BY <1>1
<1>6. PassedOf(r) = Cardinality(S)
  BY DEF PassedOf
<1> QED BY <1>4, <1>5, <1>6 DEF FnPassed

(* The rows that are counted, as pairs. *)
LEMMA RowsCounted ==
  ASSUME fns \in Seq(Verdicts), NEW results
  PROVE  /\ IsFiniteSet(RowsWhere(results))
         /\ \A x : x \in RowsWhere(results) <=>
              \E i \in DOMAIN fns : \E k \in DOMAIN fns[i].rows :
                x = <<i, k>> /\ fns[i].rows[k] \in results
<1>1. /\ Len(fns) \in Nat /\ DOMAIN fns = 1 .. Len(fns)
      /\ \A i \in DOMAIN fns : fns[i] \in Verdicts
  OBVIOUS
<1> DEFINE R(i) == {i} \X {k \in DOMAIN fns[i].rows : fns[i].rows[k] \in results}
           F == {R(i) : i \in DOMAIN fns}
           g == [i \in DOMAIN fns |-> R(i)]
<1>2. RowsWhere(results) = UNION F
  BY DEF RowsWhere
<1>3. ASSUME NEW T \in F
      PROVE  IsFiniteSet(T)
  <2>1. PICK i \in DOMAIN fns : T = R(i)
    OBVIOUS
  <2> DEFINE K == {k \in DOMAIN fns[i].rows : fns[i].rows[k] \in results}
  <2>2. Len(fns[i].rows) \in Nat /\ K \in SUBSET (1 .. Len(fns[i].rows))
    BY <1>1, VerdictType
  <2>3. IsFiniteSet(K)
    BY <2>2, UpTo, FS_Subset
  <2>4. IsFiniteSet({i})
    BY FS_Singleton
  <2>5. T = {i} \X K
    BY <2>1
  <2> HIDE DEF K
  <2> QED BY <2>3, <2>4, <2>5, FS_Product
<1>4. IsFiniteSet(F)
  <2>1. g \in Surjection(DOMAIN fns, F)
    BY DEF Surjection
  <2>2. IsFiniteSet(DOMAIN fns)
    BY <1>1, UpTo
  <2> HIDE DEF g, F
  <2> QED BY <2>1, <2>2, FS_Surjection
<1>5. IsFiniteSet(UNION F)
  <2> HIDE DEF F
  <2> QED BY <1>3, <1>4, FS_UNION
<1>6. \A x : x \in UNION F <=> \E i \in DOMAIN fns : x \in R(i)
  OBVIOUS
<1>7. \A x, i : x \in R(i) <=> \E k \in DOMAIN fns[i].rows :
                                 x = <<i, k>> /\ fns[i].rows[k] \in results
  OBVIOUS
<1> QED BY <1>2, <1>5, <1>6, <1>7

(* What AssayReport shows. *)
Red == UNION {RenderFn(i) : i \in DOMAIN fns}

(* What the report shows of the rows: those that did not pass. *)
LEMMA RedRows ==
  ASSUME fns \in Seq(Verdicts)
  PROVE  /\ \A line : line \in Red /\ line.row > 0 <=>
              \E i \in DOMAIN fns : \E k \in DOMAIN fns[i].rows :
                /\ fns[i].rows[k] # "passed"
                /\ line = [fn |-> i, row |-> k, why |-> fns[i].rows[k]]
         /\ Red = {} <=> Passed
<1>1. /\ Len(fns) \in Nat /\ DOMAIN fns = 1 .. Len(fns)
      /\ \A i \in DOMAIN fns : fns[i] \in Verdicts
  OBVIOUS
<1>2. \A line : line \in Red <=> \E i \in DOMAIN fns : line \in RenderFn(i)
  BY DEF Red
<1>3. ASSUME NEW i \in DOMAIN fns, NEW line
      PROVE  line \in RenderFn(i) /\ line.row > 0 <=>
               \E k \in DOMAIN fns[i].rows :
                 /\ fns[i].rows[k] # "passed"
                 /\ line = [fn |-> i, row |-> k, why |-> fns[i].rows[k]]
  <2>1. fns[i] \in Verdicts
    BY <1>1
  <2>2. /\ fns[i].problem => DOMAIN fns[i].rows = {}
        /\ \A k \in DOMAIN fns[i].rows : k \in Nat \ {0}
    BY <2>1, VerdictType
  <2>3. CASE fns[i].problem
    <3>1. RenderFn(i) = {[fn |-> i, row |-> 0, why |-> "problem"]}
      BY <2>3 DEF RenderFn
    <3>2. line \in RenderFn(i) => line.row = 0
      BY <3>1
    <3> QED BY <2>2, <2>3, <3>2
  <2>4. CASE ~ fns[i].problem
    <3>1. line \in RenderFn(i) <=>
            \E k \in DOMAIN fns[i].rows :
              /\ fns[i].rows[k] # "passed"
              /\ line = [fn |-> i, row |-> k, why |-> fns[i].rows[k]]
      BY <2>4 DEF RenderFn
    <3>2. line \in RenderFn(i) => line.row \in Nat \ {0}
      BY <2>2, <3>1
    <3>3. \A n \in Nat \ {0} : n > 0
      OBVIOUS
    <3> QED BY <3>1, <3>2, <3>3
  <2> QED BY <2>3, <2>4
<1>4. \A line : line \in Red /\ line.row > 0 <=>
              \E i \in DOMAIN fns : \E k \in DOMAIN fns[i].rows :
                /\ fns[i].rows[k] # "passed"
                /\ line = [fn |-> i, row |-> k, why |-> fns[i].rows[k]]
  BY <1>2, <1>3
<1>5. ASSUME NEW i \in DOMAIN fns
      PROVE  RenderFn(i) = {} <=> FnPassed(fns[i])
  <2>1. FnPassed(fns[i]) <=>
          ~ fns[i].problem /\ \A k \in DOMAIN fns[i].rows : fns[i].rows[k] = "passed"
    BY <1>1, PassesWhen
  <2> QED BY <2>1 DEF RenderFn
<1>6. Red = {} <=> \A i \in DOMAIN fns : RenderFn(i) = {}
  BY <1>2
<1>7. Red = {} <=> Passed
  BY <1>5, <1>6 DEF Passed
<1> QED BY <1>4, <1>7

(* The numbers of the last line. *)
LEMMA LastLineCounts ==
  ASSUME fns \in Seq(Verdicts)
  PROVE  /\ TotalRows \in Nat /\ PassedRows \in Nat
         /\ Passed => (TotalRows > 0 <=> Len(fns) > 0)
         /\ TotalRows - PassedRows = Cardinality({line \in Red : line.row > 0})
<1>1. /\ Len(fns) \in Nat /\ DOMAIN fns = 1 .. Len(fns)
      /\ \A i \in DOMAIN fns : fns[i] \in Verdicts
  OBVIOUS
<1> DEFINE A == RowsWhere({"passed", "differs", "problem"})
           P == RowsWhere({"passed"})
           D == {line \in Red : line.row > 0}
<1>2. IsFiniteSet(A) /\ IsFiniteSet(P)
  BY RowsCounted
<1>3. \A x : x \in A <=> \E i \in DOMAIN fns : \E k \in DOMAIN fns[i].rows :
                           x = <<i, k>> /\ fns[i].rows[k] \in {"passed", "differs", "problem"}
  BY RowsCounted
<1>4. \A x : x \in P <=> \E i \in DOMAIN fns : \E k \in DOMAIN fns[i].rows :
                           x = <<i, k>> /\ fns[i].rows[k] \in {"passed"}
  BY RowsCounted
<1>5. \A i \in DOMAIN fns : \A k \in DOMAIN fns[i].rows :
        fns[i].rows[k] \in {"passed", "differs", "problem"}
  BY <1>1, VerdictType DEF Outcome
<1>6. TotalRows = Cardinality(A) /\ PassedRows = Cardinality(P)
  BY DEF TotalRows, PassedRows
<1> HIDE DEF A, P
<1>7. TotalRows \in Nat /\ PassedRows \in Nat
  BY <1>2, <1>6, FS_CardinalityType
<1>8. TotalRows = 0 <=> A = {}
  BY <1>2, <1>6, FS_EmptySet
<1>9. ASSUME Passed
      PROVE  A = {} <=> Len(fns) = 0
  <2>1. Len(fns) = 0 => DOMAIN fns = {}
    BY <1>1
  <2>2. Len(fns) = 0 => A = {}
    BY <1>3, <2>1
  <2>3. ASSUME Len(fns) # 0 PROVE A # {}
    <3>1. 1 \in DOMAIN fns
      BY <1>1, <2>3
    <3>2. ~ fns[1].problem
      BY <1>1, <1>9, <3>1, PassesWhen DEF Passed
    <3>3. fns[1] \in Verdicts
      BY <1>1, <3>1
    <3>4. 1 \in DOMAIN fns[1].rows
      BY <3>2, <3>3, VerdictType
    <3>5. <<1, 1>> \in A
      BY <1>3, <1>5, <3>1, <3>4
    <3> QED BY <3>5
  <2> QED BY <2>2, <2>3
<1>10. Passed => (TotalRows > 0 <=> Len(fns) > 0)
  BY <1>1, <1>7, <1>8, <1>9
<1>11. P \subseteq A
  BY <1>3, <1>4, <1>5
<1>12. IsFiniteSet(A \ P) /\ Cardinality(A \ P) = TotalRows - PassedRows
  <2>1. A \cap P = P
    BY <1>11
  <2>2. /\ IsFiniteSet(A \ P)
        /\ Cardinality(A \ P) = Cardinality(A) - Cardinality(A \cap P)
    BY <1>2, FS_Difference, Zenon
  <2> QED BY <1>6, <2>1, <2>2, Zenon
<1> DEFINE Line(i, k) == [fn |-> i, row |-> k, why |-> fns[i].rows[k]]
           f == [x \in A \ P |-> Line(x[1], x[2])]
<1>13. \A x : x \in A \ P <=> \E i \in DOMAIN fns : \E k \in DOMAIN fns[i].rows :
                                x = <<i, k>> /\ fns[i].rows[k] # "passed"
  BY <1>3, <1>4, <1>5
<1>14. \A line : line \in D <=> \E i \in DOMAIN fns : \E k \in DOMAIN fns[i].rows :
                                  line = Line(i, k) /\ fns[i].rows[k] # "passed"
  BY RedRows
<1>15. f \in [A \ P -> D]
  BY <1>13, <1>14
<1>16. \A x, y \in A \ P : f[x] = f[y] => x = y
  <2> SUFFICES ASSUME NEW x \in A \ P, NEW y \in A \ P, f[x] = f[y] PROVE x = y
    OBVIOUS
  <2>1. /\ x = <<x[1], x[2]>> /\ y = <<y[1], y[2]>>
    BY <1>13
  <2>2. Line(x[1], x[2]) = Line(y[1], y[2])
    OBVIOUS
  <2>3. x[1] = y[1] /\ x[2] = y[2]
    BY <2>2
  <2> QED BY <2>1, <2>3
<1>17. \A line \in D : \E x \in A \ P : f[x] = line
  <2> SUFFICES ASSUME NEW line \in D PROVE \E x \in A \ P : f[x] = line
    OBVIOUS
  <2>1. PICK i \in DOMAIN fns : \E k \in DOMAIN fns[i].rows :
                                  line = Line(i, k) /\ fns[i].rows[k] # "passed"
    BY <1>14
  <2>2. PICK k \in DOMAIN fns[i].rows : line = Line(i, k) /\ fns[i].rows[k] # "passed"
    BY <2>1
  <2>3. <<i, k>> \in A \ P
    BY <1>13, <2>2
  <2>4. f[<<i, k>>] = Line(i, k)
    BY <2>3
  <2> QED BY <2>2, <2>3, <2>4
<1>18. Cardinality(D) = Cardinality(A \ P)
  <2> DEFINE S == A \ P
  <2> HIDE DEF f, D, S
  <2> QED BY <1>12, <1>15, <1>16, <1>17, SameSize DEF S
<1> QED BY <1>7, <1>10, <1>12, <1>18

----------------------------------------------------------------------------
(* The invariant. *)

(* What the parser and the check report of each file named. *)
Each == [i \in DOMAIN cmd.paths |-> Reported(cmd.paths[i])]

(* runCheck has read the first k files. *)
Gathered(k) ==
  /\ bag \in Seq(Diagnostics)
  /\ bag = IF k = 0 THEN <<>> ELSE Joins(Each)[k]
  /\ \A i \in 1 .. k : Loads(cmd.paths[i])
  /\ ErrorsOf(bag) = UNION {ErrorsOf(Reported(cmd.paths[i])) : i \in 1 .. k}

FrozenUpto(k) == {d \in 1 .. k : SpecFile.decls[d].mode = "frozen"}

(* assay.Run has been through the first k declarations. *)
Assayed(k) ==
  /\ Loads(SpecFile) /\ ~Invalid /\ cmd.impl = "py"
  /\ fns \in Seq(Verdicts)
  /\ IsFiniteSet(FrozenUpto(k))
  /\ Len(fns) = Cardinality(FrozenUpto(k))

(* Nothing is told before the end. *)
Untold == /\ told = <<>> /\ shown = {} /\ tally = NoTally
          /\ summary = Silent /\ code = OK

(* What is so at each stage, and of an ended command the properties. *)
DoreInv ==
  /\ cmd \in Commands
  /\ at \in {"args", "check", "assay", "fns", "exited"}
  /\ at # "exited" => Untold
  /\ at \in {"args", "assay"} => turn = 1 /\ fns = <<>>
  /\ at = "args" => bag = <<>>
  /\ at = "check" => /\ cmd.verb = "check" /\ Len(cmd.paths) > 0
                     /\ turn \in 1 .. Len(cmd.paths) + 1 /\ Gathered(turn - 1)
  /\ at \in {"assay", "fns"} => cmd.verb = "assay" /\ Len(cmd.paths) = 1
  /\ at = "fns" => turn \in 1 .. Len(SpecFile.decls) + 1 /\ Assayed(turn - 1)
  /\ at = "exited" => CheckExitTells /\ ToldInOrder /\ AssayExitTells

(* It holds at the start. *)
LEMMA DoreStart ==
  ASSUME DoreInit
  PROVE  DoreInv
BY DEF DoreInit, DoreInv, Untold

(* Nothing is told with exit code 2. *)
LEMMA LeavesQuietly ==
  ASSUME DoreInv, at # "exited", Exit(Usage, Silent), Quietly
  PROVE  DoreInv'
<1>1. /\ at' = "exited" /\ code' = Usage /\ summary' = Silent /\ cmd' = cmd
      /\ told' = <<>> /\ shown' = {} /\ tally' = NoTally
  BY DEF DoreInv, Untold, Exit, Quietly
<1>2. OK # Usage /\ Diags # Usage /\ Silent.kind = "none"
  BY DEF OK, Diags, Usage, Silent
<1>3. ErrorsOf(told') = {}
  BY <1>1 DEF ErrorsOf, Range
<1>4. CheckExitTells'
  BY <1>1, <1>2 DEF CheckExitTells
<1>5. ToldInOrder'
  BY <1>1 DEF ToldInOrder
<1>6. AssayExitTells'
  BY <1>1, <1>2, <1>3 DEF AssayExitTells
<1>7. cmd' \in Commands
  BY <1>1 DEF DoreInv
<1> QED BY <1>1, <1>4, <1>5, <1>6, <1>7 DEF DoreInv

(* Merge adds the errors of what it merges. *)
LEMMA ErrorsJoined ==
  ASSUME NEW a \in Seq(Diagnostics), NEW b \in Seq(Diagnostics)
  PROVE  ErrorsOf(a \o b) = ErrorsOf(a) \cup ErrorsOf(b)
<1>1. /\ Len(a) \in Nat /\ Len(b) \in Nat
      /\ DOMAIN a = 1 .. Len(a) /\ DOMAIN b = 1 .. Len(b)
      /\ DOMAIN (a \o b) = 1 .. Len(a) + Len(b)
  OBVIOUS
<1>2. \A i \in 1 .. Len(a) : (a \o b)[i] = a[i]
  BY <1>1
<1>3. \A i \in 1 .. Len(b) : (a \o b)[Len(a) + i] = b[i]
  BY <1>1
<1>4. \A i \in 1 .. Len(a) : i \in DOMAIN (a \o b)
  BY <1>1
<1>5. \A i \in 1 .. Len(b) : Len(a) + i \in DOMAIN (a \o b)
  BY <1>1
<1>6. \A i \in DOMAIN (a \o b) : i \in 1 .. Len(a) \/ \E j \in 1 .. Len(b) : i = Len(a) + j
  <2> TAKE i \in DOMAIN (a \o b)
  <2>1. CASE i <= Len(a)
    BY <1>1, <2>1
  <2>2. CASE ~ (i <= Len(a))
    <3>1. i - Len(a) \in 1 .. Len(b) /\ i = Len(a) + (i - Len(a))
      BY <1>1, <2>2
    <3> QED BY <3>1
  <2> QED BY <2>1, <2>2
<1>7. ASSUME NEW d \in Range(a \o b) PROVE d \in Range(a) \cup Range(b)
  <2>1. PICK i \in DOMAIN (a \o b) : d = (a \o b)[i]
    BY <1>7 DEF Range
  <2>2. CASE i \in 1 .. Len(a)
    BY <1>1, <1>2, <2>1, <2>2 DEF Range
  <2>3. CASE \E j \in 1 .. Len(b) : i = Len(a) + j
    BY <1>1, <1>3, <2>1, <2>3 DEF Range
  <2> QED BY <1>6, <2>2, <2>3
<1>8. ASSUME NEW d \in Range(a) PROVE d \in Range(a \o b)
  <2>1. PICK i \in 1 .. Len(a) : d = a[i]
    BY <1>1 DEF Range
  <2> QED BY <1>2, <1>4, <2>1 DEF Range
<1>9. ASSUME NEW d \in Range(b) PROVE d \in Range(a \o b)
  <2>1. PICK i \in 1 .. Len(b) : d = b[i]
    BY <1>1 DEF Range
  <2> QED BY <1>3, <1>5, <2>1 DEF Range
<1>10. Range(a \o b) = Range(a) \cup Range(b)
  BY <1>7, <1>8, <1>9
<1> QED BY <1>10 DEF ErrorsOf

(* runCheck reads one file more. *)
LEMMA CheckFileStep ==
  ASSUME DoreInv, CheckFile
  PROVE  DoreInv'
<1> DEFINE r == Reported(cmd.paths[turn])
<1>1. /\ at = "check" /\ turn <= Len(cmd.paths) /\ Loads(cmd.paths[turn])
      /\ bag' = bag \o r /\ turn' = turn + 1
      /\ at' = "check" /\ cmd' = cmd /\ Untold'
  BY DEF DoreInv, CheckFile, Taken, Merge, Continue, Untold
<1>2. /\ cmd \in Commands /\ cmd.verb = "check" /\ Len(cmd.paths) > 0
      /\ turn \in 1 .. Len(cmd.paths) + 1 /\ Gathered(turn - 1)
  BY <1>1 DEF DoreInv
<1>3. Len(cmd.paths) \in Nat /\ DOMAIN cmd.paths = 1 .. Len(cmd.paths)
  BY <1>2, CommandType
<1>4. turn \in Nat \ {0} /\ turn \in DOMAIN cmd.paths /\ r \in Seq(Diagnostics)
  BY <1>1, <1>2, <1>3, CommandType, SourceType
<1>5. bag \in Seq(Diagnostics)
  BY <1>2 DEF Gathered
<1>6. bag' \in Seq(Diagnostics) /\ ErrorsOf(bag') = ErrorsOf(bag) \cup ErrorsOf(r)
  BY <1>1, <1>4, <1>5, ErrorsJoined
<1>7. Each' = Each
  BY <1>1 DEF Each
<1>8. Each \in Seq(Seq(Diagnostics)) /\ Len(Each) = Len(cmd.paths) /\ Each[turn] = r
  <2>1. Each \in [1 .. Len(cmd.paths) -> Seq(Diagnostics)]
    BY <1>2, <1>3, CommandType, SourceType DEF Each
  <2> QED BY <1>3, <1>4, <2>1 DEF Each
<1>9. bag' = Joins(Each)[turn]
  <2>0. /\ Joins(Each)[1] = Each[1]
        /\ \A i \in 2 .. Len(Each) : Joins(Each)[i] = Joins(Each)[i - 1] \o Each[i]
    <3>1. Len(Each) \in Nat \ {0}
      BY <1>2, <1>3, <1>8
    <3> QED BY <3>1, JoinsStep
  <2>1. CASE turn = 1
    <3>1. bag = <<>>
      BY <1>2, <2>1 DEF Gathered
    <3>2. bag' = r
      BY <1>1, <1>4, <3>1
    <3> QED BY <1>8, <2>0, <2>1, <3>2
  <2>2. CASE turn # 1
    <3>1. turn - 1 # 0 /\ turn \in 2 .. Len(Each)
      BY <1>1, <1>2, <1>3, <1>8, <2>2
    <3>2. bag = Joins(Each)[turn - 1]
      BY <1>2, <3>1 DEF Gathered
    <3> QED BY <1>1, <1>8, <2>0, <3>1, <3>2
  <2> QED BY <2>1, <2>2
<1>10. \A i \in 1 .. turn : i \in 1 .. turn - 1 \/ i = turn
  BY <1>4
<1>11. \A i \in 1 .. turn : Loads(cmd.paths[i])
  BY <1>1, <1>2, <1>10 DEF Gathered
<1>12. ErrorsOf(bag') = UNION {ErrorsOf(Reported(cmd.paths[i])) : i \in 1 .. turn}
  <2>1. ErrorsOf(bag) = UNION {ErrorsOf(Reported(cmd.paths[i])) : i \in 1 .. turn - 1}
    BY <1>2 DEF Gathered
  <2>2. \A i \in 1 .. turn - 1 : i \in 1 .. turn
    BY <1>4
  <2>3. turn \in 1 .. turn
    BY <1>4
  <2> QED BY <1>6, <1>10, <2>1, <2>2, <2>3
<1>13. turn' - 1 = turn /\ turn # 0 /\ turn' \in 1 .. Len(cmd.paths) + 1
  BY <1>1, <1>3, <1>4
<1>14. Gathered(turn - 1)'
  BY <1>1, <1>6, <1>7, <1>9, <1>11, <1>12, <1>13 DEF Gathered, Loads
<1> QED BY <1>1, <1>2, <1>13, <1>14 DEF DoreInv

(* runCheck tells what it gathered. *)
LEMMA CheckReportStep ==
  ASSUME DoreInv, CheckReport
  PROVE  DoreInv'
<1> DEFINE n == Len(cmd.paths)
<1>1. /\ at = "check" /\ turn > n /\ cmd' = cmd /\ at' = "exited"
      /\ told' = Items(bag) /\ tally' = Tally(bag)
      /\ code' = IF HasErrors(bag) THEN Diags ELSE OK
  BY DEF CheckReport, Render, Exit
<1>2. /\ cmd \in Commands /\ cmd.verb = "check" /\ n > 0
      /\ turn \in 1 .. n + 1 /\ Gathered(turn - 1)
  BY <1>1 DEF DoreInv
<1>3. n \in Nat /\ DOMAIN cmd.paths = 1 .. n
  BY <1>2, CommandType
<1>4. turn - 1 = n
  BY <1>1, <1>2, <1>3
<1>5. bag \in Seq(Diagnostics) /\ bag = Joins(Each)[n]
      /\ (\A i \in 1 .. n : Loads(cmd.paths[i]))
      /\ ErrorsOf(bag) = UNION {ErrorsOf(Reported(cmd.paths[i])) : i \in 1 .. n}
  BY <1>2, <1>4 DEF Gathered
<1>6. Named = {cmd.paths[i] : i \in 1 .. n}
  BY <1>3 DEF Named, Range
<1>7. /\ \A s \in Named : Loads(s)
      /\ ErrorsOf(bag) = UNION {ErrorsOf(Reported(s)) : s \in Named}
  BY <1>5, <1>6
<1>8. AllReported = bag
  <2>1. Len(Each) = n
    BY <1>3 DEF Each
  <2>2. FlattenSeq(Each) = Joins(Each)[Len(Each)]
    <3>1. Len(Each) \in Nat \ {0}
      BY <1>2, <1>3, <2>1
    <3> QED BY <3>1, JoinsStep
  <2> QED BY <1>5, <2>1, <2>2 DEF AllReported, Each
<1>9. Named' = Named /\ AllReported' = AllReported
  BY <1>1 DEF Named, AllReported
<1>10. OK # Diags /\ OK # Usage /\ Diags # Usage
  BY DEF OK, Diags, Usage
<1>11. HasErrors(bag) <=> ErrorsOf(bag) # {}
  BY <1>5, CountsErrors
<1>12. ErrorsOf(told') = ErrorsOf(bag)
  BY <1>1, <1>5, ItemsPlaces DEF ErrorsOf
<1>13. CheckExitTells'
  <2>1. code' = OK => \A s \in Named : Loads(s) /\ ErrorsOf(Reported(s)) = {}
    BY <1>1, <1>7, <1>10, <1>11
  <2>2. code' = Diags => /\ ErrorsOf(told') # {}
                         /\ ErrorsOf(told') = UNION {ErrorsOf(Reported(s)) : s \in Named}
    BY <1>1, <1>7, <1>10, <1>11, <1>12
  <2>3. code' # Usage
    BY <1>1, <1>10
  <2> QED BY <1>7, <1>9, <2>1, <2>2, <2>3 DEF CheckExitTells, Loads, Reported
<1>14. ToldInOrder'
  <2>1. (Tally(bag).kind = "failed") <=> (code' = Diags)
    BY <1>1, <1>5, <1>10, RendersInOrder
  <2>2. AllReported' = bag /\ told' = Items(bag) /\ tally' = Tally(bag)
    BY <1>1, <1>8, <1>9
  <2> QED BY <1>5, <2>1, <2>2, RendersInOrder DEF ToldInOrder
<1>15. AssayExitTells'
  BY <1>1, <1>2 DEF AssayExitTells
<1>16. cmd' \in Commands
  BY <1>1, <1>2
<1> QED BY <1>1, <1>13, <1>14, <1>15, <1>16 DEF DoreInv

(* runAssay refuses a file with errors. *)
LEMMA AssayInvalidStep ==
  ASSUME DoreInv, AssayInvalid
  PROVE  DoreInv'
<1> DEFINE r == Reported(SpecFile)
<1>1. /\ at = "assay" /\ HasErrors(r) /\ at' = "exited" /\ cmd' = cmd
      /\ told' = Items(r) /\ code' = Diags /\ summary' = Silent
  BY DEF AssayInvalid, Invalid, Exit, Render
<1>2. cmd \in Commands /\ cmd.verb = "assay" /\ Len(cmd.paths) = 1
  BY <1>1 DEF DoreInv
<1>3. 1 \in DOMAIN cmd.paths
  BY <1>2, CommandType
<1>4. r \in Seq(Diagnostics)
  BY <1>2, <1>3, CommandType, SourceType DEF SpecFile
<1>5. ErrorsOf(told') # {}
  <2>1. ErrorsOf(told') = ErrorsOf(r)
    BY <1>1, <1>4, ItemsPlaces DEF ErrorsOf
  <2> QED BY <1>1, <1>4, <2>1, CountsErrors
<1>6. OK # Diags /\ Silent.kind = "none"
  BY DEF OK, Diags, Silent
<1>7. AssayExitTells'
  BY <1>1, <1>5, <1>6 DEF AssayExitTells
<1>8. CheckExitTells' /\ ToldInOrder'
  BY <1>1, <1>2 DEF CheckExitTells, ToldInOrder
<1> QED BY <1>1, <1>2, <1>7, <1>8 DEF DoreInv

(* assay.Run starts. *)
LEMMA AssayBeginStep ==
  ASSUME DoreInv, AssayBegin
  PROVE  DoreInv'
<1>1. /\ at = "assay" /\ Loads(SpecFile) /\ ~Invalid /\ cmd.impl = "py"
      /\ at' = "fns" /\ cmd' = cmd /\ turn' = turn /\ fns' = fns /\ Untold'
  BY DEF DoreInv, AssayBegin, Continue, progress, Untold
<1>2. /\ cmd \in Commands /\ cmd.verb = "assay" /\ Len(cmd.paths) = 1
      /\ turn = 1 /\ fns = <<>>
  BY <1>1 DEF DoreInv
<1>3. 1 \in DOMAIN cmd.paths
  BY <1>2, CommandType
<1>4. Len(SpecFile.decls) \in Nat
  BY <1>2, <1>3, CommandType, SourceType DEF SpecFile
<1>5. SpecFile' = SpecFile
  BY <1>1 DEF SpecFile
<1>6. FrozenUpto(0) = {} /\ (turn - 1)' = 0
  BY <1>1, <1>2 DEF FrozenUpto
<1>7. FrozenUpto(turn - 1)' = {}
  BY <1>6 DEF FrozenUpto
<1>8. Assayed(turn - 1)'
  <2>1. /\ fns' \in Seq(Verdicts) /\ Len(fns') = 0
        /\ IsFiniteSet(FrozenUpto(turn - 1)') /\ Cardinality(FrozenUpto(turn - 1)') = 0
    <3>1. fns' = <<>> /\ fns' \in Seq(Verdicts) /\ Len(fns') = 0
      BY <1>1, <1>2
    <3>2. IsFiniteSet({}) /\ Cardinality({}) = 0
      BY FS_EmptySet
    <3> QED BY <1>7, <3>1, <3>2
  <2> QED BY <1>1, <1>5, <2>1 DEF Assayed, Invalid, Loads, Reported
<1> QED BY <1>1, <1>2, <1>4, <1>5, <1>8 DEF DoreInv

(* The declaration whose turn it is. *)
LEMMA TakesTurn ==
  ASSUME DoreInv, at = "fns", turn <= Len(SpecFile.decls)
  PROVE  /\ Len(cmd.paths) = 1 /\ cmd.paths[1] \in Sources /\ cmd \in Commands
         /\ turn \in DOMAIN SpecFile.decls /\ turn \in Nat \ {0}
         /\ turn + 1 \in 1 .. Len(SpecFile.decls) + 1 /\ turn + 1 - 1 = turn
         /\ Assayed(turn - 1) /\ turn \notin FrozenUpto(turn - 1)
         /\ FrozenUpto(turn) =
              FrozenUpto(turn - 1) \cup
                (IF SpecFile.decls[turn].mode = "frozen" THEN {turn} ELSE {})
<1>1. /\ cmd \in Commands /\ Len(cmd.paths) = 1
      /\ turn \in 1 .. Len(SpecFile.decls) + 1 /\ Assayed(turn - 1)
  BY DEF DoreInv
<1>2. 1 \in DOMAIN cmd.paths
  BY <1>1, CommandType
<1>3. /\ cmd.paths[1] \in Sources
      /\ Len(SpecFile.decls) \in Nat /\ DOMAIN SpecFile.decls = 1 .. Len(SpecFile.decls)
  BY <1>1, <1>2, CommandType, SourceType DEF SpecFile
<1>4. /\ turn \in DOMAIN SpecFile.decls /\ turn \in Nat \ {0}
      /\ turn + 1 \in 1 .. Len(SpecFile.decls) + 1 /\ turn + 1 - 1 = turn
  BY <1>1, <1>3
<1>5. 1 .. turn = (1 .. turn - 1) \cup {turn} /\ turn \notin 1 .. turn - 1
  BY <1>4
<1> QED BY <1>1, <1>3, <1>4, <1>5 DEF FrozenUpto

(* It passes over a live function. *)
LEMMA SkipLiveStep ==
  ASSUME DoreInv, SkipLive
  PROVE  DoreInv'
<1>1. /\ at = "fns" /\ turn <= Len(SpecFile.decls) /\ SpecFile.decls[turn].mode = "live"
      /\ turn' = turn + 1 /\ at' = "fns" /\ cmd' = cmd /\ fns' = fns /\ Untold'
  BY DEF DoreInv, SkipLive, Continue, Untold
<1>2. cmd.verb = "assay"
  BY <1>1 DEF DoreInv
<1>3. /\ Len(cmd.paths) = 1 /\ cmd \in Commands /\ turn \in Nat
      /\ turn + 1 \in 1 .. Len(SpecFile.decls) + 1 /\ turn + 1 - 1 = turn
      /\ Assayed(turn - 1)
  BY <1>1, TakesTurn
<1>4. FrozenUpto(turn) = FrozenUpto(turn - 1)
  BY <1>1, TakesTurn
<1>5. SpecFile' = SpecFile
  BY <1>1 DEF SpecFile
<1>6. FrozenUpto(turn - 1)' = FrozenUpto(turn)
  <2>1. (turn - 1)' = turn
    BY <1>1, <1>3
  <2> QED BY <1>5, <2>1 DEF FrozenUpto
<1>7. Assayed(turn - 1)'
  BY <1>1, <1>3, <1>4, <1>5, <1>6 DEF Assayed, Invalid, Loads, Reported
<1> QED BY <1>1, <1>2, <1>3, <1>5, <1>7 DEF DoreInv

(* It assays a frozen one, which has rows. *)
LEMMA AssayFnStep ==
  ASSUME DoreInv, AssayFn
  PROVE  DoreInv'
<1>1. /\ at = "fns" /\ turn <= Len(SpecFile.decls) /\ SpecFile.decls[turn].mode = "frozen"
      /\ turn' = turn + 1 /\ at' = "fns" /\ cmd' = cmd /\ Untold'
      /\ \E r \in FnResults(SpecFile.decls[turn]) : fns' = Append(fns, r)
  BY DEF DoreInv, AssayFn, Continue, Untold
<1>2. cmd.verb = "assay"
  BY <1>1 DEF DoreInv
<1>3. /\ Len(cmd.paths) = 1 /\ cmd \in Commands /\ SpecFile \in Sources
      /\ turn \in DOMAIN SpecFile.decls
      /\ turn + 1 \in 1 .. Len(SpecFile.decls) + 1 /\ turn + 1 - 1 = turn
      /\ Assayed(turn - 1) /\ turn \notin FrozenUpto(turn - 1)
  BY <1>1, TakesTurn DEF SpecFile
<1>4. FrozenUpto(turn) = FrozenUpto(turn - 1) \cup {turn}
  BY <1>1, TakesTurn
<1>5. PICK r \in FnResults(SpecFile.decls[turn]) : fns' = Append(fns, r)
  BY <1>1
<1>6. r \in Verdicts
  <2>1. ~ HasErrors(Reported(SpecFile))
    BY <1>3 DEF Assayed, Invalid
  <2>2. SpecFile.decls[turn].rows \in Nat /\ SpecFile.decls[turn].rows > 0
    BY <1>1, <1>3, <2>1, SourceType
  <2>3. CASE r = [problem |-> TRUE, rows |-> <<>>]
    BY <2>3 DEF Verdicts
  <2>4. CASE \E rows \in [1 .. SpecFile.decls[turn].rows -> {"passed", "differs", "problem"}] :
               r = [problem |-> FALSE, rows |-> rows]
    <3>1. PICK rows \in [1 .. SpecFile.decls[turn].rows -> {"passed", "differs", "problem"}] :
                 r = [problem |-> FALSE, rows |-> rows]
      BY <2>4
    <3>2. rows \in Seq(Outcome) /\ Len(rows) > 0
      BY <2>2 DEF Outcome
    <3> QED BY <3>1, <3>2 DEF Verdicts
  <2> QED BY <1>5, <2>3, <2>4 DEF FnResults
<1>7. SpecFile' = SpecFile
  BY <1>1 DEF SpecFile
<1>8. FrozenUpto(turn - 1)' = FrozenUpto(turn)
  <2>1. (turn - 1)' = turn
    BY <1>1, <1>3
  <2> QED BY <1>7, <2>1 DEF FrozenUpto
<1>9. /\ fns \in Seq(Verdicts) /\ IsFiniteSet(FrozenUpto(turn - 1))
      /\ Len(fns) = Cardinality(FrozenUpto(turn - 1))
  BY <1>3 DEF Assayed
<1>10. fns' \in Seq(Verdicts) /\ Len(fns') = Len(fns) + 1
  BY <1>5, <1>6, <1>9
<1>11. /\ IsFiniteSet(FrozenUpto(turn))
       /\ Cardinality(FrozenUpto(turn)) = Cardinality(FrozenUpto(turn - 1)) + 1
  BY <1>3, <1>4, <1>9, FS_AddElement
<1>12. Assayed(turn - 1)'
  BY <1>1, <1>3, <1>7, <1>8, <1>9, <1>10, <1>11 DEF Assayed, Invalid, Loads, Reported
<1> QED BY <1>1, <1>2, <1>3, <1>7, <1>12 DEF DoreInv

(* runAssay renders the report and exits with it. *)
LEMMA AssayReportStep ==
  ASSUME DoreInv, AssayReport
  PROVE  DoreInv'
<1>1. /\ at = "fns" /\ turn > Len(SpecFile.decls) /\ at' = "exited" /\ cmd' = cmd
      /\ code' = IF Passed THEN OK ELSE Diags
      /\ summary' = LastLine /\ shown' = Red /\ fns' = fns /\ told' = told
  BY DEF AssayReport, Exit, Red, progress
<1>2. /\ cmd \in Commands /\ cmd.verb = "assay" /\ Len(cmd.paths) = 1
      /\ turn \in 1 .. Len(SpecFile.decls) + 1 /\ Assayed(turn - 1) /\ Untold
  BY <1>1 DEF DoreInv
<1>3. 1 \in DOMAIN cmd.paths
  BY <1>2, CommandType
<1>4. /\ SpecFile \in Sources /\ Len(SpecFile.decls) \in Nat
      /\ DOMAIN SpecFile.decls = 1 .. Len(SpecFile.decls)
      /\ Reported(SpecFile) \in Seq(Diagnostics)
  BY <1>2, <1>3, CommandType, SourceType DEF SpecFile
<1>5. FrozenUpto(turn - 1) = FrozenDecls
  <2>1. turn - 1 = Len(SpecFile.decls)
    BY <1>1, <1>2, <1>4
  <2> QED BY <1>4, <2>1 DEF FrozenUpto, FrozenDecls
<1>6. /\ fns \in Seq(Verdicts) /\ Len(fns) = Cardinality(FrozenDecls)
      /\ IsFiniteSet(FrozenDecls)
      /\ Loads(SpecFile) /\ cmd.impl = "py" /\ ErrorsOf(Reported(SpecFile)) = {}
  BY <1>2, <1>4, <1>5, CountsErrors DEF Assayed, Invalid
<1>7. Len(fns) > 0 <=> FrozenDecls # {}
  <2>1. Cardinality(FrozenDecls) = 0 <=> FrozenDecls = {}
    BY <1>6, FS_EmptySet
  <2>2. Len(fns) \in Nat
    BY <1>6
  <2> QED BY <1>6, <2>1, <2>2
<1>8. OK # Diags
  BY DEF OK, Diags
<1>9. code' = OK <=> Passed
  BY <1>1, <1>8
<1>10. ASSUME Passed, NEW i \in DOMAIN fns
       PROVE  ~ fns[i].problem /\ Range(fns[i].rows) = {"passed"}
  <2>1. fns[i] \in Verdicts
    BY <1>6
  <2>2. ~ fns[i].problem /\ \A k \in DOMAIN fns[i].rows : fns[i].rows[k] = "passed"
    BY <1>10, <2>1, PassesWhen DEF Passed
  <2>3. 1 \in DOMAIN fns[i].rows
    BY <2>1, <2>2, VerdictType
  <2> QED BY <2>2, <2>3 DEF Range
<1>11. /\ TotalRows \in Nat /\ PassedRows \in Nat
       /\ (Passed => (TotalRows > 0 <=> Len(fns) > 0))
       /\ TotalRows - PassedRows = Cardinality({line \in Red : line.row > 0})
  BY <1>6, LastLineCounts
<1>12. /\ (LastLine.kind = "ok" <=> Passed /\ TotalRows > 0)
       /\ (LastLine.kind = "failed" => LastLine.failed = TotalRows - PassedRows)
  <2>1. CASE Passed /\ TotalRows > 0
    BY <2>1 DEF LastLine
  <2>2. CASE ~ (Passed /\ TotalRows > 0) /\ TotalRows = 0
    BY <2>2 DEF LastLine
  <2>3. CASE ~ (Passed /\ TotalRows > 0) /\ TotalRows # 0
    BY <2>3 DEF LastLine
  <2> QED BY <2>1, <2>2, <2>3
<1>13. code' = Diags <=> ErrorsOf(told') # {} \/ shown' # {}
  <2>1. ErrorsOf(told') = {}
    BY <1>1, <1>2 DEF Untold, ErrorsOf, Range
  <2>2. Red = {} <=> Passed
    BY <1>6, RedRows
  <2> QED BY <1>1, <1>8, <2>1, <2>2
<1>14. SpecFile' = SpecFile /\ FrozenDecls' = FrozenDecls
  BY <1>1 DEF SpecFile, FrozenDecls
<1>15. AssayExitTells'
  <2>1. code' = OK =>
         /\ (Loads(SpecFile))' /\ ErrorsOf(Reported(SpecFile))' = {} /\ cmd'.impl = "py"
         /\ Len(fns') = Cardinality(FrozenDecls')
         /\ \A i \in DOMAIN fns' : ~fns'[i].problem /\ Range(fns'[i].rows) = {"passed"}
    BY <1>1, <1>6, <1>9, <1>10, <1>14 DEF Loads, ErrorsOf, Reported
  <2>2. summary'.kind = "ok" <=> code' = OK /\ FrozenDecls' # {}
    BY <1>1, <1>7, <1>9, <1>11, <1>12, <1>14
  <2>3. summary'.kind = "failed" =>
          summary'.failed = Cardinality({line \in shown' : line.row > 0})
    BY <1>1, <1>11, <1>12
  <2> QED BY <1>13, <2>1, <2>2, <2>3 DEF AssayExitTells
<1>16. CheckExitTells' /\ ToldInOrder'
  BY <1>1, <1>2 DEF CheckExitTells, ToldInOrder
<1> QED BY <1>1, <1>2, <1>15, <1>16 DEF DoreInv

(* Every step keeps the invariant. *)
LEMMA DoreStep ==
  ASSUME DoreInv, [DoreNext]_doreVars
  PROVE  DoreInv'
<1>1. ASSUME Refuse PROVE DoreInv'
  BY <1>1, LeavesQuietly DEF Refuse
<1>2. ASSUME Help PROVE DoreInv'
  <2>1. at' = "exited" /\ cmd' = cmd /\ cmd.verb = "help"
    BY <1>2 DEF Help, Exit
  <2>2. CheckExitTells' /\ ToldInOrder' /\ AssayExitTells'
    BY <2>1 DEF CheckExitTells, ToldInOrder, AssayExitTells
  <2> QED BY <2>1, <2>2 DEF DoreInv
<1>3. ASSUME Begin PROVE DoreInv'
  <2>1. /\ at = "args" /\ ~BadArguments /\ cmd.verb \in {"check", "assay"} /\ at' = cmd.verb
        /\ cmd' = cmd /\ Untold' /\ turn' = turn /\ bag' = bag /\ fns' = fns
    BY <1>3 DEF DoreInv, Begin, Continue, Untold, progress
  <2>2. cmd \in Commands /\ turn = 1 /\ bag = <<>> /\ fns = <<>>
    BY <2>1 DEF DoreInv
  <2>3. Len(cmd.paths) \in Nat
    BY <2>2, CommandType
  <2>4. CASE cmd.verb = "check"
    <3>1. Len(cmd.paths) > 0
      BY <2>1, <2>3, <2>4 DEF BadArguments
    <3>2. turn' - 1 = 0 /\ turn' \in 1 .. Len(cmd.paths) + 1
      BY <2>1, <2>2, <2>3
    <3>3. ErrorsOf(bag') = {} /\ bag' = <<>>
      BY <2>1, <2>2 DEF ErrorsOf, Range
    <3>4. Gathered(turn - 1)'
      BY <3>2, <3>3 DEF Gathered
    <3> QED BY <2>1, <2>2, <2>4, <3>1, <3>2, <3>4 DEF DoreInv
  <2>5. CASE cmd.verb = "assay"
    <3>1. Len(cmd.paths) = 1
      BY <2>1, <2>5 DEF BadArguments
    <3> QED BY <2>1, <2>2, <2>5, <3>1 DEF DoreInv
  <2> QED BY <2>1, <2>4, <2>5
<1>4. ASSUME CheckUnreadable PROVE DoreInv'
  BY <1>4, LeavesQuietly DEF CheckUnreadable
<1>5. ASSUME AssayUnreadable PROVE DoreInv'
  BY <1>5, LeavesQuietly DEF AssayUnreadable
<1>6. ASSUME NoBackend PROVE DoreInv'
  BY <1>6, LeavesQuietly DEF NoBackend
<1>7. ASSUME UNCHANGED doreVars PROVE DoreInv'
  <2>1. /\ cmd' = cmd /\ at' = at /\ turn' = turn /\ bag' = bag /\ fns' = fns
        /\ told' = told /\ shown' = shown /\ tally' = tally /\ summary' = summary /\ code' = code
    BY <1>7 DEF doreVars, progress
  <2>2. Each' = Each /\ SpecFile' = SpecFile /\ Named' = Named /\ AllReported' = AllReported
    BY <2>1 DEF Each, SpecFile, Named, AllReported
  <2>3. FrozenDecls' = FrozenDecls /\ FrozenUpto(turn - 1)' = FrozenUpto(turn - 1)
    BY <2>1, <2>2 DEF FrozenDecls, FrozenUpto
  <2>4. /\ Untold => Untold'
        /\ Gathered(turn - 1) => Gathered(turn - 1)'
        /\ Assayed(turn - 1) => Assayed(turn - 1)'
    BY <2>1, <2>2, <2>3 DEF Untold, Gathered, Assayed, Invalid, Loads, Reported
  <2>5. /\ CheckExitTells => CheckExitTells'
        /\ ToldInOrder => ToldInOrder'
        /\ AssayExitTells => AssayExitTells'
    BY <2>1, <2>2, <2>3 DEF CheckExitTells, ToldInOrder, AssayExitTells, Loads, Reported
  <2> QED BY <2>1, <2>2, <2>4, <2>5 DEF DoreInv
<1>8. DoreNext \/ UNCHANGED doreVars
  OBVIOUS
<1> QED BY <1>1, <1>2, <1>3, <1>4, <1>5, <1>6, <1>7, <1>8, CheckFileStep, CheckReportStep,
           AssayInvalidStep, AssayBeginStep, SkipLiveStep, AssayFnStep, AssayReportStep
        DEF DoreNext, Exited

(* Every reachable state satisfies it. *)
LEMMA DoreInvariant == DoreSpec => []DoreInv
<1>1. DoreInit => DoreInv
  BY DoreStart
<1>2. DoreInv /\ [DoreNext]_doreVars => DoreInv'
  BY DoreStep
<1> QED BY <1>1, <1>2, PTL DEF DoreSpec

(* The contract with CI (main.go:43-49): 0 from a check means that every   *)
(* file was read and none has an error, 1 that all their errors were told, *)
(* 2 that nothing was; for every list of files.                            *)
THEOREM ExitCodeTells == DoreSpec => []CheckExitTells
<1>1. DoreInv => CheckExitTells
  BY DEF DoreInv, CheckExitTells
<1> QED BY <1>1, DoreInvariant, PTL

(* A check tells every diagnostic, once for each time it was reported, in  *)
(* source order and in the order reported where that is the same           *)
(* (Bag.Items), and its last line has the right numbers.                   *)
THEOREM EverythingTold == DoreSpec => []ToldInOrder
<1>1. DoreInv => ToldInOrder
  BY DEF DoreInv, ToldInOrder
<1> QED BY <1>1, DoreInvariant, PTL

(* An assay exits with 0 exactly when the specification is valid and every *)
(* row of every frozen function passed, and says so; otherwise it shows    *)
(* what failed and the number of rows it says failed is that of the rows   *)
(* it shows (Report.Passed, Report.Counts, Renderer.Render).               *)
THEOREM AssayTells == DoreSpec => []AssayExitTells
<1>1. DoreInv => AssayExitTells
  BY DEF DoreInv, AssayExitTells
<1> QED BY <1>1, DoreInvariant, PTL

----------------------------------------------------------------------------
(* Workspace: for any invocations in any places, what is left behind, and  *)
(* whose harness an invocation runs that meets no other.                   *)

States == {"idle", "opened", "written", "ran", "done", "failed", "killed"}

TypeInv ==
  /\ pc \in [Proc -> States]
  /\ file \in [Places -> Harnesses \cup {Absent}]
  /\ ran \in [Proc -> Harnesses \cup {Absent}]

(* A place is a place of somebody's. *)
LEMMA PlaceOf == \A p \in Proc : Place[p] \in Places
BY DEF Places

(* A harness of an invocation is one of the harnesses, and is there.       *)
LEMMA HarnessThere ==
  \A p \in Proc : \A w \in BOOLEAN : Harness(p, w) \in Harnesses /\ Harness(p, w) # Absent
BY WorkspaceAssumption DEF Harnesses, Harness, Absent

(* A step keeps the types. *)
LEMMA TypeStep ==
  ASSUME TypeInv, [WorkspaceNext]_workspaceVars PROVE TypeInv'
<1>1. ASSUME NEW p \in Proc, Invocation(p) PROVE TypeInv'
  <2> USE PlaceOf, HarnessThere DEF TypeInv, Become, Leave, States
  <2>1. CASE Open(p)
    BY <2>1 DEF Open
  <2>2. CASE Write(p)
    <3>1. \/ file' = file
          \/ \E w \in BOOLEAN : file' = [file EXCEPT ![Place[p]] = Harness(p, w)]
      BY <2>2 DEF Write
    <3>2. pc' = [pc EXCEPT ![p] = "written"] /\ ran' = ran
      BY <2>2 DEF Write
    <3> QED BY <3>1, <3>2
  <2>3. CASE WriteFails(p) \/ Killed(p)
    BY <2>3 DEF WriteFails, Killed
  <2>4. CASE Run(p)
    BY <2>4 DEF Run
  <2>5. CASE CleanUp(p)
    BY <2>5 DEF CleanUp
  <2> QED BY <1>1, <2>1, <2>2, <2>3, <2>4, <2>5 DEF Invocation
<1>2. CASE UNCHANGED workspaceVars
  BY <1>2 DEF workspaceVars, TypeInv
<1> QED BY <1>1, <1>2 DEF WorkspaceNext, Ended

----------------------------------------------------------------------------
(* The inductive form of NothingLeft: a harness that is there has somebody *)
(* who is still to remove it, or never will.                               *)
Answers(p) == pc[p] \in {"opened", "written", "ran", "failed", "killed"} \/ (p \in Keeping /\ pc[p] = "done")

LeftInv ==
  \A l \in Places : file[l] # Absent => \E p \in Proc : Place[p] = l /\ Answers(p)

(* A step keeps LeftInv. *)
LEMMA LeftStep ==
  ASSUME TypeInv, LeftInv, [WorkspaceNext]_workspaceVars PROVE LeftInv'
<1>1. ASSUME NEW p \in Proc, Invocation(p) PROVE LeftInv'
  <2>1. \A q \in Proc : q # p => (Answers(q)' <=> Answers(q))
    BY <1>1 DEF Invocation, Open, Write, WriteFails, Run, CleanUp, Killed, Become, Answers, TypeInv
  <2>2. \A l \in Places : l # Place[p] => file'[l] = file[l]
    BY <1>1 DEF Invocation, Open, Write, WriteFails, Run, CleanUp, Killed, Leave, TypeInv
  <2>3. Answers(p)' \/ file'[Place[p]] = Absent
    <3>1. CASE CleanUp(p)
      BY <3>1, PlaceOf DEF CleanUp, Become, Leave, Answers, TypeInv
    <3>2. CASE ~CleanUp(p)
      BY <1>1, <3>2 DEF Invocation, Open, Write, WriteFails, Run, Killed, Become, Answers, TypeInv
    <3> QED BY <3>1, <3>2
  <2> QED BY <2>1, <2>2, <2>3 DEF LeftInv
<1>2. CASE UNCHANGED workspaceVars
  BY <1>2 DEF workspaceVars, LeftInv, Answers
<1> QED BY <1>1, <1>2 DEF WorkspaceNext, Ended

(* A harness is left behind only by an invocation that was killed, could   *)
(* not write it or was asked to keep it, however invocations overlap.      *)
THEOREM LastOneCleansUp == WorkspaceSpec => []NothingLeft
<1>1. WorkspaceInit => TypeInv /\ LeftInv
  BY DEF WorkspaceInit, TypeInv, LeftInv, States
<1>2. TypeInv /\ LeftInv /\ [WorkspaceNext]_workspaceVars => TypeInv' /\ LeftInv'
  BY TypeStep, LeftStep
<1>3. LeftInv => NothingLeft
  BY DEF LeftInv, NothingLeft, AllEnded, Answers
<1> QED BY <1>1, <1>2, <1>3, PTL DEF WorkspaceSpec

----------------------------------------------------------------------------
(* Of invocations that meet no other: the file in its place is its own.    *)
AloneInv ==
  /\ \A p, q \in Proc : Busy(p) /\ Busy(q) /\ Place[p] = Place[q] /\ p # q => p \in disturbed
  /\ \A p \in Proc \ disturbed :
       /\ pc[p] = "opened" => file[Place[p]] = Harness(p, FALSE) /\ p \notin unlinked
       /\ pc[p] = "written" => file[Place[p]] = Harness(p, TRUE)
       /\ pc[p] = "idle" => ran[p] = Absent /\ p \notin unlinked
  /\ RunsOwnHarness

(* What one invocation does leaves the others alone, but for those it      *)
(* disturbs.                                                               *)
LEMMA OthersAlone ==
  ASSUME TypeInv, AloneInv, NEW p \in Proc, Invocation(p), NEW q \in Proc \ disturbed', q # p
  PROVE  /\ q \notin disturbed /\ pc'[q] = pc[q] /\ ran'[q] = ran[q]
         /\ Busy(q) => file'[Place[q]] = file[Place[q]]
         /\ Busy(q) \/ pc[q] = "idle" => (q \in unlinked' <=> q \in unlinked)
<1>1. disturbed \subseteq disturbed'
  BY DEF Invocation, Open, Meet, Write, WriteFails, Run, CleanUp, Killed
<1>2. pc'[q] = pc[q] /\ ran'[q] = ran[q]
  BY DEF Invocation, Open, Write, WriteFails, Run, CleanUp, Killed, Become, TypeInv
<1>3. Busy(q) => Place[q] # Place[p]
  <2>1. CASE Open(p)
    BY <2>1 DEF Open, Meet, Others
  <2>2. CASE ~Open(p)
    BY <1>1, <2>2 DEF AloneInv, Invocation, Write, WriteFails, Run, CleanUp, Killed, Busy
  <2> QED BY <2>1, <2>2
<1>4. file' = file \/ \E x : file' = [file EXCEPT ![Place[p]] = x]
  BY DEF Invocation, Open, Write, WriteFails, Run, CleanUp, Killed, Leave
<1>5. unlinked' = unlinked \/ unlinked' = unlinked \cup {r \in Proc : Place[r] = Place[p] /\ pc[r] = "opened"}
  BY DEF Invocation, Open, Write, WriteFails, Run, CleanUp, Killed
<1>6. pc[q] = "idle" => pc[q] # "opened"
  OBVIOUS
<1> QED BY <1>1, <1>2, <1>3, <1>4, <1>5, <1>6, PlaceOf DEF TypeInv

(* A step keeps AloneInv. *)
LEMMA AloneStep ==
  ASSUME TypeInv, AloneInv, [WorkspaceNext]_workspaceVars PROVE AloneInv'
<1>1. ASSUME NEW p \in Proc, Invocation(p) PROVE AloneInv'
  <2>1. disturbed \subseteq disturbed'
    BY <1>1 DEF Invocation, Open, Meet, Write, WriteFails, Run, CleanUp, Killed
  <2>2. \A q \in Proc : q # p => pc'[q] = pc[q]
    BY <1>1 DEF Invocation, Open, Write, WriteFails, Run, CleanUp, Killed, Become, TypeInv
  <2>3. \A q, r \in Proc : Busy(q)' /\ Busy(r)' /\ Place[q] = Place[r] /\ q # r => q \in disturbed'
    <3>1. CASE Open(p)
      <4>1. \A q \in Proc : q # p /\ Busy(q)' /\ Place[q] = Place[p] => {q, p} \subseteq disturbed'
        BY <2>2, <3>1 DEF Open, Meet, Others, Busy
      <4> QED BY <2>1, <2>2, <4>1 DEF AloneInv, Busy
    <3>2. CASE ~Open(p)
      <4>1. Busy(p)
        BY <1>1, <3>2 DEF Invocation, Write, WriteFails, Run, CleanUp, Killed, Busy
      <4> QED BY <2>1, <2>2, <4>1 DEF AloneInv, Busy
    <3> QED BY <3>1, <3>2
  <2>4. p \notin disturbed' =>
          /\ pc'[p] = "opened" => file'[Place[p]] = Harness(p, FALSE) /\ p \notin unlinked'
          /\ pc'[p] = "written" => file'[Place[p]] = Harness(p, TRUE)
          /\ pc'[p] = "ran" \/ ran'[p] # Absent => ran'[p] = Harness(p, TRUE)
          /\ pc'[p] # "idle"
    <3> SUFFICES ASSUME p \notin disturbed'
                 PROVE  /\ pc'[p] = "opened" => file'[Place[p]] = Harness(p, FALSE) /\ p \notin unlinked'
                        /\ pc'[p] = "written" => file'[Place[p]] = Harness(p, TRUE)
                        /\ pc'[p] = "ran" \/ ran'[p] # Absent => ran'[p] = Harness(p, TRUE)
                        /\ pc'[p] # "idle"
      OBVIOUS
    <3>0. /\ pc[p] = "opened" => file[Place[p]] = Harness(p, FALSE) /\ p \notin unlinked
          /\ pc[p] = "written" => file[Place[p]] = Harness(p, TRUE)
          /\ pc[p] = "idle" => ran[p] = Absent /\ p \notin unlinked
          /\ pc[p] = "ran" \/ ran[p] # Absent => ran[p] = Harness(p, TRUE)
      BY <2>1 DEF AloneInv, RunsOwnHarness
    <3>1. CASE Open(p)
      BY <3>0, <3>1, PlaceOf, HarnessThere DEF Open, TypeInv, Become, Leave
    <3>2. CASE Write(p)
      <4>1. pc[p] = "opened" /\ ran' = ran /\ pc' = [pc EXCEPT ![p] = "written"]
        BY <3>2 DEF Write, Become
      <4>2. p \notin unlinked /\ file[Place[p]].of = p
        BY <3>0, <4>1 DEF Harness
      <4>3. file' = [file EXCEPT ![Place[p]] = Harness(p, TRUE)]
        BY <3>2, <4>2 DEF Write, Leave
      <4> QED BY <3>0, <4>1, <4>3, PlaceOf DEF TypeInv
    <3>3. CASE WriteFails(p) \/ Killed(p)
      BY <3>0, <3>3 DEF WriteFails, Killed, TypeInv, Become
    <3>4. CASE Run(p)
      BY <3>0, <3>4 DEF Run, TypeInv, Become
    <3>5. CASE CleanUp(p)
      BY <3>0, <3>5 DEF CleanUp, TypeInv, Become
    <3> QED BY <1>1, <3>1, <3>2, <3>3, <3>4, <3>5 DEF Invocation
  <2>5. \A q \in Proc \ disturbed' : q # p =>
          /\ pc'[q] = "opened" => file'[Place[q]] = Harness(q, FALSE) /\ q \notin unlinked'
          /\ pc'[q] = "written" => file'[Place[q]] = Harness(q, TRUE)
          /\ pc'[q] = "ran" \/ ran'[q] # Absent => ran'[q] = Harness(q, TRUE)
          /\ pc'[q] = "idle" => ran'[q] = Absent /\ q \notin unlinked'
    BY <1>1, OthersAlone DEF AloneInv, RunsOwnHarness, Busy
  <2> QED BY <2>3, <2>4, <2>5 DEF AloneInv, RunsOwnHarness
<1>2. CASE UNCHANGED workspaceVars
  BY <1>2 DEF workspaceVars, AloneInv, RunsOwnHarness, Busy
<1> QED BY <1>1, <1>2 DEF WorkspaceNext, Ended

(* An invocation that meets no other runs its own harness, and all of it,  *)
(* and so earns its own verdict, whatever a killed one left there.         *)
THEOREM AloneRunsItsOwn ==
  WorkspaceSpec => [](RunsOwnHarness /\ \A p \in Proc \ disturbed : Green(p) => p \in Correct)
<1>1. WorkspaceInit => TypeInv /\ AloneInv
  BY DEF WorkspaceInit, TypeInv, AloneInv, States, RunsOwnHarness, Busy
<1>2. TypeInv /\ AloneInv /\ [WorkspaceNext]_workspaceVars => TypeInv' /\ AloneInv'
  BY TypeStep, AloneStep
<1>3. AloneInv => RunsOwnHarness /\ \A p \in Proc \ disturbed : Green(p) => p \in Correct
  <2> SUFFICES ASSUME AloneInv, NEW p \in Proc \ disturbed, Green(p) PROVE p \in Correct
    BY DEF AloneInv
  <2>1. ran[p] # Absent
    BY HarnessThere DEF Green, Harnesses
  <2>2. ran[p] = Harness(p, TRUE)
    BY <2>1 DEF AloneInv, RunsOwnHarness
  <2>3. ran[p].of = p
    BY <2>2 DEF Harness
  <2> QED BY <2>3 DEF Green
<1> QED BY <1>1, <1>2, <1>3, PTL DEF WorkspaceSpec
=============================================================================
