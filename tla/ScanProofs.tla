----------------------------- MODULE ScanProofs ------------------------------
(***************************************************************************)
(* Proofs about Scan: for every file of physical lines, the logical lines  *)
(* hold its lines in their order, and a span stands where it should.       *)
(* Syntax and Signature build on them, each with files of its own.         *)
(***************************************************************************)
EXTENDS Scan, SequenceTheorems, WellFoundedInduction, TLAPS

(* A file of physical lines. *)
PhysicalFile(f) ==
  /\ f = [i \in 1 .. Len(f) |-> f[i]] /\ Len(f) \in Nat
  /\ \A i \in 1 .. Len(f) : PhysicalLine(f[i])

(* The files that are scanned are. *)
LEMMA FileType == \A f \in Files : PhysicalFile(f)
BY ScanAssumption DEF PhysicalFile

----------------------------------------------------------------------------
(* Whatever the lines and parentheses, a span given out by spanAt covers   *)
(* the runes it is meant to cover.                                         *)

Rune == Nat \X Nat
APiece == [start : Nat, len : Nat, line : Nat, col : Nat]
LogicalLine == [text : Seq(Rune), indent : Nat, line : Nat, pieces : Seq(APiece)]

(* The invariant: a piece's runes stand where the piece says, and a rune   *)
(* that is not the blank of a join is in some piece.                       *)
Located(l) ==
  \A p \in 1 .. Len(l.pieces) :
    /\ l.pieces[p].start + l.pieces[p].len <= Len(l.text)
    /\ \A d \in 0 .. l.pieces[p].len - 1 :
         l.text[l.pieces[p].start + d + 1] = <<l.pieces[p].line, l.pieces[p].col + d>>
Covered(l) ==
  \A x \in 1 .. Len(l.text) : l.text[x] # Gap =>
    \E p \in 1 .. Len(l.pieces) :
      l.pieces[p].start <= x - 1 /\ x - 1 < l.pieces[p].start + l.pieces[p].len
Sound(l) == l \in LogicalLine /\ Located(l) /\ Covered(l)

ScanInv ==
  /\ PhysicalFile(file)
  /\ n \in Nat \ {0} /\ depth \in Nat /\ cur \in 0 .. Len(out)
  /\ out \in Seq(LogicalLine)
  /\ n <= Len(file) + 1
  /\ depth > 0 <=> cur # 0
  /\ cur \in {0, Len(out)}
  /\ \A k \in 1 .. Len(out) : Sound(out[k])

(* The runes of a joined text: those of t, the blank, and those of b.      *)
LEMMA JoinRunes ==
  \A t, one, b \in Seq(Rune) : Len(one) = 1 =>
    /\ t \o (one \o b) \in Seq(Rune) /\ Len(t \o (one \o b)) = Len(t) + 1 + Len(b)
    /\ \A x \in 1 .. Len(t) : (t \o (one \o b))[x] = t[x]
    /\ (t \o (one \o b))[Len(t) + 1] = one[1]
    /\ \A y \in 1 .. Len(b) : (t \o (one \o b))[Len(t) + 1 + y] = b[y]
<1> SUFFICES ASSUME NEW t \in Seq(Rune), NEW one \in Seq(Rune), NEW b \in Seq(Rune), Len(one) = 1
             PROVE  /\ t \o (one \o b) \in Seq(Rune) /\ Len(t \o (one \o b)) = Len(t) + 1 + Len(b)
                    /\ \A x \in 1 .. Len(t) : (t \o (one \o b))[x] = t[x]
                    /\ (t \o (one \o b))[Len(t) + 1] = one[1]
                    /\ \A y \in 1 .. Len(b) : (t \o (one \o b))[Len(t) + 1 + y] = b[y]
  BY Zenon
<1> DEFINE T == one \o b
           j == t \o T
<1>1. Len(t) \in Nat /\ Len(b) \in Nat
  OBVIOUS
<1>3. /\ T \in Seq(Rune) /\ Len(T) = 1 + Len(b)
      /\ \A y \in 1 .. 1 + Len(b) : T[y] = IF y <= 1 THEN one[y] ELSE b[y - 1]
  <2>1. /\ one \o b \in Seq(Rune) /\ Len(one \o b) = Len(one) + Len(b)
        /\ \A y \in 1 .. Len(one) + Len(b) :
             (one \o b)[y] = IF y <= Len(one) THEN one[y] ELSE b[y - Len(one)]
    BY ConcatProperties, Zenon
  <2> QED BY <2>1
<1>4. T[1] = one[1] /\ \A y \in 1 .. Len(b) : T[1 + y] = b[y]
  BY <1>1, <1>3
<1> HIDE DEF T
<1>5. /\ j \in Seq(Rune) /\ Len(j) = Len(t) + (1 + Len(b))
      /\ \A x \in 1 .. Len(t) + (1 + Len(b)) : j[x] = IF x <= Len(t) THEN t[x] ELSE T[x - Len(t)]
  <2>1. /\ t \o T \in Seq(Rune) /\ Len(t \o T) = Len(t) + Len(T)
        /\ \A x \in 1 .. Len(t) + Len(T) :
             (t \o T)[x] = IF x <= Len(t) THEN t[x] ELSE T[x - Len(t)]
    BY <1>3, ConcatProperties, Zenon
  <2> QED BY <1>3, <2>1
<1> HIDE DEF j
<1>6. \A y \in 1 .. 1 + Len(b) : j[Len(t) + y] = T[y]
  <2> SUFFICES ASSUME NEW y \in 1 .. 1 + Len(b) PROVE j[Len(t) + y] = T[y]
    OBVIOUS
  <2>1. /\ Len(t) + y \in 1 .. Len(t) + (1 + Len(b)) /\ ~(Len(t) + y <= Len(t))
        /\ (Len(t) + y) - Len(t) = y
    BY <1>1
  <2> QED BY <1>5, <2>1
<1>7. j[Len(t) + 1] = one[1]
  BY <1>1, <1>4, <1>6
<1>8. \A y \in 1 .. Len(b) : j[Len(t) + 1 + y] = b[y]
  <2> SUFFICES ASSUME NEW y \in 1 .. Len(b) PROVE j[Len(t) + 1 + y] = b[y]
    OBVIOUS
  <2>1. 1 + y \in 1 .. 1 + Len(b) /\ Len(t) + (1 + y) = Len(t) + 1 + y
    BY <1>1
  <2> QED BY <1>4, <1>6, <2>1
<1>9. Len(j) = Len(t) + 1 + Len(b) /\ \A x \in 1 .. Len(t) : j[x] = t[x]
  BY <1>1, <1>5
<1> QED BY <1>5, <1>7, <1>8, <1>9 DEF j, T

(* What the assumption says of one line of the file. *)
LEMMA LineType ==
  ASSUME PhysicalFile(file), NEW i \in 1 .. Len(file)
  PROVE  /\ Len(file) \in Nat
         /\ file[i].indent \in Nat /\ file[i].len \in Nat /\ file[i].delta \in Int
BY DEF PhysicalFile, PhysicalLine

(* The runes of a line's body, and its piece. *)
LEMMA BodyType ==
  ASSUME PhysicalFile(file), NEW i \in 1 .. Len(file)
  PROVE  /\ Body(i) \in Seq(Rune) /\ Len(Body(i)) = file[i].len
         /\ \A c \in 1 .. file[i].len : Body(i)[c] = <<i, file[i].indent + c>>
<1>1. i \in Nat /\ file[i].indent \in Nat /\ file[i].len \in Nat
  BY LineType
<1>2. \A c \in 1 .. file[i].len : <<i, file[i].indent + c>> \in Rune
  BY <1>1 DEF Rune
<1>3. Body(i) \in [1 .. file[i].len -> Rune]
  BY <1>2 DEF Body
<1>4. Body(i) \in Seq(Rune) /\ Len(Body(i)) = file[i].len
  BY <1>1, <1>3
<1> QED BY <1>4 DEF Body

(* A piece of a logical line is a record of naturals.                      *)
LEMMA PieceType ==
  ASSUME PhysicalFile(file), NEW i \in 1 .. Len(file), NEW start \in Nat
  PROVE  Piece(start, i) \in APiece
BY LineType DEF Piece, APiece

(* The runes of a line's only piece, and their columns. *)
LEMMA FirstRunes ==
  ASSUME NEW len \in Nat, NEW indent \in Nat, NEW d \in 0 .. len - 1
  PROVE  /\ d + 1 \in 1 .. len /\ 0 + d + 1 = d + 1
         /\ (indent + 1) + d = indent + (d + 1)
OBVIOUS

(* A line just opened. *)
LEMMA FreshSound ==
  ASSUME PhysicalFile(file), NEW i \in 1 .. Len(file)
  PROVE  Sound(Fresh(i))
<1> DEFINE q == Piece(0, i)
           l == Fresh(i)
<1>1. /\ l.text = Body(i) /\ l.pieces = <<q>>
      /\ q \in APiece /\ q.start = 0 /\ q.len = file[i].len
      /\ q.line = i /\ q.col = file[i].indent + 1
      /\ file[i].len \in Nat /\ file[i].indent \in Nat
  BY PieceType, LineType DEF Fresh, Piece
<1>2. l \in LogicalLine
  BY <1>1, BodyType, LineType DEF Fresh, LogicalLine
<1>3. Len(l.pieces) = 1 /\ l.pieces[1] = q
  BY <1>1
<1>4. Located(l)
  <2> SUFFICES ASSUME NEW d \in 0 .. q.len - 1
               PROVE  l.text[q.start + d + 1] = <<q.line, q.col + d>>
    BY <1>1, <1>3, BodyType DEF Located
  <2>1. /\ d + 1 \in 1 .. file[i].len /\ q.start + d + 1 = d + 1
        /\ q.col + d = file[i].indent + (d + 1)
    <3>1. d \in 0 .. file[i].len - 1
      BY <1>1
    <3>2. /\ d + 1 \in 1 .. file[i].len /\ 0 + d + 1 = d + 1
          /\ (file[i].indent + 1) + d = file[i].indent + (d + 1)
      BY <1>1, <3>1, FirstRunes, Zenon
    <3> QED BY <1>1, <3>2
  <2>2. Body(i)[d + 1] = <<i, file[i].indent + (d + 1)>>
    BY <2>1, BodyType
  <2> QED BY <1>1, <2>1, <2>2
<1>5. Covered(l)
  BY <1>1, <1>3, BodyType DEF Covered
<1> QED BY <1>2, <1>4, <1>5 DEF Sound

(* Places in a text of m runes that grows. *)
LEMMA AddedPlaces ==
  ASSUME NEW m \in Nat, NEW len \in Nat
  PROVE  \A start, size \in Nat : start + size <= m =>
           /\ start + size <= m + 1 + len
           /\ \A d \in 0 .. size - 1 : start + d + 1 \in 1 .. m
OBVIOUS

(* An offset in a piece, advanced within a span clipped to the piece.      *)
LEMMA WithinPiece ==
  ASSUME NEW off \in Nat, NEW start \in Nat, NEW size \in Nat, NEW col \in Nat,
         NEW len \in Nat, NEW d \in 0 .. len - 1,
         start <= off, len <= size - (off - start)
  PROVE  /\ off - start + d \in 0 .. size - 1
         /\ off + d + 1 = start + (off - start + d) + 1
         /\ (col + (off - start)) + d = col + (off - start + d)
OBVIOUS

(* The text and the pieces of a line after a join. *)
LEMMA JoinedParts ==
  ASSUME PhysicalFile(file), NEW i \in 1 .. Len(file), NEW l \in LogicalLine
  PROVE  LET j == Joined(l, i)
             m == Len(l.text)
             c == Len(l.pieces)
         IN /\ j \in LogicalLine
            /\ m \in Nat /\ c \in Nat
            /\ Len(j.text) = m + 1 + file[i].len
            /\ \A x \in 1 .. m : j.text[x] = l.text[x]
            /\ j.text[m + 1] = Gap
            /\ \A y \in 1 .. file[i].len : j.text[m + 1 + y] = <<i, file[i].indent + y>>
            /\ Len(j.pieces) = c + 1
            /\ \A p \in 1 .. c : j.pieces[p] = l.pieces[p]
            /\ j.pieces[c + 1] = Piece(m + 1, i)
<1> DEFINE j == Joined(l, i)
           T == l.text \o (<<Gap>> \o Body(i))
           P == Append(l.pieces, Piece(Len(l.text) + 1, i))
<1>1. l.text \in Seq(Rune) /\ l.pieces \in Seq(APiece) /\ Len(l.text) \in Nat /\ Len(l.pieces) \in Nat
  BY DEF LogicalLine
<1>2. Body(i) \in Seq(Rune) /\ Len(Body(i)) = file[i].len
  BY BodyType
<1>3. Gap \in Rune
  BY DEF Gap, Rune
<1>4. /\ T \in Seq(Rune) /\ Len(T) = Len(l.text) + 1 + file[i].len
      /\ \A x \in 1 .. Len(l.text) : T[x] = l.text[x]
      /\ T[Len(l.text) + 1] = Gap
      /\ \A y \in 1 .. file[i].len : T[Len(l.text) + 1 + y] = Body(i)[y]
  <2>1. /\ T \in Seq(Rune) /\ Len(T) = Len(l.text) + 1 + Len(Body(i))
        /\ \A x \in 1 .. Len(l.text) : T[x] = l.text[x]
        /\ T[Len(l.text) + 1] = Gap
        /\ \A y \in 1 .. Len(Body(i)) : T[Len(l.text) + 1 + y] = Body(i)[y]
    <3> DEFINE B == Body(i)
               blank == <<Gap>>
    <3>1. B \in Seq(Rune) /\ T = l.text \o (blank \o B)
      BY <1>2
    <3>2. blank \in Seq(Rune) /\ Len(blank) = 1 /\ blank[1] = Gap
      BY <1>3
    <3> HIDE DEF B, T, blank
    <3> DEFINE L == l.text
    <3>3. L \in Seq(Rune)
      BY <1>1
    <3> HIDE DEF L
    <3>4. /\ L \o (blank \o B) \in Seq(Rune) /\ Len(L \o (blank \o B)) = Len(L) + 1 + Len(B)
          /\ \A x \in 1 .. Len(L) : (L \o (blank \o B))[x] = L[x]
          /\ (L \o (blank \o B))[Len(L) + 1] = blank[1]
          /\ \A y \in 1 .. Len(B) : (L \o (blank \o B))[Len(L) + 1 + y] = B[y]
      BY <3>1, <3>2, <3>3, JoinRunes, Zenon
    <3> QED BY <3>1, <3>2, <3>4 DEF B, L
  <2> HIDE DEF T
  <2> QED BY <1>2, <2>1
<1>5. Piece(Len(l.text) + 1, i) \in APiece
  BY <1>1, PieceType
<1>6. /\ P \in Seq(APiece) /\ Len(P) = Len(l.pieces) + 1
      /\ \A p \in 1 .. Len(l.pieces) : P[p] = l.pieces[p]
      /\ P[Len(l.pieces) + 1] = Piece(Len(l.text) + 1, i)
  BY <1>1, <1>5
<1>7. \A y \in 1 .. file[i].len : T[Len(l.text) + 1 + y] = <<i, file[i].indent + y>>
  BY <1>4, BodyType
<1> HIDE DEF T, P
<1>8. j = [l EXCEPT !.text = T, !.pieces = P]
  BY DEF Joined, T, P
<1>9. j.text = T /\ j.pieces = P /\ j \in LogicalLine
  BY <1>4, <1>6, <1>8 DEF LogicalLine
<1> QED BY <1>1, <1>4, <1>6, <1>7, <1>9

(* A line to which another is joined. *)
LEMMA JoinedSound ==
  ASSUME PhysicalFile(file), NEW i \in 1 .. Len(file), NEW l, Sound(l)
  PROVE  Sound(Joined(l, i))
<1> DEFINE j == Joined(l, i)
           m == Len(l.text)
           c == Len(l.pieces)
           q == Piece(m + 1, i)
<1>0. l \in LogicalLine /\ Located(l) /\ Covered(l)
  BY DEF Sound
<1>1. /\ j \in LogicalLine
      /\ m \in Nat /\ c \in Nat
      /\ Len(j.text) = m + 1 + file[i].len
      /\ \A x \in 1 .. m : j.text[x] = l.text[x]
      /\ j.text[m + 1] = Gap
      /\ \A y \in 1 .. file[i].len : j.text[m + 1 + y] = <<i, file[i].indent + y>>
      /\ Len(j.pieces) = c + 1
      /\ \A p \in 1 .. c : j.pieces[p] = l.pieces[p]
      /\ j.pieces[c + 1] = q
  BY <1>0, JoinedParts
<1>2. /\ file[i].len \in Nat /\ file[i].indent \in Nat
      /\ q.start = m + 1 /\ q.len = file[i].len /\ q.line = i /\ q.col = file[i].indent + 1
  BY LineType DEF Piece
<1>3. \A p \in 1 .. c : l.pieces[p] \in APiece
  BY <1>0 DEF LogicalLine
<1>m. m \in Nat /\ c \in Nat /\ Len(j.text) = m + 1 + file[i].len
  BY <1>1
<1> HIDE DEF j, m, c, q
<1>4. Located(j)
  <2>1. ASSUME NEW p \in 1 .. c
        PROVE  /\ j.pieces[p].start + j.pieces[p].len <= Len(j.text)
               /\ \A d \in 0 .. j.pieces[p].len - 1 :
                    j.text[j.pieces[p].start + d + 1] = <<j.pieces[p].line, j.pieces[p].col + d>>
    <3>1. l.pieces[p].start \in Nat /\ l.pieces[p].len \in Nat
      BY <1>3 DEF APiece
    <3>2. l.pieces[p].start + l.pieces[p].len <= m
      BY <1>0 DEF Located, m, c
    <3>3. \A d \in 0 .. l.pieces[p].len - 1 :
            l.text[l.pieces[p].start + d + 1] = <<l.pieces[p].line, l.pieces[p].col + d>>
      BY <1>0 DEF Located, c
    <3>4. j.pieces[p] = l.pieces[p]
      BY <1>1
    <3>5. \A d \in 0 .. l.pieces[p].len - 1 : l.pieces[p].start + d + 1 \in 1 .. m
      BY <1>m, <1>2, <3>1, <3>2, AddedPlaces
    <3>6. l.pieces[p].start + l.pieces[p].len <= Len(j.text)
      BY <1>m, <1>2, <3>1, <3>2, AddedPlaces
    <3> QED BY <1>1, <3>3, <3>4, <3>5, <3>6
  <2>2. /\ j.pieces[c + 1].start + j.pieces[c + 1].len <= Len(j.text)
        /\ \A d \in 0 .. j.pieces[c + 1].len - 1 :
             j.text[j.pieces[c + 1].start + d + 1]
               = <<j.pieces[c + 1].line, j.pieces[c + 1].col + d>>
    <3>1. ASSUME NEW d \in 0 .. q.len - 1
          PROVE  j.text[q.start + d + 1] = <<q.line, q.col + d>>
      <4>1. /\ d + 1 \in 1 .. file[i].len /\ q.start + d + 1 = m + 1 + (d + 1)
            /\ q.col + d = file[i].indent + (d + 1)
        <5>1. d \in 0 .. file[i].len - 1
          BY <1>2
        <5> DEFINE len == file[i].len
                   indent == file[i].indent
        <5>2. len \in Nat /\ indent \in Nat /\ m \in Nat /\ d \in 0 .. len - 1
          BY <1>m, <1>2, <5>1
        <5> HIDE DEF len, indent
        <5>3. /\ d + 1 \in 1 .. len /\ (m + 1) + d + 1 = m + 1 + (d + 1)
              /\ (indent + 1) + d = indent + (d + 1)
          BY <5>2
        <5> QED BY <1>2, <5>3 DEF len, indent
      <4> QED BY <1>1, <1>2, <4>1
    <3>2. q.start + q.len <= Len(j.text)
      BY <1>m, <1>2
    <3> QED BY <1>1, <3>1, <3>2
  <2>3. \A p \in 1 .. Len(j.pieces) : p \in 1 .. c \/ p = c + 1
    BY <1>1
  <2> QED BY <2>1, <2>2, <2>3 DEF Located
<1>5. Covered(j)
  <2> SUFFICES ASSUME NEW x \in 1 .. Len(j.text), j.text[x] # Gap
               PROVE  \E p \in 1 .. Len(j.pieces) :
                        j.pieces[p].start <= x - 1 /\ x - 1 < j.pieces[p].start + j.pieces[p].len
    BY DEF Covered
  <2>1. CASE x \in 1 .. m
    <3>1. l.text[x] # Gap
      BY <1>1, <2>1
    <3>2. PICK p \in 1 .. c :
            l.pieces[p].start <= x - 1 /\ x - 1 < l.pieces[p].start + l.pieces[p].len
      BY <1>0, <2>1, <3>1 DEF Covered, m, c
    <3>3. p \in 1 .. Len(j.pieces) /\ j.pieces[p] = l.pieces[p]
      BY <1>1
    <3> QED BY <3>2, <3>3
  <2>2. CASE x \notin 1 .. m
    <3>1. x # m + 1 /\ x > m + 1
      BY <1>1, <2>2
    <3>2. c + 1 \in 1 .. Len(j.pieces) /\ q.start <= x - 1 /\ x - 1 < q.start + q.len
      BY <1>1, <1>2, <3>1
    <3> QED BY <1>1, <3>2
  <2> QED BY <2>1, <2>2
<1> QED BY <1>1, <1>4, <1>5 DEF Sound, j

----------------------------------------------------------------------------
(* The invariant is inductive. *)

LEMMA ScanStart ==
  ASSUME PhysicalFile(file), Unscanned
  PROVE  ScanInv
BY DEF Unscanned, PhysicalFile, ScanInv

(* One physical line of scanLines keeps the invariant of the scanner.      *)
LEMMA ScanStep ==
  ASSUME ScanInv, ScanNext
  PROVE  ScanInv'
<1>0. /\ PhysicalFile(file) /\ n \in Nat \ {0} /\ depth \in Nat /\ cur \in 0 .. Len(out)
      /\ out \in Seq(LogicalLine) /\ Len(out) \in Nat
      /\ depth > 0 <=> cur # 0
      /\ cur \in {0, Len(out)}
      /\ \A k \in 1 .. Len(out) : Sound(out[k])
  BY LenProperties DEF ScanInv
<1>1. Len(file) \in Nat
  BY <1>0 DEF PhysicalFile
<1>2. CASE Separate
  BY <1>0, <1>1, <1>2 DEF Separate, ScanInv
<1>3. ASSUME n \in 1 .. Len(file), NEW open \in Nat \ {0}, Parens(open)
      PROVE  /\ depth' \in Nat /\ cur' \in {0, open}
             /\ depth' > 0 <=> cur' # 0
  <2>1. file[n].delta \in Int
    BY <1>0, <1>3, LineType
  <2> QED BY <1>0, <1>3, <2>1 DEF Parens, DepthAfter
<1>4. CASE Continue
  <2>1. /\ n \in 1 .. Len(file) /\ cur = Len(out) /\ cur \in 1 .. Len(out)
        /\ out' = [out EXCEPT ![cur] = Joined(out[cur], n)]
        /\ Parens(cur) /\ n' = n + 1 /\ file' = file
    BY <1>0, <1>1, <1>4 DEF Continue
  <2>2. Sound(Joined(out[cur], n))
    BY <1>0, <2>1, JoinedSound
  <2> DEFINE J == Joined(out[cur], n)
  <2>3. J \in LogicalLine
    BY <2>2 DEF Sound
  <2> HIDE DEF J
  <2>4. /\ out' \in Seq(LogicalLine) /\ Len(out') = Len(out)
        /\ \A k \in 1 .. Len(out) : out'[k] = IF k = cur THEN J ELSE out[k]
    BY <1>0, <2>1, <2>3, ExceptSeq DEF J
  <2>5. \A k \in 1 .. Len(out') : Sound(out'[k])
    BY <1>0, <2>2, <2>4 DEF J
  <2>6. /\ depth' \in Nat /\ cur' \in {0, cur} /\ (depth' > 0 <=> cur' # 0)
    BY <1>0, <1>3, <2>1
  <2> QED BY <1>0, <1>1, <2>1, <2>4, <2>5, <2>6 DEF ScanInv
<1>5. CASE OpenLine
  <2>1. /\ n \in 1 .. Len(file) /\ out' = Append(out, Fresh(n))
        /\ Parens(Len(out) + 1) /\ n' = n + 1 /\ file' = file
    BY <1>0, <1>1, <1>5 DEF OpenLine
  <2> DEFINE F == Fresh(n)
  <2>2. Sound(F)
    BY <1>0, <2>1, FreshSound
  <2>3. F \in LogicalLine
    BY <2>2 DEF Sound
  <2> HIDE DEF F
  <2>4. /\ out' \in Seq(LogicalLine) /\ Len(out') = Len(out) + 1
        /\ \A k \in 1 .. Len(out) : out'[k] = out[k]
        /\ out'[Len(out) + 1] = F
    BY <1>0, <2>1, <2>3 DEF F
  <2>5. \A k \in 1 .. Len(out') : Sound(out'[k])
    BY <1>0, <2>2, <2>4
  <2>6. Len(out) + 1 \in Nat \ {0}
    BY <1>0
  <2>7. depth' \in Nat /\ cur' \in {0, Len(out) + 1} /\ (depth' > 0 <=> cur' # 0)
    BY <1>3, <2>1, <2>6
  <2> QED BY <1>0, <1>1, <2>1, <2>4, <2>5, <2>7 DEF ScanInv
<1> QED BY <1>2, <1>4, <1>5 DEF ScanNext

----------------------------------------------------------------------------
(* The invariant gives the spans. *)

(* A non-empty set of numbers has a least one. *)
LEMMA LeastOf ==
  ASSUME NEW S \in SUBSET Nat, S # {}
  PROVE  \E m \in S : \A x \in S : m <= x
<1>1. PICK m \in S : \A y \in S : ~ (<<y, m>> \in OpToRel(<, Nat))
  BY NatLessThanWellFounded, WFMin, Zenon
<1>2. \A x \in S : m <= x
  <2> SUFFICES ASSUME NEW x \in S, ~ (m <= x) PROVE FALSE
    OBVIOUS
  <2>1. x \in Nat /\ m \in Nat /\ x < m
    OBVIOUS
  <2> QED BY <1>1, <2>1 DEF OpToRel
<1> QED BY <1>2

(* spanAt names the piece a rune of the joined text came from.             *)
LEMMA SpanSound ==
  ASSUME NEW l, Sound(l), NEW off \in 0 .. Len(l.text) - 1, NEW want \in 0 .. Len(l.text),
         l.text[off + 1] # Gap,
         NEW d \in 0 .. SpanAt(l, off, want).len - 1
  PROVE  /\ off + d + 1 <= Len(l.text)
         /\ l.text[off + d + 1] = <<SpanAt(l, off, want).line, SpanAt(l, off, want).col + d>>
<1> DEFINE H == Holding(l, off)
           h == CHOOSE q \in H : \A r \in H : q <= r
           p == l.pieces[h]
           s == SpanAt(l, off, want)
<1>1. l \in LogicalLine /\ Located(l) /\ Covered(l) /\ Len(l.text) \in Nat /\ Len(l.pieces) \in Nat
  BY DEF Sound, LogicalLine
<1>2. off + 1 \in 1 .. Len(l.text) /\ (off + 1) - 1 = off /\ off \in Nat
  BY <1>1
<1>3. H # {} /\ H \in SUBSET Nat
  <2>1. \E q \in 1 .. Len(l.pieces) :
          l.pieces[q].start <= (off + 1) - 1 /\ (off + 1) - 1 < l.pieces[q].start + l.pieces[q].len
    BY <1>1, <1>2 DEF Covered
  <2> QED BY <1>1, <1>2, <2>1 DEF Holding
<1>4. h \in H
  <2>1. \E q \in H : \A r \in H : q <= r
    BY <1>3, LeastOf
  <2> QED BY <2>1
<1>5. /\ h \in 1 .. Len(l.pieces) /\ p.start <= off /\ off < p.start + p.len
  BY <1>4 DEF Holding
<1>6. p.start \in Nat /\ p.len \in Nat /\ p.col \in Nat
  <2>1. l.pieces \in Seq(APiece) /\ h \in 1 .. Len(l.pieces)
    BY <1>1, <1>5 DEF LogicalLine
  <2>2. p \in APiece
    BY <2>1, ElementOfSeq
  <2> QED BY <2>2 DEF APiece
<1> DEFINE room == p.len - (off - p.start)
           got == IF want > room THEN room ELSE want
<1>7. s = [line |-> p.line, col |-> p.col + (off - p.start), len |-> IF got < 1 THEN 1 ELSE got]
  BY <1>3 DEF SpanAt
<1>8. /\ p.start + p.len <= Len(l.text)
      /\ \A e \in 0 .. p.len - 1 : l.text[p.start + e + 1] = <<p.line, p.col + e>>
  BY <1>1, <1>5 DEF Located
<1>9. s.line = p.line /\ s.col = p.col + (off - p.start) /\ s.len = IF got < 1 THEN 1 ELSE got
  BY <1>7
<1>10. d \in 0 .. s.len - 1
  OBVIOUS
<1> HIDE DEF s, p, h, H
<1>w. want \in Nat /\ off \in Nat
  BY <1>1
<1>r. s.len \in Nat /\ s.len <= room
  <2>1. room \in Nat \ {0}
    BY <1>w, <1>5, <1>6
  <2> QED BY <1>w, <1>9, <2>1
<1>11. off - p.start + d \in 0 .. p.len - 1
  BY <1>w, <1>r, <1>5, <1>6, <1>10, WithinPiece
<1>12. /\ off + d + 1 = p.start + (off - p.start + d) + 1
       /\ s.col + d = p.col + (off - p.start + d)
  BY <1>w, <1>r, <1>5, <1>6, <1>9, <1>10, WithinPiece
<1>13. l.text[off + d + 1] = <<s.line, s.col + d>>
  BY <1>8, <1>9, <1>11, <1>12
<1>14. off + d + 1 <= Len(l.text)
  <2> DEFINE e == off - p.start + d
  <2>1. e \in 0 .. p.len - 1 /\ off + d + 1 = p.start + e + 1
    BY <1>11, <1>12
  <2> HIDE DEF e
  <2>2. p.start + p.len <= Len(l.text) /\ Len(l.text) \in Nat
    BY <1>1, <1>8
  <2> QED BY <1>6, <2>1, <2>2
<1> QED BY <1>13, <1>14 DEF s

(* Where the scanner keeps its invariant, its spans point and its only     *)
(* open line is the last.                                                  *)
LEMMA ScanInvSpans ==
  ASSUME ScanInv
  PROVE  SpansPoint /\ OpenIsLast
<1>1. \A k \in 1 .. Len(out) : Sound(out[k])
  BY DEF ScanInv
<1>2. SpansPoint
  BY <1>1, SpanSound DEF SpansPoint
<1>3. OpenIsLast
  BY DEF ScanInv, OpenIsLast
<1> QED BY <1>2, <1>3

----------------------------------------------------------------------------
(* The lines of the file are in the logical lines, in their order.         *)

LastPiece(l) == l.pieces[Len(l.pieces)]
Ascending(l, m) ==
  /\ Len(l.pieces) >= 1 /\ l.line = l.pieces[1].line
  /\ \A j \in 1 .. Len(l.pieces) : l.pieces[j].line \in 1 .. m - 1
  /\ \A j \in 1 .. Len(l.pieces) - 1 : l.pieces[j].line < l.pieces[j + 1].line
Ordered ==
  /\ \A k \in 1 .. Len(out) : Ascending(out[k], n)
  /\ \A k \in 1 .. Len(out) - 1 : LastPiece(out[k]).line < out[k + 1].line
  /\ \A i \in 1 .. n - 1 : file[i].len > 0 =>
       \E k \in 1 .. Len(out) : \E j \in 1 .. Len(out[k].pieces) : out[k].pieces[j].line = i

(* A line ascends still when more of the file has been read.               *)
LEMMA AscendsOn ==
  ASSUME NEW m \in Nat, NEW l, Ascending(l, m)
  PROVE  Ascending(l, m + 1)
<1>1. \A x \in 1 .. m - 1 : x \in 1 .. (m + 1) - 1
  OBVIOUS
<1> QED BY <1>1 DEF Ascending

(* A fresh line has the one piece it was opened with.                      *)
LEMMA FreshAscends ==
  ASSUME NEW i \in Nat \ {0}
  PROVE  /\ Ascending(Fresh(i), i + 1) /\ Fresh(i).line = i
         /\ Len(Fresh(i).pieces) = 1 /\ Fresh(i).pieces[1].line = i
<1>1. Fresh(i).pieces = <<Piece(0, i)>> /\ Fresh(i).line = i
  BY DEF Fresh
<1>2. Piece(0, i).line = i
  BY DEF Piece
<1>3. Len(Fresh(i).pieces) = 1 /\ Fresh(i).pieces[1].line = i
  BY <1>1, <1>2
<1> QED BY <1>1, <1>3 DEF Ascending

(* A joined line ends with the line that was joined to it.                 *)
LEMMA JoinedAscends ==
  ASSUME PhysicalFile(file), NEW i \in 1 .. Len(file), NEW l \in LogicalLine, Ascending(l, i)
  PROVE  LET j == Joined(l, i)
         IN /\ Ascending(j, i + 1) /\ j.line = l.line /\ LastPiece(j).line = i
            /\ \A p \in 1 .. Len(l.pieces) : p \in 1 .. Len(j.pieces) /\ j.pieces[p] = l.pieces[p]
            /\ Len(j.pieces) \in 1 .. Len(j.pieces)
<1> DEFINE j == Joined(l, i)
           c == Len(l.pieces)
<1>1. /\ c \in Nat /\ Len(j.pieces) = c + 1
      /\ \A p \in 1 .. c : j.pieces[p] = l.pieces[p]
      /\ j.pieces[c + 1] = Piece(Len(l.text) + 1, i)
  BY JoinedParts
<1>2. j.line = l.line
  BY DEF Joined, LogicalLine
<1>3. j.pieces[c + 1].line = i /\ i \in Nat
  BY <1>1 DEF PhysicalFile, Piece
<1> HIDE DEF j
<1>4. /\ c >= 1 /\ l.line = l.pieces[1].line
      /\ \A p \in 1 .. c : l.pieces[p].line \in 1 .. i - 1
      /\ \A p \in 1 .. c - 1 : l.pieces[p].line < l.pieces[p + 1].line
  BY DEF Ascending
<1> HIDE DEF c
<1>5. \A p \in 1 .. Len(j.pieces) : p = c + 1 \/ p \in 1 .. c
  BY <1>1
<1>6. \A p \in 1 .. Len(j.pieces) - 1 : p = c \/ (p \in 1 .. c - 1 /\ p + 1 \in 1 .. c)
  BY <1>1
<1>7. c \in 1 .. c /\ 1 \in 1 .. c
  BY <1>1, <1>4
<1>8. \A p \in 1 .. Len(j.pieces) : j.pieces[p].line \in 1 .. (i + 1) - 1
  <2>1. \A x \in 1 .. i - 1 : x \in 1 .. (i + 1) - 1
    BY <1>3
  <2>2. i \in 1 .. (i + 1) - 1
    BY <1>3
  <2> QED BY <1>1, <1>3, <1>4, <1>5, <2>1, <2>2
<1>9. ASSUME NEW p \in 1 .. Len(j.pieces) - 1 PROVE j.pieces[p].line < j.pieces[p + 1].line
  <2>1. CASE p = c
    <3>1. j.pieces[c].line \in 1 .. i - 1
      BY <1>1, <1>4, <1>7
    <3> QED BY <1>3, <2>1, <3>1
  <2>2. CASE p \in 1 .. c - 1 /\ p + 1 \in 1 .. c
    <3>1. p \in 1 .. c
      BY <1>1, <2>2
    <3> QED BY <1>1, <1>4, <2>2, <3>1
  <2> QED BY <1>6, <2>1, <2>2
<1>10. LastPiece(j).line = i
  BY <1>1, <1>3 DEF LastPiece
<1>11. Len(j.pieces) >= 1 /\ j.line = j.pieces[1].line
  BY <1>1, <1>2, <1>4, <1>7
<1>12. Len(j.pieces) \in 1 .. Len(j.pieces) /\ \A p \in 1 .. c : p \in 1 .. Len(j.pieces)
  BY <1>1
<1>13. Ascending(j, i + 1)
  BY <1>8, <1>9, <1>11 DEF Ascending
<1> QED BY <1>1, <1>2, <1>10, <1>12, <1>13 DEF j, c

(* One physical line of scanLines keeps the order.                         *)
LEMMA OrderStep ==
  ASSUME ScanInv, Ordered, ScanNext
  PROVE  Ordered'
<1>0. /\ PhysicalFile(file) /\ n \in Nat \ {0} /\ Len(file) \in Nat
      /\ out \in Seq(LogicalLine) /\ Len(out) \in Nat
      /\ cur \in {0, Len(out)}
  BY DEF PhysicalFile, ScanInv
<1>1. file' = file /\ n' = n + 1 /\ n \in 1 .. Len(file)
  BY <1>0 DEF ScanNext, Separate, Continue, OpenLine
<1>2. \A i \in 1 .. n' - 1 : i \in 1 .. n - 1 \/ i = n
  BY <1>0, <1>1
<1>3. /\ \A k \in 1 .. Len(out) : Ascending(out[k], n) /\ Ascending(out[k], n')
      /\ \A k \in 1 .. Len(out) - 1 : LastPiece(out[k]).line < out[k + 1].line
      /\ \A i \in 1 .. n - 1 : file[i].len > 0 =>
           \E k \in 1 .. Len(out) : \E j \in 1 .. Len(out[k].pieces) : out[k].pieces[j].line = i
  BY <1>0, <1>1, AscendsOn DEF Ordered
<1>4. CASE Separate
  <2>1. out' = out /\ ~ (file[n].len > 0)
    BY <1>4 DEF Separate
  <2> QED BY <1>1, <1>2, <1>3, <2>1 DEF Ordered
<1>5. CASE Continue
  <2> DEFINE J == Joined(out[cur], n)
  <2>1. cur = Len(out) /\ cur \in 1 .. Len(out) /\ out' = [out EXCEPT ![cur] = J]
    BY <1>0, <1>5 DEF Continue
  <2>2. out[cur] \in LogicalLine
    BY <1>0, <2>1, ElementOfSeq
  <2>3. /\ Ascending(J, n') /\ J.line = out[cur].line /\ LastPiece(J).line = n
        /\ \A p \in 1 .. Len(out[cur].pieces) : p \in 1 .. Len(J.pieces) /\ J.pieces[p] = out[cur].pieces[p]
        /\ Len(J.pieces) \in 1 .. Len(J.pieces)
    BY <1>0, <1>1, <1>3, <2>1, <2>2, JoinedAscends
  <2> HIDE DEF J
  <2>4. /\ Len(out') = Len(out) /\ out'[cur] = J
        /\ \A k \in 1 .. Len(out) : k # cur => out'[k] = out[k]
    BY <1>0, <2>1
  <2>5. \A k \in 1 .. Len(out') : Ascending(out'[k], n')
    BY <1>3, <2>3, <2>4
  <2>6. \A k \in 1 .. Len(out') - 1 : LastPiece(out'[k]).line < out'[k + 1].line
    <3> SUFFICES ASSUME NEW k \in 1 .. Len(out') - 1 PROVE LastPiece(out'[k]).line < out'[k + 1].line
      OBVIOUS
    <3>1. k \in 1 .. Len(out) /\ k # cur /\ k + 1 \in 1 .. Len(out) /\ k \in 1 .. Len(out) - 1
      BY <1>0, <2>1, <2>4
    <3>2. out'[k] = out[k] /\ out'[k + 1].line = out[k + 1].line
      BY <2>3, <2>4, <3>1
    <3> QED BY <1>3, <3>1, <3>2
  <2>7. ASSUME NEW i \in 1 .. n' - 1, file[i].len > 0
        PROVE  \E k \in 1 .. Len(out') : \E j \in 1 .. Len(out'[k].pieces) : out'[k].pieces[j].line = i
    <3>1. CASE i = n
      BY <2>1, <2>3, <2>4, <3>1 DEF LastPiece
    <3>2. CASE i \in 1 .. n - 1
      <4>p. PICK k \in 1 .. Len(out) : \E j \in 1 .. Len(out[k].pieces) : out[k].pieces[j].line = i
        BY <1>3, <2>7, <3>2
      <4>1. PICK j \in 1 .. Len(out[k].pieces) : out[k].pieces[j].line = i
        BY <4>p
      <4>2. j \in 1 .. Len(out'[k].pieces) /\ out'[k].pieces[j].line = i
        BY <2>3, <2>4, <4>1
      <4> QED BY <2>4, <4>2
    <3> QED BY <1>2, <3>1, <3>2
  <2> QED BY <1>1, <2>5, <2>6, <2>7 DEF Ordered
<1>6. CASE OpenLine
  <2> DEFINE F == Fresh(n)
  <2>1. out' = Append(out, F) /\ F \in LogicalLine
    BY <1>0, <1>1, <1>6, FreshSound DEF OpenLine, Sound
  <2>2. /\ Ascending(F, n') /\ F.line = n /\ 1 \in 1 .. Len(F.pieces) /\ F.pieces[1].line = n
    <3>1. n \in Nat \ {0}
      BY <1>0
    <3>2. Ascending(Fresh(n), n + 1) /\ Fresh(n).line = n /\ Len(Fresh(n).pieces) = 1 /\ Fresh(n).pieces[1].line = n
      BY <3>1, FreshAscends
    <3> QED BY <1>1, <3>2
  <2> HIDE DEF F
  <2>3. /\ Len(out') = Len(out) + 1 /\ out'[Len(out) + 1] = F
        /\ \A k \in 1 .. Len(out) : out'[k] = out[k]
    BY <1>0, <2>1
  <2>4. \A k \in 1 .. Len(out') : k = Len(out) + 1 \/ k \in 1 .. Len(out)
    BY <1>0, <2>3
  <2>5. \A k \in 1 .. Len(out') : Ascending(out'[k], n')
    BY <1>3, <2>2, <2>3, <2>4
  <2>6. ASSUME NEW k \in 1 .. Len(out') - 1 PROVE LastPiece(out'[k]).line < out'[k + 1].line
    <3>1. k \in 1 .. Len(out) /\ out'[k] = out[k]
      BY <1>0, <2>3
    <3>2. CASE k = Len(out)
      <4>1. Len(out[k].pieces) \in 1 .. Len(out[k].pieces)
        <5>1. out[k] \in LogicalLine /\ Len(out[k].pieces) >= 1
          BY <1>0, <1>3, <3>1, ElementOfSeq DEF Ascending
        <5> QED BY <5>1 DEF LogicalLine
      <4>2. LastPiece(out[k]).line \in 1 .. n - 1
        BY <1>3, <3>1, <4>1 DEF Ascending, LastPiece
      <4> QED BY <1>0, <2>2, <2>3, <3>1, <3>2, <4>2
    <3>3. CASE k # Len(out)
      <4>1. k \in 1 .. Len(out) - 1 /\ k + 1 \in 1 .. Len(out)
        BY <1>0, <3>1, <3>3
      <4> QED BY <1>3, <2>3, <3>1, <4>1
    <3> QED BY <3>2, <3>3
  <2>7. ASSUME NEW i \in 1 .. n' - 1, file[i].len > 0
        PROVE  \E k \in 1 .. Len(out') : \E j \in 1 .. Len(out'[k].pieces) : out'[k].pieces[j].line = i
    <3>1. CASE i = n
      <4>1. Len(out) + 1 \in 1 .. Len(out')
        BY <1>0, <2>3
      <4> QED BY <2>2, <2>3, <3>1, <4>1
    <3>2. CASE i \in 1 .. n - 1
      <4>p. PICK k \in 1 .. Len(out) : \E j \in 1 .. Len(out[k].pieces) : out[k].pieces[j].line = i
        BY <1>3, <2>7, <3>2
      <4>1. PICK j \in 1 .. Len(out[k].pieces) : out[k].pieces[j].line = i
        BY <4>p
      <4>2. k \in 1 .. Len(out') /\ out'[k] = out[k]
        BY <1>0, <2>3
      <4> QED BY <4>1, <4>2
    <3> QED BY <1>2, <3>1, <3>2
  <2> QED BY <1>1, <2>5, <2>6, <2>7 DEF Ordered
<1> QED BY <1>4, <1>5, <1>6 DEF ScanNext

(* Where the lines have been kept in order, the property says so.          *)
LEMMA OrderedInOrder ==
  ASSUME ScanInv, Ordered
  PROVE  LinesInOrder
BY DEF Ordered, Ascending, LinesInOrder, LastPiece

----------------------------------------------------------------------------
(* What a logical line is built of: the physical lines it joins, each      *)
(* whole, one blank between each two and nothing else.                     *)

OfLine(f, q) ==
  /\ q.line \in 1 .. Len(f) /\ q.len = f[q.line].len
  /\ q.len > 0 /\ q.col = f[q.line].indent + 1
Abut(l) ==
  /\ \A p \in 1 .. Len(l.pieces) - 1 :
       /\ l.pieces[p + 1].start = l.pieces[p].start + l.pieces[p].len + 1
       /\ l.text[l.pieces[p + 1].start] = Gap
  /\ LastPiece(l).start + LastPiece(l).len = Len(l.text)
Built(f, l) ==
  /\ Len(l.pieces) >= 1 /\ l.pieces[1].start = 0
  /\ l.line = l.pieces[1].line /\ l.indent = f[l.line].indent
  /\ \A p \in 1 .. Len(l.pieces) : OfLine(f, l.pieces[p])
  /\ Abut(l)

(* A line just opened is built of one physical line.                       *)
LEMMA FreshBuilt ==
  ASSUME PhysicalFile(file), NEW i \in 1 .. Len(file), file[i].len > 0
  PROVE  Built(file, Fresh(i))
<1> DEFINE f == Fresh(i)
<1>1. /\ f.pieces = <<Piece(0, i)>> /\ f.line = i /\ f.indent = file[i].indent /\ f.text = Body(i)
      /\ i \in Nat /\ file[i].len \in Nat
  BY LineType DEF Fresh
<1>2. Len(f.text) = file[i].len
  BY <1>1, BodyType
<1> HIDE DEF f
<1>3. /\ Len(f.pieces) = 1 /\ f.pieces[1].start = 0 /\ f.pieces[1].len = file[i].len
      /\ f.pieces[1].line = i /\ f.pieces[1].col = file[i].indent + 1
  BY <1>1 DEF Piece
<1>4. OfLine(file, f.pieces[1])
  BY <1>3 DEF OfLine
<1>5. Abut(f)
  BY <1>1, <1>2, <1>3 DEF Abut, LastPiece
<1>6. Built(file, f)
  BY <1>1, <1>3, <1>4, <1>5 DEF Built
<1> QED BY <1>6 DEF f

(* A line to which another is joined is built of one more.                 *)
LEMMA JoinedBuilt ==
  ASSUME PhysicalFile(file), NEW i \in 1 .. Len(file), file[i].len > 0, NEW l, Sound(l), Built(file, l)
  PROVE  Built(file, Joined(l, i))
<1>0. l \in LogicalLine
  BY DEF Sound
<1> DEFINE j == Joined(l, i)
           m == Len(l.text)
           c == Len(l.pieces)
<1>1. /\ m \in Nat /\ c \in Nat
      /\ Len(j.text) = m + 1 + file[i].len
      /\ \A x \in 1 .. m : j.text[x] = l.text[x]
      /\ j.text[m + 1] = Gap
      /\ Len(j.pieces) = c + 1
      /\ \A p \in 1 .. c : j.pieces[p] = l.pieces[p]
      /\ j.pieces[c + 1] = Piece(m + 1, i)
  BY <1>0, JoinedParts
<1>2. j.line = l.line /\ j.indent = l.indent
  BY <1>0 DEF Joined, LogicalLine
<1>3. /\ c >= 1 /\ l.pieces[1].start = 0
      /\ l.line = l.pieces[1].line /\ l.indent = file[l.line].indent
      /\ \A p \in 1 .. c : OfLine(file, l.pieces[p])
      /\ \A p \in 1 .. c - 1 : /\ l.pieces[p + 1].start = l.pieces[p].start + l.pieces[p].len + 1
                              /\ l.text[l.pieces[p + 1].start] = Gap
      /\ l.pieces[c].start + l.pieces[c].len = m
  BY DEF Built, Abut, LastPiece
<1>4. \A p \in 1 .. c : l.pieces[p] \in APiece
  BY <1>0 DEF LogicalLine
<1>5. file[i].len \in Nat /\ file[i].indent \in Nat
  BY LineType
<1> HIDE DEF j, m, c
<1>6. /\ j.pieces[c + 1].start = m + 1 /\ j.pieces[c + 1].len = file[i].len
      /\ j.pieces[c + 1].line = i /\ j.pieces[c + 1].col = file[i].indent + 1
  BY <1>1 DEF Piece
<1>7. \A p \in 1 .. c + 1 : OfLine(file, j.pieces[p])
  <2>1. OfLine(file, j.pieces[c + 1])
    BY <1>6 DEF OfLine
  <2>2. \A p \in 1 .. c + 1 : p = c + 1 \/ p \in 1 .. c
    BY <1>1
  <2> QED BY <1>1, <1>3, <2>1, <2>2
<1>8. ASSUME NEW p \in 1 .. c
      PROVE  /\ j.pieces[p + 1].start = j.pieces[p].start + j.pieces[p].len + 1
             /\ j.text[j.pieces[p + 1].start] = Gap
  <2>1. CASE p = c
    BY <1>1, <1>3, <1>6, <2>1
  <2>2. CASE p # c
    <3>1. p \in 1 .. c - 1 /\ p \in 1 .. c /\ p + 1 \in 1 .. c
      BY <1>1, <2>2
    <3>2. j.pieces[p] = l.pieces[p] /\ j.pieces[p + 1] = l.pieces[p + 1]
      BY <1>1, <3>1
    <3>3. /\ l.pieces[p + 1].start = l.pieces[p].start + l.pieces[p].len + 1
          /\ l.text[l.pieces[p + 1].start] = Gap
      BY <1>3, <3>1
    <3>4. l.pieces[p + 1].start \in 1 .. m
      <4>1. /\ l.pieces[p].start \in Nat /\ l.pieces[p].len \in Nat
            /\ l.pieces[p + 1].start \in Nat /\ l.pieces[p + 1].len \in Nat
        <5>1. l.pieces[p] \in APiece /\ l.pieces[p + 1] \in APiece
          BY <1>4, <3>1
        <5> QED BY <5>1 DEF APiece
      <4>2. \A q \in 1 .. c : l.pieces[q].start + l.pieces[q].len <= m
        BY DEF Sound, Located, m, c
      <4>3. l.pieces[p + 1].start + l.pieces[p + 1].len <= m
        BY <3>1, <4>2
      <4>4. m \in Nat
        BY <1>1
      <4>5. l.pieces[p + 1].start = l.pieces[p].start + l.pieces[p].len + 1
        BY <3>3
      <4> DEFINE a == l.pieces[p]
                 b == l.pieces[p + 1]
      <4>6. /\ a.start \in Nat /\ a.len \in Nat /\ b.start \in Nat /\ b.len \in Nat
            /\ b.start = a.start + a.len + 1 /\ b.start + b.len <= m
        BY <4>1, <4>3, <4>5
      <4> HIDE DEF a, b
      <4>7. b.start \in 1 .. m
        BY <4>4, <4>6
      <4> QED BY <4>7 DEF b
    <3> QED BY <1>1, <3>2, <3>3, <3>4
  <2> QED BY <2>1, <2>2
<1>9. Abut(j)
  <2>1. LastPiece(j) = j.pieces[c + 1]
    BY <1>1 DEF LastPiece
  <2>2. \A p \in 1 .. Len(j.pieces) - 1 : p \in 1 .. c
    BY <1>1
  <2>3. LastPiece(j).start + LastPiece(j).len = Len(j.text)
    BY <1>1, <1>6, <2>1
  <2> QED BY <1>8, <2>2, <2>3 DEF Abut
<1>10. 1 \in 1 .. c /\ Len(j.pieces) >= 1
  BY <1>1, <1>3
<1>11. j.pieces[1] = l.pieces[1]
  BY <1>1, <1>10
<1>12. Built(file, j)
  BY <1>1, <1>2, <1>3, <1>7, <1>9, <1>10, <1>11 DEF Built
<1> QED BY <1>12 DEF j

(* One physical line of scanLines keeps the logical lines built so.        *)
AllBuilt == \A k \in 1 .. Len(out) : Built(file, out[k])
LEMMA BuiltStep ==
  ASSUME ScanInv, AllBuilt, ScanNext
  PROVE  AllBuilt'
<1>0. /\ PhysicalFile(file) /\ n \in Nat \ {0} /\ Len(file) \in Nat
      /\ out \in Seq(LogicalLine) /\ Len(out) \in Nat
      /\ cur \in {0, Len(out)}
      /\ \A k \in 1 .. Len(out) : Sound(out[k])
  BY DEF PhysicalFile, ScanInv
<1>1. file' = file /\ n \in 1 .. Len(file)
  BY <1>0 DEF ScanNext, Separate, Continue, OpenLine
<1>3. SUFFICES \A k \in 1 .. Len(out') : Built(file, out'[k])
  BY <1>1 DEF AllBuilt
<1>4. CASE Separate
  BY <1>4 DEF Separate, AllBuilt
<1>5. CASE Continue
  <2> DEFINE J == Joined(out[cur], n)
  <2>1. cur = Len(out) /\ cur \in 1 .. Len(out) /\ out' = [out EXCEPT ![cur] = J] /\ file[n].len > 0
    BY <1>0, <1>5 DEF Continue
  <2>2. Sound(out[cur]) /\ Built(file, out[cur])
    BY <1>0, <2>1 DEF AllBuilt
  <2>3. Built(file, J)
    BY <1>0, <1>1, <2>1, <2>2, JoinedBuilt
  <2> HIDE DEF J
  <2>4. /\ Len(out') = Len(out) /\ out'[cur] = J
        /\ \A k \in 1 .. Len(out) : k # cur => out'[k] = out[k]
    BY <1>0, <2>1
  <2> QED BY <2>3, <2>4 DEF AllBuilt
<1>6. CASE OpenLine
  <2> DEFINE F == Fresh(n)
  <2>1. out' = Append(out, F) /\ F \in LogicalLine /\ file[n].len > 0
    BY <1>0, <1>1, <1>6, FreshSound DEF OpenLine, Sound
  <2>2. Built(file, F)
    BY <1>0, <1>1, <2>1, FreshBuilt
  <2> HIDE DEF F
  <2>3. /\ Len(out') = Len(out) + 1 /\ out'[Len(out) + 1] = F
        /\ \A k \in 1 .. Len(out) : out'[k] = out[k]
    BY <1>0, <2>1
  <2>4. \A k \in 1 .. Len(out') : k = Len(out) + 1 \/ k \in 1 .. Len(out)
    BY <1>0, <2>3
  <2> QED BY <2>2, <2>3, <2>4 DEF AllBuilt
<1> QED BY <1>4, <1>5, <1>6 DEF ScanNext
=============================================================================
