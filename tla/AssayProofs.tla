---------------------------- MODULE AssayProofs -----------------------------
(* The gate, for every function, cap, pipe, implementation and point at    *)
(* which the child dies: a green verdict rests on what the rows did or on  *)
(* records the implementation printed itself, a red one is not invented,   *)
(* and nothing but a verdict is left behind.                               *)
EXTENDS Assay, SequenceTheorems, WellFoundedInduction, TLAPS

----------------------------------------------------------------------------
(* Crucible: what holds of every run of a child, for every cap, pipe and   *)
(* set of lines. *)

(* Cutting a sequence at n loses nothing. *)
LEMMA CutSeq ==
  ASSUME NEW S, NEW s \in Seq(S), NEW n \in 0 .. Len(s)
  PROVE  /\ SubSeq(s, 1, n) \in Seq(S) /\ Len(SubSeq(s, 1, n)) = n
         /\ SubSeq(s, n + 1, Len(s)) \in Seq(S)
         /\ Len(SubSeq(s, n + 1, Len(s))) = Len(s) - n
         /\ SubSeq(s, 1, n) \o SubSeq(s, n + 1, Len(s)) = s
<1>1. Len(s) \in Nat /\ \A i \in 1 .. Len(s) : s[i] \in S
  BY LenProperties, ElementOfSeq
<1>2. SubSeq(s, 1, n) \in Seq(S) /\ Len(SubSeq(s, 1, n)) = n
  <2>1. \A i \in 1 .. n : s[i] \in S
    BY <1>1
  <2> QED BY <2>1, SubSeqProperties, n \in Int, 1 \in Int
<1>3. SubSeq(s, n + 1, Len(s)) \in Seq(S) /\ Len(SubSeq(s, n + 1, Len(s))) = Len(s) - n
  <2>1. \A i \in n + 1 .. Len(s) : s[i] \in S
    BY <1>1
  <2> QED BY <1>1, <2>1, SubSeqProperties, n + 1 \in Int
<1>4. SubSeq(s, 1, n) \o SubSeq(s, n + 1, Len(s)) = SubSeq(s, 1, Len(s))
  BY <1>1, ConcatAdjacentSubSeq, 1 \in 1 .. Len(s) + 1, n \in 1 - 1 .. Len(s), Len(s) \in n .. Len(s)
<1> QED BY <1>2, <1>3, <1>4, SubSeqFull

(* The first part of a concatenation is its prefix of that length. *)
LEMMA PrefixOfConcat ==
  ASSUME NEW S, NEW s \in Seq(S), NEW t \in Seq(S)
  PROVE  SubSeq(s \o t, 1, Len(s)) = s
<1>1. s \o t \in Seq(S) /\ Len(s) \in Nat /\ Len(s \o t) = Len(s) + Len(t) /\ Len(t) \in Nat
  BY ConcatProperties, LenProperties
<1>2. /\ SubSeq(s \o t, 1, Len(s)) \in Seq(S)
      /\ Len(SubSeq(s \o t, 1, Len(s))) = Len(s)
  BY <1>1, CutSeq, Len(s) \in 0 .. Len(s \o t)
<1>3. \A i \in 1 .. Len(s) : SubSeq(s \o t, 1, Len(s))[i] = s[i]
  <2>1. \A i \in 1 .. Len(s) : (s \o t)[i] = s[i] /\ (s \o t)[i] \in S
    BY <1>1, ConcatProperties, ElementOfSeq
  <2>2. \A i \in 1 .. Len(s) - 1 + 1 : SubSeq(s \o t, 1, Len(s))[i] = (s \o t)[1 + i - 1]
    BY <1>1, <2>1, SubSeqProperties, 1 \in Int, Len(s) \in Int
  <2> QED BY <1>1, <2>1, <2>2
<1> QED BY <1>2, <1>3, SeqEqual

(* The cap is positive whatever the caller passed. *)
LEMMA MaxOutputPositive == MaxOutput \in Nat \ {0}
BY CrucibleAssumption DEF MaxOutput

(* A chunk is split where the cap says, inside the chunk. *)
LEMMA KeptWithinChunk ==
  ASSUME TypeOK, NEW n \in 1 .. Len(pipe)
  PROVE  /\ Kept(n) \in 0 .. n
         /\ Len(stdout) + Kept(n) <= MaxOutput
         /\ Kept(n) < n => Len(stdout) + Kept(n) = MaxOutput
<1>1. Len(stdout) \in Nat /\ Len(pipe) \in Nat
  BY LenProperties DEF TypeOK
<1> QED BY <1>1, MaxOutputPositive DEF TypeOK, Kept, Lesser

(* The three pieces Copy makes of the pipe: kept, discarded, still there. *)
LEMMA CopyPieces ==
  ASSUME TypeOK, NEW n \in 1 .. Len(pipe)
  PROVE  LET kept == SubSeq(pipe, 1, Kept(n))
             dropped == SubSeq(pipe, Kept(n) + 1, n)
             rest == SubSeq(pipe, n + 1, Len(pipe))
         IN  /\ kept \in Seq(Line) /\ Len(kept) = Kept(n)
             /\ dropped \in Seq(Line) /\ Len(dropped) = n - Kept(n)
             /\ rest \in Seq(Line) /\ Len(rest) = Len(pipe) - n
             /\ pipe = kept \o (dropped \o rest)
<1> DEFINE k == Kept(n)
           kept == SubSeq(pipe, 1, k)
           dropped == SubSeq(pipe, k + 1, n)
           rest == SubSeq(pipe, n + 1, Len(pipe))
<1>1. pipe \in Seq(Line) /\ Len(pipe) \in Nat /\ k \in 0 .. n
  BY LenProperties, KeptWithinChunk DEF TypeOK
<1> HIDE DEF k
<1>2. kept \in Seq(Line) /\ Len(kept) = k
  BY <1>1, CutSeq, k \in 0 .. Len(pipe)
<1>3. rest \in Seq(Line) /\ Len(rest) = Len(pipe) - n
  BY <1>1, CutSeq, n \in 0 .. Len(pipe)
<1>4. dropped \in Seq(Line) /\ Len(dropped) = n - k
  <2>1. \A i \in k + 1 .. n : pipe[i] \in Line
    BY <1>1, ElementOfSeq
  <2> QED BY <1>1, <2>1, SubSeqProperties, k + 1 \in Int, n \in Int
<1>5. dropped \o rest = SubSeq(pipe, k + 1, Len(pipe))
  BY <1>1, ConcatAdjacentSubSeq, k + 1 \in 1 .. Len(pipe) + 1, n \in (k + 1) - 1 .. Len(pipe),
     Len(pipe) \in n .. Len(pipe)
<1>6. pipe = kept \o (dropped \o rest)
  BY <1>1, <1>5, CutSeq, k \in 0 .. Len(pipe)
<1> QED BY <1>2, <1>3, <1>4, <1>6 DEF k

(* What Run may return. *)
LEMMA ResultsCover ==
  /\ Pending \in Results
  /\ \A why \in {"not found", "start"} : RunError(why) \in Results
  /\ \A late \in BOOLEAN : \A how \in {"new", "exited", "killed"} : RunResult(late, how) \in Results
BY DEF Results, Pending, RunError, RunResult

(* Every step keeps the types and the two bounds. *)
LEMMA TypeStep == TypeOK /\ [Next]_crucibleVars => TypeOK'
<1> SUFFICES ASSUME TypeOK, [Next]_crucibleVars PROVE TypeOK'
  OBVIOUS
<1> USE DEF TypeOK, stream
<1>1. CASE Start
  BY <1>1 DEF Start
<1>2. ASSUME NEW why \in {"not found", "start"}, StartFails(why) PROVE TypeOK'
  BY <1>2, ResultsCover DEF StartFails
<1>3. CASE StartTooLate
  BY <1>3, ResultsCover DEF StartTooLate
<1>4. ASSUME NEW line \in Line, Write(line) PROVE TypeOK'
  BY <1>4, AppendProperties DEF Write
<1>5. ASSUME NEW n \in 1 .. Len(pybuf), Flush(n) PROVE TypeOK'
  <2>1. Len(pybuf) \in Nat /\ Len(pipe) \in Nat
    BY LenProperties
  <2>2. /\ SubSeq(pybuf, 1, n) \in Seq(Line) /\ Len(SubSeq(pybuf, 1, n)) = n
        /\ SubSeq(pybuf, n + 1, Len(pybuf)) \in Seq(Line)
    BY <2>1, CutSeq, n \in 0 .. Len(pybuf)
  <2>3. /\ pipe \o SubSeq(pybuf, 1, n) \in Seq(Line)
        /\ Len(pipe \o SubSeq(pybuf, 1, n)) = Len(pipe) + n
    BY <2>2, ConcatProperties
  <2> QED BY <1>5, <2>2, <2>3 DEF Flush
<1>6. ASSUME NEW how \in {"exited", "killed"}, Die(how) PROVE TypeOK'
  BY <1>6, EmptySeq DEF Die
<1>7. CASE Daemonize
  BY <1>7 DEF Daemonize
<1>8. CASE DescendantEnds
  BY <1>8 DEF DescendantEnds
<1>9. ASSUME NEW n \in 1 .. Len(pipe), Copy(n) PROVE TypeOK'
  <2> DEFINE kept == SubSeq(pipe, 1, Kept(n))
             dropped == SubSeq(pipe, Kept(n) + 1, n)
             rest == SubSeq(pipe, n + 1, Len(pipe))
  <2>1. /\ kept \in Seq(Line) /\ Len(kept) = Kept(n)
        /\ dropped \in Seq(Line)
        /\ rest \in Seq(Line) /\ Len(rest) = Len(pipe) - n
    BY CopyPieces
  <2>2. stdout' = stdout \o kept /\ discarded' = discarded \o dropped /\ pipe' = rest
    BY <1>9 DEF Copy
  <2> HIDE DEF kept, dropped, rest
  <2>3. stdout' \in Seq(Line) /\ Len(stdout') = Len(stdout) + Kept(n) /\ discarded' \in Seq(Line)
    BY <2>1, <2>2, ConcatProperties
  <2>4. Len(stdout') <= MaxOutput
    BY <2>3, KeptWithinChunk
  <2>5. Len(pipe') <= PipeSize
    BY <2>1, <2>2, LenProperties, CrucibleAssumption
  <2> QED BY <1>9, <2>1, <2>2, <2>3, <2>4, <2>5 DEF Copy
<1>10. CASE Expire
  BY <1>10 DEF Expire
<1>11. CASE Return
  BY <1>11, ResultsCover DEF Return
<1>12. CASE UNCHANGED crucibleVars
  BY <1>12 DEF crucibleVars
<1> QED
  BY <1>1, <1>2, <1>3, <1>4, <1>5, <1>6, <1>7, <1>8, <1>9, <1>10, <1>11, <1>12
     DEF Next, Parent, Launch, Drain, Child, Exit, Crash, Kill, Returned

(* crucible.Run is well typed before it starts.                           *)
LEMMA IdleTypeOK == Idle => TypeOK
<1>1. <<>> \in Seq(Line) /\ Len(<<>>) = 0
  BY EmptySeq
<1>2. 0 <= PipeSize /\ 0 <= MaxOutput
  BY MaxOutputPositive, CrucibleAssumption
<1> QED BY <1>1, <1>2, ResultsCover DEF Idle, TypeOK

(* The types hold in every run of crucible.Run, and with them the two      *)
(* limits: the pipe holds PipeSize lines and the buffer MaxOutput.         *)
THEOREM TypeCorrect == Spec => []TypeOK
BY IdleTypeOK, TypeStep, PTL DEF Spec

(* Concatenation as an opaque operator, and the laws used of it: the       *)
(* provers rewrite \o eagerly, and lose themselves in long chains of it.   *)
Cat(s, t) == s \o t

(* Concatenation, for the steps below that must not unfold it.             *)
LEMMA CatLaws ==
  ASSUME NEW S
  PROVE  /\ \A s, t, u \in Seq(S) : Cat(Cat(s, t), u) = Cat(s, Cat(t, u))
         /\ \A s, t \in Seq(S) : Cat(s, t) \in Seq(S)
         /\ \A s \in Seq(S) : Cat(s, <<>>) = s /\ Cat(<<>>, s) = s
         /\ \A s \in Seq(S), e \in S : Append(s, e) = Cat(s, <<e>>) /\ <<e>> \in Seq(S)
BY ConcatAssociative, ConcatProperties, ConcatEmptySeq, AppendIsConcat DEF Cat

(* Moving the kept lines k and the dropped lines x of a chunk out of the   *)
(* pipe.  They keep their place only because nothing is kept once          *)
(* something has been dropped: either d is empty or k is.                  *)
LEMMA MoveChunk ==
  ASSUME NEW S, NEW o \in Seq(S), NEW d \in Seq(S), NEW k \in Seq(S),
         NEW x \in Seq(S), NEW r \in Seq(S), NEW t \in Seq(S),
         d = <<>> \/ k = <<>>
  PROVE  Cat(Cat(o, k), Cat(Cat(d, x), Cat(r, t))) = Cat(o, Cat(d, Cat(Cat(k, Cat(x, r)), t)))
<1>1. Cat(r, t) \in Seq(S) /\ Cat(x, r) \in Seq(S) /\ Cat(x, Cat(r, t)) \in Seq(S)
  BY CatLaws
<1>a. Cat(k, Cat(x, Cat(r, t))) \in Seq(S)
  BY <1>1, CatLaws
<1>2. Cat(Cat(k, Cat(x, r)), t) = Cat(k, Cat(x, Cat(r, t)))
  BY <1>1, CatLaws
<1>3. Cat(Cat(d, x), Cat(r, t)) = Cat(d, Cat(x, Cat(r, t)))
  BY <1>1, CatLaws
<1>4. Cat(Cat(o, k), Cat(d, Cat(x, Cat(r, t)))) = Cat(o, Cat(d, Cat(k, Cat(x, Cat(r, t)))))
  <2>1. CASE d = <<>>
    BY <1>1, <1>a, <2>1, CatLaws
  <2>2. CASE k = <<>>
    BY <1>1, <1>a, <2>2, CatLaws
  <2> QED BY <2>1, <2>2
<1> QED BY <1>2, <1>3, <1>4

(* Flushing the first part a of the interpreter's buffer a \o b. *)
LEMMA MoveBetween ==
  ASSUME NEW S, NEW p \in Seq(S), NEW a \in Seq(S), NEW b \in Seq(S), NEW t \in Seq(S)
  PROVE  Cat(Cat(p, a), Cat(b, t)) = Cat(p, Cat(Cat(a, b), t))
<1>1. Cat(b, t) \in Seq(S)
  BY CatLaws
<1> QED BY <1>1, CatLaws

(* Adding one line to what was written and to the interpreter's buffer. *)
LEMMA AddAtEnd ==
  ASSUME NEW S, NEW o \in Seq(S), NEW d \in Seq(S), NEW p \in Seq(S), NEW b \in Seq(S),
         NEW one \in Seq(S)
  PROVE  Cat(Cat(o, Cat(d, Cat(p, Cat(b, <<>>)))), one)
           = Cat(o, Cat(d, Cat(p, Cat(Cat(b, one), <<>>))))
<1>1. Cat(b, one) \in Seq(S)
  BY CatLaws
<1>2. Cat(b, <<>>) = b /\ Cat(Cat(b, one), <<>>) = Cat(b, one)
  BY <1>1, CatLaws
<1>3. Cat(p, b) \in Seq(S) /\ Cat(d, Cat(p, b)) \in Seq(S)
  BY CatLaws
<1>4. Cat(Cat(o, Cat(d, Cat(p, b))), one) = Cat(o, Cat(d, Cat(p, Cat(b, one))))
  BY <1>1, <1>3, CatLaws
<1> QED BY <1>2, <1>4

(* Conservation is inductive, given the types. *)
LEMMA ConservedStep ==
  TypeOK /\ TypeOK' /\ Conserved /\ [Next]_crucibleVars => Conserved'
<1> SUFFICES ASSUME TypeOK, TypeOK', Conserved, [Next]_crucibleVars PROVE Conserved'
  OBVIOUS
<1> USE DEF Conserved, stream
<1>1. CASE Start
  BY <1>1 DEF Start, Pending
<1>2. ASSUME NEW why \in {"not found", "start"}, StartFails(why) PROVE Conserved'
  BY <1>2 DEF StartFails, RunError
<1>3. CASE StartTooLate
  BY <1>3 DEF StartTooLate, TypeOK
<1>4. ASSUME NEW line \in Line, Write(line) PROVE Conserved'
  <2>1. /\ proc = "running" /\ lost = <<>> /\ res.kind # "result"
        /\ written' = Append(written, line) /\ pybuf' = Append(pybuf, line)
        /\ UNCHANGED <<proc, res, pipe, stdout, discarded, lost>>
    BY <1>4 DEF Write
  <2> DEFINE one == <<line>>
  <2>2. one \in Seq(Line) /\ written' = Cat(written, one) /\ pybuf' = Cat(pybuf, one)
    <3>1. written \in Seq(Line) /\ pybuf \in Seq(Line)
      BY DEF TypeOK
    <3>2. one \in Seq(Line) /\ Append(written, line) = Cat(written, one)
      BY <3>1, CatLaws, Zenon
    <3>3. Append(pybuf, line) = Cat(pybuf, one)
      BY <3>1, CatLaws, Zenon
    <3> QED BY <2>1, <3>2, <3>3
  <2> HIDE DEF one
  <2>3. Cat(Cat(stdout, Cat(discarded, Cat(pipe, Cat(pybuf, <<>>)))), one)
          = Cat(stdout, Cat(discarded, Cat(pipe, Cat(Cat(pybuf, one), <<>>))))
    <3>1. /\ stdout \in Seq(Line) /\ discarded \in Seq(Line)
          /\ pipe \in Seq(Line) /\ pybuf \in Seq(Line)
      BY DEF TypeOK
    <3> QED BY <2>2, <3>1, AddAtEnd
  <2> QED BY <2>1, <2>2, <2>3 DEF Cat
<1>5. ASSUME NEW n \in 1 .. Len(pybuf), Flush(n) PROVE Conserved'
  <2> DEFINE a == SubSeq(pybuf, 1, n)
             b == SubSeq(pybuf, n + 1, Len(pybuf))
  <2>1. a \in Seq(Line) /\ b \in Seq(Line) /\ a \o b = pybuf
    <3>1. pybuf \in Seq(Line) /\ n \in 0 .. Len(pybuf)
      BY LenProperties DEF TypeOK
    <3> QED BY <3>1, CutSeq
  <2>2. pipe' = pipe \o a /\ pybuf' = b /\ UNCHANGED <<proc, res, stdout, discarded, written, lost>>
    BY <1>5 DEF Flush
  <2>3. proc = "running" /\ res.kind # "result" /\ lost = <<>>
    BY <1>5 DEF Flush
  <2> HIDE DEF a, b
  <2>4. (pipe \o a) \o (b \o lost) = pipe \o ((a \o b) \o lost)
    <3>1. pipe \in Seq(Line) /\ lost \in Seq(Line)
      BY DEF TypeOK
    <3>2. Cat(Cat(pipe, a), Cat(b, lost)) = Cat(pipe, Cat(Cat(a, b), lost))
      BY <2>1, <3>1, MoveBetween
    <3> QED BY <3>2 DEF Cat
  <2> QED BY <2>1, <2>2, <2>3, <2>4
<1>6. ASSUME NEW how \in {"exited", "killed"}, Die(how) PROVE Conserved'
  <2>1. /\ proc = "running" /\ lost = <<>> /\ proc' = how /\ lost' = pybuf /\ pybuf' = <<>>
        /\ UNCHANGED <<pipe, stdout, discarded, written, res>>
    BY <1>6 DEF Die
  <2>2. pybuf \o <<>> = pybuf /\ <<>> \o pybuf = pybuf
    BY ConcatEmptySeq DEF TypeOK
  <2> QED BY <2>1, <2>2
<1>7. CASE Daemonize
  BY <1>7 DEF Daemonize
<1>8. CASE DescendantEnds
  BY <1>8 DEF DescendantEnds
<1>9. ASSUME NEW n \in 1 .. Len(pipe), Copy(n) PROVE Conserved'
  <2> DEFINE kept == SubSeq(pipe, 1, Kept(n))
             dropped == SubSeq(pipe, Kept(n) + 1, n)
             rest == SubSeq(pipe, n + 1, Len(pipe))
  <2>1. /\ kept \in Seq(Line) /\ Len(kept) = Kept(n)
        /\ dropped \in Seq(Line) /\ Len(dropped) = n - Kept(n)
        /\ rest \in Seq(Line)
        /\ pipe = kept \o (dropped \o rest)
    BY CopyPieces
  <2>2. /\ stdout' = stdout \o kept /\ discarded' = discarded \o dropped /\ pipe' = rest
        /\ UNCHANGED <<proc, pybuf, res, written, lost>>
    BY <1>9 DEF Copy
  <2> HIDE DEF kept, dropped, rest
  <2>3. /\ Kept(n) \in 0 .. n /\ Len(stdout) + Kept(n) <= MaxOutput
        /\ Kept(n) < n => Len(stdout) + Kept(n) = MaxOutput
        /\ Len(stdout) \in Nat /\ MaxOutput \in Nat
    BY KeptWithinChunk, MaxOutputPositive, LenProperties DEF TypeOK
  <2>4. discarded = <<>> \/ kept = <<>>
    <3>1. CASE discarded # <<>>
      <4>1. Len(kept) = 0
        BY <2>1, <2>3, <3>1
      <4> QED BY <2>1, <4>1, EmptySeq
    <3> QED BY <3>1
  <2>5. pybuf \o lost \in Seq(Line)
    BY ConcatProperties DEF TypeOK
  <2>6. (stdout \o kept) \o ((discarded \o dropped) \o (rest \o (pybuf \o lost)))
          = stdout \o (discarded \o (pipe \o (pybuf \o lost)))
    <3>1. /\ stdout \in Seq(Line) /\ discarded \in Seq(Line)
          /\ kept \in Seq(Line) /\ dropped \in Seq(Line) /\ rest \in Seq(Line)
      BY <2>1 DEF TypeOK
    <3> DEFINE tail == pybuf \o lost
    <3>2. tail \in Seq(Line)
      BY <2>5
    <3> HIDE DEF tail
    <3>3. Cat(Cat(stdout, kept), Cat(Cat(discarded, dropped), Cat(rest, tail)))
            = Cat(stdout, Cat(discarded, Cat(Cat(kept, Cat(dropped, rest)), tail)))
      BY <2>4, <3>1, <3>2, MoveChunk
    <3> QED BY <2>1, <3>3 DEF tail, Cat
  <2>7. Len(stdout') = Len(stdout) + Kept(n)
    BY <2>1, <2>2, ConcatProperties DEF TypeOK
  <2>8. discarded' # <<>> => Len(stdout') = MaxOutput
    <3>1. CASE discarded # <<>>
      BY <2>3, <2>7, <3>1
    <3>2. CASE discarded = <<>> /\ discarded' # <<>>
      <4>1. dropped # <<>>
        BY <2>1, <2>2, <3>2, ConcatEmptySeq
      <4>2. Len(dropped) # 0
        BY <2>1, <4>1, EmptySeq
      <4> QED BY <2>1, <2>3, <2>7, <4>2
    <3> QED BY <3>1, <3>2
  <2>9. pipe # <<>>
    BY EmptySeq
  <2> QED BY <2>2, <2>6, <2>8, <2>9
<1>10. CASE Expire
  BY <1>10 DEF Expire
<1>11. CASE Return
  BY <1>11 DEF Return, RunResult
<1>12. CASE UNCHANGED crucibleVars
  BY <1>12 DEF crucibleVars
<1> QED
  BY <1>1, <1>2, <1>3, <1>4, <1>5, <1>6, <1>7, <1>8, <1>9, <1>10, <1>11, <1>12
     DEF Next, Parent, Launch, Drain, Child, Exit, Crash, Kill, Returned
(* Nothing is written, nothing is lost, before the process starts.         *)
LEMMA IdleSound == Idle => TypeOK /\ Conserved
<1>1. Idle => Conserved
  BY ConcatEmptySeq, EmptySeq DEF Idle, Conserved, Pending
<1> QED BY <1>1, IdleTypeOK

(* No line is lost, doubled or reordered on its way from the child to the  *)
(* buffer but at the cap and at the interpreter's death.                   *)
THEOREM StreamConserved == Spec => []Conserved
<1>1. Idle => Conserved
  BY IdleSound
<1>2. TypeOK /\ TypeOK' /\ Conserved /\ [Next]_crucibleVars => Conserved'
  BY ConservedStep
<1> QED BY <1>1, <1>2, TypeCorrect, PTL DEF Spec

(* Run returns the longest prefix of what left the interpreter that its    *)
(* cap allows.                                                             *)
THEOREM CaptureCorrect == Spec => []CaptureIsPrefix
<1>1. TypeOK /\ Conserved => CaptureIsPrefix
  <2> SUFFICES ASSUME TypeOK, Conserved, res.kind = "result"
               PROVE  stdout = SubSeq(written, 1, Lesser(MaxOutput, Len(written) - Len(lost)))
    BY DEF CaptureIsPrefix
  <2>1. discarded \o lost \in Seq(Line) /\ Len(discarded \o lost) = Len(discarded) + Len(lost)
    BY ConcatProperties DEF TypeOK
  <2>2. pipe = <<>> /\ pybuf = <<>> /\ <<>> \o lost = lost
    BY ConcatEmptySeq DEF Conserved, TypeOK
  <2>3. written = stdout \o (discarded \o lost)
    BY <2>2 DEF Conserved
  <2>4. Len(written) = Len(stdout) + Len(discarded) + Len(lost)
    BY <2>1, <2>3, ConcatProperties, LenProperties DEF TypeOK
  <2>5. SubSeq(written, 1, Len(stdout)) = stdout
    BY <2>1, <2>3, PrefixOfConcat DEF TypeOK
  <2>6. /\ Len(stdout) \in Nat /\ Len(discarded) \in Nat /\ Len(lost) \in Nat
        /\ Len(stdout) <= MaxOutput /\ MaxOutput \in Nat
        /\ discarded # <<>> => Len(stdout) = MaxOutput
        /\ discarded = <<>> => Len(discarded) = 0
    BY LenProperties, EmptySeq, MaxOutputPositive DEF TypeOK, Conserved
  <2>7. Lesser(MaxOutput, Len(written) - Len(lost)) = Len(stdout)
    BY <2>4, <2>6 DEF Lesser
  <2> QED BY <2>5, <2>7
<1> QED BY <1>1, TypeCorrect, StreamConserved, PTL

(* Once Run has returned its buffer and its verdict are final. *)
THEOREM ResultFinal == Spec => ResultIsFinal
<1>1. TypeOK /\ Conserved /\ [Next]_crucibleVars => [res # Pending => UNCHANGED <<stdout, res>>]_crucibleVars
  <2> SUFFICES ASSUME TypeOK, Conserved, Next, res # Pending
               PROVE  UNCHANGED <<stdout, res>>
    BY DEF crucibleVars
  <2> USE DEF stream
  <2>1. \A how \in {"exited", "killed"} : Die(how) => UNCHANGED <<stdout, res>>
    BY DEF Die
  <2>2. pipe = <<>> /\ Len(pipe) = 0
    <3>1. CASE res.kind = "result"
      BY <3>1, EmptySeq DEF Conserved
    <3>2. CASE res.kind = "error"
      BY <3>2, EmptySeq DEF Conserved
    <3>3. res.kind \in {"result", "error"}
      BY DEF TypeOK, Results
    <3> QED BY <3>1, <3>2, <3>3
  <2>3. \A n \in 1 .. Len(pipe) : ~Copy(n)
    BY <2>2
  <2>4. ~Start /\ ~StartTooLate /\ ~Expire /\ ~Return /\ \A why : ~StartFails(why)
    BY DEF Start, StartTooLate, Expire, Return, StartFails
  <2>5. CASE Child
    BY <2>1, <2>5 DEF Child, Write, Flush, Exit, Crash, Daemonize
  <2>6. CASE Kill
    BY <2>1, <2>6 DEF Kill
  <2>7. CASE DescendantEnds
    BY <2>7 DEF DescendantEnds
  <2>8. CASE Returned
    BY <2>8 DEF Returned, crucibleVars
  <2> QED BY <2>3, <2>4, <2>5, <2>6, <2>7, <2>8 DEF Next, Parent, Launch, Drain
<1> QED BY <1>1, TypeCorrect, StreamConserved, PTL DEF Spec, ResultIsFinal

----------------------------------------------------------------------------
(* Assay: what holds of every verdict.                                     *)

(* A row that has run has done something. *)
LEMMA NotRunIsNoOutcome == NotRun \notin Outcome
<1>1. \A x : Returns(x) # NotRun /\ Raises(x) # NotRun
  BY DEF Returns, Raises, NotRun
<1>2. Unrepresentable # NotRun /\ Leaves # NotRun
  BY DEF Unrepresentable, Leaves, NotRun
<1> QED BY <1>1, <1>2 DEF Outcome, Expectation

(* A record of the result stream is one of the lines it can hold.          *)
LEMMA RecordIsLine ==
  ASSUME tables \in Fns, NEW k \in Keys(tables), NEW o \in Outcome, o # Leaves
  PROVE  Record(k, o) \in Line
<1>1. Record(k, o) \in HarnessLine
  BY DEF HarnessLine, Record, RecordKey
<1> QED BY <1>1, AssayAssumption

(* A step of the assay is a step of its crucible, or leaves it alone. *)
LEMMA StepOfCrucible ==
  ASSUME tables \in Fns, ran \in [Keys(tables) -> Outcome \cup {NotRun}],
         [AssayNext]_allVars
  PROVE  [Next]_crucibleVars
<1> USE DEF Next, Parent, Child
<1>1. CASE Prepare \/ WriteHarness \/ WriteFails \/ Judge \/ Remove \/ Done
  BY <1>1 DEF Prepare, WriteHarness, WriteFails, Judge, Remove, Done, allVars
<1>2. CASE ParentStep \/ Deadline
  BY <1>2 DEF ParentStep, Deadline
<1>3. CASE ProcessStep
  BY <1>3 DEF ProcessStep
<1>4. Missing \in Line /\ Text \in Line /\ Noise \subseteq Line
  BY AssayAssumption DEF HarnessLine
<1>5. ASSUME NEW k \in Keys(tables), NEW o \in Outcome, o # Leaves PROVE Record(k, o) \in Line
  BY <1>5, RecordIsLine
<1>6. CASE HarnessStep
  <2>1. CASE Import
    BY <2>1 DEF Import
  <2>2. CASE FunctionMissing
    BY <1>4, <2>2 DEF FunctionMissing
  <2>3. CASE Noisy
    BY <1>4, <2>3 DEF Noisy
  <2>4. ASSUME NEW k \in Keys(tables), RowLeaves(k) PROVE UNCHANGED crucibleVars
    BY <2>4 DEF RowLeaves
  <2>5. ASSUME NEW k \in Keys(tables), NEW o \in Outcome, RunRow(k, o) PROVE Next
    BY <1>5, <2>5 DEF RunRow
  <2>6. ASSUME NEW k \in Keys(tables), NEW o \in Outcome, RunRowGlued(k, o) PROVE Next
    BY <1>4, <2>6 DEF RunRowGlued
  <2> QED BY <1>6, <2>1, <2>2, <2>3, <2>4, <2>5, <2>6 DEF HarnessStep
<1>7. CASE UNCHANGED allVars
  BY <1>7 DEF allVars
<1> QED BY <1>1, <1>2, <1>3, <1>6, <1>7 DEF AssayNext, RunFn

(* Of a non-empty set of line numbers, Max is one, and bounds the others. *)
LEMMA LastLine ==
  ASSUME NEW n \in Nat, NEW T \in SUBSET (1 .. n), T # {}
  PROVE  Max(T) \in T /\ \A i \in T : i <= Max(T)
<1> DEFINE D == {n - i : i \in T}
<1>1. D \subseteq Nat /\ D # {}
  OBVIOUS
<1>2. PICK d \in D : \A y \in D : ~ (<<y, d>> \in OpToRel(<, Nat))
  BY <1>1, NatLessThanWellFounded, WFMin, Zenon
<1>3. PICK m \in T : d = n - m
  OBVIOUS
<1>4. \A i \in T : i <= m
  <2> SUFFICES ASSUME NEW i \in T, ~ (i <= m) PROVE FALSE
    OBVIOUS
  <2>1. n - i \in D /\ n - i \in Nat /\ d \in Nat /\ n - i < d
    BY <1>3
  <2> QED BY <1>2, <2>1 DEF OpToRel
<1>5. \E x \in T : \A y \in T : x >= y
  BY <1>4
<1> QED BY <1>5 DEF Max
(* The expectation of a row is a value or an exception, so it is not the   *)
(* mark of a row that has not run, nor of one that left.                   *)
LEMMA ExpectedType ==
  ASSUME tables \in Fns, NEW k \in Keys(tables)
  PROVE  Expected(k) \in Expectation /\ Expected(k) # NotRun
<1>1. PICK t \in DOMAIN tables : \E r \in DOMAIN tables[t].rows : k = <<t, r>>
  BY DEF Keys
<1>2. PICK r \in DOMAIN tables[t].rows : k = <<t, r>>
  BY <1>1
<1>3. tables[t].rows[r] \in Expectation
  BY AssayAssumption
<1>4. Expected(k) \in Expectation
  BY <1>2, <1>3 DEF Expected
<1>5. \A x : Returns(x) # NotRun /\ Raises(x) # NotRun
  BY DEF Returns, Raises, NotRun
<1> QED BY <1>4, <1>5 DEF Expectation

(* What Run captured is a prefix of what was written. *)
LEMMA StdoutIsWritten ==
  ASSUME TypeOK, Conserved, NEW i \in 1 .. Len(stdout)
  PROVE  i \in 1 .. Len(written) /\ stdout[i] = written[i]
<1> DEFINE rest == discarded \o (pipe \o (pybuf \o lost))
<1>1. stdout \in Seq(Line) /\ written = stdout \o rest
  BY DEF TypeOK, Conserved
<1>2. pybuf \o lost \in Seq(Line)
  BY ConcatProperties DEF TypeOK
<1>3. pipe \o (pybuf \o lost) \in Seq(Line)
  BY <1>2, ConcatProperties DEF TypeOK
<1>4. rest \in Seq(Line)
  BY <1>3, ConcatProperties DEF TypeOK
<1> HIDE DEF rest
<1>5. Len(stdout) \in Nat /\ Len(rest) \in Nat /\ Len(written) = Len(stdout) + Len(rest)
  BY <1>1, <1>4, ConcatProperties, LenProperties
<1>6. written[i] = stdout[i]
  BY <1>1, <1>4, <1>5, ConcatProperties
<1> QED BY <1>5, <1>6

(* A record the implementation printed carries what a record can carry. *)
LEMMA PrintedShape ==
  ASSUME AssayTypeOK, NEW i \in printed, written[i].kind = "row"
  PROVE  written[i].out \in Outcome /\ written[i] = Says(written[i].key, written[i].out)
<1>1. written[i] \in HarnessLine
  BY AssayAssumption DEF AssayTypeOK
<1>2. Missing.kind # "row" /\ Hushed.kind # "row" /\ Text.kind # "row"
  BY DEF Missing, Hushed, Text
<1>3. \E k, o : o \in Outcome /\ written[i] = Says(k, o)
  <2>1. Returns(Unparsable) \in Outcome
    BY DEF Outcome
  <2> QED BY <1>1, <1>2, <2>1 DEF HarnessLine, Object
<1>4. \A k, o : Says(k, o).key = k /\ Says(k, o).out = o
  BY DEF Says
<1> QED BY <1>3, <1>4

(* The two shapes of a row's result: red for a problem, and judged. *)
LEMMA ProblemRow ==
  ASSUME NEW q \in {"", "failed", "not a valid value", "never reported",
                    "timed out before this row ran"}
  PROVE  /\ RowResult(FALSE, q, NotRun) \in RowResults
         /\ ~ RowResult(FALSE, q, NotRun).passed
         /\ RowResult(FALSE, q, NotRun).actual = NotRun
BY DEF RowResult, RowResults

(* A row as the judgement of assay.runFn leaves it.                        *)
LEMMA JudgedRow ==
  ASSUME NEW e, NEW a \in Outcome \cup {NotRun}
  PROVE  /\ RowResult(Agrees(e, a), "", a) \in RowResults
         /\ RowResult(Agrees(e, a), "", a).passed => Agrees(e, a)
         /\ RowResult(Agrees(e, a), "", a).actual = a
BY DEF RowResult, RowResults, Agrees

(* What row k did, or what the implementation printed of it: all that its  *)
(* verdict can rest on.                                                    *)
Sourced(k, o) == o = ran[k] \/ Printed(k, o)

(* The verdict on one row, from a truthful stream. *)
LEMMA JudgeRowSound ==
  ASSUME AssayTypeOK, Conserved, RecordsAreTrue, NEW k \in Keys(tables)
  PROVE  /\ JudgeRow(k) \in RowResults
         /\ JudgeRow(k).actual # NotRun => Sourced(k, JudgeRow(k).actual)
         /\ JudgeRow(k).passed => JudgeRow(k).actual # NotRun /\ Sourced(k, Expected(k))
<1>1. CASE LinesFor(k) = {}
  <2>1. JudgeRow(k) = RowResult(FALSE, Never, NotRun)
    BY <1>1 DEF JudgeRow
  <2>2. CASE Never = "never reported"
    BY <2>1, <2>2, ProblemRow
  <2>3. CASE Never = "timed out before this row ran"
    BY <2>1, <2>3, ProblemRow
  <2> QED BY <2>2, <2>3 DEF Never
<1>2. CASE LinesFor(k) # {}
  <2> DEFINE m == Max(LinesFor(k))
             got == stdout[m].out
  <2>1. m \in 1 .. Len(stdout) /\ stdout[m].kind = "row" /\ stdout[m].key = k
    <3>1. LinesFor(k) \in SUBSET (1 .. Len(stdout)) /\ Len(stdout) \in Nat
      BY LenProperties DEF LinesFor, AssayTypeOK, TypeOK
    <3>2. m \in LinesFor(k)
      BY <1>2, <3>1, LastLine
    <3> QED BY <3>2 DEF LinesFor
  <2>2. m \in 1 .. Len(written) /\ written[m] = stdout[m]
    BY <2>1, StdoutIsWritten DEF AssayTypeOK
  <2> HIDE DEF m
  <2>3. got \in Outcome \cup {NotRun} /\ Sourced(k, got)
    <3>1. CASE m \in printed
      <4>1. written[m].out \in Outcome /\ written[m] = Says(k, got)
        BY <2>1, <2>2, <3>1, PrintedShape
      <4> QED BY <2>2, <3>1, <4>1 DEF Sourced, Printed
    <3>2. CASE \E j \in Keys(tables) : ran[j] # NotRun /\ written[m].key = j /\ written[m].out = ran[j]
      <4>1. got = ran[k]
        BY <2>1, <2>2, <3>2
      <4> QED BY <4>1 DEF Sourced, AssayTypeOK
    <3> QED BY <2>1, <2>2, <3>1, <3>2 DEF RecordsAreTrue
  <2>4. JudgeRow(k) = IF got = Unrepresentable THEN RowResult(FALSE, "failed", NotRun)
          ELSE IF got = Returns(Unparsable) THEN RowResult(FALSE, "not a valid value", NotRun)
          ELSE RowResult(Agrees(Expected(k), got), "", got)
    BY <1>2 DEF JudgeRow, m
  <2>5. Expected(k) # NotRun
    BY ExpectedType DEF AssayTypeOK
  <2> HIDE DEF got
  <2>6. CASE got = Unrepresentable
    <3>1. JudgeRow(k) = RowResult(FALSE, "failed", NotRun)
      BY <2>4, <2>6, Zenon
    <3> QED BY <3>1, ProblemRow
  <2>7. CASE got # Unrepresentable /\ got = Returns(Unparsable)
    <3>1. JudgeRow(k) = RowResult(FALSE, "not a valid value", NotRun)
      BY <2>4, <2>7, Zenon
    <3> QED BY <3>1, ProblemRow
  <2>8. CASE got # Unrepresentable /\ got # Returns(Unparsable)
    <3>1. JudgeRow(k) = RowResult(Agrees(Expected(k), got), "", got)
      BY <2>4, <2>8, Zenon
    <3>2. /\ JudgeRow(k) \in RowResults /\ JudgeRow(k).actual = got
          /\ JudgeRow(k).passed => Agrees(Expected(k), got)
      BY <2>3, <3>1, JudgedRow
    <3> QED BY <2>3, <2>5, <3>2 DEF Agrees
  <2> QED BY <2>6, <2>7, <2>8
<1> QED BY <1>1, <1>2
(* Of a step, what becomes of the history of rows and of the stream: at    *)
(* most one row runs, its record is the line written, and no line is       *)
(* written otherwise but the harness's and the implementation's own.       *)
LEMMA HistoryStep ==
  ASSUME AssayTypeOK, [AssayNext]_allVars
  PROVE  \/ UNCHANGED <<ran, printed, written>>
         \/ /\ UNCHANGED <<ran, printed>>
            /\ \E line \in {Missing, Text} : written' = Append(written, line)
         \/ /\ UNCHANGED ran /\ printed' = printed \cup {Len(written')}
            /\ \E line \in Noise : written' = Append(written, line)
         \/ \E k \in Keys(tables), o \in Outcome :
              /\ ran[k] = NotRun /\ ran' = [ran EXCEPT ![k] = o] /\ UNCHANGED printed
              /\ \/ o = Leaves /\ UNCHANGED written
                 \/ written' = Append(written, Text)
                 \/ o # Leaves /\ written' = Append(written, Record(k, o))
<1> USE DEF stream, crucibleVars, assayVars, parentOnly
<1>1. CASE Prepare \/ WriteHarness \/ WriteFails \/ Judge \/ Remove \/ Done
  BY <1>1 DEF Prepare, WriteHarness, WriteFails, Judge, Remove, Done, allVars
<1>2. CASE ParentStep \/ Deadline \/ ProcessStep
  <2>1. UNCHANGED <<ran, printed>>
    BY <1>2 DEF ParentStep, Deadline, ProcessStep
  <2>2. UNCHANGED written
    BY <1>2 DEF ParentStep, Deadline, ProcessStep, Parent, Launch, Drain, Start, StartTooLate,
       StartFails, Copy, Kill, Return, Expire, Flush, Exit, Crash, Die, Daemonize, DescendantEnds
  <2> QED BY <2>1, <2>2
<1>3. CASE HarnessStep
  <2>1. CASE Import
    BY <2>1 DEF Import
  <2>2. CASE FunctionMissing
    BY <2>2 DEF FunctionMissing, Write
  <2>3. CASE Noisy
    BY <2>3 DEF Noisy, Write
  <2>4. ASSUME NEW k \in Keys(tables), RowLeaves(k)
        PROVE  ran[k] = NotRun /\ ran' = [ran EXCEPT ![k] = Leaves] /\ UNCHANGED <<printed, written>>
    BY <2>4 DEF RowLeaves, AtRow
  <2>5. ASSUME NEW k \in Keys(tables), NEW o \in Outcome, RunRow(k, o)
        PROVE  /\ ran[k] = NotRun /\ ran' = [ran EXCEPT ![k] = o] /\ UNCHANGED printed
               /\ o # Leaves /\ written' = Append(written, Record(k, o))
    BY <2>5 DEF RunRow, AtRow, Write
  <2>6. ASSUME NEW k \in Keys(tables), NEW o \in Outcome, RunRowGlued(k, o)
        PROVE  /\ ran[k] = NotRun /\ ran' = [ran EXCEPT ![k] = o] /\ UNCHANGED printed
               /\ written' = Append(written, Text)
    BY <2>6 DEF RunRowGlued, AtRow, Write
  <2>7. Leaves \in Outcome
    BY DEF Outcome
  <2> QED BY <1>3, <2>1, <2>2, <2>3, <2>4, <2>5, <2>6, <2>7 DEF HarnessStep
<1>4. CASE UNCHANGED allVars
  BY <1>4 DEF allVars
<1> QED BY <1>1, <1>2, <1>3, <1>4 DEF AssayNext, RunFn

(* History is only added to: a row that has run is not run again, a line   *)
(* stays as it was written and was printed by whom it was.                 *)
LEMMA HistoryGrows ==
  ASSUME AssayTypeOK, [AssayNext]_allVars
  PROVE  /\ written' = written \/ \E line \in Line : written' = Append(written, line)
         /\ \A k \in Keys(tables) : ran[k] # NotRun => ran'[k] = ran[k]
         /\ \A i \in 1 .. Len(written) :
              i \in 1 .. Len(written') /\ written'[i] = written[i] /\ (i \in printed' <=> i \in printed)
         /\ printed' \subseteq 1 .. Len(written') /\ \A i \in printed' : written'[i] \in Noise
<1>1. /\ ran \in [Keys(tables) -> Outcome \cup {NotRun}] /\ written \in Seq(Line)
      /\ printed \subseteq 1 .. Len(written) /\ \A i \in printed : written[i] \in Noise
  BY DEF AssayTypeOK, TypeOK
<1>2. Missing \in Line /\ Text \in Line /\ Noise \subseteq Line
  BY AssayAssumption DEF HarnessLine
<1>3. written' = written \/ \E line \in Line : written' = Append(written, line)
  <2>1. ASSUME NEW k \in Keys(tables), NEW o \in Outcome, o # Leaves PROVE Record(k, o) \in Line
    BY <2>1, RecordIsLine DEF AssayTypeOK
  <2> QED BY <1>2, <2>1, HistoryStep
<1>4. \A k \in Keys(tables) : ran[k] # NotRun => ran'[k] = ran[k]
  BY <1>1, HistoryStep
<1>5. \A line \in Line : written' = Append(written, line) =>
        /\ Len(written) \in Nat /\ Len(written') = Len(written) + 1 /\ written'[Len(written')] = line
        /\ \A i \in 1 .. Len(written) : written'[i] = written[i]
  BY <1>1, AppendProperties, LenProperties
<1>6. CASE UNCHANGED <<printed, written>>
  BY <1>1, <1>3, <1>4, <1>6
<1>7. ASSUME NEW line \in Line, written' = Append(written, line),
             printed' = printed \/ (line \in Noise /\ printed' = printed \cup {Len(written')})
      PROVE  /\ \A i \in 1 .. Len(written) :
                  i \in 1 .. Len(written') /\ written'[i] = written[i] /\ (i \in printed' <=> i \in printed)
             /\ printed' \subseteq 1 .. Len(written') /\ \A i \in printed' : written'[i] \in Noise
  <2>1. /\ Len(written) \in Nat /\ Len(written') = Len(written) + 1 /\ written'[Len(written')] = line
        /\ \A i \in 1 .. Len(written) : written'[i] = written[i]
    BY <1>5, <1>7
  <2>2. \A i : i \in printed' => i \in printed \/ (i = Len(written') /\ line \in Noise)
    BY <1>7
  <2>3. \A i \in printed : i \in printed'
    BY <1>7
  <2>4. \A i \in printed : written'[i] = written[i] /\ written[i] \in Noise
    BY <1>1, <2>1
  <2>5. \A i \in printed' : i \in 1 .. Len(written') /\ written'[i] \in Noise
    <3> SUFFICES ASSUME NEW i \in printed' PROVE i \in 1 .. Len(written') /\ written'[i] \in Noise
      OBVIOUS
    <3>1. CASE i \in printed
      BY <1>1, <2>1, <2>4, <3>1
    <3>2. CASE i = Len(written') /\ line \in Noise
      BY <2>1, <3>2
    <3> QED BY <2>2, <3>1, <3>2
  <2>6. \A i \in 1 .. Len(written) : i \in 1 .. Len(written') /\ i # Len(written')
    BY <2>1
  <2> QED BY <2>1, <2>2, <2>3, <2>5, <2>6
<1>8. \/ UNCHANGED <<printed, written>>
      \/ \E line \in Line :
           /\ written' = Append(written, line)
           /\ printed' = printed \/ (line \in Noise /\ printed' = printed \cup {Len(written')})
  BY <1>2, <1>3, HistoryStep
<1> QED BY <1>3, <1>4, <1>6, <1>7, <1>8

(* What a verdict can rest on stays there to rest on. *)
LEMMA SourcedStays ==
  ASSUME AssayTypeOK, [AssayNext]_allVars, NEW k \in Keys(tables), NEW o, o # NotRun, Sourced(k, o)
  PROVE  o = ran'[k] \/ \E i \in printed' : written'[i] = Says(k, o)
<1>1. CASE o = ran[k]
  BY <1>1, HistoryGrows DEF Sourced
<1>2. CASE Printed(k, o)
  <2>1. PICK i \in printed : written[i] = Says(k, o)
    BY <1>2 DEF Printed
  <2>2. i \in printed' /\ written'[i] = written[i]
    BY HistoryGrows DEF AssayTypeOK
  <2> QED BY <2>1, <2>2
<1> QED BY <1>1, <1>2 DEF Sourced

(* Of a step, what becomes of runFn's own state. *)
LEMMA ControlStep ==
  ASSUME AssayTypeOK, [AssayNext]_allVars
  PROVE  /\ tables' = tables
         /\ file' \in BOOLEAN
         /\ harness' \in {"start", "rows", "over"}
         /\ \/ UNCHANGED <<pc, result>>
            \/ UNCHANGED <<ran, printed, written>> /\ pc = "prepare" /\ pc' = "write" /\ Refusal = "" /\ UNCHANGED result
            \/ UNCHANGED <<ran, printed, written>> /\ pc = "write" /\ pc' = "run" /\ UNCHANGED result
            \/ UNCHANGED <<ran, printed, written>> /\ pc # "done" /\ pc' = "done" /\ \E p : p # "" /\ result' = Failed(p)
            \/ UNCHANGED <<ran, printed, written>> /\ pc = "run" /\ pc' = "remove" /\ result' = Judgement
            \/ UNCHANGED <<ran, printed, written>> /\ pc = "remove" /\ pc' = "done" /\ UNCHANGED result
<1> USE DEF assayVars, parentOnly, AssayTypeOK, crucibleVars, stream
<1>1. CASE Prepare
  BY <1>1 DEF Prepare
<1>2. CASE WriteHarness \/ WriteFails \/ Judge
  <2>1. "writing harness" # ""
    OBVIOUS
  <2> QED BY <1>2, <2>1 DEF WriteHarness, WriteFails, Judge
<1>3. CASE Remove
  BY <1>3, AssayAssumption DEF Remove
<1>4. CASE ParentStep \/ Deadline \/ ProcessStep \/ Done
  BY <1>4 DEF ParentStep, Deadline, ProcessStep, Done, allVars
<1>5. CASE HarnessStep
  BY <1>5 DEF HarnessStep, Import, FunctionMissing, Noisy, RowLeaves, RunRow, RunRowGlued
<1>6. CASE UNCHANGED allVars
  BY <1>6 DEF allVars
<1> QED BY <1>1, <1>2, <1>3, <1>4, <1>5, <1>6 DEF AssayNext, RunFn

(* A report without rows has no row to speak of.                          *)
LEMMA NoRows == DOMAIN <<>> = {}
<1>1. <<>> \in Seq({}) /\ Len(<<>>) = 0
  BY EmptySeq
<1>2. DOMAIN <<>> = 1 .. 0
  BY <1>1, LenProperties
<1> QED BY <1>2

(* The shape of a failure, and of a result that is not there yet. *)
LEMMA FailedShape ==
  ASSUME NEW x, NEW p, p # "", x = Failed(p)
  PROVE  x.problem # "" /\ x.rows = <<>> /\ DOMAIN x.rows = {}
<1>1. x.problem = p
  BY DEF Failed, FnResult
<1>2. x.rows = <<>>
  BY DEF Failed, FnResult
<1> QED BY <1>1, <1>2, NoRows

(* A judgement is a failure, or one result for every row of a run that     *)
(* could be made.                                                          *)
LEMMA JudgementShape ==
  \/ \E p : p # "" /\ Judgement = Failed(p)
  \/ res.kind # "error" /\ Judgement = FnResult("", [k \in Keys(tables) |-> JudgeRow(k)])
<1>1. /\ "could not run" # "" /\ "not defined" # "" /\ "the harness failed" # ""
      /\ "timed out without reporting a row" # ""
  OBVIOUS
<1>2. \A c, p, q : p # "" /\ q # "" => (IF c THEN p ELSE q) # ""
  OBVIOUS
<1> QED BY <1>1, <1>2, Zenon DEF Judgement

(* The judgement of a truthful stream is well-typed, green only if earned, *)
(* and attributes to a row only what it did or was printed of it.          *)
LEMMA JudgementSound ==
  ASSUME AssayTypeOK, Conserved, RecordsAreTrue, pc = "run"
  PROVE  /\ \/ Judgement.problem = "" /\ Judgement.rows \in [Keys(tables) -> RowResults]
            \/ Judgement.problem # "" /\ Judgement.rows = <<>>
         /\ Passed(Judgement) => /\ Keys(tables) # {}
                                 /\ \A k \in Keys(tables) : Sourced(k, Expected(k))
         /\ \A k \in DOMAIN Judgement.rows :
              /\ Judgement.rows[k].actual # NotRun => Sourced(k, Judgement.rows[k].actual)
              /\ Judgement.rows[k].passed => Judgement.rows[k].actual # NotRun
<1>1. Keys(tables) # {}
  BY DEF AssayTypeOK
<1>2. \/ \E p : p # "" /\ Judgement = Failed(p)
      \/ Judgement = FnResult("", [k \in Keys(tables) |-> JudgeRow(k)])
  BY JudgementShape, Zenon
<1>3. ASSUME NEW p, p # "", Judgement = Failed(p)
      PROVE  Judgement.problem # "" /\ Judgement.rows = <<>> /\ DOMAIN Judgement.rows = {}
  <2>1. Judgement.problem = p
    BY <1>3 DEF Failed, FnResult
  <2>2. Judgement.rows = <<>>
    BY <1>3 DEF Failed, FnResult
  <2>3. DOMAIN Judgement.rows = {}
    BY <2>2, NoRows, Zenon
  <2>4. Judgement.problem # ""
    BY <1>3, <2>1, Zenon
  <2> QED BY <2>2, <2>3, <2>4, Zenon
<1>4. CASE Judgement = FnResult("", [k \in Keys(tables) |-> JudgeRow(k)])
  <2>1. Judgement.problem = "" /\ Judgement.rows = [k \in Keys(tables) |-> JudgeRow(k)]
    BY <1>4 DEF FnResult
  <2>2. Judgement.rows \in [Keys(tables) -> RowResults]
    BY <2>1, JudgeRowSound
  <2>3. \A k \in DOMAIN Judgement.rows :
          /\ Judgement.rows[k].actual # NotRun => Sourced(k, Judgement.rows[k].actual)
          /\ Judgement.rows[k].passed => Judgement.rows[k].actual # NotRun
          /\ Judgement.rows[k].passed => Sourced(k, Expected(k))
    BY <2>1, JudgeRowSound
  <2>4. Passed(Judgement) => \A k \in Keys(tables) : Sourced(k, Expected(k))
    BY <2>1, <2>3 DEF Passed
  <2> QED BY <1>1, <2>1, <2>2, <2>3, <2>4
<1>5. CASE \E p : p # "" /\ Judgement = Failed(p)
  BY <1>3, <1>5 DEF Passed
<1> QED BY <1>2, <1>4, <1>5

(* A record is appended with the row it is of, and no row changes once it  *)
(* has run.                                                                *)
LEMMA RecordsStep ==
  AssayTypeOK /\ RecordsAreTrue /\ [AssayNext]_allVars => RecordsAreTrue'
<1> SUFFICES ASSUME AssayTypeOK, RecordsAreTrue, [AssayNext]_allVars PROVE RecordsAreTrue'
  OBVIOUS
<1>1. tables' = tables /\ ran \in [Keys(tables) -> Outcome \cup {NotRun}] /\ written \in Seq(Line)
  BY ControlStep DEF AssayTypeOK, TypeOK
<1>2. Missing \in Line /\ Text \in Line /\ Noise \subseteq Line /\ Missing.kind # "row" /\ Text.kind # "row"
  BY AssayAssumption DEF HarnessLine, Missing, Text
<1>3. ASSUME NEW line, line \in Line, written' = Append(written, line) \/ written' = written
      PROVE  \A i \in 1 .. Len(written') : i \in 1 .. Len(written) \/ (i = Len(written') /\ written'[i] = line)
  BY <1>1, <1>3, AppendProperties, LenProperties
<1>4. /\ \A i \in 1 .. Len(written) : written'[i] = written[i] /\ (i \in printed' <=> i \in printed)
      /\ \A k \in Keys(tables) : ran[k] # NotRun => ran'[k] = ran[k]
  BY HistoryGrows
<1> USE DEF RecordsAreTrue
<1>5. ASSUME \A i \in 1 .. Len(written') : i \in 1 .. Len(written) \/ written'[i].kind # "row" \/ i \in printed'
      PROVE  RecordsAreTrue'
  BY <1>1, <1>4, <1>5
<1>6. CASE UNCHANGED <<ran, printed, written>>
  BY <1>5, <1>6
<1>7. ASSUME NEW line \in {Missing, Text}, written' = Append(written, line)
      PROVE  RecordsAreTrue'
  BY <1>2, <1>3, <1>5, <1>7
<1>8. ASSUME NEW line \in Noise, written' = Append(written, line), printed' = printed \cup {Len(written')}
      PROVE  RecordsAreTrue'
  BY <1>2, <1>3, <1>5, <1>8
<1>9. ASSUME NEW k \in Keys(tables), NEW o \in Outcome, ran[k] = NotRun, ran' = [ran EXCEPT ![k] = o],
             UNCHANGED printed,
             \/ o = Leaves /\ UNCHANGED written
             \/ written' = Append(written, Text)
             \/ o # Leaves /\ written' = Append(written, Record(k, o))
      PROVE  RecordsAreTrue'
  <2>1. ran'[k] = o /\ o # NotRun
    BY <1>1, <1>9, NotRunIsNoOutcome
  <2>2. CASE UNCHANGED written
    BY <1>5, <2>2
  <2>3. CASE written' = Append(written, Text)
    BY <1>2, <1>3, <1>5, <2>3
  <2>4. CASE o # Leaves /\ written' = Append(written, Record(k, o))
    <3>1. Record(k, o) \in Line
      BY <2>4, RecordIsLine DEF AssayTypeOK
    <3>2. Record(k, o).key = k /\ Record(k, o).out = o
      BY DEF Record, RecordKey, Says
    <3>3. \A i \in 1 .. Len(written') : i \in 1 .. Len(written) \/ written'[i] = Record(k, o)
      BY <1>3, <2>4, <3>1
    <3> QED BY <1>1, <1>4, <2>1, <3>2, <3>3
  <2> QED BY <1>9, <2>2, <2>3, <2>4
<1> QED BY <1>6, <1>7, <1>8, <1>9, HistoryStep

----------------------------------------------------------------------------
(* The inductive invariant.  GreenIsEarned and ActualIsReal need           *)
(* RecordsAreTrue, which speaks of the stream before it is captured, and   *)
(* Conserved, by which what is captured is part of that stream.            *)
AssayInv == AssayTypeOK /\ Conserved /\ RecordsAreTrue /\ GreenIsEarned /\ ActualIsReal

(* A step of one assayed function keeps the types of its variables.       *)
LEMMA AssayTypeStep ==
  AssayTypeOK /\ Conserved /\ RecordsAreTrue /\ [AssayNext]_allVars => AssayTypeOK'
<1> SUFFICES ASSUME AssayTypeOK, Conserved, RecordsAreTrue, [AssayNext]_allVars
             PROVE  AssayTypeOK'
  OBVIOUS
<1>1. TypeOK'
  BY StepOfCrucible, TypeStep DEF AssayTypeOK
<1>2. tables' = tables /\ tables' \in Fns /\ file' \in BOOLEAN /\ harness' \in {"start", "rows", "over"}
  BY ControlStep DEF AssayTypeOK
<1>3. ran' \in [Keys(tables) -> Outcome \cup {NotRun}]
  <2>1. ran \in [Keys(tables) -> Outcome \cup {NotRun}]
    BY DEF AssayTypeOK
  <2>2. UNCHANGED ran \/ \E k \in Keys(tables), o \in Outcome : ran' = [ran EXCEPT ![k] = o]
    BY HistoryStep
  <2> QED BY <2>1, <2>2
<1>4. /\ pc' \in {"prepare", "write", "run", "remove", "done"}
      /\ \/ result'.problem = "" /\ result'.rows \in [Keys(tables) -> RowResults]
         \/ result'.problem # "" /\ result'.rows = <<>>
      /\ pc' \in {"prepare", "write", "run"} => result' = None
      /\ pc' \in {"write", "run"} => Keys(tables) # {}
  <2> USE DEF AssayTypeOK
  <2>1. CASE UNCHANGED <<pc, result>>
    BY <2>1
  <2>2. CASE pc = "prepare" /\ pc' = "write" /\ Refusal = "" /\ UNCHANGED result
    <3>1. Keys(tables) # {}
      BY <2>2 DEF Refusal
    <3> QED BY <2>2, <3>1
  <2>3. CASE pc = "write" /\ pc' = "run" /\ UNCHANGED result
    BY <2>3
  <2>4. CASE pc' = "done" /\ \E p : p # "" /\ result' = Failed(p)
    BY <2>4, FailedShape
  <2>5. CASE pc = "run" /\ pc' = "remove" /\ result' = Judgement
    BY <2>5, JudgementSound
  <2>6. CASE pc = "remove" /\ pc' = "done" /\ UNCHANGED result
    BY <2>6
  <2> HIDE DEF AssayTypeOK
  <2> QED BY <2>1, <2>2, <2>3, <2>4, <2>5, <2>6, ControlStep
<1>5. printed' \subseteq 1 .. Len(written') /\ \A i \in printed' : written'[i] \in Noise
  BY HistoryGrows
<1> QED BY <1>1, <1>2, <1>3, <1>4, <1>5 DEF AssayTypeOK

(* No row that has been judged, and none that agrees, runs again. *)
LEMMA GreenStep ==
  AssayInv /\ [AssayNext]_allVars => GreenIsEarned' /\ ActualIsReal'
<1> SUFFICES ASSUME AssayInv, [AssayNext]_allVars PROVE GreenIsEarned' /\ ActualIsReal'
  OBVIOUS
<1> USE DEF AssayInv
<1>1. tables' = tables /\ Keys(tables') = Keys(tables) /\ \A k : Expected(k)' = Expected(k)
  BY ControlStep DEF Expected
<1>2. AssayTypeOK
  OBVIOUS
<1>3. CASE UNCHANGED result
  <2>1. GreenIsEarned'
    <3> SUFFICES ASSUME Passed(result)
                 PROVE  Keys(tables) # {} /\ \A k \in Keys(tables) : Sourced(k, Expected(k))'
      BY <1>1, <1>3 DEF GreenIsEarned, Passed, Agrees, Sourced
    <3>1. Keys(tables) # {} /\ \A k \in Keys(tables) : Sourced(k, Expected(k))
      BY DEF GreenIsEarned, Agrees, Sourced
    <3>2. \A k \in Keys(tables) : Expected(k) # NotRun
      BY ExpectedType DEF AssayTypeOK
    <3> QED BY <1>1, <1>2, <3>1, <3>2, SourcedStays DEF Sourced, Printed
  <2>2. ActualIsReal'
    <3>1. \A k \in DOMAIN result.rows : k \in Keys(tables)
      <4>1. CASE result.rows = <<>>
        BY <4>1, NoRows
      <4>2. CASE result.rows \in [Keys(tables) -> RowResults]
        BY <4>2
      <4> QED BY <4>1, <4>2 DEF AssayTypeOK
    <3> SUFFICES ASSUME NEW k \in DOMAIN result.rows, result.rows[k].actual # NotRun
                 PROVE  \/ result.rows[k].actual = ran'[k]
                        \/ \E i \in printed' : written'[i] = Says(k, result.rows[k].actual)
      BY <1>3 DEF ActualIsReal, Printed, Says
    <3>2. Sourced(k, result.rows[k].actual)
      BY DEF ActualIsReal, Sourced
    <3> QED BY <3>1, <3>2, SourcedStays
  <2> QED BY <2>1, <2>2
<1>4. CASE \E p : p # "" /\ result' = Failed(p)
  <2>1. result'.problem # "" /\ DOMAIN result'.rows = {}
    BY <1>4, FailedShape
  <2> QED BY <2>1 DEF GreenIsEarned, ActualIsReal, Passed
<1>5. CASE pc = "run" /\ result' = Judgement /\ UNCHANGED <<ran, printed, written>>
  <2>1. /\ Passed(Judgement) => /\ Keys(tables) # {}
                                /\ \A k \in Keys(tables) : Sourced(k, Expected(k))
        /\ \A k \in DOMAIN Judgement.rows :
              /\ Judgement.rows[k].actual # NotRun => Sourced(k, Judgement.rows[k].actual)
              /\ Judgement.rows[k].passed => Judgement.rows[k].actual # NotRun
    BY <1>5, JudgementSound
  <2> HIDE DEF AssayInv
  <2>2. GreenIsEarned'
    BY <1>1, <1>5, <2>1 DEF GreenIsEarned, Passed, Agrees, Sourced, Printed, Says
  <2>3. ActualIsReal'
    BY <1>5, <2>1 DEF ActualIsReal, Sourced, Printed, Says
  <2> QED BY <2>2, <2>3
<1> QED BY <1>3, <1>4, <1>5, ControlStep

(* The inductive invariant of one assayed function.                        *)
LEMMA AssayInvariant == AssaySpec => []AssayInv
<1>1. AssayInit => AssayInv
  <2> SUFFICES ASSUME AssayInit PROVE AssayInv
    OBVIOUS
  <2>1. TypeOK /\ Conserved
    BY IdleSound DEF AssayInit
  <2>2. result.problem # "" /\ result.rows = <<>> /\ DOMAIN result.rows = {}
    <3>1. result.problem # "" /\ result.rows = <<>>
      BY DEF AssayInit, None, FnResult
    <3> QED BY <3>1, NoRows
  <2>3. AssayTypeOK
    BY <2>1, <2>2, AssayAssumption DEF AssayInit, AssayTypeOK
  <2>4. RecordsAreTrue
    <3>1. Len(written) = 0
      BY EmptySeq DEF AssayInit, Idle
    <3> QED BY <3>1 DEF RecordsAreTrue
  <2>5. GreenIsEarned /\ ActualIsReal
    BY <2>2 DEF GreenIsEarned, ActualIsReal, Passed
  <2> QED BY <2>1, <2>3, <2>4, <2>5 DEF AssayInv
<1>2. AssayInv /\ [AssayNext]_allVars => AssayInv'
  <2> SUFFICES ASSUME AssayInv, [AssayNext]_allVars PROVE AssayInv'
    OBVIOUS
  <2>1. AssayTypeOK'
    BY AssayTypeStep DEF AssayInv
  <2>2. [Next]_crucibleVars /\ TypeOK /\ TypeOK'
    BY <2>1, StepOfCrucible DEF AssayInv, AssayTypeOK
  <2>3. Conserved'
    BY <2>2, ConservedStep DEF AssayInv
  <2>4. RecordsAreTrue'
    BY RecordsStep DEF AssayInv
  <2>5. GreenIsEarned' /\ ActualIsReal'
    BY GreenStep
  <2> QED BY <2>1, <2>3, <2>4, <2>5 DEF AssayInv
<1> QED BY <1>1, <1>2, PTL DEF AssaySpec

(* The variables of one assayed function keep their types, those of the    *)
(* process it runs among them: the captured stdout never outgrows          *)
(* Limits.MaxOutput, whatever the harness prints.                          *)
THEOREM AssayTypeCorrect == AssaySpec => []AssayTypeOK
<1>1. AssayInv => AssayTypeOK
  BY DEF AssayInv
<1> QED BY <1>1, AssayInvariant, PTL

(* Every record in the stream is of a row that ran and says what that row  *)
(* did, or the implementation printed it: whatever it prints, and when.    *)
THEOREM RecordsTrue == AssaySpec => []RecordsAreTrue
<1>1. AssayInv => RecordsAreTrue
  BY DEF AssayInv
<1> QED BY <1>1, AssayInvariant, PTL

(* The gate is sound but for what the implementation says in its name: a   *)
(* green verdict means of every row that it ran and did what the           *)
(* specification says, or that the implementation itself printed the very  *)
(* record of that row which the specification asks for.                    *)
THEOREM GateSound == AssaySpec => []GreenIsEarned
<1>1. AssayInv => GreenIsEarned
  BY DEF AssayInv
<1> QED BY <1>1, AssayInvariant, PTL

(* No report on a row names a result that the code neither produced on it  *)
(* nor printed as a record of that row, and none passes without one.       *)
THEOREM ActualTrue == AssaySpec => []ActualIsReal
<1>1. AssayInv => ActualIsReal
  BY DEF AssayInv
<1> QED BY <1>1, AssayInvariant, PTL

----------------------------------------------------------------------------
(* What runFn's place says of the run and of the harness file. *)

Phases ==
  /\ pc \in {"prepare", "write"} => res = Pending /\ proc = "new" /\ file = FALSE
  /\ pc \in {"run", "remove"} => file = TRUE
  /\ pc = "remove" => res # Pending
  /\ pc = "done" =>
       \/ /\ res = Pending /\ proc = "new" /\ result.problem # ""
          /\ result.problem # "writing harness" => file = FALSE
       \/ res # Pending /\ file = KeepHarness

(* Before the run and after it nothing of the child moves. *)
LEMMA OutsideTheRun ==
  ASSUME AssayTypeOK, Conserved, Phases, [AssayNext]_allVars, pc # "run"
  PROVE  UNCHANGED <<proc, res, written, lost, discarded, ran, printed>>
<1>1. proc # "running"
  <2>1. res.kind \in {"error", "result"} => proc # "running"
    BY DEF Conserved
  <2>2. res = Pending \/ res.kind \in {"error", "result"}
    BY DEF AssayTypeOK, TypeOK, Results
  <2>3. pc \in {"prepare", "write", "remove", "done"}
    BY DEF AssayTypeOK
  <2> QED BY <2>1, <2>2, <2>3 DEF Phases
<1> USE DEF stream, crucibleVars, assayVars
<1>2. CASE RunFn \/ Deadline \/ Done
  BY <1>2 DEF RunFn, Prepare, WriteHarness, WriteFails, ParentStep, Judge, Remove, Deadline, Done, allVars
<1>3. CASE HarnessStep
  BY <1>1, <1>3 DEF HarnessStep, Import, FunctionMissing, Noisy, RowLeaves, RunRow, RunRowGlued, Write
<1>4. CASE ProcessStep
  BY <1>1, <1>4 DEF ProcessStep, Flush, Exit, Crash, Die, Daemonize, DescendantEnds
<1>5. CASE UNCHANGED allVars
  BY <1>5 DEF allVars
<1> QED BY <1>2, <1>3, <1>4, <1>5 DEF AssayNext

(* A step that is not runFn's own leaves the file alone. *)
LEMMA PhasesStep ==
  ASSUME AssayTypeOK, Conserved, Phases, [AssayNext]_allVars
  PROVE  Phases'
<1>1. UNCHANGED <<pc, file, result>> => Phases'
  <2>1. CASE pc # "run"
    BY <2>1, OutsideTheRun DEF Phases
  <2>2. CASE pc = "run"
    BY <2>2 DEF Phases
  <2> QED BY <2>1, <2>2
<1> USE DEF crucibleVars
<1>2. CASE Prepare
  <2>1. Refusal # "" => Failed(Refusal).problem # ""
    BY DEF Failed, FnResult
  <2> QED BY <1>2, <2>1 DEF Prepare, Phases
<1>3. CASE WriteHarness
  BY <1>3 DEF WriteHarness, Phases
<1>4. CASE WriteFails
  <2>1. Failed("writing harness").problem = "writing harness"
    BY DEF Failed, FnResult
  <2> QED BY <1>4, <2>1 DEF WriteFails, Phases
<1>5. CASE Judge
  BY <1>5 DEF Judge, Phases
<1>6. CASE Remove
  BY <1>6 DEF Remove, Phases
<1>7. CASE ParentStep \/ Deadline \/ HarnessStep \/ ProcessStep \/ Done \/ UNCHANGED allVars
  <2>1. UNCHANGED <<pc, file, result>>
    BY <1>7 DEF ParentStep, Deadline, HarnessStep, Import, FunctionMissing, Noisy, RowLeaves, RunRow,
       RunRowGlued, ProcessStep, Done, allVars, assayVars, parentOnly
  <2> QED BY <1>1, <2>1
<1> QED BY <1>2, <1>3, <1>4, <1>5, <1>6, <1>7 DEF AssayNext, RunFn

(* Every state of an assay is in one of its phases. *)
LEMMA PhasesInvariant == AssaySpec => []Phases
<1>1. AssayInit => Phases
  BY DEF AssayInit, Idle, Phases
<1>2. AssayInv /\ Phases /\ [AssayNext]_allVars => Phases'
  BY PhasesStep DEF AssayInv
<1> QED BY <1>1, <1>2, AssayInvariant, PTL DEF AssaySpec

(* The harness file is removed when runFn returns, unless it was to be     *)
(* kept or could not be written: whatever became of the child.             *)
THEOREM FileRemoved == AssaySpec => []HarnessRemoved
<1>1. AssayInv /\ Phases => HarnessRemoved
  BY DEF AssayInv, AssayTypeOK, Phases, HarnessRemoved
<1> QED BY <1>1, AssayInvariant, PhasesInvariant, PTL

----------------------------------------------------------------------------
(* No false red.  While the implementation prints nothing that decodes and *)
(* runs into no record, that of every row that came back is in the stream. *)

Quiet == \A i \in 1 .. Len(written) : written[i].kind = "text" <=> i \in printed
Recorded ==
  Quiet => \A k \in Keys(tables) :
    ran[k] \notin {NotRun, Leaves} => \E i \in 1 .. Len(written) : written[i] = Record(k, ran[k])

(* What a row can be said to have done is told apart by how it ended.      *)
LEMMA OutcomesDiffer ==
  /\ \A x : Returns(x) \notin {NotRun, Leaves, Unrepresentable} /\ Raises(x) \notin {NotRun, Leaves, Unrepresentable}
  /\ \A x, y : Returns(x) = Returns(y) => x = y
  /\ \A x, y : Returns(x) # Raises(y)
BY DEF Returns, Raises, NotRun, Leaves, Unrepresentable

(* The record of a row is written when it runs and stays in the stream. *)
LEMMA RecordedStep ==
  ASSUME AssayTypeOK, Recorded, [AssayNext]_allVars
  PROVE  Recorded'
<1>1. tables' = tables /\ ran \in [Keys(tables) -> Outcome \cup {NotRun}] /\ written \in Seq(Line)
  BY ControlStep DEF AssayTypeOK, TypeOK
<1>2. Text \in Line /\ Text.kind = "text" /\ printed \subseteq 1 .. Len(written)
  <2>1. Text.kind = "text"
    BY DEF Text
  <2>2. Text \in HarnessLine
    BY DEF HarnessLine
  <2>3. Text \in Line
    BY <2>2, AssayAssumption
  <2> QED BY <2>1, <2>3 DEF AssayTypeOK
<1>3. \A line \in Line : written' = Append(written, line) =>
        /\ Len(written) \in Nat /\ Len(written') = Len(written) + 1
        /\ Len(written') \in 1 .. Len(written') /\ written'[Len(written')] = line
  BY <1>1, AppendProperties, LenProperties
<1>4. /\ Quiet' => Quiet
      /\ \A x : (\E i \in 1 .. Len(written) : written[i] = x) => \E i \in 1 .. Len(written') : written'[i] = x
  BY HistoryGrows DEF Quiet
<1>5. CASE UNCHANGED ran
  BY <1>1, <1>4, <1>5 DEF Recorded, Record, RecordKey, Says
<1>6. ASSUME NEW k \in Keys(tables), NEW o \in Outcome, ran[k] = NotRun, ran' = [ran EXCEPT ![k] = o],
             UNCHANGED printed,
             \/ o = Leaves /\ UNCHANGED written
             \/ written' = Append(written, Text)
             \/ o # Leaves /\ written' = Append(written, Record(k, o))
      PROVE  Recorded'
  <2> SUFFICES ASSUME Quiet', NEW j \in Keys(tables), ran'[j] \notin {NotRun, Leaves}
               PROVE  \E i \in 1 .. Len(written') : written'[i] = Record(j, ran'[j])
    BY <1>1 DEF Recorded
  <2>1. CASE j # k
    <3>1. ran'[j] = ran[j]
      BY <1>1, <1>6, <2>1
    <3> QED BY <1>4, <3>1 DEF Recorded
  <2>2. CASE j = k
    <3>1. ran'[j] = o /\ o # Leaves
      BY <1>1, <1>6, <2>2
    <3>2. CASE written' = Append(written, Text)
      BY <1>2, <1>3, <1>6, <3>2 DEF Quiet
    <3>3. CASE written' = Append(written, Record(k, o))
      <4>1. Record(k, o) \in Line
        BY <3>1, RecordIsLine DEF AssayTypeOK
      <4> QED BY <1>3, <2>2, <3>1, <3>3, <4>1
    <3> QED BY <1>6, <3>1, <3>2, <3>3
  <2> QED BY <2>1, <2>2
<1> QED BY <1>5, <1>6, HistoryStep

(* One row's verdict when the whole output arrived. *)
LEMMA JudgeRowExact ==
  ASSUME AssayTypeOK, Conserved, RecordsAreTrue, Recorded, Quiet, stdout = written, NEW k \in Keys(tables)
  PROVE  JudgeRow(k).passed <=> ran[k] = Expected(k)
<1>1. ran[k] \in Outcome \cup {NotRun} /\ Expected(k) \in Expectation
  BY ExpectedType DEF AssayTypeOK
<1>2. Expected(k) \notin {NotRun, Leaves, Unrepresentable, Returns(Unparsable)}
  BY <1>1, OutcomesDiffer, AssayAssumption DEF Expectation
<1>3. \A q, a : RowResult(FALSE, q, a).passed = FALSE /\ RowResult(TRUE, q, a).passed = TRUE
  BY DEF RowResult
<1>4. CASE LinesFor(k) = {}
  <2>1. ~ JudgeRow(k).passed
    BY <1>3, <1>4 DEF JudgeRow
  <2>2. ASSUME NEW i \in 1 .. Len(written), written[i] = Record(k, ran[k]) PROVE FALSE
    <3>1. written[i].kind = "row" /\ written[i].key = k
      BY <2>2 DEF Record, RecordKey, Says
    <3> QED BY <1>4, <3>1 DEF LinesFor
  <2>3. ran[k] \in {NotRun, Leaves}
    BY <2>2 DEF Recorded
  <2> QED BY <1>2, <2>1, <2>3
<1>5. CASE LinesFor(k) # {}
  <2> DEFINE m == Max(LinesFor(k))
             got == stdout[m].out
  <2>1. m \in 1 .. Len(stdout) /\ stdout[m].kind = "row" /\ stdout[m].key = k
    <3>1. LinesFor(k) \in SUBSET (1 .. Len(stdout)) /\ Len(stdout) \in Nat
      BY LenProperties DEF LinesFor, AssayTypeOK, TypeOK
    <3>2. m \in LinesFor(k)
      BY <1>5, <3>1, LastLine
    <3> QED BY <3>2 DEF LinesFor
  <2>2. JudgeRow(k) = IF got = Unrepresentable THEN RowResult(FALSE, "failed", NotRun)
          ELSE IF got = Returns(Unparsable) THEN RowResult(FALSE, "not a valid value", NotRun)
          ELSE RowResult(Agrees(Expected(k), got), "", got)
    BY <1>5 DEF JudgeRow
  <2> HIDE DEF m
  <2>3. got = ran[k]
    BY <2>1 DEF RecordsAreTrue, Quiet
  <2> HIDE DEF got
  <2>4. CASE got \in {Unrepresentable, Returns(Unparsable)}
    <3>1. ~ JudgeRow(k).passed
      BY <1>3, <2>2, <2>4, Zenon
    <3> QED BY <1>2, <2>3, <2>4, <3>1
  <2>5. CASE got \notin {Unrepresentable, Returns(Unparsable)}
    <3>1. JudgeRow(k) = RowResult(Agrees(Expected(k), got), "", got)
      BY <2>2, <2>5, Zenon
    <3>2. CASE Expected(k) = got
      <4>1. Agrees(Expected(k), got) = TRUE
        BY <3>2 DEF Agrees
      <4> QED BY <1>3, <2>3, <3>1, <3>2, <4>1
    <3>3. CASE Expected(k) # got
      <4>1. Agrees(Expected(k), got) = FALSE
        BY <3>3 DEF Agrees
      <4> QED BY <1>3, <2>3, <3>1, <3>3, <4>1
    <3> QED BY <3>2, <3>3
  <2> QED BY <2>4, <2>5
<1> QED BY <1>4, <1>5

(* A judgement is of a run that has ended, and nothing changes after it.   *)
LEMMA ExactStep ==
  ASSUME AssayInv, AssayInv', Phases, Recorded, QuietRunJudgedExactly, [AssayNext]_allVars
  PROVE  QuietRunJudgedExactly'
<1>1. tables' = tables /\ \A k : Expected(k)' = Expected(k)
  BY ControlStep DEF AssayInv, Expected
<1>2. CASE UNCHANGED <<pc, result>>
  <2>1. CASE pc = "run"
    <3>1. None.problem = "none yet"
      BY DEF None, FnResult
    <3>2. result'.problem # ""
      BY <1>2, <2>1, <3>1 DEF AssayInv, AssayTypeOK
    <3> QED BY <3>2 DEF QuietRunJudgedExactly
  <2>2. CASE pc # "run"
    <3>1. UNCHANGED <<written, lost, discarded, ran, printed>>
      BY <2>2, OutsideTheRun DEF AssayInv
    <3> QED BY <1>1, <1>2, <3>1 DEF QuietRunJudgedExactly
  <2> QED BY <2>1, <2>2
<1>3. CASE UNCHANGED result /\ pc # "run"
  <2>1. UNCHANGED <<written, lost, discarded, ran, printed>>
    BY <1>3, OutsideTheRun DEF AssayInv
  <2> QED BY <1>1, <1>3, <2>1 DEF QuietRunJudgedExactly
<1>4. CASE \E p : p # "" /\ result' = Failed(p)
  BY <1>4, FailedShape DEF QuietRunJudgedExactly
<1>5. CASE UNCHANGED <<ran, printed, written>> /\ pc = "run" /\ pc' = "remove" /\ result' = Judgement
  <2> SUFFICES ASSUME result'.problem = "", lost' = <<>>, discarded' = <<>>, Quiet',
                      NEW k \in Keys(tables)
               PROVE  result'.rows[k].passed <=> ran[k] = Expected(k)
    BY <1>1, <1>5 DEF QuietRunJudgedExactly, Quiet
  <2>1. UNCHANGED stream /\ res # Pending
    <3>1. Judge
      BY <1>5 DEF AssayNext, RunFn, Prepare, WriteHarness, WriteFails, ParentStep, Judge, Remove, Deadline,
         HarnessStep, Import, FunctionMissing, Noisy, RowLeaves, RunRow, RunRowGlued, ProcessStep, Done,
         allVars, assayVars, parentOnly
    <3> QED BY <3>1 DEF Judge, crucibleVars
  <2>2. Judgement = FnResult("", [j \in Keys(tables) |-> JudgeRow(j)]) /\ res.kind # "error"
    <3>1. \A p : Failed(p).problem = p
      BY DEF Failed, FnResult
    <3>2. Judgement.problem = ""
      BY <1>5
    <3> QED BY <3>1, <3>2, JudgementShape, Zenon
  <2>3. result'.rows = [j \in Keys(tables) |-> JudgeRow(j)]
    BY <1>5, <2>2 DEF FnResult
  <2>4. stdout = written
    <3>1. res.kind = "result"
      BY <2>1, <2>2 DEF AssayInv, AssayTypeOK, TypeOK, Results
    <3>2. pipe = <<>> /\ pybuf = <<>> /\ lost = <<>> /\ discarded = <<>>
      BY <2>1, <3>1 DEF AssayInv, Conserved, stream
    <3>3. written = stdout \o (<<>> \o (<<>> \o (<<>> \o <<>>))) /\ stdout \in Seq(Line)
      BY <3>2 DEF AssayInv, Conserved, AssayTypeOK, TypeOK
    <3> QED BY <3>3, ConcatEmptySeq, EmptySeq
  <2>5. Quiet
    BY <1>5 DEF Quiet
  <2>6. JudgeRow(k).passed <=> ran[k] = Expected(k)
    BY <2>4, <2>5, JudgeRowExact DEF AssayInv
  <2> QED BY <2>3, <2>6
<1> QED BY <1>2, <1>3, <1>4, <1>5, ControlStep DEF AssayInv

(* No false red and no false green: when the whole output arrived and the  *)
(* implementation printed nothing that decodes or runs into a record, a    *)
(* row is green exactly if it did what the specification says, for every   *)
(* implementation and size of the pipe.                                    *)
THEOREM QuietExact == AssaySpec => []QuietRunJudgedExactly
<1>1. AssayInit => Recorded /\ QuietRunJudgedExactly
  <2>1. ASSUME AssayInit PROVE result.problem # "" /\ \A k \in Keys(tables) : ran[k] = NotRun
    BY <2>1 DEF AssayInit, None, FnResult
  <2> QED BY <2>1 DEF Recorded, QuietRunJudgedExactly
<1>2. AssayInv /\ Recorded /\ [AssayNext]_allVars => Recorded'
  BY RecordedStep DEF AssayInv
<1>3. AssayInv /\ AssayInv' /\ Phases /\ Recorded /\ QuietRunJudgedExactly /\ [AssayNext]_allVars
        => QuietRunJudgedExactly'
  BY ExactStep
<1> QED BY <1>1, <1>2, <1>3, AssayInvariant, PhasesInvariant, PTL DEF AssaySpec

----------------------------------------------------------------------------
(* runFn implements Gate. *)

(* The standing of a row, from what it did and whether it was claimed.     *)
Standing(agreed, claimed, o) ==
  IF agreed THEN "agrees" ELSE IF claimed THEN "claimed" ELSE IF o = NotRun THEN "unknown" ELSE "disagrees"

(* A row is observed once, and claimed or settled; nothing else about the  *)
(* rows ever changes, nor at the moment of the verdict.                    *)
LEMMA GateStep ==
  ASSUME AssayInv, AssayInv', Phases, [AssayNext]_allVars
  PROVE  TheGate!Next \/ UNCHANGED <<GateOutcome, GateVerdict>>
<1> DEFINE E(k) == Expected(k)
           S(k) == Standing(Agrees(E(k), ran[k]), Printed(k, E(k)), ran[k])
           T(k) == Standing(Agrees(E(k), ran'[k]), \E i \in printed' : written'[i] = Says(k, E(k)), ran'[k])
<1>1. tables' = tables /\ \A k : Expected(k)' = Expected(k)
  BY ControlStep DEF AssayInv, Expected
<1>2. GateOutcome = [k \in Keys(tables) |-> S(k)]
  BY DEF GateOutcome, Standing
<1>3. GateOutcome' = [k \in Keys(tables) |-> T(k)]
  BY <1>1 DEF GateOutcome, Standing, Agrees, Printed, Says
<1>4. /\ \A i \in printed : i \in printed' /\ written'[i] = written[i]
      /\ \A i \in 1 .. Len(written) : i \in printed' <=> i \in printed
      /\ printed \subseteq 1 .. Len(written)
  BY HistoryGrows DEF AssayInv, AssayTypeOK
<1>5. CASE UNCHANGED <<ran, printed>>
  <2>1. GateOutcome' = GateOutcome
    <3>1. \A k : (\E i \in printed' : written'[i] = Says(k, E(k))) <=> Printed(k, E(k))
      BY <1>4, <1>5 DEF Printed
    <3> HIDE DEF E
    <3>2. \A k : T(k) = S(k)
      BY <1>5, <3>1 DEF Standing
    <3> QED BY <1>2, <1>3, <3>2
  <2>2. CASE UNCHANGED <<pc, result>>
    BY <2>1, <2>2 DEF GateVerdict, Passed
  <2>3. CASE pc # "done" /\ pc' # "done"
    BY <2>1, <2>3 DEF GateVerdict
  <2>4. CASE pc # "done" /\ pc' = "done"
    <3>1. GateVerdict = "pending" /\ GateVerdict' = IF Passed(result') THEN "green" ELSE "red"
      BY <2>4 DEF GateVerdict, Passed
    <3>2. ASSUME Passed(result') PROVE TheGate!Earned
      <4>1. /\ Keys(tables) # {}
            /\ \A k \in Keys(tables) :
                 Agrees(E(k), ran'[k]) \/ \E i \in printed' : written'[i] = Says(k, E(k))
        BY <1>1, <3>2 DEF AssayInv, GreenIsEarned, Passed, Agrees, Printed, Says
      <4> HIDE DEF E
      <4>2. \A k \in Keys(tables) : T(k) \in {"agrees", "claimed"}
        BY <4>1 DEF Standing
      <4>3. \A k \in Keys(tables) : GateOutcome[k] \in {"agrees", "claimed"}
        BY <1>3, <2>1, <4>2
      <4> QED BY <1>2, <4>1, <4>3 DEF TheGate!Earned
    <3> QED BY <2>1, <3>1, <3>2 DEF TheGate!Next, TheGate!Decide
  <2> QED BY <2>2, <2>3, <2>4, ControlStep DEF AssayInv
<1>6. CASE ran' # ran \/ printed' # printed
  <2>1. pc = "run"
    BY <1>6, OutsideTheRun DEF AssayInv
  <2>2. UNCHANGED <<pc, result>>
    BY <1>6, ControlStep DEF AssayInv
  <2>3. GateVerdict = "pending" /\ GateVerdict' = "pending"
    BY <2>1, <2>2 DEF GateVerdict
  <2>4. ASSUME UNCHANGED ran, printed' = printed \cup {Len(written')}
        PROVE  TheGate!Next \/ UNCHANGED <<GateOutcome, GateVerdict>>
    <3> DEFINE line == written'[Len(written')]
    <3>1. \A k : (\E i \in printed' : written'[i] = Says(k, E(k))) <=> Printed(k, E(k)) \/ line = Says(k, E(k))
      BY <1>4, <2>4 DEF Printed
    <3> HIDE DEF line, E
    <3>2. \A k : line # Says(k, E(k)) => T(k) = S(k)
      BY <2>4, <3>1 DEF Standing
    <3>3. ASSUME NEW k \in Keys(tables), line = Says(k, E(k))
          PROVE  TheGate!Next \/ UNCHANGED <<GateOutcome, GateVerdict>>
      <4>1. \A j : j # k => T(j) = S(j)
        BY <3>2, <3>3 DEF Says
      <4>2. T(k) = S(k) \/ (T(k) = "claimed" /\ S(k) \in {"unknown", "disagrees"})
        BY <2>4, <3>1, <3>3 DEF Standing
      <4> HIDE DEF S, T
      <4>3. CASE T(k) = S(k)
        BY <1>2, <1>3, <2>3, <4>1, <4>3
      <4>4. CASE T(k) = "claimed" /\ S(k) \in {"unknown", "disagrees"}
        <5>1. GateOutcome' = [GateOutcome EXCEPT ![k] = "claimed"] /\ GateOutcome[k] = S(k)
          BY <1>2, <1>3, <4>1, <4>4
        <5> QED BY <1>2, <2>3, <4>4, <5>1 DEF TheGate!Next, TheGate!Claim
      <4> QED BY <4>2, <4>3, <4>4
    <3>4. CASE \A k \in Keys(tables) : line # Says(k, E(k))
      BY <1>2, <1>3, <2>3, <3>2, <3>4
    <3> QED BY <3>3, <3>4
  <2>5. ASSUME NEW k \in Keys(tables), NEW o \in Outcome, ran[k] = NotRun, ran' = [ran EXCEPT ![k] = o],
               UNCHANGED printed
        PROVE  TheGate!Next \/ UNCHANGED <<GateOutcome, GateVerdict>>
    <3>1. \A j : (\E i \in printed' : written'[i] = Says(j, E(j))) <=> Printed(j, E(j))
      BY <1>4, <2>5 DEF Printed
    <3>2. ran'[k] = o /\ o # NotRun /\ \A j \in Keys(tables) : j # k => ran'[j] = ran[j]
      BY <2>5, NotRunIsNoOutcome DEF AssayInv, AssayTypeOK
    <3>3. ~ Agrees(E(k), ran[k])
      BY <2>5, ExpectedType DEF Agrees, AssayInv, AssayTypeOK
    <3> HIDE DEF E
    <3>4. \A j \in Keys(tables) : j # k => T(j) = S(j)
      BY <3>1, <3>2 DEF Standing
    <3>5. S(k) \in {"unknown", "claimed"} /\ (T(k) = S(k) \/ T(k) = "agrees"
            \/ (T(k) = "disagrees" /\ S(k) = "unknown"))
      BY <2>5, <3>1, <3>2, <3>3 DEF Standing
    <3> HIDE DEF S, T
    <3>6. GateOutcome' = [GateOutcome EXCEPT ![k] = T(k)] /\ GateOutcome[k] = S(k)
      BY <1>2, <1>3, <3>4
    <3>7. CASE T(k) = S(k)
      BY <1>2, <1>3, <2>3, <3>4, <3>7
    <3>8. CASE T(k) = "agrees" \/ (T(k) = "disagrees" /\ S(k) = "unknown")
      BY <1>2, <2>3, <3>5, <3>6, <3>8 DEF TheGate!Next, TheGate!Observe
    <3> QED BY <3>5, <3>7, <3>8
  <2> QED BY <1>6, <2>4, <2>5, HistoryStep DEF AssayInv
<1> QED BY <1>5, <1>6

(* The safety half of ImplementsGate: whatever assay.runFn does is a       *)
(* behaviour of the gate, and its verdict is given once, and green only    *)
(* when every row agreed or was claimed by the code under test.            *)
THEOREM GateRefined == AssaySpec => TheGate!Init /\ [][TheGate!Next]_<<GateOutcome, GateVerdict>>
<1>1. AssayInit /\ AssayInv => TheGate!Init
  <2> SUFFICES ASSUME AssayInit, AssayInv PROVE TheGate!Init
    OBVIOUS
  <2>1. \A k \in Keys(tables) : ~ Agrees(Expected(k), ran[k]) /\ ~ Printed(k, Expected(k))
    BY ExpectedType DEF AssayInit, AssayInv, AssayTypeOK, Agrees, Printed
  <2>2. \A k \in Keys(tables) : GateOutcome[k] = "unknown"
    BY <2>1 DEF AssayInit, GateOutcome
  <2>3. GateVerdict = "pending"
    BY DEF AssayInit, GateVerdict
  <2> QED BY <2>2, <2>3 DEF TheGate!Init, GateOutcome
<1>2. AssayInv /\ AssayInv' /\ Phases /\ [AssayNext]_allVars
        => [TheGate!Next]_<<GateOutcome, GateVerdict>>
  BY GateStep
<1> QED BY <1>1, <1>2, AssayInvariant, PhasesInvariant, PTL DEF AssaySpec
=============================================================================
