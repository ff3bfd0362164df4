---------------------------- MODULE SyntaxProofs ----------------------------
(***************************************************************************)
(* Proofs about Syntax: for every file, the parser drops no line without   *)
(* a diagnostic, and the spans it puts into diagnostics point at the text  *)
(* they are about.                                                         *)
(***************************************************************************)
EXTENDS Syntax, ScanProofs

----------------------------------------------------------------------------
(* Syntax: the parser's passes over those lines.                           *)

(* While the file is being scanned the parser has not begun. *)
ParserIdle == pos = 1 /\ fn = NoFn /\ errors = {} /\ kept = {} /\ tried = {}

SyntaxInv ==
  /\ ScanInv
  /\ fn.head \in Nat
  /\ SyntaxTypeOK
  /\ DroppedOrReported
  /\ ~Scanned => ParserIdle

(* DroppedOrReported, of N lines of which those before p have been passed, *)
(* E been reported and K been kept.                                        *)
Dropped(N, p, E, K) ==
  \A k \in 1 .. N : k < p /\ k \notin K =>
    \E e \in E : e <= k /\ \A j \in e .. k : j \notin K

(* DroppedOrReported, as a relation of the places it speaks of.            *)
LEMMA DroppedSame == DroppedOrReported <=> Dropped(Len(out), pos, errors, kept)
BY DEF DroppedOrReported, Dropped

(* Passing over the lines from p to q - 1, of which K2 are kept and E2     *)
(* reported, when each line not kept is explained by one of E2.            *)
LEMMA DroppedStep ==
  ASSUME NEW N \in Nat, NEW p \in Nat \ {0}, NEW q \in Nat, p <= q,
         NEW E \in SUBSET Nat, NEW K \in SUBSET Nat,
         NEW E2 \in SUBSET Nat, NEW K2 \in SUBSET Nat,
         \A k \in K : k < p, \A k \in K2 : p <= k,
         Dropped(N, p, E, K),
         \A k \in p .. q - 1 : k \notin K2 =>
           \E e \in E2 : p <= e /\ e <= k /\ \A j \in e .. k : j \notin K2
  PROVE  Dropped(N, q, E \cup E2, K \cup K2)
<1> SUFFICES ASSUME NEW k \in 1 .. N, k < q, k \notin K \cup K2
             PROVE  \E e \in E \cup E2 : e <= k /\ \A j \in e .. k : j \notin K \cup K2
  BY DEF Dropped
<1>1. CASE k < p
  <2>1. PICK e \in E : e <= k /\ \A j \in e .. k : j \notin K
    BY <1>1 DEF Dropped
  <2>2. \A j \in e .. k : j \notin K2
    BY <1>1
  <2> QED BY <2>1, <2>2
<1>2. CASE ~(k < p)
  <2>1. k \in p .. q - 1
    BY <1>2
  <2>2. PICK e \in E2 : p <= e /\ e <= k /\ \A j \in e .. k : j \notin K2
    BY <2>1
  <2>3. \A j \in e .. k : j \notin K
    BY <2>2
  <2> QED BY <2>2, <2>3
<1> QED BY <1>1, <1>2

----------------------------------------------------------------------------
(* Where the parser's loops stop. *)

LEMMA StopsAhead ==
  ASSUME NEW i \in Nat, NEW N \in Nat, NEW T \in SUBSET (i .. N + 1), N + 1 \in T
  PROVE  Min(T) \in i .. N + 1
<1>1. T \in SUBSET Nat /\ T # {}
  OBVIOUS
<1>2. \E m \in T : \A x \in T : m <= x
  BY <1>1, LeastOf
<1>3. Min(T) \in T
  BY <1>2 DEF Min
<1> QED BY <1>3

(* Parser.recover and skipIndented stop ahead of the line they start from. *)
LEMMA SkipAhead ==
  ASSUME Len(out) \in Nat, NEW i \in Nat, NEW d
  PROVE  /\ SkipTo(i, d) \in Nat /\ i <= SkipTo(i, d)
         /\ i <= Len(out) + 1 => SkipTo(i, d) <= Len(out) + 1
         /\ i <= Len(out) + 2 => SkipTo(i, d) <= Len(out) + 2
<1> DEFINE T == {j \in i .. Len(out) + 1 : j = Len(out) + 1 \/ Indent(j) <= d}
<1>1. CASE i > Len(out)
  BY <1>1 DEF SkipTo
<1>2. CASE ~(i > Len(out))
  <2>1. T \in SUBSET (i .. Len(out) + 1) /\ Len(out) + 1 \in T
    BY <1>2
  <2>2. SkipTo(i, d) = Min(T)
    BY <1>2 DEF SkipTo
  <2> HIDE DEF T
  <2>3. Min(T) \in i .. Len(out) + 1
    BY <2>1, StopsAhead
  <2> QED BY <2>2, <2>3
<1> QED BY <1>1, <1>2

(* The rows of a table end ahead of its header, and within the file.       *)
LEMMA RowsAhead ==
  ASSUME Len(out) \in Nat, NEW i \in Nat, NEW d
  PROVE  /\ RowsTo(i, d) \in Nat /\ i <= RowsTo(i, d)
         /\ i <= Len(out) + 1 => RowsTo(i, d) <= Len(out) + 1
<1> DEFINE T == {j \in i .. Len(out) + 1 : j = Len(out) + 1 \/ ~RowUnder(j, d)}
<1>1. CASE i > Len(out)
  BY <1>1 DEF RowsTo
<1>2. CASE ~(i > Len(out))
  <2>1. T \in SUBSET (i .. Len(out) + 1) /\ Len(out) + 1 \in T
    BY <1>2
  <2>2. RowsTo(i, d) = Min(T)
    BY <1>2 DEF RowsTo
  <2> HIDE DEF T
  <2>3. Min(T) \in i .. Len(out) + 1
    BY <2>1, StopsAhead
  <2> QED BY <2>2, <2>3
<1> QED BY <1>1, <1>2

(* The lines passed over in a step from line p to line q. *)
LEMMA LinesPassed ==
  ASSUME NEW N \in Nat, NEW p \in Nat, NEW q \in Nat, q <= N + 1
  PROVE  /\ p .. q - 1 \in SUBSET Nat
         /\ \A k \in p .. q - 1 : p <= k /\ k < q /\ k <= N
OBVIOUS

(* Those of a table that begins at line p: its head, its header and rows   *)
(* that either fit or do not.                                              *)
LEMMA TableLines ==
  \A N, p, q \in Nat : \A rows \in SUBSET (p + 2 .. q - 1) :
    p + 2 <= q /\ q <= N + 1 =>
      LET misses == (p + 2 .. q - 1) \ rows
          whole == {p, p + 1} \cup rows
      IN  /\ misses \in SUBSET Nat /\ whole \in SUBSET Nat
          /\ \A k \in misses : p <= k /\ k < q /\ k <= N
          /\ \A k \in whole : p <= k /\ k < q /\ k <= N
          /\ \A k \in p .. q - 1 : k \notin whole =>
               k \in misses /\ p <= k /\ k <= k /\ \A j \in k .. k : j \notin whole
OBVIOUS

----------------------------------------------------------------------------
(* A step of the parser: it goes from pos to pos', keeping K2 and          *)
(* reporting E2 on the way.                                                *)

LEMMA ParserStep ==
  ASSUME SyntaxInv, Scanned, UNCHANGED scanVars,
         NEW E2 \in SUBSET Nat, NEW K2 \in SUBSET Nat,
         pos' \in Nat, pos < pos', pos' <= Len(out) + 2,
         errors' = errors \cup E2, kept' = kept \cup K2,
         tried' \in {tried, tried \cup {pos}}, pos <= Len(out),
         \A k \in E2 \cup K2 : pos <= k /\ k < pos' /\ k <= Len(out),
         fn' # NoFn => pos' <= Len(out) + 1 /\ fn'.head \in kept',
         fn'.head \in Nat,
         \A k \in pos .. pos' - 1 : k \notin K2 =>
           \E e \in E2 : pos <= e /\ e <= k /\ \A j \in e .. k : j \notin K2
  PROVE  SyntaxInv'
<1>1. /\ Len(out) \in Nat /\ pos \in Nat \ {0}
      /\ errors \cup kept \cup tried \subseteq 1 .. Len(out)
      /\ \A k \in errors \cup kept \cup tried : k < pos
  BY LenProperties DEF SyntaxInv, SyntaxTypeOK, ScanInv
<1>2. ScanInv' /\ Scanned' /\ out' = out
  BY DEF SyntaxInv, ScanInv, Scanned, scanVars
<1>3. Dropped(Len(out), pos, errors, kept)
  BY DroppedSame DEF SyntaxInv
<1>4. Dropped(Len(out), pos', errors \cup E2, kept \cup K2)
  <2>1. errors \in SUBSET Nat /\ kept \in SUBSET Nat /\ pos <= pos'
    BY <1>1
  <2>2. (\A k \in kept : k < pos) /\ (\A k \in K2 : pos <= k)
    BY <1>1
  <2> QED BY <1>1, <1>3, <2>1, <2>2, DroppedStep
<1>5. DroppedOrReported'
  BY <1>2, <1>4 DEF DroppedOrReported, Dropped
<1>6. SyntaxTypeOK'
  <2>1. pos' \in 1 .. Len(out) + 2
    BY <1>1
  <2>a. ASSUME NEW k \in errors' \cup kept' \cup tried'
        PROVE  k \in errors \cup kept \cup tried \/ k \in E2 \cup K2 \/ k = pos
    OBVIOUS
  <2>b. ASSUME NEW k \in errors' \cup kept' \cup tried'
        PROVE  k \in 1 .. Len(out) /\ k < pos'
    <3>1. CASE k \in errors \cup kept \cup tried
      <4>1. k \in 1 .. Len(out) /\ k < pos
        BY <1>1, <3>1
      <4> QED BY <1>1, <4>1
    <3>2. CASE k \in E2 \cup K2
      <4>1. k \in Nat /\ pos <= k /\ k < pos' /\ k <= Len(out)
        BY <3>2
      <4> QED BY <1>1, <4>1
    <3>3. CASE k = pos
      BY <1>1, <3>3
    <3> QED BY <2>a, <3>1, <3>2, <3>3
  <2>2. errors' \cup kept' \cup tried' \subseteq 1 .. Len(out)
    BY <2>b
  <2>3. \A k \in errors' \cup kept' \cup tried' : k < pos'
    BY <2>b
  <2> QED BY <1>2, <2>1, <2>2, <2>3 DEF SyntaxTypeOK
<1> QED BY <1>2, <1>5, <1>6 DEF SyntaxInv

(* The step passes over every line up to pos', having reported the first.  *)
LEMMA SkipStep ==
  ASSUME SyntaxInv, Scanned, UNCHANGED scanVars,
         pos' \in Nat, pos < pos', pos' <= Len(out) + 2, pos <= Len(out),
         errors' = errors \cup {pos}, kept' = kept,
         tried' \in {tried, tried \cup {pos}},
         fn' = fn, fn # NoFn => pos' <= Len(out) + 1
  PROVE  SyntaxInv'
<1>1. pos \in Nat \ {0} /\ (fn # NoFn => fn.head \in kept) /\ fn.head \in Nat
  BY DEF SyntaxInv, SyntaxTypeOK
<1>2. /\ kept' = kept \cup {} /\ {pos} \in SUBSET Nat /\ {} \in SUBSET Nat
      /\ \A k \in {pos} \cup {} : pos <= k /\ k < pos' /\ k <= Len(out)
      /\ \A k \in pos .. pos' - 1 : k \notin {} =>
           \E e \in {pos} : pos <= e /\ e <= k /\ \A j \in e .. k : j \notin {}
  <2>1. kept' = kept \cup {} /\ {pos} \in SUBSET Nat /\ {} \in SUBSET Nat
    BY <1>1
  <2>2. \A k \in {pos} \cup {} : pos <= k /\ k < pos' /\ k <= Len(out)
    BY <1>1
  <2>3. ASSUME NEW k \in pos .. pos' - 1
        PROVE  \E e \in {pos} : pos <= e /\ e <= k /\ \A j \in e .. k : j \notin {}
    <3>1. pos <= pos /\ pos <= k
      BY <1>1
    <3> QED BY <3>1
  <2> QED BY <2>1, <2>2, <2>3
<1>3. fn' # NoFn => pos' <= Len(out) + 1 /\ fn'.head \in kept'
  BY <1>1
<1> QED BY <1>1, <1>2, <1>3, ParserStep

(* The step keeps every line up to pos', and may report the first.         *)
LEMMA KeepStep ==
  ASSUME SyntaxInv, Scanned, UNCHANGED scanVars,
         pos' \in Nat, pos < pos', pos' <= Len(out) + 1, pos <= Len(out),
         errors' \in {errors, errors \cup {pos}}, kept' = kept \cup (pos .. pos' - 1),
         tried' \in {tried, tried \cup {pos}},
         fn'.head = pos \/ (fn'.head = fn.head /\ fn # NoFn)
  PROVE  SyntaxInv'
<1>1. pos \in Nat \ {0} /\ fn.head \in Nat /\ (fn # NoFn => fn.head \in kept) /\ Len(out) \in Nat
  BY LenProperties DEF SyntaxInv, SyntaxTypeOK, ScanInv
<1>2. PICK E2 \in {{}, {pos}} : errors' = errors \cup E2
  OBVIOUS
<1> DEFINE K2 == pos .. pos' - 1
<1>3. /\ E2 \in SUBSET Nat /\ K2 \in SUBSET Nat
      /\ \A k \in E2 \cup K2 : pos <= k /\ k < pos' /\ k <= Len(out)
      /\ pos' <= Len(out) + 2
  <2>1. E2 \subseteq {pos} /\ E2 \in SUBSET Nat
    BY <1>1
  <2>2. K2 \in SUBSET Nat /\ \A k \in K2 : pos <= k /\ k < pos' /\ k <= Len(out)
    BY <1>1, LinesPassed
  <2>3. \A k \in E2 : k = pos
    BY <2>1
  <2>4. pos <= pos /\ pos' <= Len(out) + 2
    BY <1>1
  <2> HIDE DEF K2
  <2> QED BY <2>1, <2>2, <2>3, <2>4
<1>4. fn'.head \in Nat /\ fn'.head \in kept'
  BY <1>1
<1>5. \A k \in pos .. pos' - 1 : k \in K2
  OBVIOUS
<1> HIDE DEF K2
<1>6. kept' = kept \cup K2
  BY DEF K2
<1> QED BY <1>1, <1>2, <1>3, <1>4, <1>5, <1>6, ParserStep

----------------------------------------------------------------------------
(* The invariant is inductive. *)

LEMMA SyntaxStart ==
  ASSUME SyntaxInit
  PROVE  SyntaxInv
<1>1. ScanInv
  BY ScanStart, FileType DEF SyntaxInit, ScanInit
<1>2. ParserIdle /\ fn.head \in Nat
  BY DEF SyntaxInit, ParserIdle, NoFn
<1>3. Len(out) \in Nat
  BY <1>1, LenProperties DEF ScanInv
<1>4. SyntaxTypeOK /\ DroppedOrReported
  BY <1>2, <1>3 DEF ParserIdle, SyntaxTypeOK, DroppedOrReported
<1> QED BY <1>1, <1>2, <1>4 DEF SyntaxInv

(* Scanning a line keeps the invariant: the parser has not begun.          *)
LEMMA ScanningStep ==
  ASSUME SyntaxInv, Scanning
  PROVE  SyntaxInv'
<1>1. ScanInv' /\ UNCHANGED parseVars
  BY ScanStep DEF SyntaxInv, Scanning
<1>2. ~Scanned
  <2>1. n \in Nat /\ Len(file) \in Nat
    BY ScanAssumption DEF SyntaxInv, ScanInv
  <2>2. n <= Len(file)
    BY DEF Scanning, ScanNext, Separate, Continue, OpenLine
  <2> QED BY <2>1, <2>2 DEF Scanned
<1>3. ParserIdle' /\ fn' = fn
  BY <1>1, <1>2 DEF SyntaxInv, ParserIdle, parseVars
<1>4. Len(out)' \in Nat
  BY <1>1, LenProperties DEF ScanInv
<1>5. SyntaxTypeOK'
  BY <1>3, <1>4 DEF ParserIdle, SyntaxTypeOK
<1>6. DroppedOrReported'
  BY <1>3, <1>4 DEF ParserIdle, DroppedOrReported
<1>7. fn'.head \in Nat
  BY <1>3 DEF SyntaxInv
<1> QED BY <1>1, <1>3, <1>5, <1>6, <1>7 DEF SyntaxInv

(* What a step of the parser starts from. *)
LEMMA AtLine ==
  ASSUME SyntaxInv
  PROVE  /\ Len(out) \in Nat /\ pos \in Nat \ {0}
         /\ fn # NoFn => pos <= Len(out) + 1
BY LenProperties DEF SyntaxInv, SyntaxTypeOK, ScanInv

(* A step of the parser at the top level keeps the invariant.              *)
LEMMA TopStep ==
  ASSUME SyntaxInv, NotADeclaration \/ BadSignature \/ OpenDeclaration \/ CloseDeclaration
  PROVE  SyntaxInv'
<1>0. Len(out) \in Nat /\ pos \in Nat \ {0}
  BY AtLine
<1>1. CASE NotADeclaration
  <2>1. /\ Scanned /\ UNCHANGED scanVars /\ pos <= Len(out) /\ fn = NoFn /\ fn' = fn
        /\ errors' = errors \cup {pos} /\ kept' = kept /\ tried' = tried \cup {pos}
        /\ pos' = SkipTo(pos + 1, 0)
    BY <1>1 DEF NotADeclaration, AtTop
  <2>2. pos' \in Nat /\ pos < pos' /\ pos' <= Len(out) + 2
    BY <1>0, <2>1, SkipAhead
  <2> QED BY <2>1, <2>2, SkipStep
<1>2. CASE BadSignature
  <2>1. /\ Scanned /\ UNCHANGED scanVars /\ pos <= Len(out) /\ fn = NoFn /\ fn' = fn
        /\ errors' = errors \cup {pos} /\ kept' = kept /\ tried' = tried \cup {pos}
        /\ pos' = SkipTo(pos + 2, 0)
    BY <1>2 DEF BadSignature, AtTop
  <2>2. pos' \in Nat /\ pos < pos' /\ pos' <= Len(out) + 2
    BY <1>0, <2>1, SkipAhead
  <2> QED BY <2>1, <2>2, SkipStep
<1>3. CASE OpenDeclaration
  <2>1. /\ Scanned /\ UNCHANGED scanVars /\ pos <= Len(out)
        /\ errors' \in {errors, errors \cup {pos}} /\ kept' = kept \cup {pos}
        /\ tried' = tried \cup {pos} /\ fn'.head = pos
        /\ pos' = pos + 1
    BY <1>3 DEF OpenDeclaration, AtTop
  <2>2. pos' \in Nat /\ pos < pos' /\ pos' <= Len(out) + 1 /\ pos .. pos' - 1 = {pos}
    BY <1>0, <2>1
  <2>3. kept' = kept \cup (pos .. pos' - 1)
    BY <2>1, <2>2
  <2> QED BY <2>1, <2>2, <2>3, KeepStep
<1>4. CASE CloseDeclaration
  <2>1. Scanned /\ UNCHANGED <<scanVars, pos, errors, kept, tried>> /\ fn' = NoFn
    BY <1>4 DEF CloseDeclaration
  <2>2. ScanInv' /\ Scanned' /\ out' = out
    BY <2>1 DEF SyntaxInv, ScanInv, Scanned, scanVars
  <2>3. SyntaxTypeOK' /\ DroppedOrReported'
    BY <2>1, <2>2 DEF SyntaxInv, SyntaxTypeOK, DroppedOrReported
  <2>4. fn'.head \in Nat
    BY <2>1 DEF NoFn
  <2> QED BY <2>2, <2>3, <2>4 DEF SyntaxInv
<1> QED BY <1>1, <1>2, <1>3, <1>4

(* Keeping a section leaves the declaration's head alone. *)
LEMMA SectionStep ==
  ASSUME SyntaxInv, Sections
  PROVE  SyntaxInv'
<1>0. /\ Len(out) \in Nat /\ pos \in Nat \ {0}
      /\ Scanned /\ fn # NoFn /\ pos <= Len(out) /\ UNCHANGED scanVars /\ tried' = tried
  BY AtLine DEF Sections, Intent, Property, UnnamedScenario, TableWithoutHeader,
     TableAndRows, StrayRow, UnknownSection, AtTable, AtSection
<1>1. ASSUME pos' = SkipTo(pos + 1, Indent(pos))
      PROVE  pos' \in Nat /\ pos < pos' /\ pos' <= Len(out) + 1
  BY <1>0, <1>1, SkipAhead
<1>2. ASSUME pos' = pos + 1
      PROVE  pos' \in Nat /\ pos < pos' /\ pos' <= Len(out) + 1 /\ pos' <= Len(out) + 2
  BY <1>0, <1>2
<1>3. CASE Intent
  <2>1. /\ pos' = SkipTo(pos + 1, Indent(pos)) /\ errors' = errors
        /\ kept' = kept \cup (pos .. pos' - 1) /\ fn'.head = fn.head
    BY <1>3 DEF Intent, Keep
  <2> QED BY <1>0, <1>1, <2>1, KeepStep
<1>4. CASE Property
  <2>1. /\ pos' = SkipTo(pos + 1, Indent(pos)) /\ errors' \in {errors, errors \cup {pos}}
        /\ kept' = kept \cup (pos .. pos' - 1) /\ fn'.head = fn.head
    BY <1>4 DEF Property, Keep
  <2> QED BY <1>0, <1>1, <2>1, KeepStep
<1>5. CASE UnnamedScenario
  BY <1>0, <1>2, <1>5, SkipStep DEF UnnamedScenario
<1>6. CASE TableWithoutHeader
  BY <1>0, <1>2, <1>6, SkipStep DEF TableWithoutHeader
<1>7. CASE StrayRow
  BY <1>0, <1>2, <1>7, SkipStep DEF StrayRow
<1>8. CASE UnknownSection
  <2>1. /\ pos' = SkipTo(pos + 1, Indent(pos)) /\ errors' = errors \cup {pos}
        /\ kept' = kept /\ fn' = fn
    BY <1>8 DEF UnknownSection
  <2>2. pos' \in Nat /\ pos < pos' /\ pos' <= Len(out) + 1 /\ pos' <= Len(out) + 2
    BY <1>0, <1>1, <2>1
  <2> QED BY <1>0, <2>1, <2>2, SkipStep
<1>9. CASE TableAndRows
  <2> DEFINE rows == Fitting(pos + 1, pos')
             misfits == (pos + 2 .. pos' - 1) \ rows
  <2>1. /\ pos' = RowsTo(pos + 2, Indent(pos)) /\ RowUnder(pos + 1, Indent(pos))
        /\ \/ /\ fn'.head = fn.head /\ kept' = kept \cup ({pos, pos + 1} \cup rows)
              /\ errors' = errors \cup misfits
           \/ /\ rows = {} /\ errors' = errors \cup misfits \cup {pos}
              /\ fn' = fn /\ kept' = kept
    <3>1. CASE rows # {} /\ Keep(Section("table", pos, pos' - 1, rows), {pos, pos + 1} \cup rows)
               /\ errors' = errors \cup misfits
      <4>1. fn'.head = fn.head
        BY <3>1 DEF Keep
      <4>2. kept' = kept \cup ({pos, pos + 1} \cup rows)
        BY <3>1 DEF Keep
      <4> QED BY <1>9, <3>1, <4>1, <4>2 DEF TableAndRows
    <3>2. CASE rows = {} /\ errors' = errors \cup misfits \cup {pos} /\ UNCHANGED <<fn, kept>>
      BY <1>9, <3>2 DEF TableAndRows
    <3> QED BY <1>9, <3>1, <3>2 DEF TableAndRows
  <2>2. pos + 1 <= Len(out)
    BY <2>1 DEF RowUnder
  <2>3. pos' \in Nat /\ pos + 2 <= pos' /\ pos' <= Len(out) + 1
    BY <1>0, <2>1, <2>2, RowsAhead
  <2>4. rows \subseteq pos + 2 .. pos' - 1
    BY <1>0, <2>3 DEF Fitting
  <2>5. fn.head \in Nat /\ fn.head \in kept
    BY <1>0 DEF SyntaxInv, SyntaxTypeOK
  <2>t. /\ misfits \in SUBSET Nat /\ {pos, pos + 1} \cup rows \in SUBSET Nat
        /\ \A k \in misfits : pos <= k /\ k < pos' /\ k <= Len(out)
        /\ \A k \in {pos, pos + 1} \cup rows : pos <= k /\ k < pos' /\ k <= Len(out)
        /\ \A k \in pos .. pos' - 1 : k \notin {pos, pos + 1} \cup rows =>
             /\ k \in misfits /\ pos <= k /\ k <= k
             /\ \A j \in k .. k : j \notin {pos, pos + 1} \cup rows
    <3>1. Len(out) \in Nat /\ pos \in Nat
      BY <1>0
    <3>2. rows \in SUBSET (pos + 2 .. pos' - 1)
      BY <2>4, Zenon
    <3> HIDE DEF rows
    <3> QED BY <2>3, <3>1, <3>2, TableLines, Zenon
  <2> HIDE DEF rows, misfits
  <2>6. CASE kept' = kept \cup ({pos, pos + 1} \cup rows) /\ fn'.head = fn.head
             /\ errors' = errors \cup misfits
    <3> DEFINE K2 == {pos, pos + 1} \cup rows
    <3>1. /\ misfits \in SUBSET Nat /\ K2 \in SUBSET Nat
          /\ \A k \in misfits : pos <= k /\ k < pos' /\ k <= Len(out)
          /\ \A k \in K2 : pos <= k /\ k < pos' /\ k <= Len(out)
          /\ \A k \in pos .. pos' - 1 : k \notin K2 =>
               k \in misfits /\ pos <= k /\ k <= k /\ \A j \in k .. k : j \notin K2
      BY <2>t
    <3>3. pos < pos' /\ pos' <= Len(out) + 2 /\ kept' = kept \cup K2
          /\ fn'.head \in Nat /\ fn'.head \in kept'
      BY <1>0, <2>3, <2>5, <2>6
    <3> HIDE DEF K2
    <3>4. \A k \in pos .. pos' - 1 : k \notin K2 =>
            \E e \in misfits : pos <= e /\ e <= k /\ \A j \in e .. k : j \notin K2
      BY <3>1
    <3>5. \A k \in misfits \cup K2 : pos <= k /\ k < pos' /\ k <= Len(out)
      BY <3>1
    <3> QED BY <1>0, <2>3, <2>6, <3>1, <3>3, <3>4, <3>5, ParserStep
  <2>7. CASE rows = {} /\ errors' = errors \cup misfits \cup {pos} /\ fn' = fn /\ kept' = kept
    <3> DEFINE E2 == misfits \cup {pos}
    <3>1. /\ E2 \in SUBSET Nat /\ {} \in SUBSET Nat
          /\ \A k \in E2 \cup {} : pos <= k /\ k < pos' /\ k <= Len(out)
          /\ pos \in E2 /\ errors' = errors \cup E2 /\ kept' = kept \cup {}
      <4>m. /\ misfits \in SUBSET Nat
            /\ \A k \in misfits : pos <= k /\ k < pos' /\ k <= Len(out)
        BY <2>t
      <4>1. ASSUME NEW k \in E2 PROVE k \in Nat /\ pos <= k /\ k < pos' /\ k <= Len(out)
        <5>1. k = pos \/ k \in misfits
          OBVIOUS
        <5>2. pos <= pos /\ pos < pos'
          BY <1>0, <2>3
        <5> QED BY <1>0, <4>m, <5>1, <5>2
      <4>2. pos \in E2 /\ errors' = errors \cup E2 /\ kept' = kept \cup {}
        BY <2>7
      <4> HIDE DEF E2
      <4> QED BY <4>1, <4>2
    <3> HIDE DEF E2
    <3>2. \A k \in pos .. pos' - 1 : k \notin {} =>
            \E e \in E2 : pos <= e /\ e <= k /\ \A j \in e .. k : j \notin {}
      BY <1>0, <3>1
    <3>3. pos < pos' /\ pos' <= Len(out) + 2 /\ fn'.head \in Nat /\ fn'.head \in kept'
      BY <1>0, <2>3, <2>5, <2>7
    <3> QED BY <1>0, <2>3, <3>1, <3>2, <3>3, ParserStep
  <2> QED BY <2>1, <2>6, <2>7
<1> QED BY <1>3, <1>4, <1>5, <1>6, <1>7, <1>8, <1>9 DEF Sections

(* Every step of Parse keeps the invariant.                                *)
LEMMA SyntaxStep ==
  ASSUME SyntaxInv, [SyntaxNext]_syntaxVars
  PROVE  SyntaxInv'
<1>1. CASE Scanning
  BY <1>1, ScanningStep
<1>2. CASE Parsing
  BY <1>2, TopStep, SectionStep DEF Parsing
<1>3. CASE UNCHANGED syntaxVars
  BY <1>3 DEF SyntaxInv, ScanInv, SyntaxTypeOK, DroppedOrReported, Scanned, ParserIdle,
     syntaxVars, scanVars, parseVars, Indent
<1> QED BY <1>1, <1>2, <1>3 DEF SyntaxNext, Ended

----------------------------------------------------------------------------
(* What the loops pass over. *)

(* The least of a set of numbers has none of the set below it.             *)
LEMMA NoneBefore ==
  ASSUME NEW T \in SUBSET Nat, NEW N \in T
  PROVE  Min(T) \in T /\ \A x \in T : Min(T) <= x
<1>1. \E m \in T : \A x \in T : m <= x
  BY LeastOf
<1> QED BY <1>1 DEF Min

(* Every line that recover and skipIndented pass over is deeper.           *)
LEMMA SkippedDeeper ==
  ASSUME Len(out) \in Nat, NEW i \in Nat, NEW d,
         NEW k \in i .. SkipTo(i, d) - 1, i <= Len(out) + 1
  PROVE  k <= Len(out) /\ ~ (Indent(k) <= d)
<1> DEFINE T == {j \in i .. Len(out) + 1 : j = Len(out) + 1 \/ Indent(j) <= d}
<1>0. SkipTo(i, d) \in Nat /\ SkipTo(i, d) <= Len(out) + 1
  BY SkipAhead
<1>1. CASE i > Len(out)
  BY <1>1 DEF SkipTo
<1>2. CASE ~(i > Len(out))
  <2>1. T \in SUBSET Nat /\ Len(out) + 1 \in T
    BY <1>2
  <2>2. SkipTo(i, d) = Min(T)
    BY <1>2 DEF SkipTo
  <2>3. k \in i .. Len(out) + 1 /\ k < SkipTo(i, d) /\ k <= Len(out)
    BY <1>0
  <2>4. \A x \in T : Min(T) <= x
    <3> HIDE DEF T
    <3> QED BY <2>1, NoneBefore
  <2>5. k \notin T
    <3> HIDE DEF T
    <3> QED BY <1>0, <2>2, <2>3, <2>4
  <2> QED BY <2>3, <2>5
<1> QED BY <1>1, <1>2

(* Every line that parseTable's loop passes over is a row of the table.    *)
LEMMA RowsDeeper ==
  ASSUME Len(out) \in Nat, NEW i \in Nat, NEW d,
         NEW k \in i .. RowsTo(i, d) - 1, i <= Len(out) + 1
  PROVE  RowUnder(k, d)
<1> DEFINE T == {j \in i .. Len(out) + 1 : j = Len(out) + 1 \/ ~RowUnder(j, d)}
<1>0. RowsTo(i, d) \in Nat /\ RowsTo(i, d) <= Len(out) + 1
  BY RowsAhead
<1>1. CASE i > Len(out)
  BY <1>1 DEF RowsTo
<1>2. CASE ~(i > Len(out))
  <2>1. T \in SUBSET Nat /\ Len(out) + 1 \in T
    BY <1>2
  <2>2. RowsTo(i, d) = Min(T)
    BY <1>2 DEF RowsTo
  <2>3. k \in i .. Len(out) + 1 /\ k < RowsTo(i, d) /\ k <= Len(out)
    BY <1>0
  <2>4. \A x \in T : Min(T) <= x
    <3> HIDE DEF T
    <3> QED BY <2>1, NoneBefore
  <2>5. k \notin T
    <3> HIDE DEF T
    <3> QED BY <1>0, <2>2, <2>3, <2>4
  <2> QED BY <2>3, <2>5
<1> QED BY <1>1, <1>2

----------------------------------------------------------------------------
(* The tree: its declarations, and the one being read, lie behind the      *)
(* parser's place, nested as SectionsNest says, with tables that fit.      *)

Kinds == {"intent", "property", "table"}
Node == [kind : Kinds, from : Nat, to : Nat, rows : SUBSET Nat]
Declaration == [head : Nat, sections : Seq(Node)]

Fits(t) == t.kind = "table" => t.rows # {} /\ \A k \in t.rows : Cells(k) = Cells(t.from + 1)

(* d is well formed, and everything of it stands before line p.            *)
Rooted(d, p) ==
  /\ d \in Declaration /\ Nested(d) /\ d.head < p
  /\ \A s \in 1 .. Len(d.sections) : d.sections[s].to < p /\ Fits(d.sections[s])

EndsBefore(d, p) == \A s \in 1 .. Len(d.sections) : d.sections[s].to < p

Tree ==
  /\ decls \in Seq(Declaration) /\ Len(decls) \in Nat
  /\ \A d \in 1 .. Len(decls) : Rooted(decls[d], pos)
  /\ fn # NoFn => Rooted(fn, pos)
  /\ \A d \in 1 .. Len(decls) - 1 : EndsBefore(decls[d], decls[d + 1].head)
  /\ fn # NoFn => \A d \in 1 .. Len(decls) : EndsBefore(decls[d], fn.head)
  /\ ~Scanned => decls = <<>>

(* Once the file is scanned, what is asked of its lines no longer changes. *)
LEMMA SameLines ==
  ASSUME UNCHANGED scanVars, NEW k
  PROVE  Indent(k)' = Indent(k) /\ Cells(k)' = Cells(k)
<1>1. file' = file /\ out' = out
  BY DEF scanVars
<1>2. Indent(k)' = Indent(k)
  BY <1>1 DEF Indent
<1>3. Cells(k)' = Cells(k)
  BY <1>1 DEF Cells, PiecePipes, MapThenSumSet, MapThenFoldSet
<1> QED BY <1>2, <1>3

LEMMA Predecessor ==
  ASSUME NEW p \in Nat, NEW q \in Nat, p < q
  PROVE  q - 1 \in Nat /\ p <= q - 1
OBVIOUS

LEMMA NumbersBetween ==
  ASSUME NEW p \in Nat, NEW q \in Nat
  PROVE  (p + 1) + 1 .. q - 1 \subseteq Nat
OBVIOUS

(* A section is a node of the tree. *)
LEMMA NodeMade ==
  ASSUME NEW kind \in Kinds, NEW from \in Nat, NEW to \in Nat, NEW rows \in SUBSET Nat
  PROVE  LET s == Section(kind, from, to, rows)
         IN s \in Node /\ s.kind = kind /\ s.from = from /\ s.to = to /\ s.rows = rows
BY DEF Section, Node

(* A declaration's parts have their types. *)
LEMMA DeclarationShape ==
  ASSUME NEW d \in Declaration
  PROVE  /\ d.head \in Nat /\ d.sections \in Seq(Node) /\ Len(d.sections) \in Nat
         /\ \A s \in 1 .. Len(d.sections) :
              d.sections[s] \in Node /\ d.sections[s].from \in Nat /\ d.sections[s].to \in Nat
<1>1. d.head \in Nat /\ d.sections \in Seq(Node)
  BY DEF Declaration
<1>2. Len(d.sections) \in Nat
  BY <1>1
<1>3. \A s \in 1 .. Len(d.sections) : d.sections[s] \in Node
  BY <1>1, ElementOfSeq
<1> QED BY <1>1, <1>2, <1>3 DEF Node

(* What stands before line p stands before every later one.                *)
LEMMA StillRooted ==
  ASSUME NEW d, NEW p \in Nat, NEW q \in Nat, p <= q, Rooted(d, p)
  PROVE  Rooted(d, q)
<1>1. d \in Declaration /\ d.head < p
  BY DEF Rooted
<1>2. d.head \in Nat /\ \A s \in 1 .. Len(d.sections) : d.sections[s].to \in Nat
  BY <1>1, DeclarationShape
<1>3. d.head < q
  BY <1>1, <1>2
<1>4. ASSUME NEW s \in 1 .. Len(d.sections)
      PROVE  d.sections[s].to < q /\ Fits(d.sections[s])
  <2>1. d.sections[s].to < p /\ Fits(d.sections[s])
    BY DEF Rooted
  <2>2. d.sections[s].to \in Nat
    BY <1>2
  <2>3. d.sections[s].to < q
    BY <2>1, <2>2
  <2> QED BY <2>1, <2>3
<1> QED BY <1>3, <1>4 DEF Rooted

(* The tree after a step of the parser, which leaves the lines alone.      *)
LEMMA TreeAfter ==
  ASSUME SyntaxInv, Scanned, UNCHANGED scanVars,
         decls' \in Seq(Declaration), Len(decls') \in Nat,
         \A d \in 1 .. Len(decls') : Rooted(decls'[d], pos'),
         fn' # NoFn => Rooted(fn', pos'),
         \A d \in 1 .. Len(decls') - 1 : EndsBefore(decls'[d], decls'[d + 1].head),
         fn' # NoFn => \A d \in 1 .. Len(decls') : EndsBefore(decls'[d], fn'.head)
  PROVE  Tree'
<1>1. \A k : Indent(k)' = Indent(k) /\ Cells(k)' = Cells(k)
  BY SameLines
<1>2. Scanned'
  BY DEF Scanned, scanVars
<1>3. fn' # NoFn => Rooted(fn, pos)'
  BY <1>1 DEF Rooted, Nested, Fits
<1>4. (\A d \in 1 .. Len(decls) : Rooted(decls[d], pos))'
  <2> SUFFICES ASSUME NEW d \in 1 .. Len(decls') PROVE Rooted(decls[d], pos)'
    OBVIOUS
  <2> QED BY <1>1 DEF Rooted, Nested, Fits
<1> QED BY <1>2, <1>3, <1>4 DEF Tree, EndsBefore

(* A section made of the lines from p to q - 1 is added to a declaration.  *)
LEMMA SectionAdded ==
  ASSUME NEW d, NEW p \in Nat \ {0}, NEW q \in Nat, p < q, Rooted(d, p),
         NEW s \in Node, s.from = p, s.to = q - 1, Fits(s),
         \A k \in p .. q - 1 : Indent(k) > 0
  PROVE  Rooted([d EXCEPT !.sections = Append(@, s)], q)
<1> DEFINE e == [d EXCEPT !.sections = Append(@, s)]
           c == Len(d.sections)
<1>1. d \in Declaration /\ Nested(d) /\ d.head < p /\ d.head \in Nat /\ d.sections \in Seq(Node) /\ c \in Nat
  BY DeclarationShape DEF Rooted
<1>2. /\ e \in Declaration /\ e.head = d.head /\ Len(e.sections) = c + 1
      /\ \A i \in 1 .. c : e.sections[i] = d.sections[i]
      /\ e.sections[c + 1] = s
  <2> DEFINE more == Append(d.sections, s)
  <2>1. /\ more \in Seq(Node) /\ Len(more) = c + 1 /\ more[c + 1] = s
        /\ \A i \in 1 .. c : more[i] = d.sections[i]
    BY <1>1
  <2>2. e = [d EXCEPT !.sections = more]
    OBVIOUS
  <2> HIDE DEF more, e
  <2>3. e \in Declaration /\ e.head = d.head /\ e.sections = more
    BY <1>1, <2>1, <2>2 DEF Declaration
  <2> QED BY <2>1, <2>3
<1> HIDE DEF e
<1>3. /\ \A i \in 1 .. c : d.sections[i].to < p /\ Fits(d.sections[i])
      /\ \A i \in 1 .. c : d.sections[i] \in Node /\ d.sections[i].to \in Nat
  <2>1. \A i \in 1 .. c : d.sections[i].to < p /\ Fits(d.sections[i])
    BY DEF Rooted
  <2>2. \A i \in 1 .. c : d.sections[i] \in Node /\ d.sections[i].to \in Nat
    BY <1>1, DeclarationShape
  <2> QED BY <2>1, <2>2
<1>4. Indent(d.head) = 0
  BY <1>1 DEF Nested
<1>5. \A i \in 1 .. c :
        /\ d.sections[i].from > (IF i = 1 THEN d.head ELSE d.sections[i - 1].to)
        /\ d.sections[i].from <= d.sections[i].to
        /\ \A k \in d.sections[i].from .. d.sections[i].to : Indent(k) > 0
  BY <1>1 DEF Nested
<1>0. c \in Nat
  BY <1>1
<1> HIDE DEF c
<1>6. ASSUME NEW i \in 1 .. c + 1
      PROVE  /\ e.sections[i].from > (IF i = 1 THEN e.head ELSE e.sections[i - 1].to)
             /\ e.sections[i].from <= e.sections[i].to
             /\ \A k \in e.sections[i].from .. e.sections[i].to : Indent(k) > 0
             /\ e.sections[i].to < q /\ Fits(e.sections[i])
  <2>1. CASE i \in 1 .. c
    <3>1. e.sections[i] = d.sections[i] /\ (i # 1 => e.sections[i - 1] = d.sections[i - 1])
      BY <1>1, <1>2, <2>1
    <3>2. d.sections[i].to < q
      BY <1>3, <2>1
    <3> QED BY <1>2, <1>3, <1>5, <2>1, <3>1, <3>2
  <2>2. CASE i = c + 1
    <3>1. e.sections[i] = s /\ p <= q - 1 /\ q - 1 < q
      BY <1>2, <2>2
    <3>2. i # 1 => i - 1 \in 1 .. c /\ e.sections[i - 1] = d.sections[i - 1]
      <4>1. i # 1 => i - 1 \in 1 .. c
        BY <1>0, <2>2
      <4> QED BY <1>2, <4>1
    <3>3. p > (IF i = 1 THEN e.head ELSE e.sections[i - 1].to)
      BY <1>1, <1>2, <1>3, <3>2
    <3> QED BY <3>1, <3>3
  <2> QED BY <1>1, <2>1, <2>2
<1>7. Nested(e)
  BY <1>2, <1>4, <1>6 DEF Nested
<1>8. e.head < q
  BY <1>1, <1>2
<1> QED BY <1>2, <1>6, <1>7, <1>8 DEF Rooted, e

(* A step that leaves the tree as it is.                                   *)
LEMMA TreeSame ==
  ASSUME SyntaxInv, Tree, Scanned, UNCHANGED <<scanVars, fn, decls>>, pos' \in Nat, pos <= pos'
  PROVE  Tree'
<1>1. pos \in Nat
  BY AtLine
<1>2. \A d : Rooted(d, pos) => Rooted(d, pos')
  BY <1>1, StillRooted
<1> QED BY <1>2, TreeAfter DEF Tree

(* A step that adds the lines it passes to the declaration as one section. *)
LEMMA TreeGrows ==
  ASSUME SyntaxInv, Tree, Scanned, fn # NoFn, UNCHANGED <<scanVars, decls>>,
         pos' \in Nat, pos < pos',
         NEW s \in Node, s.from = pos, s.to = pos' - 1, Fits(s),
         \A k \in pos .. pos' - 1 : Indent(k) > 0,
         fn' = [fn EXCEPT !.sections = Append(@, s)]
  PROVE  Tree'
<1>1. pos \in Nat \ {0} /\ pos <= pos'
  BY AtLine
<1>2. \A d : Rooted(d, pos) => Rooted(d, pos')
  BY <1>1, StillRooted
<1>3. Rooted(fn, pos)
  BY DEF Tree
<1>4. Rooted(fn', pos')
  BY <1>1, <1>3, SectionAdded
<1>5. fn'.head = fn.head
  <2>1. fn \in Declaration
    BY <1>3 DEF Rooted
  <2> QED BY <2>1 DEF Declaration
<1> QED BY <1>2, <1>4, <1>5, TreeAfter DEF Tree

(* The lines a section of depth Indent(pos) > 0 takes are all indented.    *)
LEMMA SectionIndented ==
  ASSUME SyntaxInv, pos <= Len(out), Indent(pos) > 0,
         \/ pos' = SkipTo(pos + 1, Indent(pos))
         \/ pos' = RowsTo(pos + 2, Indent(pos)) /\ RowUnder(pos + 1, Indent(pos))
  PROVE  \A k \in pos .. pos' - 1 : Indent(k) > 0
<1>1. Len(out) \in Nat /\ pos \in Nat \ {0}
  BY AtLine
<1>2. \A k \in 1 .. Len(out) : Indent(k) \in Nat
  <2>1. out \in Seq(LogicalLine)
    BY DEF SyntaxInv, ScanInv
  <2>2. \A k \in 1 .. Len(out) : out[k] \in LogicalLine
    BY <1>1, <2>1, ElementOfSeq
  <2> QED BY <2>2 DEF Indent, LogicalLine
<1>3. pos \in 1 .. Len(out) /\ Indent(pos) \in Nat
  BY <1>1, <1>2
<1>4. CASE pos' = SkipTo(pos + 1, Indent(pos))
  <2>1. ASSUME NEW k \in pos .. pos' - 1, k # pos PROVE Indent(k) > 0
    <3>1. pos + 1 \in Nat /\ pos + 1 <= Len(out) + 1 /\ k \in pos + 1 .. pos' - 1
      BY <1>1, <2>1
    <3>2. k <= Len(out) /\ ~ (Indent(k) <= Indent(pos))
      BY <1>1, <1>4, <3>1, SkippedDeeper
    <3>3. Indent(k) \in Nat
      BY <1>1, <1>2, <3>1, <3>2
    <3> QED BY <1>3, <3>2, <3>3
  <2> QED BY <2>1
<1>5. CASE pos' = RowsTo(pos + 2, Indent(pos)) /\ RowUnder(pos + 1, Indent(pos))
  <2>1. ASSUME NEW k \in pos .. pos' - 1, k # pos PROVE Indent(k) > 0
    <3>1. pos + 1 <= Len(out) /\ pos + 2 \in Nat /\ pos + 2 <= Len(out) + 1
      BY <1>1, <1>5 DEF RowUnder
    <3>2. k \in Nat /\ (k = pos + 1 \/ k \in pos + 2 .. pos' - 1)
      BY <1>1, <2>1
    <3>3. RowUnder(k, Indent(pos))
      BY <1>1, <1>5, <3>1, <3>2, RowsDeeper
    <3>4. k \in 1 .. Len(out) /\ Indent(k) > Indent(pos)
      BY <1>1, <2>1, <3>3 DEF RowUnder
    <3> QED BY <1>2, <1>3, <3>4
  <2> QED BY <2>1
<1> QED BY <1>4, <1>5

(* Every step of a section keeps the tree.                                 *)
LEMMA TreeSection ==
  ASSUME SyntaxInv, Tree, Sections
  PROVE  Tree'
<1>0. /\ Len(out) \in Nat /\ pos \in Nat \ {0}
      /\ Scanned /\ fn # NoFn /\ pos <= Len(out) /\ Indent(pos) > 0
      /\ UNCHANGED scanVars /\ decls' = decls
  BY AtLine DEF Sections, Intent, Property, UnnamedScenario, TableWithoutHeader,
     TableAndRows, StrayRow, UnknownSection, AtTable, AtSection
<1>1. ASSUME fn' = fn, pos' \in Nat, pos < pos' PROVE Tree'
  BY <1>0, <1>1, TreeSame
<1>2. pos' = SkipTo(pos + 1, Indent(pos)) => pos' \in Nat /\ pos < pos'
  BY <1>0, SkipAhead
<1>3. ASSUME NEW kind \in {"intent", "property"}, pos' = SkipTo(pos + 1, Indent(pos)),
             fn' = [fn EXCEPT !.sections = Append(@, Section(kind, pos, pos' - 1, {}))]
      PROVE  Tree'
  <2> DEFINE s == Section(kind, pos, pos' - 1, {})
  <2>0. pos \in Nat /\ pos' - 1 \in Nat /\ kind \in Kinds /\ kind # "table" /\ {} \in SUBSET Nat
    <3>1. pos \in Nat /\ pos' - 1 \in Nat
      <4>1. pos \in Nat \ {0} /\ pos' \in Nat /\ pos < pos'
        BY <1>0, <1>2, <1>3
      <4> QED BY <4>1, Predecessor
    <3>2. kind \in Kinds /\ kind # "table" /\ {} \in SUBSET Nat
      BY DEF Kinds
    <3> QED BY <3>1, <3>2
  <2>1. /\ s \in Node /\ s.from = pos /\ s.to = pos' - 1 /\ s.kind = kind
    BY <2>0, NodeMade
  <2> HIDE DEF s
  <2>f. Fits(s)
    BY <2>0, <2>1 DEF Fits
  <2>2. fn' = [fn EXCEPT !.sections = Append(@, s)]
    BY <1>3 DEF s
  <2>3. \A k \in pos .. pos' - 1 : Indent(k) > 0
    BY <1>0, <1>3, SectionIndented
  <2> QED BY <1>0, <1>2, <1>3, <2>1, <2>f, <2>2, <2>3, TreeGrows
<1>4. CASE Intent
  BY <1>3, <1>4 DEF Intent, Keep
<1>5. CASE Property
  BY <1>3, <1>5 DEF Property, Keep
<1>6. CASE UnnamedScenario \/ TableWithoutHeader \/ StrayRow
  BY <1>0, <1>1, <1>6 DEF UnnamedScenario, TableWithoutHeader, StrayRow
<1>7. CASE UnknownSection
  BY <1>1, <1>2, <1>7 DEF UnknownSection
<1>8. CASE TableAndRows
  <2> DEFINE rows == Fitting(pos + 1, pos')
             s == Section("table", pos, pos' - 1, rows)
  <2>1. /\ pos' = RowsTo(pos + 2, Indent(pos)) /\ RowUnder(pos + 1, Indent(pos))
        /\ fn' = fn \/ (rows # {} /\ fn' = [fn EXCEPT !.sections = Append(@, s)])
    BY <1>8 DEF TableAndRows, Keep
  <2>2. pos' \in Nat /\ pos < pos' /\ pos + 2 <= pos' /\ pos + 1 <= Len(out)
    <3>1. pos + 1 <= Len(out) /\ pos + 2 \in Nat
      BY <1>0, <2>1 DEF RowUnder
    <3>2. pos' \in Nat /\ pos + 2 <= pos'
      BY <1>0, <2>1, <3>1, RowsAhead
    <3> QED BY <1>0, <3>1, <3>2
  <2>3. CASE fn' = fn
    BY <1>1, <2>2, <2>3
  <2>4. CASE rows # {} /\ fn' = [fn EXCEPT !.sections = Append(@, s)]
    <3>1. rows \in SUBSET Nat /\ \A k \in rows : Cells(k) = Cells(pos + 1)
      <4>1. \A k \in rows : k \in (pos + 1) + 1 .. pos' - 1 /\ Cells(k) = Cells(pos + 1)
        BY DEF Fitting
      <4> HIDE DEF rows
      <4>2. (pos + 1) + 1 .. pos' - 1 \subseteq Nat
        BY <1>0, <2>2, NumbersBetween
      <4>3. rows \subseteq Nat
        BY <4>1, <4>2
      <4> QED BY <4>1, <4>3
    <3> HIDE DEF rows
    <3>2. s.from = pos /\ s.to = pos' - 1 /\ s.rows = rows /\ s \in Node
      <4>1. pos' - 1 \in Nat /\ pos \in Nat
        BY <1>0, <2>2, Predecessor
      <4>2. "table" \in Kinds
        BY DEF Kinds
      <4> QED BY <3>1, <4>1, <4>2, NodeMade
    <3> HIDE DEF s
    <3>3. Fits(s)
      BY <2>4, <3>1, <3>2 DEF Fits
    <3>4. \A k \in pos .. pos' - 1 : Indent(k) > 0
      BY <1>0, <2>1, SectionIndented
    <3> QED BY <1>0, <2>2, <2>4, <3>2, <3>3, <3>4, TreeGrows
  <2> QED BY <2>1, <2>3, <2>4
<1> QED BY <1>4, <1>5, <1>6, <1>7, <1>8 DEF Sections

(* A declaration is begun: whatever has been read ends before it.          *)
LEMMA TreeOpened ==
  ASSUME SyntaxInv, Tree, OpenDeclaration
  PROVE  Tree'
<1>1. /\ Scanned /\ UNCHANGED scanVars /\ decls' = decls /\ Indent(pos) = 0
      /\ pos' = pos + 1 /\ fn' = [head |-> pos, sections |-> <<>>] /\ pos \in Nat
  BY AtLine DEF OpenDeclaration, AtTop
<1>2. Rooted(fn', pos')
  BY <1>1 DEF Rooted, Nested, Declaration
<1>3. \A d : Rooted(d, pos) => Rooted(d, pos') /\ EndsBefore(d, pos)
  <2>1. pos <= pos' /\ pos' \in Nat
    BY <1>1
  <2>2. \A d : Rooted(d, pos) => Rooted(d, pos')
    BY <1>1, <2>1, StillRooted
  <2>3. \A d : Rooted(d, pos) => EndsBefore(d, pos)
    BY DEF Rooted, EndsBefore
  <2> QED BY <2>2, <2>3
<1>4. fn'.head = pos
  BY <1>1
<1> QED BY <1>1, <1>2, <1>3, <1>4, TreeAfter DEF Tree

(* A declaration ends, and is the last of the file so far.                 *)
LEMMA TreeClosed ==
  ASSUME SyntaxInv, Tree, CloseDeclaration
  PROVE  Tree'
<1>1. /\ Scanned /\ UNCHANGED scanVars /\ pos' = pos /\ pos \in Nat /\ fn # NoFn
      /\ decls' = Append(decls, fn) /\ fn' = NoFn
  BY AtLine DEF CloseDeclaration
<1>2. /\ decls \in Seq(Declaration) /\ Len(decls) \in Nat /\ Rooted(fn, pos)
      /\ \A d \in 1 .. Len(decls) : Rooted(decls[d], pos)
      /\ \A d \in 1 .. Len(decls) - 1 : EndsBefore(decls[d], decls[d + 1].head)
      /\ \A d \in 1 .. Len(decls) : EndsBefore(decls[d], fn.head)
  BY <1>1 DEF Tree
<1>3. fn \in Declaration
  BY <1>2 DEF Rooted
<1>4. /\ decls' \in Seq(Declaration) /\ Len(decls') = Len(decls) + 1
      /\ \A d \in 1 .. Len(decls) : decls'[d] = decls[d]
      /\ decls'[Len(decls) + 1] = fn
  BY <1>1, <1>2, <1>3
<1>5. \A d \in 1 .. Len(decls') : d \in 1 .. Len(decls) \/ d = Len(decls) + 1
  BY <1>2, <1>4
<1>6. \A d \in 1 .. Len(decls') : Rooted(decls'[d], pos')
  BY <1>1, <1>2, <1>4, <1>5
<1>7. \A d \in 1 .. Len(decls') - 1 : EndsBefore(decls'[d], decls'[d + 1].head)
  <2> SUFFICES ASSUME NEW d \in 1 .. Len(decls') - 1 PROVE EndsBefore(decls'[d], decls'[d + 1].head)
    OBVIOUS
  <2>1. d \in 1 .. Len(decls) /\ (d = Len(decls) \/ (d \in 1 .. Len(decls) - 1 /\ d + 1 \in 1 .. Len(decls)))
    <3>1. Len(decls) \in Nat /\ Len(decls') - 1 = Len(decls)
      BY <1>2, <1>4
    <3> QED BY <3>1
  <2>2. CASE d = Len(decls)
    <3>1. decls'[d] = decls[d] /\ decls'[d + 1] = fn
      BY <1>4, <2>1, <2>2
    <3> QED BY <1>2, <2>1, <3>1
  <2>3. CASE d \in 1 .. Len(decls) - 1 /\ d + 1 \in 1 .. Len(decls)
    <3>1. decls'[d] = decls[d] /\ decls'[d + 1] = decls[d + 1]
      BY <1>4, <2>1, <2>3
    <3> QED BY <1>2, <2>3, <3>1
  <2> QED BY <2>1, <2>2, <2>3
<1>8. Len(decls') \in Nat
  BY <1>2, <1>4
<1> QED BY <1>1, <1>4, <1>6, <1>7, <1>8, TreeAfter

(* The tree is kept by every step of Parse.                                *)
LEMMA TreeStep ==
  ASSUME SyntaxInv, Tree, [SyntaxNext]_syntaxVars
  PROVE  Tree'
<1>0. Len(out) \in Nat /\ pos \in Nat \ {0}
  BY AtLine
<1>1. CASE Scanning
  <2>1. ~Scanned
    <3>1. n \in Nat /\ Len(file) \in Nat
      BY DEF PhysicalFile, SyntaxInv, ScanInv
    <3>2. n <= Len(file)
      BY <1>1 DEF Scanning, ScanNext, Separate, Continue, OpenLine
    <3> QED BY <3>1, <3>2 DEF Scanned
  <2>2. decls = <<>> /\ fn = NoFn /\ decls' = <<>> /\ fn' = NoFn
    BY <1>1, <2>1 DEF Tree, SyntaxInv, ParserIdle, Scanning, parseVars
  <2> QED BY <2>2 DEF Tree
<1>2. CASE NotADeclaration
  <2>1. Scanned /\ UNCHANGED <<scanVars, fn, decls>> /\ pos' = SkipTo(pos + 1, 0)
    BY <1>2 DEF NotADeclaration, AtTop
  <2>2. pos' \in Nat /\ pos <= pos'
    BY <1>0, <2>1, SkipAhead
  <2> QED BY <2>1, <2>2, TreeSame
<1>3. CASE BadSignature
  <2>1. Scanned /\ UNCHANGED <<scanVars, fn, decls>> /\ pos' = SkipTo(pos + 2, 0)
    BY <1>3 DEF BadSignature, AtTop
  <2>2. pos' \in Nat /\ pos <= pos'
    BY <1>0, <2>1, SkipAhead
  <2> QED BY <2>1, <2>2, TreeSame
<1>4. CASE UNCHANGED syntaxVars
  <2>1. UNCHANGED <<scanVars, file, n, out, fn, decls, pos>>
    BY <1>4 DEF syntaxVars, scanVars, parseVars
  <2>2. CASE Scanned
    BY <1>0, <2>1, <2>2, TreeSame
  <2>3. CASE ~Scanned
    <3>1. decls = <<>> /\ fn = NoFn /\ ~Scanned'
      BY <2>1, <2>3 DEF Tree, SyntaxInv, ParserIdle, Scanned
    <3> QED BY <2>1, <3>1 DEF Tree
  <2> QED BY <2>2, <2>3
<1> QED BY <1>1, <1>2, <1>3, <1>4, TreeOpened, TreeClosed, TreeSection DEF SyntaxNext, Parsing, Ended

----------------------------------------------------------------------------
(* The theorems. *)

(* The invariant as a whole holds of every run of Parse.                   *)
LEMMA SyntaxInductive == SyntaxSpec => [](SyntaxInv /\ Ordered /\ Tree)
<1>1. SyntaxInit => SyntaxInv /\ Ordered /\ Tree
  <2> SUFFICES ASSUME SyntaxInit PROVE SyntaxInv /\ Ordered /\ Tree
    OBVIOUS
  <2>1. n = 1 /\ out = <<>> /\ decls = <<>> /\ fn = NoFn
    BY DEF SyntaxInit, ScanInit, Unscanned
  <2>2. Ordered /\ Tree
    BY <2>1 DEF Ordered, Tree
  <2> QED BY <2>2, SyntaxStart
<1>2. SyntaxInv /\ Ordered /\ Tree /\ [SyntaxNext]_syntaxVars => (SyntaxInv /\ Ordered /\ Tree)'
  <2> SUFFICES ASSUME SyntaxInv, Ordered, Tree, [SyntaxNext]_syntaxVars
               PROVE  SyntaxInv' /\ Ordered' /\ Tree'
    OBVIOUS
  <2>1. SyntaxInv' /\ Tree'
    BY SyntaxStep, TreeStep
  <2>2. ScanNext \/ UNCHANGED scanVars
    BY DEF SyntaxNext, Scanning, Parsing, Ended, syntaxVars, NotADeclaration, BadSignature,
       OpenDeclaration, CloseDeclaration, Sections, Intent, Property, UnnamedScenario,
       TableWithoutHeader, TableAndRows, StrayRow, UnknownSection
  <2>3. Ordered'
    <3>1. CASE UNCHANGED scanVars
      <4>1. file' = file /\ n' = n /\ out' = out
        BY <3>1 DEF scanVars
      <4> QED BY <4>1 DEF Ordered
    <3> QED BY <2>2, <3>1, OrderStep DEF SyntaxInv
  <2> QED BY <2>1, <2>3
<1> QED BY <1>1, <1>2, PTL DEF SyntaxSpec

(* parser.pos stays where parse.go can index, and the declaration being    *)
(* read is one that went into the tree.                                    *)
THEOREM ParserTypeCorrect == SyntaxSpec => []SyntaxTypeOK
<1>1. SyntaxInv => SyntaxTypeOK
  BY DEF SyntaxInv
<1> QED BY <1>1, SyntaxInductive, PTL

(* Nothing of a file is dropped without a diagnostic: every line the       *)
(* parser passed over and did not keep belongs to a run of such lines that *)
(* begins with a reported one.                                             *)
THEOREM NothingDropped == SyntaxSpec => []DroppedOrReported
<1>1. SyntaxInv => DroppedOrReported
  BY DEF SyntaxInv
<1> QED BY <1>1, SyntaxInductive, PTL

(* The line scanLines still writes through its pointer `cur` is the last   *)
(* one of `out`, and it is open exactly when parentheses are.              *)
THEOREM PointerCurrent == SyntaxSpec => []OpenIsLast
<1>1. SyntaxInv => OpenIsLast
  BY ScanInvSpans DEF SyntaxInv
<1> QED BY <1>1, SyntaxInductive, PTL

(* A diagnostic underlines what it is about, also in a signature joined    *)
(* from several lines.                                                     *)
THEOREM SpansCorrect == SyntaxSpec => []SpansPoint
<1>1. SyntaxInv => SpansPoint
  BY ScanInvSpans DEF SyntaxInv
<1> QED BY <1>1, SyntaxInductive, PTL

(* scanLines loses no line of a file, repeats none and keeps their order.  *)
THEOREM LinesOrdered == SyntaxSpec => []LinesInOrder
<1>1. SyntaxInv /\ Ordered => LinesInOrder
  BY OrderedInOrder DEF SyntaxInv
<1> QED BY <1>1, SyntaxInductive, PTL

(* A declaration's sections follow it, one after the other, indented, and  *)
(* end before the next declaration begins.                                 *)
THEOREM TreeNested == SyntaxSpec => []SectionsNest
<1>1. Tree => SectionsNest
  BY DEF Tree, Rooted, SectionsNest, EndsBefore
<1> QED BY <1>1, SyntaxInductive, PTL

(* The rows of every table in the tree have the header's cells, which is   *)
(* what lets check.File index the columns by them.                         *)
THEOREM TablesIndexable == SyntaxSpec => []TablesFit
<1>1. Tree => TablesFit
  BY DEF Tree, Rooted, TablesFit, Fits
<1> QED BY <1>1, SyntaxInductive, PTL
=============================================================================
