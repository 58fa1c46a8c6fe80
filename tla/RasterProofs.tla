----------------------------- MODULE RasterProofs ------------------------------
(***************************************************************************)
(* That both walkers of Raster find what a client encoded for them, and    *)
(* that damage to a document is local, for any bytes, sizes of pages and   *)
(* number of pages.                                                        *)
(***************************************************************************)
EXTENDS Raster, ListsProofs

Documents == Seq(0..(255 + Len(Headers)))

RowStates  == [next : Nat, row : Seq(Colored)]
LineStates == [next : Nat, rows : Rows]
PageStates == [next : Nat, pages : Pages]

\* d goes on from c.
Continues(c, d) == Len(c) <= Len(d) /\ \A k \in 1..Len(c) : d[k] = c[k]

LEMMA AsByteType ==
  ASSUME NEW d \in Documents, NEW p \in 1..Len(d)
  PROVE  AsByte(d, p) \in 0..255
<1>1. d[p] \in 0..(255 + Len(Headers)) /\ Len(Headers) \in Nat
  BY RasterAssumption DEF Documents
<1> DEFINE x == d[p]
<1>2. AsByte(d, p) = IF x <= 255 THEN x ELSE 0
  BY Zenon DEF AsByte
<1>3. x \in Nat
  BY <1>1
<1> HIDE DEF x
<1>4. QED
  BY ONLY <1>2, <1>3

(***************************************************************************)
(* A run of raster-decode.ts.                                              *)
(***************************************************************************)
RunOf(control) == IF control <= 127 THEN control + 1 ELSE 257 - control
Clamped(run, left) == IF run <= left THEN run ELSE left
\* Where a run of n color values behind a control byte at p ends, and the values.
RunEnd(control, p, n, size) == p + 1 + size * (IF control <= 127 THEN n ELSE 1)
RunColors(d, control, p, n, size) ==
  [k \in 1..n |-> [b \in 1..size |->
     AsByte(d, (p + 1 + (IF control <= 127 THEN size * (k - 1) ELSE 0)) + b - 1)]]

RunAhead(d, groups, size, s) ==
  LET control == AsByte(d, s.next)
      wanted  == Clamped(RunOf(control), groups - Len(s.row))
      after   == RunEnd(control, s.next, wanted, size)
  IN  IF after > Len(d) + 1 THEN [s EXCEPT !.next = Short]
      ELSE [next |-> after, row |-> s.row \o RunColors(d, control, s.next, wanted, size)]

RowDone(groups, s) == s.next = Short \/ Len(s.row) >= groups
BeyondEnd(d, s) == s.next > Len(d)
OutOfData(s) == [s EXCEPT !.next = Short]

LEMMA DecodeRunIs ==
  ASSUME NEW d, NEW groups, NEW size, NEW s \in RowStates
  PROVE  /\ RowDone(groups, s) => DecodeRun(d, groups, size)[s] = s
         /\ ~ RowDone(groups, s) /\ BeyondEnd(d, s) => DecodeRun(d, groups, size)[s] = OutOfData(s)
         /\ ~ RowDone(groups, s) /\ ~ BeyondEnd(d, s)
              => DecodeRun(d, groups, size)[s] = RunAhead(d, groups, size, s)
BY Zenon DEF DecodeRun, RowStates, RunOf, Clamped, RunEnd, RunColors, RunAhead, RowDone, BeyondEnd, OutOfData

\* What a run needs of the document.
LEMMA RunReads ==
  ASSUME NEW d \in Documents, NEW control \in 0..255, NEW p \in Nat \ {0}, NEW n \in Nat \ {0},
         NEW size \in Nat, RunEnd(control, p, n, size) <= Len(d) + 1,
         NEW k \in 1..n, NEW b \in 1..size
  PROVE  (p + 1 + (IF control <= 127 THEN size * (k - 1) ELSE 0)) + b - 1 \in 1..Len(d)
<1>1. size * (k - 1) \in Nat /\ size * (k - 1) + b <= size * n
  BY Inside
<1>2. Len(d) \in Nat
  BY DEF Documents
<1> DEFINE u == size * (k - 1)
           v == size * n
<1>3. u \in Nat /\ u + b <= v
  BY <1>1
<1>4. RunEnd(control, p, n, size) = IF control <= 127 THEN p + 1 + v ELSE p + 1 + size
  BY DEF RunEnd
<1>5. CASE control <= 127
  <2>1. v \in Nat
    OBVIOUS
  <2>2. p + 1 + v <= Len(d) + 1
    BY <1>4, <1>5
  <2> HIDE DEF u, v
  <2>3. (p + 1 + u) + b - 1 \in 1..Len(d)
    BY <1>2, <1>3, <2>1, <2>2
  <2>4. QED
    BY <1>5, <2>3 DEF u
<1>6. CASE ~ (control <= 127)
  <2>1. p + 1 + size <= Len(d) + 1
    BY <1>4, <1>6
  <2>2. (p + 1 + 0) + b - 1 \in 1..Len(d)
    BY <1>2, <2>1
  <2>3. QED
    BY <1>6, <2>2
<1>7. QED
  BY <1>5, <1>6

LEMMA RunColorsType ==
  ASSUME NEW d \in Documents, NEW control \in 0..255, NEW p \in Nat \ {0}, NEW n \in Nat \ {0},
         NEW size \in Nat, RunEnd(control, p, n, size) <= Len(d) + 1
  PROVE  RunColors(d, control, p, n, size) \in Seq(Colored) /\ Len(RunColors(d, control, p, n, size)) = n
<1> DEFINE at(k, b) == (p + 1 + (IF control <= 127 THEN size * (k - 1) ELSE 0)) + b - 1
<1>1. \A k \in 1..n : \A b \in 1..size : at(k, b) \in 1..Len(d)
  BY RunReads
<1>2. RunColors(d, control, p, n, size) = [k \in 1..n |-> [b \in 1..size |-> AsByte(d, at(k, b))]]
  BY Zenon DEF RunColors
<1> HIDE DEF at
<1>3. \A k \in 1..n : \A b \in 1..size : AsByte(d, at(k, b)) \in Nat
  <2>1. ASSUME NEW k \in 1..n, NEW b \in 1..size
        PROVE  AsByte(d, at(k, b)) \in Nat
    <3>1. AsByte(d, at(k, b)) \in 0..255
      BY ONLY <1>1, <2>1, d \in Documents, AsByteType
    <3>2. QED
      BY ONLY <3>1
  <2>2. QED
    BY <2>1, Zenon
<1>4. ASSUME NEW k \in 1..n
      PROVE  [b \in 1..size |-> AsByte(d, at(k, b))] \in Seq(Nat)
  BY <1>3
<1>5. QED
  BY <1>2, <1>4 DEF Colored

LEMMA RunFacts ==
  ASSUME NEW control \in 0..255, NEW left \in Nat \ {0}
  PROVE  /\ RunOf(control) \in Nat \ {0}
         /\ Clamped(RunOf(control), left) \in Nat \ {0}
         /\ Clamped(RunOf(control), left) <= left
BY DEF RunOf, Clamped

LEMMA RunEndType ==
  ASSUME NEW control \in 0..255, NEW p \in Nat, NEW n \in Nat, NEW size \in Nat
  PROVE  RunEnd(control, p, n, size) \in Nat /\ RunEnd(control, p, n, size) > p
BY DEF RunEnd

LEMMA DecodeRunType ==
  ASSUME NEW d \in Documents, NEW groups \in Nat, NEW size \in Nat, NEW s \in RowStates
  PROVE  DecodeRun(d, groups, size)[s] \in RowStates
<1> DEFINE r == DecodeRun(d, groups, size)[s]
<1>1. s.next \in Nat /\ s.row \in Seq(Colored) /\ Len(s.row) \in Nat /\ Len(d) \in Nat
  BY DEF RowStates, Documents
<1>2. [s EXCEPT !.next = Short] \in RowStates
  BY DEF RowStates, Short
<1>3. CASE RowDone(groups, s)
  BY ONLY <1>3, DecodeRunIs, s \in RowStates
<1>4. CASE ~ RowDone(groups, s) /\ BeyondEnd(d, s)
  BY ONLY <1>2, <1>4, DecodeRunIs, s \in RowStates DEF OutOfData
<1>5. CASE ~ RowDone(groups, s) /\ ~ BeyondEnd(d, s)
  <2> DEFINE control == AsByte(d, s.next)
             wanted  == Clamped(RunOf(control), groups - Len(s.row))
             after   == RunEnd(control, s.next, wanted, size)
             colors  == RunColors(d, control, s.next, wanted, size)
  <2>1. s.next \in Nat \ {0} /\ s.next \in 1..Len(d) /\ groups - Len(s.row) \in Nat \ {0}
    BY <1>1, <1>5 DEF Short, RowDone, BeyondEnd
  <2>2. control \in 0..255
    BY <2>1, AsByteType
  <2>3. wanted \in Nat \ {0}
    BY <2>1, <2>2, RunFacts
  <2>4. after \in Nat
    BY <2>1, <2>2, <2>3, RunEndType
  <2>5. after <= Len(d) + 1 => colors \in Seq(Colored)
    BY <2>1, <2>2, <2>3, RunColorsType
  <2>6. RunAhead(d, groups, size, s) =
          IF after > Len(d) + 1 THEN [s EXCEPT !.next = Short]
          ELSE [next |-> after, row |-> s.row \o colors]
    BY Zenon DEF RunAhead
  <2>7. r = RunAhead(d, groups, size, s)
    BY ONLY <1>5, DecodeRunIs, s \in RowStates
  <2> HIDE DEF control, wanted, after, colors, r
  <2>8. CASE after > Len(d) + 1
    BY <1>2, <2>6, <2>7, <2>8, Zenon DEF r
  <2>9. CASE ~ (after > Len(d) + 1)
    <3>1. s.row \o colors \in Seq(Colored)
      BY <1>1, <2>4, <2>5, <2>9
    <3>2. r = [next |-> after, row |-> s.row \o colors]
      BY <2>6, <2>7, <2>9
    <3>3. QED
      BY <2>4, <3>1, <3>2 DEF RowStates, r
  <2>10. QED
    BY <2>8, <2>9
<1>6. QED
  BY <1>3, <1>4, <1>5

LEMMA ContinuesAt ==
  ASSUME NEW c \in Documents, NEW d \in Documents, Continues(c, d), NEW p \in 1..Len(c)
  PROVE  p \in 1..Len(d) /\ AsByte(d, p) = AsByte(c, p)
<1>1. Len(c) \in Nat /\ Len(d) \in Nat /\ Len(c) <= Len(d) /\ d[p] = c[p]
  BY DEF Continues, Documents
<1>2. QED
  BY <1>1 DEF AsByte

RunInside(d, control, p, n, size) ==
  /\ control \in 0..255 /\ p \in Nat \ {0} /\ n \in Nat \ {0} /\ size \in Nat
  /\ RunEnd(control, p, n, size) <= Len(d) + 1

LEMMA ContinuesColors ==
  ASSUME NEW c \in Documents, NEW d \in Documents, Continues(c, d),
         NEW control, NEW p, NEW n, NEW size, RunInside(c, control, p, n, size)
  PROVE  RunColors(d, control, p, n, size) = RunColors(c, control, p, n, size)
<1> USE DEF RunInside
<1> DEFINE at(k, b) == (p + 1 + (IF control <= 127 THEN size * (k - 1) ELSE 0)) + b - 1
<1>1. \A k \in 1..n : \A b \in 1..size : at(k, b) \in 1..Len(c)
  BY RunReads
<1>2. /\ RunColors(c, control, p, n, size) = [k \in 1..n |-> [b \in 1..size |-> AsByte(c, at(k, b))]]
      /\ RunColors(d, control, p, n, size) = [k \in 1..n |-> [b \in 1..size |-> AsByte(d, at(k, b))]]
  BY Zenon DEF RunColors
<1> HIDE DEF at
<1>3. ASSUME NEW k \in 1..n, NEW b \in 1..size
      PROVE  AsByte(d, at(k, b)) = AsByte(c, at(k, b))
  BY ONLY <1>1, <1>3, c \in Documents, d \in Documents, Continues(c, d), ContinuesAt
<1> HIDE DEF RunInside
<1>4. QED
  BY <1>2, <1>3, Zenon

\* A run that lies inside the document stays as it is when the document goes on.
LEMMA RunContinues ==
  ASSUME NEW c \in Documents, NEW d \in Documents, Continues(c, d),
         NEW groups \in Nat, NEW size \in Nat, NEW s \in RowStates
  PROVE  \/ DecodeRun(c, groups, size)[s].next = Short
         \/ DecodeRun(d, groups, size)[s] = DecodeRun(c, groups, size)[s]
<1>1. s.next \in Nat /\ s.row \in Seq(Colored) /\ Len(s.row) \in Nat /\ Len(c) \in Nat
      /\ Len(d) \in Nat /\ Len(c) <= Len(d)
  BY DEF RowStates, Documents, Continues
<1>2. OutOfData(s).next = Short
  BY DEF RowStates, Short, OutOfData
<1>3. CASE RowDone(groups, s)
  BY ONLY <1>3, DecodeRunIs, s \in RowStates
<1>4. CASE ~ RowDone(groups, s) /\ BeyondEnd(c, s)
  BY ONLY <1>2, <1>4, DecodeRunIs, s \in RowStates
<1>5. CASE ~ RowDone(groups, s) /\ ~ BeyondEnd(c, s)
  <2> DEFINE control == AsByte(c, s.next)
             wanted  == Clamped(RunOf(control), groups - Len(s.row))
             after   == RunEnd(control, s.next, wanted, size)
  <2>1. s.next \in Nat \ {0} /\ s.next \in 1..Len(c) /\ groups - Len(s.row) \in Nat \ {0}
        /\ ~ BeyondEnd(d, s)
    BY <1>1, <1>5 DEF Short, RowDone, BeyondEnd
  <2>2. control \in 0..255
    BY <2>1, AsByteType
  <2>3. wanted \in Nat \ {0}
    BY <2>1, <2>2, RunFacts
  <2>4. after \in Nat
    BY <2>1, <2>2, <2>3, RunEndType
  <2>5. AsByte(d, s.next) = control
    BY <2>1, ContinuesAt
  <2>6. /\ DecodeRun(c, groups, size)[s] = RunAhead(c, groups, size, s)
        /\ DecodeRun(d, groups, size)[s] = RunAhead(d, groups, size, s)
    BY ONLY <1>5, <2>1, DecodeRunIs, s \in RowStates
  <2>7. CASE after > Len(c) + 1
    <3>1. RunAhead(c, groups, size, s) = OutOfData(s)
      BY <2>7 DEF RunAhead, OutOfData
    <3>2. QED
      BY ONLY <1>2, <2>6, <3>1
  <2>8. CASE ~ (after > Len(c) + 1)
    <3>1. after <= Len(c) + 1
      BY <1>1, <2>4, <2>8
    <3>2. RunColors(d, control, s.next, wanted, size) = RunColors(c, control, s.next, wanted, size)
      <4>1. RunInside(c, control, s.next, wanted, size)
        BY <2>1, <2>2, <2>3, <3>1 DEF RunInside
      <4>2. QED
        BY ONLY <4>1, c \in Documents, d \in Documents, Continues(c, d), ContinuesColors
    <3>3. ~ (after > Len(d) + 1)
      BY <1>1, <2>4, <3>1
    <3>4. RunAhead(c, groups, size, s) =
            [next |-> after, row |-> s.row \o RunColors(c, control, s.next, wanted, size)]
      BY <2>8 DEF RunAhead
    <3>5. RunAhead(d, groups, size, s) =
            [next |-> after, row |-> s.row \o RunColors(d, control, s.next, wanted, size)]
      BY <2>5, <3>3 DEF RunAhead
    <3> HIDE DEF control, wanted, after
    <3>6. QED
      BY ONLY <2>6, <3>2, <3>4, <3>5
  <2>9. QED
    BY <2>7, <2>8
<1>6. QED
  BY <1>3, <1>4, <1>5

(***************************************************************************)
(* A row of raster-decode.ts.                                              *)
(***************************************************************************)
\* The row that begins at p, after k runs.
RowAfter(d, p, groups, size, k) ==
  Iterate(DecodeRun(d, groups, size), [next |-> p, row |-> <<>>], k)

LEMMA RowAfterType ==
  ASSUME NEW d \in Documents, NEW p \in Nat, NEW groups \in Nat, NEW size \in Nat
  PROVE  \A k \in Nat : RowAfter(d, p, groups, size, k) \in RowStates
<1> DEFINE step == DecodeRun(d, groups, size)
           s == [next |-> p, row |-> <<>>]
<1>1. \A x \in RowStates : step[x] \in RowStates
  BY DecodeRunType
<1>2. s \in RowStates
  BY DEF RowStates
<1> HIDE DEF step, s
<1>3. \A k \in Nat : Iterate(step, s, k) \in RowStates
  BY ONLY <1>1, <1>2, IterateType
<1>4. QED
  BY <1>3 DEF RowAfter, step, s

LEMMA RowRounds ==
  ASSUME NEW d, NEW p, NEW groups, NEW size
  PROVE  /\ RowAfter(d, p, groups, size, 0) = [next |-> p, row |-> <<>>]
         /\ \A k \in Nat : RowAfter(d, p, groups, size, k + 1) =
                             DecodeRun(d, groups, size)[RowAfter(d, p, groups, size, k)]
BY IterateRounds, Zenon DEF RowAfter

LEMMA RowRound ==
  ASSUME NEW d \in Documents, NEW p \in Nat, NEW groups \in Nat, NEW size \in Nat, NEW k \in Nat
  PROVE  RowAfter(d, p, groups, size, k + 1) =
           DecodeRun(d, groups, size)[RowAfter(d, p, groups, size, k)]
<1> DEFINE u == DecodeRun(d, groups, size)
           s == [next |-> p, row |-> <<>>]
<1>1. /\ RowAfter(d, p, groups, size, k + 1) = Iterate(u, s, k + 1)
      /\ RowAfter(d, p, groups, size, k) = Iterate(u, s, k)
  BY Zenon DEF RowAfter
<1> HIDE DEF u, s
<1>2. Iterate(u, s, k + 1) = u[Iterate(u, s, k)]
  BY ONLY IterateRounds, k \in Nat
<1>3. QED
  BY <1>1, <1>2 DEF u

LEMMA RowContinues ==
  ASSUME NEW c \in Documents, NEW d \in Documents, Continues(c, d), NEW p \in Nat,
         NEW groups \in Nat, NEW size \in Nat
  PROVE  \A k \in Nat : \/ RowAfter(c, p, groups, size, k).next = Short
                        \/ RowAfter(d, p, groups, size, k) = RowAfter(c, p, groups, size, k)
<1> DEFINE x(k) == RowAfter(c, p, groups, size, k)
           y(k) == RowAfter(d, p, groups, size, k)
           S == {k \in Nat : x(k).next = Short \/ y(k) = x(k)}
<1>1. /\ \A k \in Nat : x(k) \in RowStates /\ x(k + 1) = DecodeRun(c, groups, size)[x(k)]
      /\ \A k \in Nat : y(k) \in RowStates /\ y(k + 1) = DecodeRun(d, groups, size)[y(k)]
      /\ x(0) = y(0)
  <2>1. /\ \A k \in Nat : x(k) \in RowStates
        /\ \A k \in Nat : y(k) \in RowStates
    BY RowAfterType
  <2>2. x(0) = [next |-> p, row |-> <<>>] /\ y(0) = [next |-> p, row |-> <<>>]
    BY RowRounds
  <2>3. \A k \in Nat : /\ x(k + 1) = DecodeRun(c, groups, size)[x(k)]
                       /\ y(k + 1) = DecodeRun(d, groups, size)[y(k)]
    BY RowRound
  <2> HIDE DEF x, y
  <2>4. x(0) = y(0)
    BY ONLY <2>2
  <2>5. QED
    BY ONLY <2>1, <2>3, <2>4, Zenon
<1> HIDE DEF x, y
<1>2. 0 \in S
  BY <1>1
<1>3. ASSUME NEW k \in Nat, k \in S
      PROVE  k + 1 \in S
  <2>1. CASE x(k).next = Short
    <3>1. RowDone(groups, x(k))
      BY <2>1 DEF RowDone
    <3>2. x(k + 1) = x(k)
      BY ONLY <1>1, <3>1, DecodeRunIs, k \in Nat
    <3>3. QED
      BY <2>1, <3>2
  <2>2. CASE y(k) = x(k)
    <3>1. x(k) \in RowStates /\ x(k + 1) = DecodeRun(c, groups, size)[x(k)]
          /\ y(k + 1) = DecodeRun(d, groups, size)[x(k)]
      BY <1>1, <2>2
    <3>2. x(k + 1).next = Short \/ y(k + 1) = x(k + 1)
      BY <3>1, RunContinues
    <3>3. QED
      BY <3>2
  <2>3. QED
    BY <1>3, <2>1, <2>2
<1> HIDE DEF S
<1>4. Nat \subseteq S
  BY <1>2, <1>3, SetInduction
<1>5. QED
  BY <1>4 DEF S, x, y

\* A row that is whole after k runs is what DecodeRow returns.
LEMMA RowRests ==
  ASSUME NEW d \in Documents, NEW p \in Nat, NEW groups \in Nat, NEW size \in Nat,
         NEW k \in Nat, k <= groups, RowDone(groups, RowAfter(d, p, groups, size, k))
  PROVE  DecodeRow(d, p, groups, size) = RowAfter(d, p, groups, size, k)
<1> DEFINE step == DecodeRun(d, groups, size)
           s == [next |-> p, row |-> <<>>]
           x == RowAfter(d, p, groups, size, k)
<1>1. x \in RowStates
  BY RowAfterType
<1>2. step[x] = x
  BY ONLY <1>1, DecodeRunIs, RowDone(groups, x)
<1>3. x = Iterate(step, s, k) /\ DecodeRow(d, p, groups, size) = Iterate(step, s, groups)
  BY Zenon DEF RowAfter, DecodeRow
<1> HIDE DEF step, s, x
<1>4. Iterate(step, s, groups) = Iterate(step, s, k)
  BY ONLY <1>2, <1>3, IterateRests, k \in Nat, groups \in Nat, k <= groups
<1>5. QED
  BY <1>3, <1>4 DEF x

(***************************************************************************)
(* A line of raster-decode.ts.                                             *)
(***************************************************************************)
LEMMA RowAtEndType ==
  ASSUME NEW d \in Documents, NEW p \in Nat, NEW groups \in Nat, NEW size \in Nat
  PROVE  DecodeRow(d, p, groups, size) \in RowStates
<1>1. DecodeRow(d, p, groups, size) = RowAfter(d, p, groups, size, groups)
  BY Zenon DEF DecodeRow, RowAfter
<1>2. QED
  BY <1>1, RowAfterType

LEMMA RowAtEndContinues ==
  ASSUME NEW c \in Documents, NEW d \in Documents, Continues(c, d), NEW p \in Nat,
         NEW groups \in Nat, NEW size \in Nat
  PROVE  \/ DecodeRow(c, p, groups, size).next = Short
         \/ DecodeRow(d, p, groups, size) = DecodeRow(c, p, groups, size)
<1>1. /\ DecodeRow(c, p, groups, size) = RowAfter(c, p, groups, size, groups)
      /\ DecodeRow(d, p, groups, size) = RowAfter(d, p, groups, size, groups)
  BY Zenon DEF DecodeRow, RowAfter
<1>2. QED
  BY <1>1, RowContinues

Copies(row, n) == [k \in 1..n |-> row]

LineAhead(d, height, groups, size, s) ==
  LET decoded == DecodeRow(d, s.next + 1, groups, size)
      copies  == Copies(decoded.row, Clamped(AsByte(d, s.next) + 1, height - Len(s.rows)))
  IN  [next |-> decoded.next,
       rows |-> IF decoded.next = Short THEN s.rows ELSE s.rows \o copies]

LineDone(height, s) == s.next = Short \/ Len(s.rows) >= height

LEMMA DecodeLineIs ==
  ASSUME NEW d, NEW height, NEW groups, NEW size, NEW s \in LineStates
  PROVE  /\ LineDone(height, s) => DecodeLine(d, height, groups, size)[s] = s
         /\ ~ LineDone(height, s) /\ BeyondEnd(d, s)
              => DecodeLine(d, height, groups, size)[s] = OutOfData(s)
         /\ ~ LineDone(height, s) /\ ~ BeyondEnd(d, s)
              => DecodeLine(d, height, groups, size)[s] = LineAhead(d, height, groups, size, s)
BY Zenon DEF DecodeLine, LineStates, LineAhead, LineDone, BeyondEnd, OutOfData, Clamped, Copies

LEMMA CopiesType ==
  ASSUME NEW T, NEW row \in T, NEW n \in Nat
  PROVE  Copies(row, n) \in Seq(T) /\ Len(Copies(row, n)) = n
BY DEF Copies

LEMMA ContinuesSelf ==
  ASSUME NEW T, NEW s \in Seq(T)
  PROVE  Continues(s, s)
BY DEF Continues

LEMMA ContinuesConcat ==
  ASSUME NEW T, NEW s \in Seq(T), NEW t \in Seq(T)
  PROVE  Continues(s, s \o t)
BY DEF Continues

LEMMA ContinuesTransitive ==
  ASSUME NEW T, NEW r \in Seq(T), NEW s \in Seq(T), NEW t \in Seq(T),
         Continues(r, s), Continues(s, t)
  PROVE  Continues(r, t)
BY DEF Continues

LEMMA LineFacts ==
  ASSUME NEW d \in Documents, NEW height \in Nat, NEW groups \in Nat, NEW size \in Nat,
         NEW s \in LineStates, ~ LineDone(height, s), ~ BeyondEnd(d, s)
  PROVE  /\ s.next \in 1..Len(d) /\ s.next + 1 \in Nat
         /\ AsByte(d, s.next) \in 0..255
         /\ height - Len(s.rows) \in Nat \ {0}
         /\ Clamped(AsByte(d, s.next) + 1, height - Len(s.rows)) \in Nat \ {0}
<1>1. s.next \in Nat /\ s.rows \in Rows /\ Len(s.rows) \in Nat /\ Len(d) \in Nat
  BY DEF LineStates, Documents, Rows
<1>2. s.next \in 1..Len(d) /\ s.next + 1 \in Nat /\ height - Len(s.rows) \in Nat \ {0}
  BY <1>1 DEF LineDone, BeyondEnd, Short
<1>3. AsByte(d, s.next) \in 0..255
  BY <1>2, AsByteType
<1> DEFINE a == AsByte(d, s.next)
           left == height - Len(s.rows)
<1>4. a \in 0..255 /\ left \in Nat \ {0}
  BY <1>2, <1>3
<1> HIDE DEF a, left
<1>5. Clamped(a + 1, left) \in Nat \ {0}
  BY ONLY <1>4 DEF Clamped
<1>6. QED
  BY <1>2, <1>3, <1>5 DEF a, left

LEMMA LineAheadType ==
  ASSUME NEW d \in Documents, NEW height \in Nat, NEW groups \in Nat, NEW size \in Nat,
         NEW s \in LineStates, ~ LineDone(height, s), ~ BeyondEnd(d, s)
  PROVE  /\ LineAhead(d, height, groups, size, s) \in LineStates
         /\ Continues(s.rows, LineAhead(d, height, groups, size, s).rows)
<1> DEFINE decoded == DecodeRow(d, s.next + 1, groups, size)
           copies  == Copies(decoded.row, Clamped(AsByte(d, s.next) + 1, height - Len(s.rows)))
           T == Seq(Colored)
<1>1. decoded \in RowStates
  BY LineFacts, RowAtEndType
<1>2. decoded.next \in Nat /\ decoded.row \in T
  BY <1>1 DEF RowStates
<1>3. copies \in Seq(T)
  BY <1>2, LineFacts, CopiesType
<1>4. s.rows \in Seq(T)
  BY DEF LineStates, Rows
<1>5. LineAhead(d, height, groups, size, s) =
        [next |-> decoded.next, rows |-> IF decoded.next = Short THEN s.rows ELSE s.rows \o copies]
  BY Zenon DEF LineAhead
<1> HIDE DEF decoded, copies
<1> DEFINE r == LineAhead(d, height, groups, size, s)
<1>6. s.rows \o copies \in Seq(T) /\ Continues(s.rows, s.rows \o copies)
  BY <1>3, <1>4, ContinuesConcat
<1>7. Continues(s.rows, s.rows)
  BY <1>4, ContinuesSelf
<1>8. r.next \in Nat /\ r.rows \in Seq(T) /\ r = [next |-> r.next, rows |-> r.rows]
      /\ Continues(s.rows, r.rows)
  BY <1>2, <1>4, <1>5, <1>6, <1>7
<1> HIDE DEF r
<1>9. QED
  BY <1>8 DEF LineStates, Rows, r

LEMMA DecodeLineType ==
  ASSUME NEW d \in Documents, NEW height \in Nat, NEW groups \in Nat, NEW size \in Nat,
         NEW s \in LineStates
  PROVE  /\ DecodeLine(d, height, groups, size)[s] \in LineStates
         /\ Continues(s.rows, DecodeLine(d, height, groups, size)[s].rows)
<1>1. Continues(s.rows, s.rows)
  BY ContinuesSelf DEF LineStates, Rows
<1>2. OutOfData(s) \in LineStates /\ OutOfData(s).rows = s.rows
  BY DEF LineStates, OutOfData, Short
<1>3. CASE LineDone(height, s)
  BY ONLY <1>1, <1>3, DecodeLineIs, s \in LineStates
<1>4. CASE ~ LineDone(height, s) /\ BeyondEnd(d, s)
  BY ONLY <1>1, <1>2, <1>4, DecodeLineIs, s \in LineStates
<1>5. CASE ~ LineDone(height, s) /\ ~ BeyondEnd(d, s)
  <2>1. DecodeLine(d, height, groups, size)[s] = LineAhead(d, height, groups, size, s)
    BY ONLY <1>5, DecodeLineIs, s \in LineStates
  <2>2. QED
    BY <1>5, <2>1, LineAheadType
<1>6. QED
  BY <1>3, <1>4, <1>5

\* l is what is read of a document, m what is read of one that goes on from it.
Lost(l, m) == l.next = Short /\ Continues(l.rows, m.rows)

LEMMA LineContinues ==
  ASSUME NEW c \in Documents, NEW d \in Documents, Continues(c, d),
         NEW height \in Nat, NEW groups \in Nat, NEW size \in Nat, NEW s \in LineStates
  PROVE  \/ Lost(DecodeLine(c, height, groups, size)[s], DecodeLine(d, height, groups, size)[s])
         \/ DecodeLine(d, height, groups, size)[s] = DecodeLine(c, height, groups, size)[s]
<1>1. OutOfData(s).next = Short /\ OutOfData(s).rows = s.rows
  BY DEF LineStates, OutOfData, Short
<1>2. Continues(s.rows, DecodeLine(d, height, groups, size)[s].rows)
  BY DecodeLineType
<1>3. CASE LineDone(height, s)
  BY ONLY <1>3, DecodeLineIs, s \in LineStates
<1>4. CASE ~ LineDone(height, s) /\ BeyondEnd(c, s)
  BY ONLY <1>1, <1>2, <1>4, DecodeLineIs, s \in LineStates DEF Lost
<1>5. CASE ~ LineDone(height, s) /\ ~ BeyondEnd(c, s)
  <2> DEFINE x == DecodeRow(c, s.next + 1, groups, size)
             y == DecodeRow(d, s.next + 1, groups, size)
  <2>1. s.next \in 1..Len(c) /\ s.next + 1 \in Nat
    BY <1>5, LineFacts
  <2>2. s.next \in 1..Len(d) /\ AsByte(d, s.next) = AsByte(c, s.next)
    BY <2>1, ContinuesAt
  <2>3. ~ BeyondEnd(d, s)
    BY <2>2 DEF BeyondEnd, Documents
  <2>4. /\ DecodeLine(c, height, groups, size)[s] = LineAhead(c, height, groups, size, s)
        /\ DecodeLine(d, height, groups, size)[s] = LineAhead(d, height, groups, size, s)
    BY ONLY <1>5, <2>3, DecodeLineIs, s \in LineStates
  <2>5. x.next = Short \/ y = x
    BY <2>1, RowAtEndContinues
  <2>6. CASE x.next = Short
    <3>1. LineAhead(c, height, groups, size, s) = [next |-> Short, rows |-> s.rows]
      BY <2>6 DEF LineAhead
    <3>2. QED
      BY ONLY <1>2, <2>4, <3>1 DEF Lost
  <2>7. CASE y = x
    <3>1. LineAhead(c, height, groups, size, s) = LineAhead(d, height, groups, size, s)
      BY <2>2, <2>7, Zenon DEF LineAhead
    <3>2. QED
      BY ONLY <2>4, <3>1
  <2>8. QED
    BY <2>5, <2>6, <2>7
<1>6. QED
  BY <1>3, <1>4, <1>5

(***************************************************************************)
(* The lines of a page.                                                    *)
(***************************************************************************)
LinesAfter(d, p, height, groups, size, k) ==
  Iterate(DecodeLine(d, height, groups, size), [next |-> p, rows |-> <<>>], k)

LEMMA LinesAfterType ==
  ASSUME NEW d \in Documents, NEW p \in Nat, NEW height \in Nat, NEW groups \in Nat, NEW size \in Nat
  PROVE  \A k \in Nat : LinesAfter(d, p, height, groups, size, k) \in LineStates
<1> DEFINE step == DecodeLine(d, height, groups, size)
           s == [next |-> p, rows |-> <<>>]
<1>1. \A x \in LineStates : step[x] \in LineStates
  BY DecodeLineType
<1>2. s \in LineStates
  BY DEF LineStates, Rows
<1> HIDE DEF step, s
<1>3. \A k \in Nat : Iterate(step, s, k) \in LineStates
  BY ONLY <1>1, <1>2, IterateType
<1>4. QED
  BY <1>3 DEF LinesAfter, step, s

LEMMA LinesContinue ==
  ASSUME NEW c \in Documents, NEW d \in Documents, Continues(c, d), NEW p \in Nat,
         NEW height \in Nat, NEW groups \in Nat, NEW size \in Nat
  PROVE  \A k \in Nat :
           \/ Lost(LinesAfter(c, p, height, groups, size, k), LinesAfter(d, p, height, groups, size, k))
           \/ LinesAfter(d, p, height, groups, size, k) = LinesAfter(c, p, height, groups, size, k)
<1> DEFINE u == DecodeLine(c, height, groups, size)
           v == DecodeLine(d, height, groups, size)
           s == [next |-> p, rows |-> <<>>]
           x(k) == Iterate(u, s, k)
           y(k) == Iterate(v, s, k)
           S == {k \in Nat : Lost(x(k), y(k)) \/ y(k) = x(k)}
<1>0. /\ \A k \in Nat : LinesAfter(c, p, height, groups, size, k) = x(k)
      /\ \A k \in Nat : LinesAfter(d, p, height, groups, size, k) = y(k)
  BY Zenon DEF LinesAfter
<1>1. /\ \A k \in Nat : x(k) \in LineStates /\ x(k + 1) = DecodeLine(c, height, groups, size)[x(k)]
      /\ \A k \in Nat : y(k) \in LineStates /\ y(k + 1) = DecodeLine(d, height, groups, size)[y(k)]
      /\ x(0) = y(0)
  <2>1. /\ \A k \in Nat : LinesAfter(c, p, height, groups, size, k) \in LineStates
        /\ \A k \in Nat : LinesAfter(d, p, height, groups, size, k) \in LineStates
    BY LinesAfterType
  <2> HIDE DEF u, v, s
  <2>2. /\ x(0) = s /\ \A k \in Nat : x(k + 1) = u[x(k)]
        /\ y(0) = s /\ \A k \in Nat : y(k + 1) = v[y(k)]
    BY ONLY IterateRounds
  <2> HIDE DEF x, y
  <2>3. QED
    BY ONLY <1>0, <2>1, <2>2 DEF u, v
<1> HIDE DEF u, v, s
<1> HIDE DEF x, y
<1>2. 0 \in S
  BY <1>1
<1>3. ASSUME NEW k \in Nat, k \in S
      PROVE  k + 1 \in S
  <2>1. CASE Lost(x(k), y(k))
    <3>1. LineDone(height, x(k))
      BY <2>1 DEF LineDone, Lost
    <3>2. x(k + 1) = x(k)
      BY ONLY <1>1, <3>1, DecodeLineIs, k \in Nat
    <3> DEFINE a == x(k)
               b == y(k)
               e == y(k + 1)
    <3>a. a \in LineStates /\ b \in LineStates /\ e \in LineStates
          /\ e = DecodeLine(d, height, groups, size)[b]
      BY <1>1
    <3> HIDE DEF a, b, e
    <3>b. Continues(b.rows, e.rows)
      BY <3>a, DecodeLineType
    <3>c. /\ a.rows \in Seq(Seq(Colored)) /\ b.rows \in Seq(Seq(Colored))
          /\ e.rows \in Seq(Seq(Colored))
      BY <3>a DEF LineStates, Rows
    <3>3. Continues(y(k).rows, y(k + 1).rows)
      BY <3>b DEF b, e
    <3>4. /\ x(k).rows \in Seq(Seq(Colored)) /\ y(k).rows \in Seq(Seq(Colored))
          /\ y(k + 1).rows \in Seq(Seq(Colored))
      BY <3>c DEF a, b, e
    <3>5. Continues(x(k).rows, y(k + 1).rows)
      BY ONLY <2>1, <3>3, <3>4, ContinuesTransitive DEF Lost
    <3>6. Lost(x(k + 1), y(k + 1))
      BY ONLY <2>1, <3>2, <3>5 DEF Lost
    <3>7. QED
      BY <3>6
  <2>2. CASE y(k) = x(k)
    <3>1. x(k) \in LineStates /\ x(k + 1) = DecodeLine(c, height, groups, size)[x(k)]
          /\ y(k + 1) = DecodeLine(d, height, groups, size)[x(k)]
      BY <1>1, <2>2
    <3>2. Lost(x(k + 1), y(k + 1)) \/ y(k + 1) = x(k + 1)
      BY <3>1, LineContinues
    <3>3. QED
      BY <3>2
  <2>3. QED
    BY <1>3, <2>1, <2>2
<1> HIDE DEF S
<1>4. Nat \subseteq S
  BY <1>2, <1>3, SetInduction
<1>5. QED
  <2> HIDE DEF x, y
  <2>1. \A k \in Nat : Lost(x(k), y(k)) \/ y(k) = x(k)
    BY <1>4 DEF S
  <2>2. QED
    BY <1>0, <2>1

\* A page that is whole after k lines stays as it is.
LEMMA LinesRest ==
  ASSUME NEW d \in Documents, NEW p \in Nat, NEW height \in Nat, NEW groups \in Nat, NEW size \in Nat,
         NEW k \in Nat, LineDone(height, LinesAfter(d, p, height, groups, size, k)),
         NEW m \in Nat, k <= m
  PROVE  LinesAfter(d, p, height, groups, size, m) = LinesAfter(d, p, height, groups, size, k)
<1> DEFINE step == DecodeLine(d, height, groups, size)
           s == [next |-> p, rows |-> <<>>]
           x == LinesAfter(d, p, height, groups, size, k)
<1>1. x \in LineStates
  BY LinesAfterType
<1>2. step[x] = x
  BY ONLY <1>1, DecodeLineIs, LineDone(height, x)
<1>3. x = Iterate(step, s, k) /\ LinesAfter(d, p, height, groups, size, m) = Iterate(step, s, m)
  BY Zenon DEF LinesAfter
<1> HIDE DEF step, s, x
<1>4. Iterate(step, s, m) = Iterate(step, s, k)
  BY ONLY <1>2, <1>3, IterateRests, k \in Nat, m \in Nat, k <= m
<1>5. QED
  BY <1>3, <1>4 DEF x

(***************************************************************************)
(* The geometry of a page: both walkers size its color values alike.       *)
(***************************************************************************)
LEMMA MaxIs ==
  ASSUME NEW S \in SUBSET Nat, NEW m \in S, \A y \in S : y <= m
  PROVE  Max(S) = m
<1>1. m \in S /\ \A y \in S : m >= y
  OBVIOUS
<1>2. Max(S) \in S /\ \A y \in S : Max(S) >= y
  BY <1>1, Zenon DEF Max
<1> DEFINE x == Max(S)
<1>3. x \in Nat /\ m \in Nat /\ x >= m /\ m >= x
  BY <1>1, <1>2
<1> HIDE DEF x
<1>4. x = m
  BY ONLY <1>3
<1>5. QED
  BY <1>4 DEF x

LEMMA CeilDivBytes ==
  /\ CeilDiv(8, 8) = 1 /\ CeilDiv(16, 8) = 2 /\ CeilDiv(24, 8) = 3
  /\ CeilDiv(32, 8) = 4 /\ CeilDiv(48, 8) = 6 /\ CeilDiv(1, 8) = 1
BY DEF CeilDiv

LEMMA RoundedProduct ==
  ASSUME NEW w \in Nat \ {0}, NEW v \in Nat
  PROVE  Rounded(w * v, w) = v
<1> DEFINE b == 2 * w
<1>1. b \in Nat \ {0} /\ w \in 0..(b - 1) /\ 2 * (w * v) + w = v * b + w
  OBVIOUS
<1>2. (v * b + w) \div b = v
  <2> HIDE DEF b
  <2>1. QED
    BY <1>1, DivIs
<1>3. Rounded(w * v, w) = (2 * (w * v) + w) \div b
  BY DEF Rounded
<1> HIDE DEF b
<1>4. QED
  BY <1>1, <1>2, <1>3

\* The depths of headers, and the bytes of their color values.
Depths == {<<8, 1>>, <<16, 2>>, <<24, 3>>, <<32, 4>>, <<48, 6>>}

LEMMA KnownDepths ==
  ASSUME NEW bpp, NEW v, <<bpp, v>> \in Depths
  PROVE  /\ bpp \in {8, 16, 24, 32, 48} /\ v \in {1, 2, 3, 4, 6} /\ bpp = 8 * v
         /\ CeilDiv(bpp, 8) = v
         /\ Max({k[2] : k \in {x \in Depths : x[1] <= bpp}} \cup {1}) = v
<1>1. bpp \in {8, 16, 24, 32, 48} /\ v \in {1, 2, 3, 4, 6} /\ bpp = 8 * v
  BY DEF Depths
<1>2. CeilDiv(bpp, 8) = v
  BY <1>1, CeilDivBytes
<1> DEFINE S == {k[2] : k \in {x \in Depths : x[1] <= bpp}} \cup {1}
<1>3. \A k \in Depths : k[1] \in Nat /\ k[2] \in Nat /\ k[1] = 8 * k[2]
  BY DEF Depths
<1>4. S \in SUBSET Nat
  BY <1>3
<1>5. v \in S
  <2>1. <<bpp, v>>[1] = bpp /\ <<bpp, v>>[2] = v /\ bpp <= bpp
    BY <1>1
  <2>2. QED
    BY <2>1
<1>6. \A y \in S : y <= v
  BY <1>1, <1>3
<1> HIDE DEF S
<1>7. Max(S) = v
  BY <1>4, <1>5, <1>6, MaxIs
<1>8. QED
  BY <1>1, <1>2, <1>7 DEF S

Formats == {"PWG", "URF"}

LEMMA GeometryIs ==
  ASSUME NEW h \in PageHeaders, WellFormed(h), NEW fmt \in Formats,
         NEW g \in {InfoGeometry(fmt, h), DecodeGeometry(fmt, h)}
  PROVE  /\ g.groupBytes = CeilDiv(h.bitsPerPixel, 8)
         /\ g.groupBytes \in Nat \ {0}
         /\ GroupsPerRow(h, g) = ColorsPerRow(h)
         /\ ColorsPerRow(h) \in Nat \ {0}
<1> DEFINE bpp == h.bitsPerPixel
           w == h.width
<1>1. w \in Nat \ {0} /\ h.bytesPerLine \in Nat /\ bpp \in {1, 8, 16, 24, 32, 48}
      /\ (bpp = 1 => h.bitsPerColor = 1) /\ (bpp # 1 => 8 * h.bytesPerLine = w * bpp)
  BY DEF PageHeaders, WellFormed
<1>2. CASE bpp = 1
  <2>1. /\ PwgGeometry(h) = [groupBytes |-> 1, pixelsPerGroup |-> 8]
        /\ UrfInfoGeometry(h) = [groupBytes |-> 1, pixelsPerGroup |-> 8]
        /\ UrfDecodeGeometry(h) = [groupBytes |-> 1, pixelsPerGroup |-> 8]
    BY <1>1, <1>2 DEF PwgGeometry, UrfInfoGeometry, UrfDecodeGeometry
  <2>2. g = [groupBytes |-> 1, pixelsPerGroup |-> 8]
    BY <2>1 DEF InfoGeometry, DecodeGeometry, Formats
  <2>3. (w + 8 - 1) \div 8 \in Nat \ {0}
    BY <1>1
  <2>4. QED
    BY <1>2, <2>2, <2>3, CeilDivBytes DEF GroupsPerRow, ColorsPerRow, CeilDiv
<1>3. CASE bpp # 1
  <2>1. PICK v : <<bpp, v>> \in Depths
    BY <1>1, <1>3 DEF Depths
  <2>2. v \in {1, 2, 3, 4, 6} /\ bpp = 8 * v /\ CeilDiv(bpp, 8) = v
        /\ Max({k[2] : k \in {x \in Depths : x[1] <= bpp}} \cup {1}) = v
    BY <2>1, KnownDepths
  <2> DEFINE plain == [groupBytes |-> v, pixelsPerGroup |-> 1]
  <2>3. h.bytesPerLine = w * v /\ w * v > 0
    <3>1. v \in Nat \ {0} /\ 8 * h.bytesPerLine = w * (8 * v)
      BY <1>1, <1>3, <2>2
    <3>2. w * (8 * v) = 8 * (w * v) /\ w * v \in Nat \ {0}
      BY <1>1, <3>1
    <3>3. QED
      BY <1>1, <3>1, <3>2
  <2>4. Rounded(h.bytesPerLine, w) = v
    BY <1>1, <2>2, <2>3, RoundedProduct
  <2>5. PwgGeometry(h) = plain
    BY <1>1, <1>3, <2>2, <2>3, <2>4 DEF PwgGeometry
  <2>6. UrfInfoGeometry(h) = plain
    BY <1>1, <1>3, <2>2 DEF UrfInfoGeometry
  <2>7. UrfDecodeGeometry(h) = plain
    <3>1. bpp # 0 /\ ~ (bpp <= 1)
      BY <1>1, <1>3
    <3>2. UrfDecodeGeometry(h) =
            [groupBytes |-> Max({k[2] : k \in {x \in Depths : x[1] <= bpp}} \cup {1}),
             pixelsPerGroup |-> 1]
      BY <3>1, Zenon DEF UrfDecodeGeometry, Depths
    <3>3. QED
      BY <2>2, <3>2
  <2>8. g = plain
    BY <2>5, <2>6, <2>7 DEF InfoGeometry, DecodeGeometry, Formats
  <2>9. (w + 1 - 1) \div 1 = w
    BY <1>1
  <2>10. QED
    BY <1>1, <1>3, <2>2, <2>8, <2>9 DEF GroupsPerRow, ColorsPerRow, CeilDiv
<1>4. QED
  BY <1>2, <1>3

(***************************************************************************)
(* A page of raster-decode.ts.  Up to PagesAreFull below, a page is told   *)
(* by the rows written to it, without the blank ones behind them.          *)
(***************************************************************************)
WritePage(fmt, d, p, h) ==
  LET g == DecodeGeometry(fmt, h) IN
  IF h.width = 0 \/ h.height = 0 THEN [next |-> Short, rows |-> <<>>]
  ELSE Iterate(DecodeLine(d, h.height, GroupsPerRow(h, g), g.groupBytes),
               [next |-> p, rows |-> <<>>], h.height)

WriteNextPage(fmt, d) == [s \in [next : Nat, pages : Pages] |->
  IF s.next = Short \/ ~ MorePages(fmt, d, s.next, Len(s.pages)) THEN s
  ELSE LET h    == HeaderAt(d, s.next)
           page == WritePage(fmt, d, s.next + HeaderLen, h)
       IN  [next |-> page.next, pages |-> Append(s.pages, [header |-> h, rows |-> page.rows])]]

WrittenPages(fmt, d) ==
  Iterate(WriteNextPage(fmt, d), [next |-> 1, pages |-> <<>>], Len(d)).pages

LEMMA HeaderAtType ==
  ASSUME NEW d \in Documents, NEW p \in 1..Len(d)
  PROVE  /\ HeaderAt(d, p) \in PageHeaders
         /\ HeaderAt(d, p) = Garbage \/ WellFormed(HeaderAt(d, p))
<1>1. Headers \in Seq(PageHeaders) /\ \A k \in DOMAIN Headers : WellFormed(Headers[k])
  BY RasterAssumption
<1>2. d[p] \in 0..(255 + Len(Headers)) /\ Len(Headers) \in Nat /\ DOMAIN Headers = 1..Len(Headers)
  BY <1>1 DEF Documents
<1>3. Garbage \in PageHeaders
  BY DEF Garbage, PageHeaders
<1>4. CASE d[p] > 255
  <2>1. d[p] - 255 \in 1..Len(Headers)
    BY <1>2, <1>4
  <2>2. HeaderAt(d, p) = Headers[d[p] - 255]
    BY <1>4 DEF HeaderAt
  <2>3. QED
    BY <1>1, <1>2, <2>1, <2>2
<1>5. CASE ~ (d[p] > 255)
  BY <1>3, <1>5 DEF HeaderAt
<1>6. QED
  BY <1>4, <1>5

ReadPage(fmt, d, p, h, k) ==
  LET g == DecodeGeometry(fmt, h)
  IN  LinesAfter(d, p, h.height, GroupsPerRow(h, g), g.groupBytes, k)

LEMMA GarbageOrNot == ~ WellFormed(Garbage)
BY DEF WellFormed, Garbage

LEMMA WritePageIs ==
  ASSUME NEW fmt, NEW d, NEW p, NEW h \in PageHeaders
  PROVE  /\ WellFormed(h) => WritePage(fmt, d, p, h) = ReadPage(fmt, d, p, h, h.height)
         /\ h = Garbage => WritePage(fmt, d, p, h) = [next |-> Short, rows |-> <<>>]
<1>1. ASSUME WellFormed(h)
      PROVE  WritePage(fmt, d, p, h) = ReadPage(fmt, d, p, h, h.height)
  <2>1. ~ (h.width = 0 \/ h.height = 0)
    BY <1>1 DEF WellFormed, PageHeaders
  <2>2. QED
    BY <2>1, Zenon DEF WritePage, ReadPage, LinesAfter
<1>2. ASSUME h = Garbage
      PROVE  WritePage(fmt, d, p, h) = [next |-> Short, rows |-> <<>>]
  <2>1. h.width = 0
    BY <1>2 DEF Garbage
  <2>2. QED
    BY <2>1, Zenon DEF WritePage
<1>3. QED
  BY <1>1, <1>2

LEMMA ReadPageType ==
  ASSUME NEW fmt \in Formats, NEW d \in Documents, NEW p \in Nat,
         NEW h \in PageHeaders, WellFormed(h)
  PROVE  \A k \in Nat : ReadPage(fmt, d, p, h, k) \in LineStates
<1> DEFINE g == DecodeGeometry(fmt, h)
<1>1. g.groupBytes \in Nat /\ GroupsPerRow(h, g) \in Nat /\ h.height \in Nat
  BY GeometryIs DEF PageHeaders
<1> HIDE DEF g
<1>2. \A k \in Nat : LinesAfter(d, p, h.height, GroupsPerRow(h, g), g.groupBytes, k) \in LineStates
  BY <1>1, LinesAfterType
<1>3. QED
  BY <1>2 DEF ReadPage, g

LEMMA ReadPageContinues ==
  ASSUME NEW fmt \in Formats, NEW c \in Documents, NEW d \in Documents, Continues(c, d),
         NEW p \in Nat, NEW h \in PageHeaders, WellFormed(h)
  PROVE  \A k \in Nat : \/ Lost(ReadPage(fmt, c, p, h, k), ReadPage(fmt, d, p, h, k))
                        \/ ReadPage(fmt, d, p, h, k) = ReadPage(fmt, c, p, h, k)
<1> DEFINE g == DecodeGeometry(fmt, h)
           n == GroupsPerRow(h, g)
           z == g.groupBytes
           m == h.height
<1>1. z \in Nat /\ n \in Nat /\ m \in Nat
  BY GeometryIs DEF PageHeaders
<1>2. \A k \in Nat : /\ ReadPage(fmt, c, p, h, k) = LinesAfter(c, p, m, n, z, k)
                     /\ ReadPage(fmt, d, p, h, k) = LinesAfter(d, p, m, n, z, k)
  BY Zenon DEF ReadPage
<1> HIDE DEF g, n, z, m
<1>3. \A k \in Nat : \/ Lost(LinesAfter(c, p, m, n, z, k), LinesAfter(d, p, m, n, z, k))
                     \/ LinesAfter(d, p, m, n, z, k) = LinesAfter(c, p, m, n, z, k)
  BY <1>1, LinesContinue
<1>4. QED
  BY <1>2, <1>3

LEMMA WritePageType ==
  ASSUME NEW fmt \in Formats, NEW d \in Documents, NEW p \in Nat,
         NEW h \in PageHeaders, h = Garbage \/ WellFormed(h)
  PROVE  WritePage(fmt, d, p, h) \in LineStates
<1>1. [next |-> Short, rows |-> <<>>] \in LineStates
  BY DEF LineStates, Rows, Short
<1>2. CASE h = Garbage
  BY ONLY <1>1, <1>2, WritePageIs, h \in PageHeaders
<1>3. CASE WellFormed(h)
  <2>1. h.height \in Nat
    BY DEF PageHeaders
  <2>2. ReadPage(fmt, d, p, h, h.height) \in LineStates
    BY <1>3, <2>1, ReadPageType
  <2>3. QED
    BY ONLY <1>3, <2>2, WritePageIs, h \in PageHeaders
<1>4. QED
  BY <1>2, <1>3

LEMMA WritePageContinues ==
  ASSUME NEW fmt \in Formats, NEW c \in Documents, NEW d \in Documents, Continues(c, d),
         NEW p \in Nat, NEW h \in PageHeaders, h = Garbage \/ WellFormed(h)
  PROVE  \/ Lost(WritePage(fmt, c, p, h), WritePage(fmt, d, p, h))
         \/ WritePage(fmt, d, p, h) = WritePage(fmt, c, p, h)
<1>1. CASE h = Garbage
  BY ONLY <1>1, WritePageIs, h \in PageHeaders
<1>2. CASE WellFormed(h)
  <2>1. h.height \in Nat
    BY DEF PageHeaders
  <2>2. \/ Lost(ReadPage(fmt, c, p, h, h.height), ReadPage(fmt, d, p, h, h.height))
        \/ ReadPage(fmt, d, p, h, h.height) = ReadPage(fmt, c, p, h, h.height)
    BY <1>2, <2>1, ReadPageContinues
  <2>3. QED
    BY ONLY <1>2, <2>2, WritePageIs, h \in PageHeaders
<1>3. QED
  BY <1>1, <1>2

(***************************************************************************)
(* The pages of a document.                                                *)
(***************************************************************************)
PageDone(fmt, d, s) == s.next = Short \/ ~ MorePages(fmt, d, s.next, Len(s.pages))

PageAhead(fmt, d, s) ==
  LET h    == HeaderAt(d, s.next)
      page == WritePage(fmt, d, s.next + HeaderLen, h)
  IN  [next |-> page.next, pages |-> Append(s.pages, [header |-> h, rows |-> page.rows])]

LEMMA WriteNextPageIs ==
  ASSUME NEW fmt, NEW d, NEW s \in PageStates
  PROVE  /\ PageDone(fmt, d, s) => WriteNextPage(fmt, d)[s] = s
         /\ ~ PageDone(fmt, d, s) => WriteNextPage(fmt, d)[s] = PageAhead(fmt, d, s)
BY Zenon DEF WriteNextPage, PageStates, PageDone, PageAhead

Page == [header : PageHeaders, rows : Rows]

LEMMA PageFacts ==
  ASSUME NEW fmt, NEW d \in Documents, NEW s \in PageStates, ~ PageDone(fmt, d, s)
  PROVE  /\ s.next \in 1..Len(d) /\ s.next + HeaderLen \in Nat \ {0}
         /\ s.pages \in Seq(Page) /\ Len(s.pages) \in Nat
<1>1. s.next \in Nat /\ s.pages \in Seq(Page) /\ Len(s.pages) \in Nat /\ Len(d) \in Nat
  BY DEF PageStates, Pages, Page, Documents
<1>2. s.next # 0 /\ s.next + HeaderLen <= Len(d) + 1
  BY DEF PageDone, Short, MorePages
<1>3. QED
  BY <1>1, <1>2, RasterAssumption

LEMMA PageAheadType ==
  ASSUME NEW fmt \in Formats, NEW d \in Documents, NEW s \in PageStates, ~ PageDone(fmt, d, s)
  PROVE  /\ PageAhead(fmt, d, s) \in PageStates
         /\ [header |-> HeaderAt(d, s.next),
             rows |-> WritePage(fmt, d, s.next + HeaderLen, HeaderAt(d, s.next)).rows] \in Page
<1> DEFINE h == HeaderAt(d, s.next)
           page == WritePage(fmt, d, s.next + HeaderLen, h)
           new == [header |-> h, rows |-> page.rows]
<1>1. s.next \in 1..Len(d) /\ s.next + HeaderLen \in Nat /\ s.pages \in Seq(Page)
  BY PageFacts
<1>2. h \in PageHeaders /\ (h = Garbage \/ WellFormed(h))
  BY <1>1, HeaderAtType
<1>3. page \in LineStates
  <2> HIDE DEF h
  <2>1. QED
    BY <1>1, <1>2, WritePageType
<1>4. PageAhead(fmt, d, s) = [next |-> page.next, pages |-> Append(s.pages, new)]
  BY Zenon DEF PageAhead
<1> HIDE DEF h, page
<1>5. new \in Page /\ page.next \in Nat
  BY <1>2, <1>3 DEF LineStates, Page
<1> HIDE DEF new
<1>6. Append(s.pages, new) \in Seq(Page)
  BY <1>1, <1>5
<1>7. PageAhead(fmt, d, s) \in PageStates
  BY <1>4, <1>5, <1>6 DEF PageStates, Pages, Page
<1>8. QED
  BY <1>5, <1>7 DEF new, h, page

\* part has the pages of whole from the first one on, of its last one perhaps
\* not all rows.
Partly(part, whole) ==
  /\ Len(part) <= Len(whole)
  /\ \A k \in 1..Len(part) : Continues(part[k].rows, whole[k].rows)
  /\ \A k \in 1..Len(part) : part[k].header = whole[k].header
  /\ \A k \in 1..(Len(part) - 1) : part[k] = whole[k]

LEMMA PageRows ==
  ASSUME NEW s \in Seq(Page), NEW k \in 1..Len(s)
  PROVE  s[k].rows \in Seq(Seq(Colored)) /\ s[k].header \in PageHeaders
<1>1. s[k] \in Page
  OBVIOUS
<1>2. \A x \in Page : x.rows \in Seq(Seq(Colored)) /\ x.header \in PageHeaders
  BY DEF Page, Rows
<1>3. QED
  BY ONLY <1>1, <1>2

LEMMA PartlySelf ==
  ASSUME NEW s \in Seq(Page)
  PROVE  Partly(s, s)
<1>1. ASSUME NEW k \in 1..Len(s)
      PROVE  Continues(s[k].rows, s[k].rows)
  BY PageRows, ContinuesSelf
<1>2. QED
  BY <1>1 DEF Partly

LEMMA PartlyMore ==
  ASSUME NEW r \in Seq(Page), NEW s \in Seq(Page), NEW t \in Seq(Page),
         Partly(r, s), Continues(s, t)
  PROVE  Partly(r, t)
<1>1. /\ Len(r) \in Nat /\ Len(s) \in Nat /\ Len(t) \in Nat
      /\ Len(r) <= Len(s) /\ Len(s) <= Len(t)
      /\ \A k \in 1..Len(s) : t[k] = s[k]
      /\ \A k \in 1..Len(r) : Continues(r[k].rows, s[k].rows)
      /\ \A k \in 1..Len(r) : r[k].header = s[k].header
      /\ \A k \in 1..(Len(r) - 1) : r[k] = s[k]
  BY DEF Partly, Continues
<1>2. \A k \in 1..Len(r) : k \in 1..Len(s)
  BY <1>1
<1>3. \A k \in 1..(Len(r) - 1) : k \in 1..Len(s)
  BY <1>1
<1>4. Len(r) <= Len(t)
  BY <1>1
<1>5. \A k \in 1..Len(r) : Continues(r[k].rows, t[k].rows)
  BY ONLY <1>1, <1>2
<1>6. \A k \in 1..(Len(r) - 1) : r[k] = t[k]
  BY ONLY <1>1, <1>3
<1>7. \A k \in 1..Len(r) : r[k].header = t[k].header
  BY ONLY <1>1, <1>2
<1>8. QED
  BY <1>4, <1>5, <1>6, <1>7 DEF Partly

\* Two documents read alike up to their last page.
LEMMA PartlyLast ==
  ASSUME NEW s \in Seq(Page), NEW p \in Page, NEW q \in Page,
         Continues(p.rows, q.rows), p.header = q.header
  PROVE  Partly(Append(s, p), Append(s, q))
<1> DEFINE a == Append(s, p)
           b == Append(s, q)
<1>1. /\ Len(s) \in Nat /\ Len(a) = Len(s) + 1 /\ Len(b) = Len(s) + 1
      /\ a[Len(s) + 1] = p /\ b[Len(s) + 1] = q
      /\ \A k \in 1..Len(s) : a[k] = s[k] /\ b[k] = s[k]
  OBVIOUS
<1>2. \A k \in 1..Len(s) : Continues(s[k].rows, s[k].rows)
  BY PageRows, ContinuesSelf
<1> HIDE DEF a, b
<1>3. ASSUME NEW k \in 1..Len(a)
      PROVE  Continues(a[k].rows, b[k].rows)
  <2>1. CASE k = Len(s) + 1
    BY <1>1, <2>1
  <2>2. CASE k \in 1..Len(s)
    BY <1>1, <1>2, <2>2
  <2>3. QED
    BY <1>1, <2>1, <2>2
<1>4. \A k \in 1..(Len(a) - 1) : a[k] = b[k]
  BY <1>1
<1>5. \A k \in 1..Len(a) : a[k].header = b[k].header
  <2>1. ASSUME NEW k \in 1..Len(a)
        PROVE  a[k].header = b[k].header
    <3>1. CASE k = Len(s) + 1
      BY <1>1, <3>1
    <3>2. CASE k \in 1..Len(s)
      BY <1>1, <3>2
    <3>3. QED
      BY <1>1, <3>1, <3>2
  <2>2. QED
    BY <2>1
<1>6. Partly(a, b)
  BY <1>1, <1>3, <1>4, <1>5 DEF Partly
<1>7. QED
  BY <1>6 DEF a, b

LEMMA WriteNextPageType ==
  ASSUME NEW fmt \in Formats, NEW d \in Documents, NEW s \in PageStates
  PROVE  /\ WriteNextPage(fmt, d)[s] \in PageStates
         /\ Continues(s.pages, WriteNextPage(fmt, d)[s].pages)
         /\ Len(WriteNextPage(fmt, d)[s].pages) <= Len(s.pages) + 1
<1>1. s.pages \in Seq(Page) /\ Len(s.pages) \in Nat
  BY DEF PageStates, Pages, Page
<1>2. Continues(s.pages, s.pages) /\ Len(s.pages) <= Len(s.pages) + 1
  BY <1>1, ContinuesSelf
<1>3. CASE PageDone(fmt, d, s)
  BY ONLY <1>2, <1>3, WriteNextPageIs, s \in PageStates
<1>4. CASE ~ PageDone(fmt, d, s)
  <2> DEFINE new == [header |-> HeaderAt(d, s.next),
                     rows |-> WritePage(fmt, d, s.next + HeaderLen, HeaderAt(d, s.next)).rows]
             r == PageAhead(fmt, d, s)
  <2>1. r \in PageStates /\ new \in Page
    BY <1>4, PageAheadType
  <2>2. WriteNextPage(fmt, d)[s] = r
    BY ONLY <1>4, WriteNextPageIs, s \in PageStates
  <2>3. r.pages = Append(s.pages, new)
    BY DEF PageAhead
  <2> HIDE DEF new, r
  <2>4. Continues(s.pages, r.pages) /\ Len(r.pages) <= Len(s.pages) + 1
    BY <1>1, <2>1, <2>3 DEF Continues
  <2>5. QED
    BY <2>1, <2>2, <2>4
<1>5. QED
  BY <1>3, <1>4

\* x is where the walk of a document came to rest with fewer pages, or fewer
\* rows of its last page, than y of one that goes on.
Behind(fmt, c, x, y, k) ==
  /\ PageDone(fmt, c, x)
  /\ Partly(x.pages, y.pages)
  /\ x.next = Short \/ Len(x.pages) < k

LEMMA PageContinues ==
  ASSUME NEW fmt \in Formats, NEW c \in Documents, NEW d \in Documents, Continues(c, d),
         NEW s \in PageStates, NEW k \in Nat, Len(s.pages) <= k
  PROVE  \/ Behind(fmt, c, WriteNextPage(fmt, c)[s], WriteNextPage(fmt, d)[s], k + 1)
         \/ WriteNextPage(fmt, d)[s] = WriteNextPage(fmt, c)[s]
<1>1. s.pages \in Seq(Page) /\ Len(s.pages) \in Nat /\ Len(c) \in Nat /\ Len(d) \in Nat
      /\ Len(c) <= Len(d) /\ s.next \in Nat
  BY DEF PageStates, Pages, Page, Documents, Continues
<1> DEFINE u == WriteNextPage(fmt, c)[s]
           v == WriteNextPage(fmt, d)[s]
<1>2. CASE PageDone(fmt, c, s)
  <2>1. u = s
    BY ONLY <1>2, WriteNextPageIs, s \in PageStates
  <2>2. v \in PageStates /\ Continues(s.pages, v.pages)
    BY WriteNextPageType
  <2>3. v.pages \in Seq(Page)
    BY <2>2 DEF PageStates, Pages, Page
  <2>4. Partly(s.pages, v.pages)
    BY <1>1, <2>2, <2>3, PartlySelf, PartlyMore
  <2>5. Len(s.pages) < k + 1
    BY <1>1
  <2> HIDE DEF u, v
  <2>6. Behind(fmt, c, u, v, k + 1)
    BY <1>2, <2>1, <2>4, <2>5 DEF Behind
  <2>7. QED
    BY <2>6 DEF u, v
<1>3. CASE ~ PageDone(fmt, c, s)
  <2> DEFINE h == HeaderAt(c, s.next)
             p == s.next + HeaderLen
             x == WritePage(fmt, c, p, h)
             y == WritePage(fmt, d, p, h)
  <2>1. s.next \in 1..Len(c) /\ p \in Nat
    BY <1>3, PageFacts
  <2>2. h \in PageHeaders /\ (h = Garbage \/ WellFormed(h))
    BY <2>1, HeaderAtType
  <2>3. HeaderAt(d, s.next) = h
    <3>1. d[s.next] = c[s.next]
      BY <2>1 DEF Continues
    <3>2. QED
      BY <3>1 DEF HeaderAt
  <2>4. ~ PageDone(fmt, d, s)
    <3>1. s.next + HeaderLen <= Len(c) + 1 /\ HeaderLen \in Nat
      BY <1>3, RasterAssumption DEF PageDone, MorePages
    <3>2. s.next + HeaderLen <= Len(d) + 1
      BY <1>1, <3>1
    <3>3. QED
      BY <1>3, <3>2 DEF PageDone, MorePages
  <2>5. u = PageAhead(fmt, c, s) /\ v = PageAhead(fmt, d, s)
    BY ONLY <1>3, <2>4, WriteNextPageIs, s \in PageStates
  <2>6. /\ PageAhead(fmt, c, s) =
             [next |-> x.next, pages |-> Append(s.pages, [header |-> h, rows |-> x.rows])]
        /\ PageAhead(fmt, d, s) =
             [next |-> y.next, pages |-> Append(s.pages, [header |-> h, rows |-> y.rows])]
    BY <2>3, Zenon DEF PageAhead
  <2> HIDE DEF h, p
  <2>7. Lost(x, y) \/ y = x
    BY <2>1, <2>2, WritePageContinues
  <2>8. x \in LineStates /\ y \in LineStates
    BY <2>1, <2>2, WritePageType
  <2> HIDE DEF x, y
  <2>9. CASE y = x
    BY ONLY <2>5, <2>6, <2>9
  <2>10. CASE Lost(x, y)
    <3> DEFINE a == [header |-> h, rows |-> x.rows]
               b == [header |-> h, rows |-> y.rows]
    <3>1. /\ a \in Page /\ b \in Page /\ Continues(a.rows, b.rows) /\ x.next = Short
          /\ a.header = b.header
      BY <2>2, <2>8, <2>10 DEF Lost, LineStates, Page
    <3>2. u.next = x.next /\ u.pages = Append(s.pages, a) /\ v.pages = Append(s.pages, b)
      BY ONLY <2>5, <2>6
    <3> HIDE DEF a, b, u, v
    <3>3. Partly(Append(s.pages, a), Append(s.pages, b))
      BY <1>1, <3>1, PartlyLast
    <3>4. PageDone(fmt, c, u)
      BY <3>1, <3>2 DEF PageDone
    <3>5. Behind(fmt, c, u, v, k + 1)
      BY ONLY <3>1, <3>2, <3>3, <3>4 DEF Behind
    <3>6. QED
      BY <3>5 DEF u, v
  <2>11. QED
    BY <2>7, <2>9, <2>10
<1>4. QED
  BY <1>2, <1>3

PagesAfter(fmt, d, k) == Iterate(WriteNextPage(fmt, d), [next |-> 1, pages |-> <<>>], k)

LEMMA PageRounds ==
  ASSUME NEW fmt \in Formats, NEW d \in Documents
  PROVE  /\ PagesAfter(fmt, d, 0) = [next |-> 1, pages |-> <<>>]
         /\ \A k \in Nat : /\ PagesAfter(fmt, d, k) \in PageStates
                           /\ PagesAfter(fmt, d, k + 1) = WriteNextPage(fmt, d)[PagesAfter(fmt, d, k)]
                           /\ Len(PagesAfter(fmt, d, k).pages) <= k
<1> DEFINE u == WriteNextPage(fmt, d)
           s == [next |-> 1, pages |-> <<>>]
           x(k) == Iterate(u, s, k)
           S == {k \in Nat : Len(x(k).pages) <= k}
<1>1. \A z \in PageStates : u[z] \in PageStates /\ Len(u[z].pages) <= Len(z.pages) + 1
  BY WriteNextPageType
<1>2. s \in PageStates /\ Len(s.pages) = 0
  BY DEF PageStates, Pages
<1>3. \A k \in Nat : PagesAfter(fmt, d, k) = x(k)
  BY Zenon DEF PagesAfter
<1> HIDE DEF u, s
<1>4. x(0) = s /\ \A k \in Nat : x(k + 1) = u[x(k)]
  BY ONLY IterateRounds
<1>5. \A k \in Nat : x(k) \in PageStates
  BY ONLY <1>1, <1>2, IterateType
<1> HIDE DEF x
<1>6. 0 \in S
  BY <1>2, <1>4
<1>7. ASSUME NEW k \in Nat, k \in S
      PROVE  k + 1 \in S
  <2> DEFINE a == x(k)
             b == x(k + 1)
  <2>1. a \in PageStates /\ b = u[a] /\ b \in PageStates /\ Len(a.pages) <= k
    BY <1>4, <1>5, <1>7
  <2> HIDE DEF a, b
  <2>2. Len(b.pages) <= Len(a.pages) + 1
    BY <1>1, <2>1
  <2>3. Len(a.pages) \in Nat /\ Len(b.pages) \in Nat
    BY <2>1 DEF PageStates, Pages
  <2>4. Len(b.pages) <= k + 1
    BY ONLY <2>1, <2>2, <2>3, k \in Nat
  <2>5. QED
    BY <2>4 DEF b
<1> HIDE DEF S
<1>8. Nat \subseteq S
  BY <1>6, <1>7, SetInduction
<1>9. \A k \in Nat : Len(x(k).pages) <= k
  BY <1>8 DEF S
<1>10. /\ PagesAfter(fmt, d, 0) = s
       /\ \A k \in Nat : PagesAfter(fmt, d, k) \in PageStates /\ Len(PagesAfter(fmt, d, k).pages) <= k
  BY <1>3, <1>4, <1>5, <1>9
<1>11. ASSUME NEW k \in Nat
       PROVE  PagesAfter(fmt, d, k + 1) = u[PagesAfter(fmt, d, k)]
  <2>1. k + 1 \in Nat
    OBVIOUS
  <2>2. QED
    BY ONLY <1>3, <1>4, <2>1, k \in Nat
<1>12. QED
  BY <1>10, <1>11 DEF u, s

LEMMA PagesContinue ==
  ASSUME NEW fmt \in Formats, NEW c \in Documents, NEW d \in Documents, Continues(c, d)
  PROVE  \A k \in Nat : \/ Behind(fmt, c, PagesAfter(fmt, c, k), PagesAfter(fmt, d, k), k)
                        \/ PagesAfter(fmt, d, k) = PagesAfter(fmt, c, k)
<1> DEFINE x(k) == PagesAfter(fmt, c, k)
           y(k) == PagesAfter(fmt, d, k)
           S == {k \in Nat : Behind(fmt, c, x(k), y(k), k) \/ y(k) = x(k)}
<1>1. /\ x(0) = [next |-> 1, pages |-> <<>>]
      /\ \A k \in Nat : /\ x(k) \in PageStates
                        /\ x(k + 1) = WriteNextPage(fmt, c)[x(k)]
                        /\ Len(x(k).pages) <= k
  BY PageRounds
<1>2. /\ y(0) = [next |-> 1, pages |-> <<>>]
      /\ \A k \in Nat : /\ y(k) \in PageStates
                        /\ y(k + 1) = WriteNextPage(fmt, d)[y(k)]
                        /\ Len(y(k).pages) <= k
  BY PageRounds
<1> HIDE DEF x, y
<1>3. 0 \in S
  BY <1>1, <1>2
<1>4. ASSUME NEW k \in Nat, k \in S
      PROVE  k + 1 \in S
  <2> DEFINE a == x(k)
             b == y(k)
             e == x(k + 1)
             f == y(k + 1)
  <2>1. /\ a \in PageStates /\ b \in PageStates /\ f \in PageStates
        /\ e = WriteNextPage(fmt, c)[a] /\ f = WriteNextPage(fmt, d)[b]
        /\ Len(a.pages) <= k
    BY <1>1, <1>2
  <2>2. Behind(fmt, c, a, b, k) \/ b = a
    BY <1>4
  <2> HIDE DEF a, b, e, f
  <2>3. CASE Behind(fmt, c, a, b, k)
    <3>1. e = a
      BY ONLY <2>1, <2>3, WriteNextPageIs DEF Behind
    <3>2. Continues(b.pages, f.pages)
      BY <2>1, WriteNextPageType
    <3>3. a.pages \in Seq(Page) /\ b.pages \in Seq(Page) /\ f.pages \in Seq(Page)
          /\ Len(a.pages) \in Nat
      BY <2>1 DEF PageStates, Pages, Page
    <3>4. Partly(a.pages, b.pages) /\ PageDone(fmt, c, a) /\ (a.next = Short \/ Len(a.pages) < k)
      BY <2>3 DEF Behind
    <3>5. Partly(a.pages, f.pages)
      BY ONLY <3>2, <3>3, <3>4, PartlyMore
    <3>6. a.next = Short \/ Len(a.pages) < k + 1
      BY <3>3, <3>4
    <3>7. Behind(fmt, c, e, f, k + 1)
      BY ONLY <3>1, <3>4, <3>5, <3>6 DEF Behind
    <3>8. QED
      BY <3>7 DEF e, f
  <2>4. CASE b = a
    <3>1. Behind(fmt, c, e, f, k + 1) \/ f = e
      BY <2>1, <2>4, PageContinues
    <3>2. QED
      BY <3>1 DEF e, f
  <2>5. QED
    BY <2>2, <2>3, <2>4
<1> HIDE DEF S
<1>5. Nat \subseteq S
  BY <1>3, <1>4, SetInduction
<1>6. QED
  BY <1>5 DEF S, x, y

LEMMA PagesGrow ==
  ASSUME NEW fmt \in Formats, NEW d \in Documents, NEW k \in Nat
  PROVE  \A m \in Nat : Continues(PagesAfter(fmt, d, k).pages, PagesAfter(fmt, d, k + m).pages)
<1> DEFINE y(m) == PagesAfter(fmt, d, m)
           S == {m \in Nat : Continues(y(k).pages, y(k + m).pages)}
<1>1. \A m \in Nat : y(m) \in PageStates /\ y(m + 1) = WriteNextPage(fmt, d)[y(m)]
  BY PageRounds
<1> HIDE DEF y
<1>2. \A x \in PageStates : x.pages \in Seq(Page)
  BY DEF PageStates, Pages, Page
<1>3. 0 \in S
  <2>1. y(k).pages \in Seq(Page) /\ k + 0 = k
    BY <1>1, <1>2
  <2>2. Continues(y(k).pages, y(k).pages)
    BY <2>1, ContinuesSelf
  <2>3. QED
    BY <2>1, <2>2
<1>4. ASSUME NEW m \in Nat, m \in S
      PROVE  m + 1 \in S
  <2> DEFINE a == y(k)
             b == y(k + m)
             e == y((k + m) + 1)
  <2>1. k + m \in Nat /\ (k + m) + 1 \in Nat /\ k + (m + 1) = (k + m) + 1
    OBVIOUS
  <2>2. a \in PageStates /\ b \in PageStates /\ e \in PageStates /\ e = WriteNextPage(fmt, d)[b]
    BY <1>1, <2>1
  <2>3. Continues(a.pages, b.pages)
    BY <1>4
  <2> HIDE DEF a, b, e
  <2>4. Continues(b.pages, e.pages)
    BY <2>2, WriteNextPageType
  <2>5. a.pages \in Seq(Page) /\ b.pages \in Seq(Page) /\ e.pages \in Seq(Page)
    BY <1>2, <2>2
  <2>6. Continues(a.pages, e.pages)
    BY ONLY <2>3, <2>4, <2>5, ContinuesTransitive
  <2>7. QED
    BY <2>1, <2>6 DEF a, e
<1> HIDE DEF S
<1>5. Nat \subseteq S
  BY <1>3, <1>4, SetInduction
<1>6. QED
  BY <1>5 DEF S, y

\* What is decoded of a document, and of one that goes on from it.
LEMMA DecodedPartly ==
  ASSUME NEW fmt \in Formats, NEW c \in Documents, NEW d \in Documents, Continues(c, d)
  PROVE  /\ Partly(WrittenPages(fmt, c), WrittenPages(fmt, d))
         /\ WrittenPages(fmt, c) \in Seq(Page) /\ WrittenPages(fmt, d) \in Seq(Page)
<1> DEFINE k == Len(c)
           m == Len(d) - Len(c)
           x == PagesAfter(fmt, c, k)
           y == PagesAfter(fmt, d, k)
           z == PagesAfter(fmt, d, k + m)
<1>1. k \in Nat /\ m \in Nat /\ k + m \in Nat /\ k + m = Len(d)
  BY DEF Documents, Continues
<1>2. WrittenPages(fmt, c) = x.pages
  BY Zenon DEF WrittenPages, PagesAfter
<1>3. WrittenPages(fmt, d) = z.pages
  <2>1. WrittenPages(fmt, d) = PagesAfter(fmt, d, Len(d)).pages
    BY Zenon DEF WrittenPages, PagesAfter
  <2>2. QED
    BY <1>1, <2>1
<1> HIDE DEF k, m
<1>4. x \in PageStates /\ y \in PageStates /\ z \in PageStates
  BY <1>1, PageRounds
<1>5. x.pages \in Seq(Page) /\ y.pages \in Seq(Page) /\ z.pages \in Seq(Page)
  <2> HIDE DEF x, y, z
  <2>1. QED
    BY <1>4 DEF PageStates, Pages, Page
<1>6. Partly(x.pages, y.pages)
  <2>1. Behind(fmt, c, x, y, k) \/ y = x
    BY <1>1, PagesContinue
  <2>2. CASE Behind(fmt, c, x, y, k)
    BY <2>2 DEF Behind
  <2>3. CASE y = x
    <3>1. Partly(x.pages, x.pages)
      BY <1>5, PartlySelf
    <3>2. QED
      BY <2>3, <3>1
  <2>4. QED
    BY <2>1, <2>2, <2>3
<1>7. Continues(y.pages, z.pages)
  BY <1>1, PagesGrow
<1>8. Partly(x.pages, z.pages)
  <2> HIDE DEF x, y, z
  <2>1. QED
    BY ONLY <1>5, <1>6, <1>7, PartlyMore
<1>9. QED
  BY <1>2, <1>3, <1>5, <1>8

LEMMA DocumentCut ==
  ASSUME NEW d \in Documents, NEW n \in 0..Len(d)
  PROVE  SubSeq(d, 1, n) \in Documents /\ Continues(SubSeq(d, 1, n), d)
BY DEF Documents, Continues

(***************************************************************************)
(* The pages that are decoded are the pages written, at their full height. *)
(***************************************************************************)
FullPage(page) ==
  [header |-> page.header,
   rows |-> IF page.header.width = 0 \/ page.header.height = 0 THEN <<>>
            ELSE Padded(page.rows, page.header.height)]

FullPages(s) == [k \in 1..Len(s) |-> FullPage(s[k])]

FullState(s) == [next |-> s.next, pages |-> FullPages(s.pages)]

LEMMA FullPageType ==
  ASSUME NEW page \in Page
  PROVE  FullPage(page) \in Page
<1>1. page.header \in PageHeaders /\ page.header.height \in Nat /\ page.rows \in Seq(Seq(Colored))
  BY DEF Page, PageHeaders, Rows
<1> DEFINE n == page.header.height
           rows == page.rows
<1>2. \A k \in 1..n : (IF k <= Len(rows) THEN rows[k] ELSE Blank) \in Seq(Colored)
  <2>1. Blank \in Seq(Colored)
    BY DEF Blank
  <2>2. ASSUME NEW k \in 1..n, k <= Len(rows)
        PROVE  rows[k] \in Seq(Colored)
    BY <1>1, <2>2
  <2>3. QED
    BY <2>1, <2>2
<1>3. Padded(rows, n) \in Seq(Seq(Colored))
  BY <1>1, <1>2 DEF Padded
<1>4. <<>> \in Seq(Seq(Colored))
  OBVIOUS
<1> HIDE DEF n, rows
<1>5. FullPage(page) = [header |-> page.header,
                        rows |-> IF page.header.width = 0 \/ page.header.height = 0 THEN <<>>
                                 ELSE Padded(rows, n)]
  BY Zenon DEF FullPage, n, rows
<1>6. QED
  BY <1>1, <1>3, <1>4, <1>5 DEF Page, Rows

LEMMA FullPagesType ==
  ASSUME NEW s \in Seq(Page)
  PROVE  /\ FullPages(s) \in Seq(Page) /\ Len(FullPages(s)) = Len(s)
         /\ \A k \in 1..Len(s) : FullPages(s)[k] = FullPage(s[k])
<1>1. \A k \in 1..Len(s) : FullPage(s[k]) \in Page
  <2>1. \A k \in 1..Len(s) : s[k] \in Page
    OBVIOUS
  <2>2. QED
    BY <2>1, FullPageType
<1>2. QED
  BY <1>1 DEF FullPages

LEMMA FullPagesAppend ==
  ASSUME NEW s \in Seq(Page), NEW page \in Page
  PROVE  FullPages(Append(s, page)) = Append(FullPages(s), FullPage(page))
<1> DEFINE a == Append(s, page)
           b == Append(FullPages(s), FullPage(page))
<1>1. /\ a \in Seq(Page) /\ Len(a) = Len(s) + 1 /\ Len(s) \in Nat
      /\ a[Len(s) + 1] = page /\ \A k \in 1..Len(s) : a[k] = s[k]
  OBVIOUS
<1>2. /\ b \in Seq(Page) /\ Len(b) = Len(s) + 1 /\ b[Len(s) + 1] = FullPage(page)
      /\ \A k \in 1..Len(s) : b[k] = FullPage(s[k])
  BY FullPagesType, FullPageType
<1> HIDE DEF a, b
<1>3. FullPages(a) \in Seq(Page) /\ Len(FullPages(a)) = Len(b)
      /\ \A k \in 1..Len(a) : FullPages(a)[k] = FullPage(a[k])
  BY <1>1, <1>2, FullPagesType
<1>4. ASSUME NEW k \in 1..Len(b)
      PROVE  FullPages(a)[k] = b[k]
  <2>1. CASE k = Len(s) + 1
    BY <1>1, <1>2, <1>3, <2>1
  <2>2. CASE k \in 1..Len(s)
    BY <1>1, <1>2, <1>3, <2>2
  <2>3. QED
    BY <1>1, <1>2, <2>1, <2>2
<1>5. FullPages(a) = b
  BY <1>2, <1>3, <1>4
<1>6. QED
  BY <1>5 DEF a, b

LEMMA DecodePageIs ==
  ASSUME NEW fmt, NEW d, NEW p, NEW h
  PROVE  /\ DecodePage(fmt, d, p, h).next = WritePage(fmt, d, p, h).next
         /\ [header |-> h, rows |-> DecodePage(fmt, d, p, h).rows] =
              FullPage([header |-> h, rows |-> WritePage(fmt, d, p, h).rows])
<1> DEFINE w == WritePage(fmt, d, p, h)
           x == DecodePage(fmt, d, p, h)
<1>1. CASE h.width = 0 \/ h.height = 0
  <2>1. w = [next |-> Short, rows |-> <<>>] /\ x = [next |-> Short, rows |-> <<>>]
    BY <1>1, Zenon DEF WritePage, DecodePage
  <2> HIDE DEF w, x
  <2>2. FullPage([header |-> h, rows |-> w.rows]) = [header |-> h, rows |-> <<>>]
    BY <1>1 DEF FullPage
  <2>3. x.next = w.next /\ [header |-> h, rows |-> x.rows] = [header |-> h, rows |-> <<>>]
    BY <2>1
  <2>4. QED
    BY <2>2, <2>3 DEF w, x
<1>2. CASE ~ (h.width = 0 \/ h.height = 0)
  <2>1. x = [next |-> w.next, rows |-> Padded(w.rows, h.height)]
    BY <1>2, Zenon DEF WritePage, DecodePage
  <2> HIDE DEF w, x
  <2>2. FullPage([header |-> h, rows |-> w.rows]) = [header |-> h, rows |-> Padded(w.rows, h.height)]
    BY <1>2 DEF FullPage
  <2>3. x.next = w.next /\ x.rows = Padded(w.rows, h.height)
    BY <2>1
  <2>4. QED
    BY <2>2, <2>3 DEF w, x
<1>3. QED
  BY <1>1, <1>2

\* A round of the walk finds as much and writes the same pages, made full.
LEMMA NextPageIsFull ==
  ASSUME NEW fmt \in Formats, NEW d \in Documents, NEW s \in PageStates
  PROVE  DecodeNextPage(fmt, d)[FullState(s)] = FullState(WriteNextPage(fmt, d)[s])
<1> DEFINE t == FullState(s)
<1>1. s.next \in Nat /\ s.pages \in Seq(Page)
  BY DEF PageStates, Pages, Page
<1>2. t \in PageStates /\ t.next = s.next /\ t.pages = FullPages(s.pages)
      /\ Len(t.pages) = Len(s.pages)
  <2>1. FullPages(s.pages) \in Seq(Page) /\ Len(FullPages(s.pages)) = Len(s.pages)
    BY <1>1, FullPagesType
  <2>2. t = [next |-> s.next, pages |-> FullPages(s.pages)]
    BY DEF FullState
  <2> HIDE DEF t
  <2>3. QED
    BY <1>1, <2>1, <2>2 DEF PageStates, Pages, Page
<1> HIDE DEF t
<1>3. /\ PageDone(fmt, d, s) => DecodeNextPage(fmt, d)[t] = t
      /\ ~ PageDone(fmt, d, s) =>
           DecodeNextPage(fmt, d)[t] =
             LET h    == HeaderAt(d, t.next)
                 page == DecodePage(fmt, d, t.next + HeaderLen, h)
             IN  [next |-> page.next, pages |-> Append(t.pages, [header |-> h, rows |-> page.rows])]
  <2>1. PageDone(fmt, d, s) <=> t.next = Short \/ ~ MorePages(fmt, d, t.next, Len(t.pages))
    BY <1>2 DEF PageDone
  <2>2. QED
    BY <1>2, <2>1, Zenon DEF DecodeNextPage, PageStates
<1>4. CASE PageDone(fmt, d, s)
  <2>1. WriteNextPage(fmt, d)[s] = s
    BY ONLY <1>4, WriteNextPageIs, s \in PageStates
  <2>2. QED
    BY <1>3, <1>4, <2>1 DEF t
<1>5. CASE ~ PageDone(fmt, d, s)
  <2> DEFINE h == HeaderAt(d, s.next)
             p == s.next + HeaderLen
             x == DecodePage(fmt, d, p, h)
             w == WritePage(fmt, d, p, h)
             new == [header |-> h, rows |-> w.rows]
  <2>1. WriteNextPage(fmt, d)[s] = [next |-> w.next, pages |-> Append(s.pages, new)]
    <3>1. WriteNextPage(fmt, d)[s] = PageAhead(fmt, d, s)
      BY ONLY <1>5, WriteNextPageIs, s \in PageStates
    <3>2. PageAhead(fmt, d, s) = [next |-> w.next, pages |-> Append(s.pages, new)]
      BY Zenon DEF PageAhead
    <3>3. QED
      BY ONLY <3>1, <3>2
  <2>2. new \in Page
    BY <1>5, PageAheadType
  <2>3. DecodeNextPage(fmt, d)[t] =
          [next |-> x.next, pages |-> Append(t.pages, [header |-> h, rows |-> x.rows])]
    BY <1>2, <1>3, <1>5, Zenon
  <2>4. x.next = w.next /\ [header |-> h, rows |-> x.rows] = FullPage(new)
    BY DecodePageIs, Zenon
  <2> HIDE DEF h, p, x, w, new
  <2>5. FullPages(Append(s.pages, new)) = Append(t.pages, FullPage(new))
    BY <1>1, <1>2, <2>2, FullPagesAppend
  <2>6. FullState([next |-> w.next, pages |-> Append(s.pages, new)]) =
          [next |-> w.next, pages |-> FullPages(Append(s.pages, new))]
    BY DEF FullState
  <2>7. DecodeNextPage(fmt, d)[t] = FullState(WriteNextPage(fmt, d)[s])
    BY ONLY <2>1, <2>3, <2>4, <2>5, <2>6
  <2>8. QED
    BY <2>7 DEF t
<1>6. QED
  BY <1>4, <1>5

LEMMA PagesAreFull ==
  ASSUME NEW fmt \in Formats, NEW d \in Documents
  PROVE  DecodeRasterPages(fmt, d) = FullPages(WrittenPages(fmt, d))
<1> DEFINE u == DecodeNextPage(fmt, d)
           v == WriteNextPage(fmt, d)
           s == [next |-> 1, pages |-> <<>>]
           x(k) == Iterate(u, s, k)
           y(k) == Iterate(v, s, k)
           S == {k \in Nat : x(k) = FullState(y(k))}
<1>1. \A k \in Nat : y(k) \in PageStates
  <2>1. \A k \in Nat : y(k) = PagesAfter(fmt, d, k)
    BY Zenon DEF PagesAfter
  <2>2. QED
    BY <2>1, PageRounds
<1>2. \A k \in Nat : u[FullState(y(k))] = FullState(v[y(k)])
  <2> HIDE DEF y
  <2>1. QED
    BY <1>1, NextPageIsFull
<1>3. FullState(s) = s
  <2>1. FullPages(<<>>) = <<>>
    BY DEF FullPages
  <2>2. QED
    BY <2>1 DEF FullState
<1>4. Len(d) \in Nat
  BY DEF Documents
<1>5. DecodeRasterPages(fmt, d) = x(Len(d)).pages /\ WrittenPages(fmt, d) = y(Len(d)).pages
  BY Zenon DEF DecodeRasterPages, WrittenPages
<1> HIDE DEF u, v, s
<1>6. /\ x(0) = s /\ \A k \in Nat : x(k + 1) = u[x(k)]
      /\ y(0) = s /\ \A k \in Nat : y(k + 1) = v[y(k)]
  BY ONLY IterateRounds
<1> HIDE DEF x, y
<1>7. 0 \in S
  BY <1>3, <1>6
<1>8. \A k \in Nat : k \in S => k + 1 \in S
  BY ONLY <1>2, <1>6
<1> HIDE DEF S
<1>9. Nat \subseteq S
  BY <1>7, <1>8, SetInduction
<1>10. x(Len(d)) = FullState(y(Len(d)))
  BY <1>4, <1>9 DEF S
<1>11. QED
  BY <1>5, <1>10 DEF FullState

\* A page of fewer rows, made full, is the other one up to some row.
LEMMA PaddedPart ==
  ASSUME NEW a \in Page, NEW b \in Page, Continues(a.rows, b.rows), a.header = b.header
  PROVE  \E n \in 0..Len(FullPage(b).rows) :
           FullPage(a).rows = Padded(SubSeq(FullPage(b).rows, 1, n), Len(FullPage(b).rows))
<1> DEFINE r == a.rows
           w == b.rows
           m == b.header.height
           f == FullPage(a).rows
           g == FullPage(b).rows
<1>1. /\ r \in Seq(Seq(Colored)) /\ w \in Seq(Seq(Colored)) /\ m \in Nat
      /\ Len(r) \in Nat /\ Len(w) \in Nat
  BY DEF Page, PageHeaders, Rows
<1>2. Len(r) <= Len(w) /\ \A k \in 1..Len(r) : w[k] = r[k]
  BY DEF Continues
<1>3. CASE b.header.width = 0 \/ b.header.height = 0
  <2>1. f = <<>> /\ g = <<>>
    BY <1>3 DEF FullPage
  <2>2. Padded(SubSeq(<<>>, 1, 0), 0) = <<>> /\ Len(<<>>) = 0 /\ 0 \in 0..0
    BY DEF Padded
  <2> HIDE DEF f, g
  <2>3. \E n \in 0..Len(g) : f = Padded(SubSeq(g, 1, n), Len(g))
    BY <2>1, <2>2
  <2>4. QED
    BY <2>3 DEF f, g
<1>4. CASE ~ (b.header.width = 0 \/ b.header.height = 0)
  <2>1. f = Padded(r, m) /\ g = Padded(w, m)
    BY <1>4 DEF FullPage
  <2> DEFINE n == Clamped(Len(r), m)
             cut == SubSeq(g, 1, n)
  <2>2. n \in 0..m /\ n <= Len(r) /\ (n = Len(r) \/ n = m)
    BY <1>1 DEF Clamped
  <2> HIDE DEF r, w, m, f, g, n
  <2>3. g = [k \in 1..m |-> IF k <= Len(w) THEN w[k] ELSE Blank]
    BY <2>1 DEF Padded
  <2>4. /\ Len(g) = m
        /\ \A k \in 1..m : g[k] = IF k <= Len(w) THEN w[k] ELSE Blank
    BY <1>1, <2>3
  <2>5. Len(cut) = n /\ \A k \in 1..n : cut[k] = g[k]
    <3>1. \A k \in 1..m : (IF k <= Len(w) THEN w[k] ELSE Blank) \in Seq(Colored)
      BY <1>1 DEF Blank
    <3>2. g \in Seq(Seq(Colored))
      BY <1>1, <2>3, <3>1
    <3>3. QED
      BY <1>1, <2>2, <2>4, <3>2
  <2> HIDE DEF cut
  <2>6. ASSUME NEW k \in 1..m
        PROVE  (IF k <= Len(cut) THEN cut[k] ELSE Blank) = IF k <= Len(r) THEN r[k] ELSE Blank
    <3>1. CASE k <= n
      <4>1. k \in 1..n /\ k \in 1..Len(r) /\ k <= Len(w) /\ k <= Len(r)
        BY <1>1, <1>2, <2>2, <3>1
      <4>2. cut[k] = w[k] /\ w[k] = r[k]
        BY <1>2, <2>4, <2>5, <4>1
      <4>3. QED
        BY <2>5, <3>1, <4>1, <4>2
    <3>2. CASE ~ (k <= n)
      <4>1. ~ (k <= Len(r))
        BY <1>1, <2>2, <3>2
      <4>2. QED
        BY <2>5, <3>2, <4>1
    <3>3. QED
      BY <3>1, <3>2
  <2>7. Padded(cut, m) = f
    BY <2>1, <2>6 DEF Padded
  <2>8. n \in 0..Len(g) /\ f = Padded(SubSeq(g, 1, n), Len(g))
    BY <2>2, <2>4, <2>7 DEF cut
  <2>9. QED
    BY <2>8 DEF f, g
<1>5. QED
  BY <1>3, <1>4

LEMMA DamageLocal ==
  ASSUME doc \in Documents, format \in Formats
  PROVE  DamageIsLocal
<1> DEFINE whole == DecodeRasterPages(format, doc)
           part(n) == DecodeRasterPages(format, SubSeq(doc, 1, n))
<1>1. ASSUME NEW n \in 0..Len(doc)
      PROVE  /\ Len(part(n)) <= Len(whole)
             /\ \A k \in 1..Len(part(n)) :
                  /\ part(n)[k].header = whole[k].header
                  /\ \E m \in 0..Len(whole[k].rows) :
                       part(n)[k].rows = Padded(SubSeq(whole[k].rows, 1, m), Len(whole[k].rows))
             /\ \A k \in 1..(Len(part(n)) - 1) : part(n)[k] = whole[k]
  <2>1. SubSeq(doc, 1, n) \in Documents /\ Continues(SubSeq(doc, 1, n), doc)
    BY DocumentCut
  <2> DEFINE p == part(n)
             a == WrittenPages(format, SubSeq(doc, 1, n))
             b == WrittenPages(format, doc)
  <2>2. Partly(a, b) /\ a \in Seq(Page) /\ b \in Seq(Page)
    BY <2>1, DecodedPartly
  <2>3. p = FullPages(a) /\ whole = FullPages(b)
    BY <2>1, PagesAreFull
  <2> HIDE DEF p, whole, a, b
  <2>4. /\ Len(p) = Len(a)
        /\ \A k \in 1..Len(a) : p[k] = FullPage(a[k])
        /\ Len(whole) = Len(b)
        /\ \A k \in 1..Len(b) : whole[k] = FullPage(b[k])
    BY <2>2, <2>3, FullPagesType
  <2>5. /\ Len(a) \in Nat /\ Len(b) \in Nat /\ Len(a) <= Len(b)
        /\ \A k \in 1..Len(a) : Continues(a[k].rows, b[k].rows) /\ a[k].header = b[k].header
        /\ \A k \in 1..(Len(a) - 1) : a[k] = b[k]
    BY <2>2 DEF Partly
  <2>6. ASSUME NEW k \in 1..Len(p)
        PROVE  /\ p[k].header = whole[k].header
               /\ \E m \in 0..Len(whole[k].rows) :
                    p[k].rows = Padded(SubSeq(whole[k].rows, 1, m), Len(whole[k].rows))
    <3> DEFINE x == a[k]
               y == b[k]
    <3>1. k \in 1..Len(a) /\ k \in 1..Len(b)
      BY <2>4, <2>5
    <3>2. x \in Page /\ y \in Page /\ Continues(x.rows, y.rows) /\ x.header = y.header
      BY <2>2, <2>5, <3>1
    <3>3. p[k] = FullPage(x) /\ whole[k] = FullPage(y)
      BY <2>4, <3>1
    <3> HIDE DEF x, y
    <3>4. FullPage(x).header = FullPage(y).header
      BY <3>2 DEF FullPage
    <3>5. \E m \in 0..Len(FullPage(y).rows) :
            FullPage(x).rows = Padded(SubSeq(FullPage(y).rows, 1, m), Len(FullPage(y).rows))
      BY ONLY <3>2, PaddedPart
    <3>6. QED
      BY ONLY <3>3, <3>4, <3>5
  <2>7. \A k \in 1..(Len(p) - 1) : p[k] = whole[k]
    <3>1. ASSUME NEW k \in 1..(Len(p) - 1)
          PROVE  p[k] = whole[k]
      <4>1. k \in 1..(Len(a) - 1) /\ k \in 1..Len(a) /\ k \in 1..Len(b)
        BY <2>4, <2>5
      <4>2. QED
        BY ONLY <2>4, <2>5, <4>1
    <3>2. QED
      BY <3>1
  <2>8. QED
    BY <2>4, <2>5, <2>6, <2>7 DEF p
<1>2. QED
  BY <1>1 DEF DamageIsLocal

(***************************************************************************)
(* What a client encodes for raster-decode.ts.  Its document is read up to *)
(* its end: to the header of the last page (AtPage), through the lines of  *)
(* that page (AtLine) and through the row of the line it is encoding      *)
(* (AtRow).                                                                *)
(***************************************************************************)
ColorSize(h) == CeilDiv(h.bitsPerPixel, 8)

AtRow(d, c, h, row) ==
  \E i \in 0..Len(row) :
    RowAfter(d, c + 1, ColorsPerRow(h), ColorSize(h), i) = [next |-> Len(d) + 1, row |-> row]

\* c is where the line begins that the client is encoding, or will.
AtLine(fmt, d, p, h, rows, l) ==
  \E j \in 0..Len(rows), c \in 1..(Len(d) + 1) :
    /\ ReadPage(fmt, d, p, h, j) = [next |-> c, rows |-> rows]
    /\ IF l = NoLine THEN c = Len(d) + 1
       ELSE c <= Len(d) /\ d[c] = l.repeat - 1 /\ AtRow(d, c, h, l.row)

AtHeader(fmt, d, ps, b) ==
  /\ b \in 1..Len(d) /\ b + HeaderLen <= Len(d) + 1
  /\ PagesAfter(fmt, d, Len(ps) - 1) = [next |-> b, pages |-> SubSeq(ps, 1, Len(ps) - 1)]
  /\ HeaderAt(d, b) = Last(ps).header

AtPage(fmt, d, ps, l) ==
  \E b \in 1..Len(d) :
    /\ AtHeader(fmt, d, ps, b)
    /\ AtLine(fmt, d, b + HeaderLen, Last(ps).header, Last(ps).rows, l)

LineStarts == [repeat : 0..256, row : Seq(Colored)]

\* The client's state, whichever encoding it uses.
Encoded(d, ps, l) ==
  /\ d \in Documents /\ ps \in Seq(Page) /\ l \in LineStarts
  /\ Len(ps) <= Len(d) /\ Len(ps) <= MaxPages
  /\ ps = <<>> => d = <<>> /\ l = NoLine
  /\ \A k \in 1..Len(ps) :
       WellFormed(ps[k].header) /\ Len(ps[k].rows) <= ps[k].header.height
  /\ l # NoLine =>
       /\ l.repeat > 0 /\ Len(l.row) < ColorsPerRow(Last(ps).header)
       /\ Len(Last(ps).rows) + l.repeat <= Last(ps).header.height

Client ==
  format \in Formats /\ encoding \in {"decode", "info"} /\ Encoded(doc, pages, line)

DecodedSoFar == encoding = "decode" /\ pages # <<>> => AtPage(format, doc, pages, line)

LEMMA ReadPageIs ==
  ASSUME NEW fmt \in Formats, NEW d \in Documents, NEW p \in Nat,
         NEW h \in PageHeaders, WellFormed(h)
  PROVE  /\ ReadPage(fmt, d, p, h, 0) = [next |-> p, rows |-> <<>>]
         /\ \A k \in Nat :
              ReadPage(fmt, d, p, h, k + 1) =
                DecodeLine(d, h.height, ColorsPerRow(h), ColorSize(h))[ReadPage(fmt, d, p, h, k)]
<1> DEFINE g == DecodeGeometry(fmt, h)
           u == DecodeLine(d, h.height, GroupsPerRow(h, g), g.groupBytes)
           s == [next |-> p, rows |-> <<>>]
<1>1. u = DecodeLine(d, h.height, ColorsPerRow(h), ColorSize(h))
  <2>1. GroupsPerRow(h, g) = ColorsPerRow(h) /\ g.groupBytes = ColorSize(h)
    BY GeometryIs DEF ColorSize
  <2>2. QED
    BY <2>1
<1>2. \A k \in Nat : ReadPage(fmt, d, p, h, k) = Iterate(u, s, k)
  BY Zenon DEF ReadPage, LinesAfter
<1> HIDE DEF u, s
<1>3. Iterate(u, s, 0) = s /\ \A k \in Nat : Iterate(u, s, k + 1) = u[Iterate(u, s, k)]
  BY ONLY IterateRounds
<1>4. ReadPage(fmt, d, p, h, 0) = s
  BY <1>2, <1>3
<1>5. ASSUME NEW k \in Nat
      PROVE  ReadPage(fmt, d, p, h, k + 1) = u[ReadPage(fmt, d, p, h, k)]
  <2>1. k + 1 \in Nat
    OBVIOUS
  <2>2. QED
    BY ONLY <1>2, <1>3, <2>1, k \in Nat
<1>6. QED
  BY <1>1, <1>4, <1>5 DEF s

LEMMA ReadPageRests ==
  ASSUME NEW fmt \in Formats, NEW d \in Documents, NEW p \in Nat,
         NEW h \in PageHeaders, WellFormed(h),
         NEW k \in Nat, k <= h.height, LineDone(h.height, ReadPage(fmt, d, p, h, k))
  PROVE  WritePage(fmt, d, p, h) = ReadPage(fmt, d, p, h, k)
<1> DEFINE g == DecodeGeometry(fmt, h)
           n == GroupsPerRow(h, g)
           z == g.groupBytes
           m == h.height
<1>1. z \in Nat /\ n \in Nat /\ m \in Nat
  BY GeometryIs DEF PageHeaders
<1>2. /\ ReadPage(fmt, d, p, h, k) = LinesAfter(d, p, m, n, z, k)
      /\ ReadPage(fmt, d, p, h, m) = LinesAfter(d, p, m, n, z, m)
  BY Zenon DEF ReadPage
<1>3. WritePage(fmt, d, p, h) = ReadPage(fmt, d, p, h, m)
  BY WritePageIs
<1> HIDE DEF g, n, z
<1>4. LineDone(m, LinesAfter(d, p, m, n, z, k)) /\ k <= m
  BY <1>2
<1> HIDE DEF m
<1>5. LinesAfter(d, p, m, n, z, m) = LinesAfter(d, p, m, n, z, k)
  BY <1>1, <1>4, LinesRest
<1>6. QED
  BY <1>2, <1>3, <1>5

LEMMA ReadPageKept ==
  ASSUME NEW fmt \in Formats, NEW d \in Documents, NEW e \in Documents, Continues(d, e),
         NEW p \in Nat, NEW h \in PageHeaders, WellFormed(h), NEW j \in Nat,
         ReadPage(fmt, d, p, h, j).next # Short
  PROVE  ReadPage(fmt, e, p, h, j) = ReadPage(fmt, d, p, h, j)
BY ReadPageContinues DEF Lost

LEMMA FrontIs ==
  ASSUME NEW T, NEW s \in Seq(T), s # <<>>
  PROVE  /\ Len(s) \in Nat \ {0} /\ Len(s) - 1 \in 0..Len(s)
         /\ SubSeq(s, 1, Len(s) - 1) \in Seq(T)
         /\ Len(SubSeq(s, 1, Len(s) - 1)) = Len(s) - 1
         /\ s[Len(s)] \in T /\ Last(s) = s[Len(s)]
<1>1. Len(s) \in Nat /\ Len(s) # 0
  OBVIOUS
<1> DEFINE m == Len(s) - 1
<1>2. m \in 0..Len(s) /\ m \in Nat /\ Len(s) \in 1..Len(s)
  BY <1>1
<1> HIDE DEF m
<1>3. SubSeq(s, 1, m) \in Seq(T) /\ Len(SubSeq(s, 1, m)) = m
  BY <1>2
<1>4. QED
  BY <1>1, <1>2, <1>3 DEF m, Last

\* A page is read.
LEMMA PageRead ==
  ASSUME NEW fmt \in Formats, NEW d \in Documents, NEW ps \in Seq(Page), ps # <<>>,
         Len(ps) <= MaxPages, NEW b, AtHeader(fmt, d, ps, b),
         NEW x \in Nat, WritePage(fmt, d, b + HeaderLen, Last(ps).header) =
                          [next |-> x, rows |-> Last(ps).rows]
  PROVE  PagesAfter(fmt, d, Len(ps)) = [next |-> x, pages |-> ps]
<1> DEFINE n == Len(ps)
           front == SubSeq(ps, 1, n - 1)
           s == PagesAfter(fmt, d, n - 1)
           h == Last(ps).header
<1>1. /\ n \in Nat /\ n - 1 \in Nat /\ (n - 1) + 1 = n /\ n - 1 < MaxPages /\ MaxPages \in Nat
      /\ Len(front) = n - 1
  <2>1. n \in Nat /\ n # 0
    BY ONLY ps \in Seq(Page), ps # <<>>
  <2>2. n \in Nat /\ n - 1 \in Nat /\ (n - 1) + 1 = n /\ n - 1 < MaxPages /\ MaxPages \in Nat
    BY <2>1, RasterAssumption
  <2>3. Len(front) = n - 1
    BY FrontIs
  <2>4. QED
    BY <2>2, <2>3
<1>2. s = [next |-> b, pages |-> front] /\ b \in 1..Len(d) /\ b + HeaderLen <= Len(d) + 1
      /\ HeaderAt(d, b) = h
  BY Zenon DEF AtHeader
<1>3. Last(ps) \in Page /\ Last(ps) = ps[n]
  BY <1>1 DEF Last
<1>4. [header |-> h, rows |-> Last(ps).rows] = Last(ps)
  BY <1>3 DEF Page
<1>5. Append(front, ps[n]) = ps
  BY <1>1
<1>6. s \in PageStates /\ PagesAfter(fmt, d, n) = WriteNextPage(fmt, d)[s]
  <2>1. /\ PagesAfter(fmt, d, n - 1) \in PageStates
        /\ PagesAfter(fmt, d, (n - 1) + 1) = WriteNextPage(fmt, d)[PagesAfter(fmt, d, n - 1)]
    BY <1>1, PageRounds
  <2>2. QED
    BY <1>1, <2>1
<1> HIDE DEF n, front, s, h
<1>7. ~ PageDone(fmt, d, s)
  <2>1. s.next = b /\ s.pages = front
    BY <1>2
  <2>2. b # 0 /\ Len(s.pages) < MaxPages
    BY <1>1, <1>2, <2>1
  <2>3. QED
    BY <1>2, <2>1, <2>2 DEF PageDone, MorePages, Short
<1>8. PagesAfter(fmt, d, n) = PageAhead(fmt, d, s)
  BY ONLY <1>6, <1>7, WriteNextPageIs
<1>9. PageAhead(fmt, d, s) = [next |-> x, pages |-> Append(front, Last(ps))]
  <2>1. WritePage(fmt, d, b + HeaderLen, h) = [next |-> x, rows |-> Last(ps).rows]
    BY DEF h
  <2>2. s.next = b /\ s.pages = front
    BY <1>2
  <2> DEFINE y == WritePage(fmt, d, s.next + HeaderLen, HeaderAt(d, s.next))
  <2>3. PageAhead(fmt, d, s) =
          [next |-> y.next, pages |-> Append(s.pages, [header |-> HeaderAt(d, s.next), rows |-> y.rows])]
    BY Zenon DEF PageAhead
  <2>4. HeaderAt(d, s.next) = h /\ y = [next |-> x, rows |-> Last(ps).rows]
    BY <1>2, <2>1, <2>2
  <2> HIDE DEF y
  <2>5. QED
    BY ONLY <1>4, <2>2, <2>3, <2>4
<1>10. QED
  BY <1>3, <1>5, <1>8, <1>9 DEF n

\* Pages already read are read alike in a document that goes on.
LEMMA PagesKept ==
  ASSUME NEW fmt \in Formats, NEW d \in Documents, NEW e \in Documents, Continues(d, e),
         NEW k \in Nat, NEW ps \in Seq(Page), Len(ps) = k, NEW b \in Nat \ {0},
         PagesAfter(fmt, d, k) = [next |-> b, pages |-> ps]
  PROVE  PagesAfter(fmt, e, k) = [next |-> b, pages |-> ps]
<1> DEFINE x == PagesAfter(fmt, d, k)
           y == PagesAfter(fmt, e, k)
<1>1. Behind(fmt, d, x, y, k) \/ y = x
  BY PagesContinue
<1>2. x = [next |-> b, pages |-> ps]
  OBVIOUS
<1> HIDE DEF x, y
<1>3. ~ Behind(fmt, d, x, y, k)
  <2>1. x.next = b /\ x.pages = ps
    BY <1>2
  <2>2. ~ (Len(x.pages) < k)
    BY <2>1
  <2>3. QED
    BY <2>1, <2>2 DEF Behind, Short
<1>4. QED
  BY <1>1, <1>2, <1>3 DEF y

\* The header of the last page is still found in a document that goes on.
LEMMA HeaderKept ==
  ASSUME NEW fmt \in Formats, NEW d \in Documents, NEW e \in Documents, Continues(d, e),
         NEW ps \in Seq(Page), ps # <<>>, NEW b, AtHeader(fmt, d, ps, b)
  PROVE  AtHeader(fmt, e, ps, b)
<1> DEFINE k == Len(ps) - 1
           front == SubSeq(ps, 1, k)
<1>1. k \in Nat /\ Len(front) = k /\ front \in Seq(Page)
  <2>1. /\ Len(ps) - 1 \in 0..Len(ps) /\ Len(ps) \in Nat /\ Len(front) = Len(ps) - 1
        /\ front \in Seq(Page)
    BY FrontIs
  <2>2. QED
    BY <2>1
<1>2. /\ b \in 1..Len(d) /\ b + HeaderLen <= Len(d) + 1
      /\ PagesAfter(fmt, d, k) = [next |-> b, pages |-> front] /\ HeaderAt(d, b) = Last(ps).header
  BY Zenon DEF AtHeader
<1>3. Len(d) \in Nat /\ Len(e) \in Nat /\ Len(d) <= Len(e) /\ e[b] = d[b] /\ b \in Nat \ {0}
  BY <1>2 DEF Continues, Documents
<1> HIDE DEF k, front
<1>4. PagesAfter(fmt, e, k) = [next |-> b, pages |-> front]
  BY <1>1, <1>2, <1>3, PagesKept
<1>5. HeaderAt(e, b) = Last(ps).header
  BY <1>2, <1>3 DEF HeaderAt
<1>6. b \in 1..Len(e) /\ b + HeaderLen <= Len(e) + 1
  BY <1>2, <1>3, RasterAssumption
<1>7. QED
  BY <1>4, <1>5, <1>6 DEF AtHeader, front, k

\* A page between two lines: if it is whole the next page follows, or else the
\* data runs out.
LEMMA ReadBetweenLines ==
  ASSUME NEW fmt \in Formats, NEW d \in Documents, NEW p \in Nat,
         NEW h \in PageHeaders, WellFormed(h), NEW rows \in Rows, Len(rows) <= h.height,
         AtLine(fmt, d, p, h, rows, NoLine)
  PROVE  /\ ~ (Len(rows) < h.height) =>
              WritePage(fmt, d, p, h) = [next |-> Len(d) + 1, rows |-> rows]
         /\ Len(rows) < h.height =>
              WritePage(fmt, d, p, h) = [next |-> Short, rows |-> rows]
<1> DEFINE m == h.height
<1>1. PICK j \in 0..Len(rows) :
        ReadPage(fmt, d, p, h, j) = [next |-> Len(d) + 1, rows |-> rows]
  BY DEF AtLine
<1>2. Len(rows) \in Nat /\ m \in Nat /\ j \in Nat /\ j <= m /\ Len(d) \in Nat
  BY DEF Rows, PageHeaders, Documents
<1> DEFINE s == ReadPage(fmt, d, p, h, j)
<1>3. s \in LineStates
  BY <1>2, ReadPageType
<1>4. ASSUME ~ (Len(rows) < m)
      PROVE  WritePage(fmt, d, p, h) = [next |-> Len(d) + 1, rows |-> rows]
  <2>1. LineDone(m, s)
    BY <1>1, <1>2, <1>4 DEF LineDone
  <2>2. WritePage(fmt, d, p, h) = s
    BY <1>2, <2>1, ReadPageRests
  <2>3. QED
    BY <1>1, <2>2
<1>5. ASSUME Len(rows) < m
      PROVE  WritePage(fmt, d, p, h) = [next |-> Short, rows |-> rows]
  <2> DEFINE r == ReadPage(fmt, d, p, h, j + 1)
  <2>1. r = DecodeLine(d, m, ColorsPerRow(h), ColorSize(h))[s]
    BY <1>2, ReadPageIs
  <2>2. ~ LineDone(m, s) /\ BeyondEnd(d, s) /\ OutOfData(s) = [next |-> Short, rows |-> rows]
    BY <1>1, <1>2, <1>5 DEF LineDone, BeyondEnd, OutOfData, Short
  <2>3. r = [next |-> Short, rows |-> rows]
    <3> HIDE DEF r, s, m
    <3>1. QED
      BY ONLY <1>3, <2>1, <2>2, DecodeLineIs
  <2>4. LineDone(m, r) /\ j + 1 \in Nat /\ j + 1 <= m
    BY <1>2, <1>5, <2>3 DEF LineDone
  <2>5. WritePage(fmt, d, p, h) = r
    BY <2>4, ReadPageRests
  <2>6. QED
    BY <2>3, <2>5
<1>6. QED
  BY <1>4, <1>5

\* A page in the middle of a line: the data runs out, and the row is lost.
LEMMA ReadWithinLine ==
  ASSUME NEW fmt \in Formats, NEW d \in Documents, NEW p \in Nat,
         NEW h \in PageHeaders, WellFormed(h), NEW rows \in Rows, Len(rows) < h.height,
         NEW l \in LineStarts, l # NoLine,
         Len(l.row) < ColorsPerRow(h), AtLine(fmt, d, p, h, rows, l)
  PROVE  WritePage(fmt, d, p, h) = [next |-> Short, rows |-> rows]
<1> DEFINE m == h.height
           n == ColorsPerRow(h)
           z == ColorSize(h)
<1>1. PICK j \in 0..Len(rows), c \in 1..(Len(d) + 1) :
        /\ ReadPage(fmt, d, p, h, j) = [next |-> c, rows |-> rows]
        /\ c <= Len(d) /\ AtRow(d, c, h, l.row)
  BY DEF AtLine
<1>2. PICK i \in 0..Len(l.row) :
        RowAfter(d, c + 1, n, z, i) = [next |-> Len(d) + 1, row |-> l.row]
  BY <1>1 DEF AtRow
<1>3. /\ Len(rows) \in Nat /\ m \in Nat /\ j \in Nat /\ j + 1 <= m /\ Len(d) \in Nat
      /\ c \in 1..Len(d) /\ c + 1 \in Nat /\ l.row \in Seq(Colored) /\ Len(l.row) \in Nat /\ i \in Nat
  BY <1>1 DEF Rows, PageHeaders, Documents, LineStarts
<1>4. n \in Nat /\ z \in Nat
  BY GeometryIs DEF ColorSize
<1> DEFINE s == ReadPage(fmt, d, p, h, j)
           r == ReadPage(fmt, d, p, h, j + 1)
           x == RowAfter(d, c + 1, n, z, i)
           y == RowAfter(d, c + 1, n, z, i + 1)
<1>5. s \in LineStates
  BY <1>3, ReadPageType
<1>6. x \in RowStates
  BY <1>3, <1>4, RowAfterType
<1>7. ~ RowDone(n, x) /\ BeyondEnd(d, x) /\ OutOfData(x) = [next |-> Short, row |-> l.row]
  BY <1>2, <1>3, <1>4 DEF RowDone, BeyondEnd, OutOfData, Short
<1>8. y = DecodeRun(d, n, z)[x]
  <2>1. i \in Nat /\ c + 1 \in Nat
    BY <1>3
  <2> HIDE DEF n, z
  <2> DEFINE p1 == c + 1
  <2>2. p1 \in Nat
    BY <2>1
  <2> HIDE DEF p1
  <2>3. RowAfter(d, p1, n, z, i + 1) = DecodeRun(d, n, z)[RowAfter(d, p1, n, z, i)]
    BY ONLY <1>4, <2>1, <2>2, d \in Documents, RowRound
  <2>4. QED
    BY <2>3 DEF p1
<1>9. y = [next |-> Short, row |-> l.row]
  <2> HIDE DEF x, y, n, z
  <2>1. QED
    BY ONLY <1>6, <1>7, <1>8, DecodeRunIs
<1>10. RowDone(n, y) /\ i + 1 \in Nat /\ i + 1 <= n
  BY <1>3, <1>4, <1>9 DEF RowDone
<1>11. DecodeRow(d, c + 1, n, z).next = Short
  <2>1. DecodeRow(d, c + 1, n, z) = y
    BY <1>3, <1>4, <1>10, RowRests
  <2>2. QED
    BY <1>9, <2>1
<1>12. ~ LineDone(m, s) /\ ~ BeyondEnd(d, s) /\ s.next = c /\ s.rows = rows
  BY <1>1, <1>3 DEF LineDone, BeyondEnd, Short
<1>13. r = DecodeLine(d, m, n, z)[s]
  <2>1. j \in Nat
    BY <1>3
  <2>2. QED
    BY ONLY <2>1, fmt \in Formats, d \in Documents, p \in Nat, h \in PageHeaders, WellFormed(h),
            ReadPageIs
<1> HIDE DEF s, r, m, n, z
<1>14. r = LineAhead(d, m, n, z, s)
  BY ONLY <1>5, <1>12, <1>13, DecodeLineIs
<1>15. r = [next |-> Short, rows |-> rows]
  BY <1>11, <1>12, <1>14 DEF LineAhead
<1>16. LineDone(m, r) /\ j + 1 \in Nat /\ j + 1 <= m
  BY <1>3, <1>15 DEF LineDone
<1>17. WritePage(fmt, d, p, h) = r
  BY <1>16, ReadPageRests DEF r, m
<1>18. QED
  BY <1>15, <1>17

LEMMA LastPageFacts ==
  ASSUME NEW d, NEW ps, NEW l, Encoded(d, ps, l), ps # <<>>
  PROVE  /\ d \in Documents /\ ps \in Seq(Page) /\ l \in LineStarts /\ Len(ps) \in Nat \ {0}
         /\ Len(d) \in Nat /\ Len(ps) <= Len(d) /\ Len(ps) <= MaxPages
         /\ Last(ps) = ps[Len(ps)] /\ Last(ps).header \in PageHeaders /\ Last(ps).rows \in Rows
         /\ WellFormed(Last(ps).header) /\ Len(Last(ps).rows) <= Last(ps).header.height
         /\ Last(ps).header.height \in Nat /\ Len(Last(ps).rows) \in Nat
<1>1. /\ d \in Documents /\ ps \in Seq(Page) /\ l \in LineStarts
      /\ Len(ps) <= Len(d) /\ Len(ps) <= MaxPages
      /\ \A k \in 1..Len(ps) :
           WellFormed(ps[k].header) /\ Len(ps[k].rows) <= ps[k].header.height
  BY DEF Encoded
<1>2. Len(ps) \in Nat \ {0} /\ Last(ps) = ps[Len(ps)] /\ Last(ps) \in Page
  BY <1>1, FrontIs
<1>3. Len(ps) \in 1..Len(ps)
  BY <1>2
<1>4. WellFormed(Last(ps).header) /\ Len(Last(ps).rows) <= Last(ps).header.height
  BY <1>1, <1>2, <1>3
<1>5. /\ Last(ps).header \in PageHeaders /\ Last(ps).rows \in Rows
      /\ Last(ps).header.height \in Nat /\ Len(Last(ps).rows) \in Nat
  BY <1>2 DEF Page, PageHeaders, Rows
<1>6. Len(d) \in Nat
  BY <1>1 DEF Documents
<1>7. QED
  BY <1>1, <1>2, <1>4, <1>5, <1>6

\* All pages are read, and the last one ends where the document does.
LEMMA LastPageEnds ==
  ASSUME NEW fmt \in Formats, NEW d, NEW ps, NEW l, Encoded(d, ps, l), ps # <<>>,
         AtPage(fmt, d, ps, l)
  PROVE  \E x \in {Short, Len(d) + 1} :
           /\ PagesAfter(fmt, d, Len(ps)) = [next |-> x, pages |-> ps]
           /\ l = NoLine /\ ~ (Len(Last(ps).rows) < Last(ps).header.height) => x = Len(d) + 1
<1> DEFINE h == Last(ps).header
           rows == Last(ps).rows
<1>1. /\ d \in Documents /\ ps \in Seq(Page) /\ l \in LineStarts /\ Len(ps) \in Nat \ {0}
      /\ Len(d) \in Nat /\ Len(ps) <= MaxPages /\ h \in PageHeaders /\ rows \in Rows
      /\ WellFormed(h) /\ Len(rows) <= h.height /\ h.height \in Nat /\ Len(rows) \in Nat
  BY LastPageFacts
<1>2. l # NoLine => /\ Len(l.row) < ColorsPerRow(h) /\ l.repeat > 0
                    /\ Len(rows) + l.repeat <= h.height
  BY DEF Encoded
<1>3. PICK b \in 1..Len(d) : AtHeader(fmt, d, ps, b) /\ AtLine(fmt, d, b + HeaderLen, h, rows, l)
  BY DEF AtPage
<1> DEFINE p == b + HeaderLen
           ends(x) == WritePage(fmt, d, p, h) = [next |-> x, rows |-> rows]
<1>4. p \in Nat
  BY <1>1, RasterAssumption
<1>5. ASSUME NEW x \in Nat, ends(x)
      PROVE  PagesAfter(fmt, d, Len(ps)) = [next |-> x, pages |-> ps]
  BY <1>1, <1>3, <1>5, PageRead
<1>6. Len(d) + 1 \in Nat /\ Short \in Nat
  BY <1>1 DEF Short
<1> HIDE DEF h, rows, p
<1>7. CASE l = NoLine
  <2>1. ~ (Len(rows) < h.height) => ends(Len(d) + 1)
    BY <1>1, <1>3, <1>4, <1>7, ReadBetweenLines DEF p
  <2>2. Len(rows) < h.height => ends(Short)
    BY <1>1, <1>3, <1>4, <1>7, ReadBetweenLines DEF p
  <2> HIDE DEF ends
  <2>3. QED
    BY <1>5, <1>6, <1>7, <2>1, <2>2 DEF h, rows
<1>8. CASE l # NoLine
  <2>0. l.repeat \in 0..256
    BY <1>1 DEF LineStarts
  <2>1. l.repeat > 0 /\ Len(rows) + l.repeat <= h.height
    BY <1>2, <1>8, Zenon
  <2>2. Len(rows) < h.height
    <3> DEFINE n == l.repeat
               k == Len(rows)
               m == h.height
    <3>1. n \in 0..256 /\ k \in Nat /\ m \in Nat /\ n > 0 /\ k + n <= m
      BY <1>1, <2>0, <2>1, Zenon
    <3> HIDE DEF n, k, m
    <3>2. k < m
      BY ONLY <3>1
    <3>3. QED
      BY <3>2 DEF k, m
  <2>3. ends(Short)
    BY <1>1, <1>2, <1>3, <1>4, <1>8, <2>2, ReadWithinLine DEF p
  <2> HIDE DEF ends
  <2>4. QED
    BY <1>5, <1>6, <1>8, <2>3
<1>9. QED
  BY <1>7, <1>8

\* So what is decoded is what has been encoded.
LEMMA DecodedIsEncoded ==
  ASSUME NEW fmt \in Formats, NEW d, NEW ps, NEW l, Encoded(d, ps, l),
         ps # <<>> => AtPage(fmt, d, ps, l)
  PROVE  WrittenPages(fmt, d) = ps
<1>1. /\ d \in Documents /\ ps \in Seq(Page) /\ Len(d) \in Nat /\ Len(ps) \in Nat
      /\ Len(ps) <= Len(d)
  BY DEF Encoded, Documents
<1>2. \E x \in {Short, Len(d) + 1} : PagesAfter(fmt, d, Len(ps)) = [next |-> x, pages |-> ps]
  <2>1. CASE ps = <<>>
    <3>1. d = <<>> /\ Len(ps) = 0 /\ Len(d) + 1 = 1
      BY <2>1 DEF Encoded
    <3>2. PagesAfter(fmt, d, 0) = [next |-> 1, pages |-> <<>>]
      BY <1>1, PageRounds
    <3>3. QED
      BY <2>1, <3>1, <3>2
  <2>2. CASE ps # <<>>
    BY <2>2, LastPageEnds
  <2>3. QED
    BY <2>1, <2>2
<1>3. PICK x \in {Short, Len(d) + 1} : PagesAfter(fmt, d, Len(ps)) = [next |-> x, pages |-> ps]
  BY <1>2
<1> DEFINE step == WriteNextPage(fmt, d)
           s == [next |-> 1, pages |-> <<>>]
           y == PagesAfter(fmt, d, Len(ps))
<1>4. y \in PageStates
  BY <1>1, PageRounds
<1>5. PageDone(fmt, d, y)
  <2>1. y.next = x
    BY <1>3
  <2>2. x # Short => ~ (x + HeaderLen <= Len(d) + 1)
    BY <1>1, RasterAssumption
  <2>3. QED
    BY <2>1, <2>2 DEF PageDone, MorePages
<1>6. step[y] = y
  BY ONLY <1>4, <1>5, WriteNextPageIs
<1>7. y = Iterate(step, s, Len(ps)) /\ WrittenPages(fmt, d) = Iterate(step, s, Len(d)).pages
  BY Zenon DEF PagesAfter, WrittenPages
<1> HIDE DEF step, s, y
<1>8. Iterate(step, s, Len(d)) = Iterate(step, s, Len(ps))
  BY ONLY <1>1, <1>6, <1>7, IterateRests
<1>9. QED
  BY <1>3, <1>7, <1>8 DEF y

\* A page is started.
HeaderBytes(k) == [n \in 1..HeaderLen |-> IF n = 1 THEN 255 + k ELSE 0]

StartedPage(k) == [header |-> Headers[k], rows |-> <<>>]

LEMMA HeaderAdded ==
  ASSUME NEW d \in Documents, NEW k \in DOMAIN Headers
  PROVE  /\ d \o HeaderBytes(k) \in Documents /\ Continues(d, d \o HeaderBytes(k))
         /\ Len(d \o HeaderBytes(k)) = Len(d) + HeaderLen
         /\ HeaderAt(d \o HeaderBytes(k), Len(d) + 1) = Headers[k]
         /\ StartedPage(k) \in Page /\ WellFormed(Headers[k])
<1> DEFINE T == 0..(255 + Len(Headers))
           hb == HeaderBytes(k)
           e == d \o hb
<1>1. Headers \in Seq(PageHeaders) /\ HeaderLen \in Nat \ {0} /\ WellFormed(Headers[k])
  BY RasterAssumption
<1>2. k \in 1..Len(Headers) /\ Len(Headers) \in Nat /\ Headers[k] \in PageHeaders
  BY <1>1
<1>3. hb \in Seq(T) /\ Len(hb) = HeaderLen /\ hb[1] = 255 + k
  <2>1. \A n \in 1..HeaderLen : (IF n = 1 THEN 255 + k ELSE 0) \in T
    BY <1>2
  <2>2. 1 \in 1..HeaderLen
    BY <1>1
  <2>3. hb \in [1..HeaderLen -> T]
    BY <2>1 DEF HeaderBytes
  <2>4. hb \in Seq(T) /\ Len(hb) = HeaderLen
    BY <1>1, <2>3
  <2>5. hb[1] = 255 + k
    BY <2>2 DEF HeaderBytes
  <2>6. QED
    BY <2>4, <2>5
<1>4. d \in Seq(T)
  BY DEF Documents
<1> HIDE DEF hb, T
<1>5. /\ e \in Seq(T) /\ Len(e) = Len(d) + HeaderLen /\ Continues(d, e)
      /\ e[Len(d) + 1] = 255 + k
  <2>1. e \in Seq(T) /\ Len(e) = Len(d) + HeaderLen
    BY <1>1, <1>3, <1>4
  <2>2. Continues(d, e)
    BY <1>3, <1>4, ContinuesConcat
  <2>3. e[Len(d) + 1] = hb[1]
    BY <1>1, <1>3, <1>4
  <2>4. QED
    BY <1>3, <2>1, <2>2, <2>3
<1> HIDE DEF e
<1>6. HeaderAt(e, Len(d) + 1) = Headers[k]
  <2>1. 255 + k > 255 /\ (255 + k) - 255 = k
    BY <1>2
  <2>2. QED
    BY <1>5, <2>1 DEF HeaderAt
<1>7. StartedPage(k) \in Page
  BY <1>2 DEF StartedPage, Page, Rows
<1>8. QED
  BY <1>1, <1>5, <1>6, <1>7 DEF e, hb, T, Documents

LEMMA AppendFront ==
  ASSUME NEW T, NEW s \in Seq(T), NEW x \in T
  PROVE  /\ Append(s, x) \in Seq(T) /\ Append(s, x) # <<>> /\ Len(Append(s, x)) = Len(s) + 1
         /\ Len(Append(s, x)) - 1 = Len(s)
         /\ Last(Append(s, x)) = x
         /\ SubSeq(Append(s, x), 1, Len(s)) = s
BY DEF Last

LEMMA PageStarted ==
  ASSUME NEW fmt \in Formats, NEW d, NEW ps, Encoded(d, ps, NoLine),
         ps # <<>> => AtPage(fmt, d, ps, NoLine) /\ ~ (Len(Last(ps).rows) < Last(ps).header.height),
         NEW k \in DOMAIN Headers
  PROVE  AtPage(fmt, d \o HeaderBytes(k), Append(ps, StartedPage(k)), NoLine)
<1> DEFINE e == d \o HeaderBytes(k)
           new == StartedPage(k)
           qs == Append(ps, new)
           b == Len(d) + 1
<1>1. d \in Documents /\ ps \in Seq(Page) /\ Len(d) \in Nat /\ Len(ps) \in Nat
  BY DEF Encoded, Documents
<1>2. /\ e \in Documents /\ Continues(d, e) /\ Len(e) = Len(d) + HeaderLen
      /\ HeaderAt(e, b) = Headers[k] /\ new \in Page /\ WellFormed(Headers[k])
  BY <1>1, HeaderAdded
<1>3. HeaderLen \in Nat \ {0} /\ Headers[k] \in PageHeaders
  BY RasterAssumption
<1>4. PagesAfter(fmt, d, Len(ps)) = [next |-> b, pages |-> ps]
  <2>1. CASE ps = <<>>
    <3>1. d = <<>> /\ Len(ps) = 0 /\ b = 1
      BY <2>1 DEF Encoded
    <3>2. PagesAfter(fmt, d, 0) = [next |-> 1, pages |-> <<>>]
      BY <1>1, PageRounds
    <3>3. QED
      BY <2>1, <3>1, <3>2
  <2>2. CASE ps # <<>>
    <3>1. PICK x \in {Short, Len(d) + 1} :
            /\ PagesAfter(fmt, d, Len(ps)) = [next |-> x, pages |-> ps]
            /\ ~ (Len(Last(ps).rows) < Last(ps).header.height) => x = Len(d) + 1
      BY <2>2, LastPageEnds
    <3>2. QED
      BY <2>2, <3>1
  <2>3. QED
    BY <2>1, <2>2
<1>5. qs # <<>> /\ Last(qs) = new /\ SubSeq(qs, 1, Len(qs) - 1) = ps /\ Len(qs) - 1 = Len(ps)
  <2> HIDE DEF new
  <2>1. QED
    BY <1>1, <1>2, AppendFront
<1>6. new.header = Headers[k] /\ new.rows = <<>>
  BY DEF StartedPage
<1>7. b \in Nat \ {0} /\ b \in 1..Len(e) /\ b + HeaderLen = Len(e) + 1
  BY <1>1, <1>2, <1>3
<1> HIDE DEF e, new, qs, b
<1>8. PagesAfter(fmt, e, Len(ps)) = [next |-> b, pages |-> ps]
  BY <1>1, <1>2, <1>4, <1>7, PagesKept
<1>9. AtHeader(fmt, e, qs, b)
  <2>1. b + HeaderLen <= Len(e) + 1
    BY <1>2, <1>7 DEF Documents
  <2>2. QED
    BY <1>2, <1>5, <1>6, <1>7, <1>8, <2>1 DEF AtHeader
<1>10. AtLine(fmt, e, b + HeaderLen, Headers[k], <<>>, NoLine)
  <2> DEFINE p == b + HeaderLen
  <2>1. p \in Nat /\ p = Len(e) + 1
    BY <1>3, <1>7
  <2> HIDE DEF p
  <2>2. ReadPage(fmt, e, p, Headers[k], 0) = [next |-> p, rows |-> <<>>]
    BY <1>2, <1>3, <2>1, ReadPageIs
  <2>3. 0 \in 0..Len(<<>>) /\ p \in 1..(Len(e) + 1)
    BY <1>7, <2>1
  <2>4. QED
    BY <2>1, <2>2, <2>3 DEF AtLine, p
<1>11. QED
  BY <1>5, <1>6, <1>7, <1>9, <1>10 DEF AtPage, e, qs, new

LEMMA PageEncoded ==
  ASSUME NEW d, NEW ps, Encoded(d, ps, NoLine), Len(ps) < MaxPages, NEW k \in DOMAIN Headers
  PROVE  Encoded(d \o HeaderBytes(k), Append(ps, StartedPage(k)), NoLine)
<1> DEFINE e == d \o HeaderBytes(k)
           new == StartedPage(k)
           qs == Append(ps, new)
<1>1. /\ d \in Documents /\ ps \in Seq(Page) /\ Len(d) \in Nat /\ Len(ps) \in Nat
      /\ Len(ps) <= Len(d) /\ NoLine \in LineStarts
      /\ \A n \in 1..Len(ps) :
           WellFormed(ps[n].header) /\ Len(ps[n].rows) <= ps[n].header.height
  BY DEF Encoded, Documents
<1>2. e \in Documents /\ Len(e) = Len(d) + HeaderLen /\ new \in Page /\ WellFormed(Headers[k])
  BY <1>1, HeaderAdded
<1>3. HeaderLen \in Nat \ {0} /\ MaxPages \in Nat /\ Headers[k] \in PageHeaders
  BY RasterAssumption
<1>4. WellFormed(new.header) /\ Len(new.rows) <= new.header.height
  <2>1. new.header = Headers[k] /\ new.rows = <<>> /\ Len(<<>>) = 0
    BY DEF StartedPage
  <2>2. Headers[k].height \in Nat
    BY <1>3 DEF PageHeaders
  <2>3. QED
    BY <1>2, <2>1, <2>2
<1> HIDE DEF e, new
<1>5. /\ qs \in Seq(Page) /\ Len(qs) = Len(ps) + 1 /\ qs # <<>>
      /\ \A n \in 1..Len(ps) : qs[n] = ps[n]
      /\ qs[Len(ps) + 1] = new
  <2>1. ps \in Seq(Page) /\ new \in Page
    BY <1>1, <1>2
  <2>2. qs \in Seq(Page) /\ Len(qs) = Len(ps) + 1 /\ qs # <<>>
    BY ONLY <2>1
  <2>3. \A n \in 1..Len(ps) : qs[n] = ps[n]
    BY ONLY <2>1
  <2>4. qs[Len(ps) + 1] = new
    BY ONLY <2>1
  <2>5. QED
    BY <2>2, <2>3, <2>4
<1> HIDE DEF qs
<1>6. \A n \in 1..Len(qs) :
        WellFormed(qs[n].header) /\ Len(qs[n].rows) <= qs[n].header.height
  <2>1. ASSUME NEW n \in 1..Len(qs)
        PROVE  WellFormed(qs[n].header) /\ Len(qs[n].rows) <= qs[n].header.height
    <3>1. CASE n = Len(ps) + 1
      BY <1>4, <1>5, <3>1
    <3>2. CASE n # Len(ps) + 1
      <4>1. n \in 1..Len(ps)
        BY <1>1, <1>5, <3>2
      <4>2. QED
        BY <1>1, <1>5, <4>1
    <3>3. QED
      BY <3>1, <3>2
  <2>2. QED
    BY <2>1
<1>7. Len(qs) <= Len(e) /\ Len(qs) <= MaxPages
  BY <1>1, <1>2, <1>3, <1>5
<1>8. QED
  BY <1>1, <1>2, <1>5, <1>6, <1>7 DEF Encoded, e, qs, new

\* A line is started.
StartedLine(repeat) == [repeat |-> repeat, row |-> <<>>]

LEMMA ByteAdded ==
  ASSUME NEW d \in Documents, NEW x \in 0..255
  PROVE  /\ Append(d, x) \in Documents /\ Continues(d, Append(d, x))
         /\ Len(Append(d, x)) = Len(d) + 1 /\ Append(d, x)[Len(d) + 1] = x
<1>1. x \in 0..(255 + Len(Headers)) /\ Len(Headers) \in Nat
  BY RasterAssumption
<1>2. QED
  BY <1>1 DEF Documents, Continues

\* A page whose lines so far have been read, and a document that goes on.
LEMMA LinesKept ==
  ASSUME NEW fmt \in Formats, NEW d \in Documents, NEW e \in Documents, Continues(d, e),
         NEW p \in Nat, NEW h \in PageHeaders, WellFormed(h), NEW j \in Nat,
         NEW c \in Nat \ {0}, NEW rows, ReadPage(fmt, d, p, h, j) = [next |-> c, rows |-> rows]
  PROVE  ReadPage(fmt, e, p, h, j) = [next |-> c, rows |-> rows]
<1> DEFINE x == ReadPage(fmt, d, p, h, j)
<1>1. x = [next |-> c, rows |-> rows]
  OBVIOUS
<1> HIDE DEF x
<1>2. x.next # Short
  BY <1>1 DEF Short
<1>3. ReadPage(fmt, e, p, h, j) = x
  BY <1>2, ReadPageKept DEF x
<1>4. QED
  BY <1>1, <1>3

LEMMA LineStarted ==
  ASSUME NEW fmt \in Formats, NEW d, NEW ps, Encoded(d, ps, NoLine), ps # <<>>,
         AtPage(fmt, d, ps, NoLine), NEW repeat \in 1..256
  PROVE  AtPage(fmt, Append(d, repeat - 1), ps, StartedLine(repeat))
<1> DEFINE e == Append(d, repeat - 1)
           l == StartedLine(repeat)
           h == Last(ps).header
           rows == Last(ps).rows
           c == Len(d) + 1
<1>1. /\ d \in Documents /\ ps \in Seq(Page) /\ Len(d) \in Nat /\ h \in PageHeaders
      /\ rows \in Rows /\ WellFormed(h)
  BY LastPageFacts
<1>2. repeat - 1 \in 0..255
  OBVIOUS
<1>3. e \in Documents /\ Continues(d, e) /\ Len(e) = Len(d) + 1 /\ e[c] = repeat - 1
  BY <1>1, <1>2, ByteAdded
<1>4. PICK b \in 1..Len(d) : AtHeader(fmt, d, ps, b) /\ AtLine(fmt, d, b + HeaderLen, h, rows, NoLine)
  BY DEF AtPage
<1>5. AtHeader(fmt, e, ps, b) /\ b \in 1..Len(e)
  BY <1>1, <1>3, <1>4, HeaderKept
<1> DEFINE p == b + HeaderLen
<1>6. PICK j \in 0..Len(rows) : ReadPage(fmt, d, p, h, j) = [next |-> c, rows |-> rows]
  BY <1>4 DEF AtLine
<1>7. l # NoLine /\ l.repeat = repeat /\ l.row = <<>>
  BY DEF StartedLine, NoLine
<1>8. p \in Nat /\ j \in Nat /\ c \in Nat \ {0} /\ c \in 1..Len(e) /\ c \in 1..(Len(e) + 1) /\ c <= Len(e)
  BY <1>1, <1>3, <1>6, RasterAssumption DEF Rows
<1> HIDE DEF e, l, h, rows, c, p
<1>9. ReadPage(fmt, e, p, h, j) = [next |-> c, rows |-> rows]
  BY <1>1, <1>3, <1>6, <1>8, LinesKept
<1>10. AtRow(e, c, h, <<>>)
  <2> DEFINE n == ColorsPerRow(h)
             z == ColorSize(h)
  <2>1. RowAfter(e, c + 1, n, z, 0) = [next |-> c + 1, row |-> <<>>]
    <3> DEFINE u == DecodeRun(e, n, z)
               s == [next |-> c + 1, row |-> <<>>]
    <3>1. RowAfter(e, c + 1, n, z, 0) = Iterate(u, s, 0)
      BY Zenon DEF RowAfter
    <3> HIDE DEF u, s
    <3>2. Iterate(u, s, 0) = s
      BY ONLY IterateRounds
    <3>3. QED
      BY <3>1, <3>2 DEF s
  <2>2. c + 1 = Len(e) + 1 /\ 0 \in 0..Len(<<>>)
    BY <1>3 DEF c
  <2>3. QED
    BY <2>1, <2>2 DEF AtRow
<1>11. AtLine(fmt, e, p, h, rows, l)
  BY <1>3, <1>6, <1>7, <1>8, <1>9, <1>10 DEF AtLine
<1>12. QED
  BY <1>5, <1>11 DEF AtPage, p, h, rows, e, l

LEMMA LineEncoded ==
  ASSUME NEW d, NEW ps, Encoded(d, ps, NoLine), ps # <<>>, NEW repeat \in 1..256,
         Len(Last(ps).rows) + repeat <= Last(ps).header.height
  PROVE  Encoded(Append(d, repeat - 1), ps, StartedLine(repeat))
<1> DEFINE e == Append(d, repeat - 1)
           l == StartedLine(repeat)
           h == Last(ps).header
<1>1. /\ d \in Documents /\ ps \in Seq(Page) /\ Len(d) \in Nat /\ Len(ps) \in Nat
      /\ Len(ps) <= Len(d) /\ Len(ps) <= MaxPages /\ h \in PageHeaders /\ WellFormed(h)
  BY LastPageFacts
<1>2. repeat - 1 \in 0..255 /\ repeat \in 0..256 /\ repeat > 0
  OBVIOUS
<1>3. e \in Documents /\ Len(e) = Len(d) + 1
  BY <1>1, <1>2, ByteAdded
<1>4. l.repeat = repeat /\ l.row = <<>> /\ l \in LineStarts
  BY <1>2 DEF StartedLine, LineStarts
<1>5. ColorsPerRow(h) \in Nat \ {0}
  <2>1. "PWG" \in Formats
    BY DEF Formats
  <2>2. QED
    BY <1>1, <2>1, GeometryIs
<1>6. Len(l.row) < ColorsPerRow(h)
  BY <1>4, <1>5
<1>7. Len(ps) <= Len(e)
  BY <1>1, <1>3
<1>8. \A n \in 1..Len(ps) : WellFormed(ps[n].header) /\ Len(ps[n].rows) <= ps[n].header.height
  BY DEF Encoded
<1>9. l.repeat > 0 /\ Len(Last(ps).rows) + l.repeat <= h.height
  BY <1>2, <1>4
<1> HIDE DEF e, l, h
<1>10. QED
  BY <1>1, <1>3, <1>4, <1>6, <1>7, <1>8, <1>9 DEF Encoded, e, l, h

\* A run is encoded: the control byte and its color values, as the walkers
\* read them.
DecodeBytes(bytes, values, size) ==
  LET n == Len(values) IN
  /\ bytes \in Seq(0..255)
  /\ \/ /\ bytes[1] = n - 1 /\ Len(bytes) = 1 + size * n
        /\ \A k \in 1..n : \A b \in 1..size : bytes[1 + (size * (k - 1) + b)] = values[k][b]
     \/ /\ n > 1 /\ bytes[1] = 257 - n /\ Len(bytes) = 1 + size
        /\ \A k \in 1..n : \A b \in 1..size : bytes[1 + b] = values[k][b]

InfoBytes(bytes, n, size) ==
  /\ bytes \in Seq(0..255)
  /\ \/ bytes[1] = n - 1 /\ Len(bytes) = 1 + size
     \/ n > 1 /\ bytes[1] = 257 - n /\ Len(bytes) = 1 + size * n

LEMMA ColorsType ==
  ASSUME NEW h \in PageHeaders, WellFormed(h), NEW v \in Colors(h)
  PROVE  v \in Seq(0..255) /\ Len(v) = ColorSize(h) /\ v \in Colored /\ ColorSize(h) \in Nat \ {0}
<1>1. ColorSize(h) \in Nat \ {0}
  <2>1. "PWG" \in Formats
    BY DEF Formats
  <2>2. QED
    BY <2>1, GeometryIs DEF ColorSize
<1>2. PICK byte \in Bytes : v = [b \in 1..ColorSize(h) |-> byte]
  BY DEF Colors, ColorSize
<1>3. byte \in 0..255 /\ byte \in Nat
  BY RasterAssumption
<1> DEFINE z == ColorSize(h)
<1> HIDE DEF z
<1>4. z \in Nat /\ v = [b \in 1..z |-> byte]
  BY <1>1, <1>2 DEF z
<1>5. v \in Seq(0..255) /\ Len(v) = z /\ v \in Seq(Nat)
  BY <1>3, <1>4
<1>6. QED
  BY <1>1, <1>5 DEF z, Colored

\* The bytes after a control byte.
LEMMA ControlFirst ==
  ASSUME NEW c \in 0..255, NEW s \in Seq(0..255)
  PROVE  /\ <<c>> \o s \in Seq(0..255) /\ Len(<<c>> \o s) = 1 + Len(s) /\ (<<c>> \o s)[1] = c
         /\ \A i \in 1..Len(s) : (<<c>> \o s)[1 + i] = s[i]
OBVIOUS

LEMMA RunWritten ==
  ASSUME NEW h \in PageHeaders, WellFormed(h), NEW n \in 1..MaxRun,
         NEW values \in [1..n -> Colors(h)], NEW bytes \in RunBytes(values)
  PROVE  /\ values \in Seq(Colored) /\ Len(values) = n
         /\ encoding = "decode" => DecodeBytes(bytes, values, ColorSize(h))
         /\ encoding = "info" => InfoBytes(bytes, n, ColorSize(h))
<1> DEFINE T == 0..255
           z == ColorSize(h)
           flat == FlattenSeq(values)
           literal == <<LiteralControl(n)>> \o flat
           repeat  == <<RepeatControl(n)>> \o values[1]
           same == \A k \in 1..n : values[k] = values[1]
<1>1. n \in 1..128 /\ n \in Nat /\ 1 \in 1..n
  BY DEF MaxRun
<1>2. \A k \in 1..n : /\ values[k] \in Seq(T) /\ Len(values[k]) = z /\ values[k] \in Colored
                      /\ z \in Nat \ {0}
  <2>1. ASSUME NEW k \in 1..n
        PROVE  /\ values[k] \in Seq(T) /\ Len(values[k]) = z /\ values[k] \in Colored
               /\ z \in Nat \ {0}
    <3>1. values[k] \in Colors(h)
      OBVIOUS
    <3>2. QED
      BY <3>1, ColorsType
  <2>2. QED
    BY <2>1
<1>3. /\ values \in Seq(Seq(T)) /\ values \in Seq(Colored) /\ Len(values) = n
      /\ z \in Nat \ {0} /\ values[1] \in Seq(T) /\ Len(values[1]) = z
  <2> HIDE DEF T, z
  <2>1. z \in Nat \ {0} /\ values[1] \in Seq(T) /\ Len(values[1]) = z
    BY <1>1, <1>2
  <2>2. values = [k \in 1..n |-> values[k]]
    OBVIOUS
  <2>3. values \in Seq(Seq(T)) /\ Len(values) = n
    BY <1>1, <1>2, <2>2
  <2>4. values \in Seq(Colored)
    BY <1>1, <1>2, <2>2
  <2>5. QED
    BY <2>1, <2>3, <2>4
<1>4. bytes = literal \/ (same /\ bytes = repeat)
  BY <1>3, Zenon DEF RunBytes
<1> HIDE DEF z, flat
<1>5. /\ flat \in Seq(T) /\ Len(flat) = z * n
      /\ \A k \in 1..n : \A b \in 1..z : flat[z * (k - 1) + b] = values[k][b]
  <2>1. flat \in Seq(T)
    BY <1>3, FlattenType DEF flat
  <2>2. Packed(flat, values, z)
    BY <1>2, <1>3, FlattenPacked DEF flat
  <2>3. QED
    BY <1>3, <2>1, <2>2 DEF Packed
<1>6. /\ LiteralControl(n) \in T /\ RepeatControl(n) \in T
      /\ encoding = "decode" => /\ LiteralControl(n) = n - 1
                                /\ n > 1 => RepeatControl(n) = 257 - n
                                /\ n = 1 => RepeatControl(n) = 0
      /\ encoding = "info" => /\ RepeatControl(n) = n - 1
                              /\ n > 1 => LiteralControl(n) = 257 - n
                              /\ n = 1 => LiteralControl(n) = 0
  BY <1>1 DEF LiteralControl, RepeatControl
<1> DEFINE lc == LiteralControl(n)
           rc == RepeatControl(n)
<1>7. /\ literal \in Seq(T) /\ Len(literal) = 1 + z * n /\ literal[1] = lc
      /\ \A i \in 1..Len(flat) : literal[1 + i] = flat[i]
  <2>1. lc \in T
    BY <1>6
  <2> HIDE DEF lc
  <2>2. /\ <<lc>> \o flat \in Seq(T) /\ Len(<<lc>> \o flat) = 1 + Len(flat) /\ (<<lc>> \o flat)[1] = lc
        /\ \A i \in 1..Len(flat) : (<<lc>> \o flat)[1 + i] = flat[i]
    BY <1>5, <2>1, ControlFirst
  <2>3. literal = <<lc>> \o flat
    BY Zenon DEF lc
  <2> HIDE DEF literal
  <2>4. QED
    BY <1>5, <2>2, <2>3
<1>8. /\ repeat \in Seq(T) /\ Len(repeat) = 1 + z /\ repeat[1] = rc
      /\ \A b \in 1..z : repeat[1 + b] = values[1][b]
  <2>1. rc \in T
    BY <1>6
  <2> DEFINE v == values[1]
  <2>2. v \in Seq(T) /\ Len(v) = z
    BY <1>3
  <2> HIDE DEF rc, v
  <2>3. /\ <<rc>> \o v \in Seq(T) /\ Len(<<rc>> \o v) = 1 + Len(v) /\ (<<rc>> \o v)[1] = rc
        /\ \A i \in 1..Len(v) : (<<rc>> \o v)[1 + i] = v[i]
    BY <2>1, <2>2, ControlFirst
  <2>4. repeat = <<rc>> \o v
    BY Zenon DEF rc, v
  <2> HIDE DEF repeat
  <2>5. QED
    BY <2>2, <2>3, <2>4 DEF v
<1>9. \A k \in 1..n : \A b \in 1..z :
        literal[1 + (z * (k - 1) + b)] = values[k][b]
  <2>1. ASSUME NEW k \in 1..n, NEW b \in 1..z
        PROVE  literal[1 + (z * (k - 1) + b)] = values[k][b]
    <3> DEFINE u == z * (k - 1)
               i == u + b
    <3>0. z \in Nat /\ n \in Nat
      BY <1>1, <1>3
    <3>a. u \in Nat /\ u + b <= z * n
      BY <2>1, <3>0, Inside
    <3>1. u \in Nat /\ u + b <= z * n /\ z * n \in Nat
      BY <3>0, <3>a
    <3>2. i \in 1..Len(flat)
      <4> DEFINE m == Len(flat)
      <4>1. m = z * n
        BY <1>5
      <4>2. u + b <= m /\ m \in Nat
        BY <3>1, <4>1
      <4> HIDE DEF u, m
      <4>3. QED
        BY <3>1, <4>2 DEF m
    <3>3. flat[i] = values[k][b]
      BY <1>5
    <3> HIDE DEF i, literal
    <3>4. literal[1 + i] = values[k][b]
      BY <1>7, <3>2, <3>3
    <3>5. QED
      BY <3>4 DEF i
  <2>2. QED
    BY <2>1
<1> HIDE DEF literal, repeat
<1>10. encoding = "decode" => DecodeBytes(bytes, values, z)
  <2>1. SUFFICES ASSUME encoding = "decode"
                 PROVE  DecodeBytes(bytes, values, z)
    OBVIOUS
  <2>2. CASE bytes = literal
    <3>1. literal[1] = n - 1
      BY <1>6, <1>7, <2>1
    <3>2. QED
      BY <1>3, <1>7, <1>9, <2>2, <3>1 DEF DecodeBytes
  <2>3. CASE same /\ bytes = repeat
    <3>1. \A k \in 1..n : \A b \in 1..z : repeat[1 + b] = values[k][b]
      BY <1>8, <2>3
    <3>2. CASE n > 1
      <4>1. repeat[1] = 257 - n
        BY <1>6, <1>8, <2>1, <3>2
      <4>2. QED
        BY <1>3, <1>8, <2>3, <3>1, <3>2, <4>1 DEF DecodeBytes
    <3>3. CASE n = 1
      <4>1. repeat[1] = n - 1 /\ Len(repeat) = 1 + z * n
        BY <1>3, <1>6, <1>8, <2>1, <3>3
      <4>2. ASSUME NEW k \in 1..n, NEW b \in 1..z
            PROVE  repeat[1 + (z * (k - 1) + b)] = values[k][b]
        <5>1. k = 1
          BY <3>3
        <5>2. z * (k - 1) = 0
          BY <1>3, <5>1
        <5>3. z * (k - 1) + b = b
          BY <5>2
        <5>4. QED
          BY <3>1, <5>3
      <4>3. QED
        BY <1>3, <1>8, <2>3, <4>1, <4>2 DEF DecodeBytes
    <3>4. QED
      BY <1>1, <3>2, <3>3
  <2>4. QED
    BY <1>4, <2>2, <2>3
<1>11. encoding = "info" => InfoBytes(bytes, n, z)
  <2>1. SUFFICES ASSUME encoding = "info"
                 PROVE  InfoBytes(bytes, n, z)
    OBVIOUS
  <2>2. CASE bytes = repeat
    <3>1. repeat[1] = n - 1
      BY <1>6, <1>8, <2>1
    <3>2. QED
      BY <1>8, <2>2, <3>1 DEF InfoBytes
  <2>3. CASE bytes = literal
    <3>1. CASE n > 1
      <4>1. literal[1] = 257 - n
        BY <1>6, <1>7, <2>1, <3>1
      <4>2. QED
        BY <1>7, <2>3, <3>1, <4>1 DEF InfoBytes
    <3>2. CASE n = 1
      <4>1. literal[1] = n - 1 /\ Len(literal) = 1 + z
        BY <1>3, <1>6, <1>7, <2>1, <3>2
      <4>2. QED
        BY <1>7, <2>3, <4>1 DEF InfoBytes
    <3>3. QED
      BY <1>1, <3>1, <3>2
  <2>4. QED
    BY <1>4, <2>2, <2>3
<1>12. QED
  BY <1>3, <1>10, <1>11 DEF z

LEMMA SeqFacts ==
  ASSUME NEW T, NEW s \in Seq(T)
  PROVE  /\ Len(s) \in Nat /\ s = [i \in 1..Len(s) |-> s[i]]
         /\ \A i \in 1..Len(s) : s[i] \in T
OBVIOUS

LEMMA BytesAdded ==
  ASSUME NEW d \in Documents, NEW bytes \in Seq(0..255)
  PROVE  /\ d \o bytes \in Documents /\ Continues(d, d \o bytes)
         /\ Len(d \o bytes) = Len(d) + Len(bytes) /\ Len(d) \in Nat /\ Len(bytes) \in Nat
         /\ \A i \in 1..Len(bytes) : AsByte(d \o bytes, Len(d) + i) = bytes[i]
<1> DEFINE T == 0..(255 + Len(Headers))
           e == d \o bytes
<1>1. 0..255 \subseteq T
  BY RasterAssumption
<1>a. d \in Seq(T)
  BY DEF Documents
<1> HIDE DEF T
<1>b. bytes \in Seq(T)
  <2>1. bytes = [i \in 1..Len(bytes) |-> bytes[i]] /\ Len(bytes) \in Nat
        /\ \A i \in 1..Len(bytes) : bytes[i] \in 0..255
    BY SeqFacts, Zenon
  <2>2. \A i \in 1..Len(bytes) : bytes[i] \in T
    BY <1>1, <2>1
  <2>3. QED
    BY ONLY <2>1, <2>2
<1>2. d \in Seq(T) /\ bytes \in Seq(T)
  BY <1>a, <1>b
<1>3. e \in Seq(T) /\ Continues(d, e)
  BY <1>2, ContinuesConcat
<1>4. Len(e) = Len(d) + Len(bytes) /\ Len(d) \in Nat /\ Len(bytes) \in Nat
  BY <1>2
<1>5. ASSUME NEW i \in 1..Len(bytes)
      PROVE  AsByte(e, Len(d) + i) = bytes[i]
  <2>1. e[Len(d) + i] = bytes[i]
    BY <1>2, <1>5
  <2>2. bytes[i] \in 0..255
    <3>1. \A k \in 1..Len(bytes) : bytes[k] \in 0..255
      BY SeqFacts, Zenon
    <3>2. QED
      BY <1>5, <3>1
  <2> DEFINE x == e[Len(d) + i]
  <2>3. AsByte(e, Len(d) + i) = IF x <= 255 THEN x ELSE 0
    BY Zenon DEF AsByte
  <2>4. x \in 0..255
    BY <2>1, <2>2
  <2> HIDE DEF x
  <2>5. AsByte(e, Len(d) + i) = x
    BY ONLY <2>3, <2>4
  <2>6. QED
    BY <2>1, <2>5 DEF x
<1>6. QED
  BY <1>3, <1>4, <1>5 DEF Documents, T

RowTakes(row, values, bytes, groups, size) ==
  /\ size \in Nat \ {0} /\ groups \in Nat /\ row \in Seq(Colored) /\ values \in Seq(Colored)
  /\ Len(values) \in 1..128 /\ \A k \in 1..Len(values) : Len(values[k]) = size
  /\ Len(row) + Len(values) <= groups
  /\ DecodeBytes(bytes, values, size)

RowTaken(d, row, values, bytes, groups, size) ==
  DecodeRun(d \o bytes, groups, size)[[next |-> Len(d) + 1, row |-> row]] =
    [next |-> Len(d \o bytes) + 1, row |-> row \o values]

LEMMA RunDecoded ==
  ASSUME NEW d \in Documents, NEW row, NEW values, NEW bytes, NEW groups, NEW size,
         RowTakes(row, values, bytes, groups, size)
  PROVE  RowTaken(d, row, values, bytes, groups, size)
<1> DEFINE n == Len(values)
           e == d \o bytes
           p == Len(d) + 1
           s == [next |-> p, row |-> row]
           control == AsByte(e, s.next)
           wanted  == Clamped(RunOf(control), groups - Len(s.row))
           after   == RunEnd(control, s.next, wanted, size)
           colors  == RunColors(e, control, s.next, wanted, size)
<1>0. /\ size \in Nat \ {0} /\ groups \in Nat /\ row \in Seq(Colored) /\ values \in Seq(Colored)
      /\ Len(values) \in 1..128 /\ \A k \in 1..Len(values) : Len(values[k]) = size
      /\ Len(row) + Len(values) <= groups
      /\ DecodeBytes(bytes, values, size)
  BY DEF RowTakes
<1> USE <1>0
<1>1. bytes \in Seq(0..255) /\ n \in 1..128 /\ n \in Nat
  BY DEF DecodeBytes
<1>2. /\ e \in Documents /\ Len(e) = Len(d) + Len(bytes) /\ Len(d) \in Nat /\ Len(bytes) \in Nat
      /\ \A i \in 1..Len(bytes) : AsByte(e, Len(d) + i) = bytes[i]
  BY <1>1, BytesAdded
<1>3. size * n \in Nat
  BY <1>1
<1>4. Len(bytes) >= 1 /\ 1 \in 1..Len(bytes)
  BY <1>2, <1>3 DEF DecodeBytes
<1>5. /\ \/ bytes[1] = n - 1
         \/ n > 1 /\ bytes[1] = 257 - n
  BY DEF DecodeBytes
<1>6. s \in RowStates /\ s.next = p /\ s.row = row /\ p \in Nat \ {0} /\ p <= Len(e)
  BY <1>2, <1>4 DEF RowStates
<1>7. ~ RowDone(groups, s) /\ ~ BeyondEnd(e, s)
  <2>0. Len(row) \in Nat /\ Len(row) + n <= groups
    OBVIOUS
  <2> DEFINE r == Len(row)
  <2>a. r \in Nat /\ r + n <= groups /\ n \in 1..128 /\ groups \in Nat
    BY <1>1, <2>0
  <2> HIDE DEF n, r
  <2>b. r < groups
    BY ONLY <2>a
  <2>1. Len(row) \in Nat /\ Len(row) < groups
    BY <2>a, <2>b DEF r
  <2>2. ~ RowDone(groups, s)
    BY <1>6, <2>1 DEF RowDone, Short
  <2>3. ~ BeyondEnd(e, s)
    BY <1>2, <1>6 DEF BeyondEnd
  <2>4. QED
    BY <2>2, <2>3
<1>8. control = bytes[1] /\ RunOf(control) = n
  <2>1. control = bytes[1]
    BY <1>2, <1>4, <1>6
  <2> HIDE DEF control, n
  <2>2. RunOf(control) = n
    <3>1. control = n - 1 \/ (n > 1 /\ control = 257 - n)
      BY <1>5, <2>1
    <3>2. QED
      BY ONLY <1>1, <3>1, n \in 1..128 DEF RunOf
  <2>3. QED
    BY <2>1, <2>2
<1>9. wanted = n
  <2>1. Len(row) \in Nat /\ n <= groups - Len(row)
    BY <1>1
  <2>2. wanted = Clamped(n, groups - Len(row))
    BY <1>6, <1>8
  <2> HIDE DEF wanted
  <2>3. QED
    BY <2>1, <2>2 DEF Clamped
<1>10. RunAhead(e, groups, size, s) =
         IF after > Len(e) + 1 THEN [s EXCEPT !.next = Short]
         ELSE [next |-> after, row |-> s.row \o colors]
  BY Zenon DEF RunAhead
<1>11. after = RunEnd(bytes[1], p, n, size) /\ colors = RunColors(e, bytes[1], p, n, size)
  BY <1>6, <1>8, <1>9
<1>12. DecodeRun(e, groups, size)[s] = RunAhead(e, groups, size, s)
  BY ONLY <1>6, <1>7, DecodeRunIs
<1> DEFINE c == bytes[1]
<1> HIDE DEF control, wanted, after, colors, e, s, n, p, c
<1>13. after = Len(e) + 1
  <2>1. CASE c = n - 1 /\ Len(bytes) = 1 + size * n
    <3>1. c <= 127
      BY <1>1, <2>1
    <3>2. after = p + 1 + size * n
      BY <1>11, <3>1 DEF RunEnd, c
    <3> DEFINE v == size * n
               k == Len(d)
               m == Len(bytes)
    <3>3. k \in Nat /\ v \in Nat /\ m = 1 + v /\ Len(e) = k + m /\ p = k + 1 /\ after = p + 1 + v
      BY <1>2, <1>3, <2>1, <3>2, Zenon DEF p
    <3> HIDE DEF v, k, m
    <3>4. QED
      BY ONLY <3>3
  <2>2. CASE n > 1 /\ c = 257 - n /\ Len(bytes) = 1 + size
    <3>1. ~ (c <= 127)
      BY <1>1, <2>2
    <3>2. after = p + 1 + size * 1
      BY <1>11, <3>1 DEF RunEnd, c
    <3>3. QED
      BY <1>2, <2>2, <3>2 DEF p
  <2>3. QED
    BY <2>1, <2>2 DEF DecodeBytes, c, n
<1>14. colors = values
  <2> DEFINE at(k, b) == (p + 1 + (IF c <= 127 THEN size * (k - 1) ELSE 0)) + b - 1
  <2>1. colors = [k \in 1..n |-> [b \in 1..size |-> AsByte(e, at(k, b))]]
    BY <1>11, Zenon DEF RunColors, c
  <2>2. ASSUME NEW k \in 1..n, NEW b \in 1..size
        PROVE  AsByte(e, at(k, b)) = values[k][b]
    <3> DEFINE u == size * (k - 1)
               v == size * n
    <3>1. u \in Nat /\ u + b <= v /\ v \in Nat
      BY <1>1, <1>3, Inside DEF n
    <3>2. CASE c = n - 1 /\ Len(bytes) = 1 + size * n
               /\ \A kk \in 1..n : \A bb \in 1..size :
                    bytes[1 + (size * (kk - 1) + bb)] = values[kk][bb]
      <4>1. c <= 127
        BY <1>1, <3>2
      <4>2. Len(bytes) = 1 + v /\ bytes[1 + (u + b)] = values[k][b]
        BY <3>2
      <4>3. at(k, b) = (p + 1 + u) + b - 1
        BY <4>1
      <4> HIDE DEF u, v
      <4>4. 1 + (u + b) \in 1..Len(bytes) /\ (p + 1 + u) + b - 1 = Len(d) + (1 + (u + b))
        BY <1>2, <3>1, <4>2 DEF p
      <4> HIDE DEF at
      <4>5. QED
        BY <1>2, <4>2, <4>3, <4>4
    <3>3. CASE n > 1 /\ c = 257 - n /\ Len(bytes) = 1 + size
               /\ \A kk \in 1..n : \A bb \in 1..size : bytes[1 + bb] = values[kk][bb]
      <4>1. ~ (c <= 127)
        BY <1>1, <3>3
      <4>2. at(k, b) = (p + 1 + 0) + b - 1
        BY <4>1
      <4>3. 1 + b \in 1..Len(bytes) /\ (p + 1 + 0) + b - 1 = Len(d) + (1 + b)
        BY <1>2, <3>3 DEF p
      <4> HIDE DEF at
      <4>4. bytes[1 + b] = values[k][b]
        BY <3>3
      <4>5. QED
        BY <1>2, <4>2, <4>3, <4>4
    <3>4. QED
      BY <3>2, <3>3 DEF DecodeBytes, c, n
  <2> HIDE DEF at
  <2>3. \A k \in 1..n : values[k] = [b \in 1..size |-> values[k][b]]
    <3>1. ASSUME NEW k \in 1..n
          PROVE  values[k] = [b \in 1..size |-> values[k][b]]
      <4>1. values[k] \in Seq(Nat) /\ Len(values[k]) = size
        BY DEF Colored, n
      <4>2. QED
        BY <4>1
    <3>2. QED
      BY <3>1
  <2>4. values = [k \in 1..n |-> values[k]]
    BY DEF n
  <2>5. \A k \in 1..n : [b \in 1..size |-> AsByte(e, at(k, b))] = values[k]
    BY <2>2, <2>3, Zenon
  <2>6. QED
    BY <2>1, <2>4, <2>5, Zenon
<1>15. ~ (after > Len(e) + 1)
  BY <1>2, <1>13
<1>16. RunAhead(e, groups, size, s) = [next |-> Len(e) + 1, row |-> row \o values]
  BY <1>6, <1>10, <1>13, <1>14, <1>15
<1>17. QED
  BY <1>12, <1>16 DEF RowTaken, e, s, p

\* The row goes on with these values.
RunFits(h, l, values, bytes) ==
  /\ values \in Seq(Colored) /\ Len(values) \in 1..128
  /\ \A k \in 1..Len(values) : Len(values[k]) = ColorSize(h)
  /\ bytes \in Seq(0..255)
  /\ Len(l.row) + Len(values) <= ColorsPerRow(h)

LEMMA GeometryFacts ==
  ASSUME NEW h \in PageHeaders, WellFormed(h)
  PROVE  ColorsPerRow(h) \in Nat \ {0} /\ ColorSize(h) \in Nat \ {0}
<1>1. "PWG" \in Formats
  BY DEF Formats
<1>2. QED
  BY <1>1, GeometryIs DEF ColorSize

LEMMA RowGoesOn ==
  ASSUME NEW d \in Documents, NEW h \in PageHeaders, WellFormed(h),
         NEW l \in LineStarts, NEW values, NEW bytes, RunFits(h, l, values, bytes),
         DecodeBytes(bytes, values, ColorSize(h)),
         NEW c \in 1..Len(d), AtRow(d, c, h, l.row)
  PROVE  AtRow(d \o bytes, c, h, l.row \o values)
<1> DEFINE e == d \o bytes
           n == ColorsPerRow(h)
           z == ColorSize(h)
           row == l.row
           new == row \o values
           q == c + 1
<1>1. n \in Nat /\ z \in Nat /\ z \in Nat \ {0}
  BY GeometryFacts
<1>2. /\ values \in Seq(Colored) /\ Len(values) \in 1..128 /\ bytes \in Seq(0..255)
      /\ \A k \in 1..Len(values) : Len(values[k]) = z
      /\ Len(row) + Len(values) <= n
  BY DEF RunFits
<1>3. row \in Seq(Colored) /\ q \in Nat
  BY DEF LineStarts
<1>4. /\ e \in Documents /\ Continues(d, e) /\ Len(d) + 1 # Short
  BY <1>2, BytesAdded DEF Documents, Short
<1>5. PICK i \in 0..Len(row) : RowAfter(d, q, n, z, i) = [next |-> Len(d) + 1, row |-> row]
  BY DEF AtRow
<1>6. DecodeRun(e, n, z)[[next |-> Len(d) + 1, row |-> row]] = [next |-> Len(e) + 1, row |-> new]
  <2>1. /\ d \in Documents /\ z \in Nat \ {0} /\ values \in Seq(Colored)
        /\ Len(values) \in 1..128 /\ n \in Nat /\ row \in Seq(Colored)
    BY <1>1, <1>2, <1>3
  <2>2. \A k \in 1..Len(values) : Len(values[k]) = z
    BY <1>2
  <2>3. Len(row) + Len(values) <= n /\ DecodeBytes(bytes, values, z)
    BY <1>2
  <2> HIDE DEF n, z, row
  <2>4. RowTakes(row, values, bytes, n, z)
    BY ONLY <2>1, <2>2, <2>3 DEF RowTakes
  <2>5. d \in Documents
    OBVIOUS
  <2>6. RowTaken(d, row, values, bytes, n, z)
    BY <2>4, <2>5, RunDecoded
  <2>7. QED
    BY <2>6 DEF RowTaken
<1>7. i \in Nat /\ Len(new) = Len(row) + Len(values) /\ i + 1 \in 0..Len(new)
  <2> HIDE DEF row
  <2>0. row \in Seq(Colored) /\ Len(values) \in 1..128
    BY <1>2, <1>3
  <2> DEFINE v == Len(values)
  <2>a. v \in 1..128
    BY <2>0
  <2> HIDE DEF v
  <2>b. v \in Nat /\ v >= 1
    BY ONLY <2>a
  <2>c. Len(row) \in Nat
    BY ONLY <2>0
  <2>1. Len(row) \in Nat /\ Len(values) \in Nat /\ Len(values) >= 1
    BY <2>b, <2>c DEF v
  <2>2. Len(new) = Len(row) + Len(values)
    BY <1>2, <1>3
  <2> HIDE DEF new
  <2>3. QED
    BY <2>1, <2>2
<1> HIDE DEF e, n, z, row, new, q
<1> DEFINE x == RowAfter(d, q, n, z, i)
           y == RowAfter(e, q, n, z, i)
<1>8. x.next = Short \/ y = x
  BY <1>1, <1>3, <1>4, <1>7, RowContinues
<1>9. RowAfter(e, q, n, z, i + 1) = DecodeRun(e, n, z)[y]
  <2>1. e \in Documents /\ q \in Nat /\ n \in Nat /\ z \in Nat /\ i \in Nat
    BY <1>1, <1>3, <1>4, <1>7
  <2>2. QED
    BY ONLY <2>1, RowRound DEF y
<1> HIDE DEF x, y
<1>10. x = [next |-> Len(d) + 1, row |-> row]
  BY <1>5 DEF x
<1>11. y = x
  <2>1. x.next # Short
    BY <1>4, <1>10
  <2>2. QED
    BY <1>8, <2>1
<1>12. RowAfter(e, q, n, z, i + 1) = [next |-> Len(e) + 1, row |-> new]
  BY <1>6, <1>9, <1>10, <1>11
<1>13. QED
  BY <1>7, <1>12 DEF AtRow, e, n, z, row, new, q

\* The last page with these rows instead.
LEMMA LastReplaced ==
  ASSUME NEW ps \in Seq(Page), ps # <<>>, NEW rows \in Rows
  PROVE  LET qs == [ps EXCEPT ![Len(ps)].rows = rows]
             new == [header |-> Last(ps).header, rows |-> rows] IN
         /\ qs \in Seq(Page) /\ Len(qs) = Len(ps) /\ qs # <<>>
         /\ Last(qs) = new /\ qs[Len(ps)] = new
         /\ \A k \in 1..(Len(ps) - 1) : qs[k] = ps[k]
         /\ SubSeq(qs, 1, Len(qs) - 1) = SubSeq(ps, 1, Len(ps) - 1)
<1> DEFINE n == Len(ps)
           new == [header |-> Last(ps).header, rows |-> rows]
           qs == [ps EXCEPT ![Len(ps)].rows = rows]
<1>1. n \in Nat \ {0} /\ Last(ps) = ps[n] /\ ps[n] \in Page /\ n \in 1..n /\ n - 1 \in 0..n
  BY FrontIs
<1>2. new \in Page
  BY <1>1 DEF Page
<1>3. [ps[n] EXCEPT !.rows = rows] = new
  BY <1>1 DEF Page
<1>4. qs = [k \in 1..n |-> IF k = n THEN new ELSE ps[k]]
  BY <1>1, <1>3
<1> HIDE DEF new, qs
<1>5. \A k \in 1..n : ps[k] \in Page
  OBVIOUS
<1> HIDE DEF n
<1>6. qs \in Seq(Page) /\ Len(qs) = n
  BY <1>1, <1>2, <1>4, <1>5
<1>7. qs[n] = new /\ \A k \in 1..(n - 1) : qs[k] = ps[k]
  BY <1>1, <1>4
<1>8. qs # <<>> /\ Last(qs) = qs[n]
  BY <1>1, <1>6 DEF Last
<1>9. SubSeq(qs, 1, n - 1) = SubSeq(ps, 1, n - 1)
  <2>1. /\ SubSeq(qs, 1, n - 1) = [k \in 1..(n - 1) |-> qs[k]]
        /\ SubSeq(ps, 1, n - 1) = [k \in 1..(n - 1) |-> ps[k]]
    BY <1>1, <1>6 DEF n
  <2>2. QED
    BY <1>7, <2>1
<1>10. QED
  BY <1>6, <1>7, <1>8, <1>9 DEF n, new, qs

\* What the page and the line become.
Grown(ps, row, repeat) ==
  [ps EXCEPT ![Len(ps)].rows = Last(ps).rows \o Copies(row, repeat)]

\* The page behind a run, up to the line the run belongs to.
RunAt(fmt, e, ps, l, row) ==
  \E b \in 1..Len(e) :
    /\ AtHeader(fmt, e, ps, b)
    /\ \E j \in 0..Len(Last(ps).rows), c \in 1..Len(e) :
         /\ ReadPage(fmt, e, b + HeaderLen, Last(ps).header, j) =
              [next |-> c, rows |-> Last(ps).rows]
         /\ e[c] = l.repeat - 1 /\ AtRow(e, c, Last(ps).header, row)

LEMMA RunAdded ==
  ASSUME NEW fmt \in Formats, NEW d, NEW ps, NEW l, Encoded(d, ps, l), ps # <<>>, l # NoLine,
         AtPage(fmt, d, ps, l), NEW values, NEW bytes, RunFits(Last(ps).header, l, values, bytes),
         DecodeBytes(bytes, values, ColorSize(Last(ps).header))
  PROVE  RunAt(fmt, d \o bytes, ps, l, l.row \o values)
<1> DEFINE e == d \o bytes
           h == Last(ps).header
           rows == Last(ps).rows
           row == l.row \o values
<1>1. /\ d \in Documents /\ ps \in Seq(Page) /\ Len(d) \in Nat /\ h \in PageHeaders
      /\ rows \in Rows /\ WellFormed(h) /\ l \in LineStarts /\ Len(rows) \in Nat
  BY LastPageFacts
<1>2. e \in Documents /\ Continues(d, e) /\ Len(d) <= Len(e) /\ Len(e) \in Nat
  <2>1. bytes \in Seq(0..255)
    BY DEF RunFits
  <2>2. e \in Documents /\ Continues(d, e)
    BY <1>1, <2>1, BytesAdded
  <2> HIDE DEF e
  <2>3. QED
    BY <2>2 DEF Continues, Documents
<1>3. PICK b \in 1..Len(d) : AtHeader(fmt, d, ps, b) /\ AtLine(fmt, d, b + HeaderLen, h, rows, l)
  BY DEF AtPage
<1> DEFINE p == b + HeaderLen
<1>4. PICK j \in 0..Len(rows), c \in 1..(Len(d) + 1) :
        /\ ReadPage(fmt, d, p, h, j) = [next |-> c, rows |-> rows]
        /\ c <= Len(d) /\ d[c] = l.repeat - 1 /\ AtRow(d, c, h, l.row)
  BY <1>3 DEF AtLine
<1>5. p \in Nat /\ j \in Nat /\ c \in Nat \ {0} /\ c \in 1..Len(d) /\ c \in 1..Len(e) /\ b \in 1..Len(e)
  BY <1>1, <1>2, <1>4, RasterAssumption
<1>6. AtRow(e, c, h, row)
  BY <1>1, <1>4, <1>5, RowGoesOn
<1> HIDE DEF e, h, rows, row, p
<1>7. AtHeader(fmt, e, ps, b)
  BY <1>1, <1>2, <1>3, HeaderKept
<1>8. ReadPage(fmt, e, p, h, j) = [next |-> c, rows |-> rows]
  BY <1>1, <1>2, <1>4, <1>5, LinesKept
<1>9. e[c] = l.repeat - 1
  BY <1>2, <1>4, <1>5 DEF Continues
<1>10. QED
  BY <1>4, <1>5, <1>6, <1>7, <1>8, <1>9 DEF RunAt, e, h, rows, row, p

LEMMA RowContinued ==
  ASSUME NEW fmt, NEW e \in Documents, NEW ps, NEW l, NEW m, m # NoLine, m.repeat = l.repeat,
         RunAt(fmt, e, ps, l, m.row)
  PROVE  AtPage(fmt, e, ps, m)
<1>1. PICK b \in 1..Len(e) :
        /\ AtHeader(fmt, e, ps, b)
        /\ \E j \in 0..Len(Last(ps).rows), c \in 1..Len(e) :
             /\ ReadPage(fmt, e, b + HeaderLen, Last(ps).header, j) =
                  [next |-> c, rows |-> Last(ps).rows]
             /\ e[c] = l.repeat - 1 /\ AtRow(e, c, Last(ps).header, m.row)
  BY Zenon DEF RunAt
<1> DEFINE p == b + HeaderLen
           h == Last(ps).header
           rows == Last(ps).rows
<1>2. PICK j \in 0..Len(rows), c \in 1..Len(e) :
        /\ ReadPage(fmt, e, p, h, j) = [next |-> c, rows |-> rows]
        /\ e[c] = m.repeat - 1 /\ AtRow(e, c, h, m.row)
  BY <1>1
<1>3. c \in 1..(Len(e) + 1) /\ c <= Len(e)
  BY DEF Documents
<1> HIDE DEF p, h, rows
<1>4. AtLine(fmt, e, p, h, rows, m)
  BY <1>2, <1>3 DEF AtLine
<1>5. QED
  BY <1>1, <1>4 DEF AtPage, p, h, rows

\* The line is whole.
LEMMA LineEnded ==
  ASSUME NEW fmt \in Formats, NEW e \in Documents, NEW ps \in Seq(Page), ps # <<>>,
         WellFormed(Last(ps).header), NEW l, NEW repeat \in 1..256, l.repeat = repeat,
         Len(Last(ps).rows) + repeat <= Last(ps).header.height,
         NEW row \in Seq(Colored), Len(row) = ColorsPerRow(Last(ps).header),
         RunAt(fmt, e, ps, l, row)
  PROVE  AtPage(fmt, e, Grown(ps, row, repeat), NoLine)
<1> DEFINE h == Last(ps).header
           rows == Last(ps).rows
           more == rows \o Copies(row, repeat)
           qs == Grown(ps, row, repeat)
           n == ColorsPerRow(h)
           z == ColorSize(h)
<1>1. h \in PageHeaders /\ h.height \in Nat /\ rows \in Rows /\ Len(rows) \in Nat /\ Len(e) \in Nat
  <2>1. Last(ps) \in Page
    BY FrontIs
  <2>2. h \in PageHeaders /\ rows \in Rows
    BY <2>1 DEF Page
  <2> HIDE DEF h, rows
  <2>3. h.height \in Nat /\ Len(rows) \in Nat /\ Len(e) \in Nat
    BY <2>2 DEF PageHeaders, Rows, Documents
  <2>4. QED
    BY <2>2, <2>3 DEF h, rows
<1>2. n \in Nat /\ z \in Nat
  BY <1>1, GeometryFacts
<1>3. more \in Rows /\ Len(more) = Len(rows) + repeat
  <2>1. Copies(row, repeat) \in Seq(Seq(Colored)) /\ Len(Copies(row, repeat)) = repeat
    <3>1. repeat \in Nat /\ row \in Seq(Colored)
      OBVIOUS
    <3>2. QED
      BY ONLY <3>1, CopiesType
  <2> DEFINE cs == Copies(row, repeat)
  <2> HIDE DEF cs, rows
  <2>2. rows \in Seq(Seq(Colored)) /\ cs \in Seq(Seq(Colored))
    BY <1>1, <2>1 DEF Rows, cs
  <2>3. rows \o cs \in Seq(Seq(Colored)) /\ Len(rows \o cs) = Len(rows) + Len(cs)
    BY ONLY <2>2
  <2>4. QED
    BY <2>1, <2>3 DEF Rows, cs
<1>4. /\ qs \in Seq(Page) /\ Len(qs) = Len(ps) /\ Last(qs) = [header |-> h, rows |-> more]
      /\ SubSeq(qs, 1, Len(qs) - 1) = SubSeq(ps, 1, Len(ps) - 1)
  BY <1>3, LastReplaced DEF Grown
<1>5. PICK b \in 1..Len(e) :
        /\ AtHeader(fmt, e, ps, b)
        /\ \E j \in 0..Len(rows), c \in 1..Len(e) :
             /\ ReadPage(fmt, e, b + HeaderLen, h, j) = [next |-> c, rows |-> rows]
             /\ e[c] = l.repeat - 1 /\ AtRow(e, c, h, row)
  BY Zenon DEF RunAt
<1> DEFINE p == b + HeaderLen
<1>6. PICK j \in 0..Len(rows), c \in 1..Len(e) :
        /\ ReadPage(fmt, e, p, h, j) = [next |-> c, rows |-> rows]
        /\ e[c] = repeat - 1 /\ AtRow(e, c, h, row)
  BY <1>5
<1>7. p \in Nat /\ j \in Nat /\ c \in Nat \ {0} /\ c + 1 \in Nat /\ c <= Len(e)
  BY <1>1, <1>6, RasterAssumption
<1>8. DecodeRow(e, c + 1, n, z) = [next |-> Len(e) + 1, row |-> row]
  <2>1. PICK i \in 0..Len(row) : RowAfter(e, c + 1, n, z, i) = [next |-> Len(e) + 1, row |-> row]
    BY <1>6 DEF AtRow
  <2>2. i \in Nat /\ i <= n /\ Len(row) >= n
    <3> HIDE DEF n
    <3>1. Len(row) = n
      BY DEF n
    <3>2. QED
      BY <1>2, <3>1
  <2> DEFINE x == RowAfter(e, c + 1, n, z, i)
  <2>3. RowDone(n, x)
    BY <2>1, <2>2 DEF RowDone
  <2> HIDE DEF n, z
  <2>4. DecodeRow(e, c + 1, n, z) = x
    BY <1>2, <1>7, <2>2, <2>3, RowRests
  <2>5. QED
    BY <2>1, <2>4
<1> DEFINE s == ReadPage(fmt, e, p, h, j)
           m == h.height
<1>9. s \in LineStates /\ s.next = c /\ s.rows = rows
  BY <1>1, <1>6, <1>7, ReadPageType
<1>10. ReadPage(fmt, e, p, h, j + 1) = DecodeLine(e, m, n, z)[s]
  BY <1>1, <1>7, ReadPageIs
<1>11. Len(rows) + repeat <= m /\ m \in Nat
  BY <1>1
<1> HIDE DEF s, m, n, z, h, rows, p, qs, more
<1>12. ~ LineDone(m, s) /\ ~ BeyondEnd(e, s)
  <2> DEFINE k == Len(rows)
  <2>1. k \in Nat /\ k + repeat <= m /\ m \in Nat /\ repeat \in 1..256
    BY <1>1, <1>11
  <2> HIDE DEF k
  <2>2. ~ (k >= m)
    BY ONLY <2>1
  <2>3. ~ (Len(s.rows) >= m)
    BY <1>9, <2>2 DEF k
  <2>4. s.next # Short /\ ~ (s.next > Len(e))
    BY <1>1, <1>7, <1>9 DEF Short
  <2>5. QED
    BY <2>3, <2>4, Zenon DEF LineDone, BeyondEnd
<1>13. DecodeLine(e, m, n, z)[s] = LineAhead(e, m, n, z, s)
  BY ONLY <1>9, <1>12, DecodeLineIs
<1>14. LineAhead(e, m, n, z, s) = [next |-> Len(e) + 1, rows |-> more]
  <2>1. AsByte(e, c) + 1 = repeat
    <3>1. e[c] = repeat - 1 /\ repeat - 1 \in 0..255
      BY <1>6
    <3>2. AsByte(e, c) = repeat - 1
      BY <3>1 DEF AsByte
    <3>3. QED
      BY ONLY <3>2, repeat \in 1..256
  <2>2. Clamped(repeat, m - Len(rows)) = repeat
    BY <1>1, <1>11 DEF Clamped
  <2>3. Len(e) + 1 # Short
    BY <1>1 DEF Short
  <2> DEFINE decoded == DecodeRow(e, s.next + 1, n, z)
             copies  == Copies(decoded.row, Clamped(AsByte(e, s.next) + 1, m - Len(s.rows)))
  <2>4. LineAhead(e, m, n, z, s) =
          [next |-> decoded.next, rows |-> IF decoded.next = Short THEN s.rows ELSE s.rows \o copies]
    BY Zenon DEF LineAhead
  <2>5. decoded = [next |-> Len(e) + 1, row |-> row]
    BY <1>8, <1>9
  <2> HIDE DEF decoded
  <2>6. copies = Copies(row, repeat)
    BY <1>9, <2>1, <2>2, <2>5
  <2> HIDE DEF copies
  <2>7. QED
    BY <1>9, <2>3, <2>4, <2>5, <2>6 DEF more
<1>15. ReadPage(fmt, e, p, h, j + 1) = [next |-> Len(e) + 1, rows |-> more]
  BY <1>10, <1>13, <1>14
<1>16. AtLine(fmt, e, p, h, more, NoLine)
  <2>1. j + 1 \in 0..Len(more) /\ Len(e) + 1 \in 1..(Len(e) + 1)
    BY <1>1, <1>3, <1>6
  <2>2. QED
    BY <1>15, <2>1 DEF AtLine
<1>17. AtHeader(fmt, e, qs, b) /\ Last(qs).header = h /\ Last(qs).rows = more
  <2>1. Last(qs).header = h /\ Last(qs).rows = more
    BY <1>4
  <2>2. QED
    BY <1>4, <1>5, <2>1 DEF AtHeader, h
<1>18. QED
  BY <1>16, <1>17 DEF AtPage, qs, p

LEMMA LineFactsOf ==
  ASSUME NEW d, NEW ps, NEW l, Encoded(d, ps, l), l # NoLine
  PROVE  /\ ps # <<>> /\ l \in LineStarts /\ l.repeat \in 1..256 /\ l.row \in Seq(Colored)
         /\ Len(l.row) < ColorsPerRow(Last(ps).header)
         /\ Len(Last(ps).rows) + l.repeat <= Last(ps).header.height
<1>1. /\ l \in LineStarts /\ l.repeat > 0 /\ Len(l.row) < ColorsPerRow(Last(ps).header)
      /\ Len(Last(ps).rows) + l.repeat <= Last(ps).header.height
      /\ ps # <<>>
  BY DEF Encoded
<1>2. l.repeat \in 0..256 /\ l.row \in Seq(Colored)
  BY <1>1 DEF LineStarts
<1> DEFINE n == l.repeat
<1>3. n \in 0..256 /\ n > 0
  BY <1>1, <1>2
<1> HIDE DEF n
<1>4. n \in 1..256
  BY ONLY <1>3
<1>5. QED
  BY <1>1, <1>2, <1>4 DEF n

\* The row after a run.
LEMMA LongerRow ==
  ASSUME NEW h \in PageHeaders, WellFormed(h), NEW l \in LineStarts, NEW values, NEW bytes,
         RunFits(h, l, values, bytes)
  PROVE  /\ l.row \o values \in Seq(Colored) /\ Len(l.row \o values) \in Nat
         /\ Len(l.row \o values) <= ColorsPerRow(h)
<1>1. /\ l.row \in Seq(Colored) /\ values \in Seq(Colored)
      /\ Len(l.row) + Len(values) <= ColorsPerRow(h)
  BY DEF RunFits, LineStarts
<1> DEFINE r == l.row
<1>2. r \in Seq(Colored) /\ values \in Seq(Colored)
  BY <1>1
<1> HIDE DEF r
<1>3. r \o values \in Seq(Colored) /\ Len(r \o values) = Len(r) + Len(values)
      /\ Len(r \o values) \in Nat
  BY ONLY <1>2
<1>4. QED
  BY <1>1, <1>3 DEF r

LEMMA RunEncoded ==
  ASSUME NEW d, NEW ps, NEW l, Encoded(d, ps, l), l # NoLine, NEW values, NEW bytes,
         RunFits(Last(ps).header, l, values, bytes), NEW row, row = l.row \o values,
         Len(row) # ColorsPerRow(Last(ps).header)
  PROVE  /\ Encoded(d \o bytes, ps, [l EXCEPT !.row = row])
         /\ [l EXCEPT !.row = row] # NoLine
         /\ [l EXCEPT !.row = row].repeat = l.repeat /\ [l EXCEPT !.row = row].row = row
<1> DEFINE e == d \o bytes
           m == [l EXCEPT !.row = row]
           h == Last(ps).header
<1>1. /\ ps # <<>> /\ l \in LineStarts /\ l.repeat \in 1..256
      /\ Len(Last(ps).rows) + l.repeat <= h.height
  BY LineFactsOf
<1>2. /\ d \in Documents /\ ps \in Seq(Page) /\ Len(d) \in Nat /\ Len(ps) \in Nat
      /\ Len(ps) <= Len(d) /\ Len(ps) <= MaxPages /\ h \in PageHeaders /\ WellFormed(h)
  BY <1>1, LastPageFacts
<1>3. bytes \in Seq(0..255)
  BY DEF RunFits
<1>4. e \in Documents /\ Len(e) = Len(d) + Len(bytes) /\ Len(bytes) \in Nat
  BY <1>2, <1>3, BytesAdded
<1>5. row \in Seq(Colored) /\ Len(row) \in Nat /\ Len(row) <= ColorsPerRow(h)
  BY <1>1, <1>2, LongerRow
<1>6. ColorsPerRow(h) \in Nat
  BY <1>2, GeometryFacts
<1>7. Len(row) < ColorsPerRow(h)
  <2> DEFINE n == ColorsPerRow(h)
             k == Len(row)
  <2>1. k \in Nat /\ n \in Nat /\ k <= n /\ k # n
    BY <1>5, <1>6
  <2> HIDE DEF n, k
  <2>2. k < n
    BY ONLY <2>1
  <2>3. QED
    BY <2>2 DEF n, k
<1>8. m.repeat = l.repeat /\ m.row = row /\ m \in LineStarts
  BY <1>1, <1>5 DEF LineStarts
<1>9. l.repeat > 0
  BY Zenon DEF Encoded
<1>10. m # NoLine
  BY <1>8, <1>9 DEF NoLine
<1>11. \A k \in 1..Len(ps) : WellFormed(ps[k].header) /\ Len(ps[k].rows) <= ps[k].header.height
  BY DEF Encoded
<1>12. Len(ps) <= Len(e)
  BY <1>2, <1>4
<1>13. /\ m.repeat > 0 /\ Len(m.row) < ColorsPerRow(h)
       /\ Len(Last(ps).rows) + m.repeat <= h.height
  BY <1>1, <1>7, <1>8, <1>9
<1> HIDE DEF e, m, h
<1>14. Encoded(e, ps, m)
  BY <1>1, <1>2, <1>4, <1>8, <1>11, <1>12, <1>13 DEF Encoded, h
<1>15. QED
  BY <1>8, <1>10, <1>14 DEF e, m

LEMMA GrownEncoded ==
  ASSUME NEW d, NEW ps, NEW l, Encoded(d, ps, l), l # NoLine, NEW bytes \in Seq(0..255),
         NEW row \in Seq(Colored)
  PROVE  Encoded(d \o bytes, Grown(ps, row, l.repeat), NoLine)
<1> DEFINE e == d \o bytes
           h == Last(ps).header
           rows == Last(ps).rows
           n == l.repeat
           more == rows \o Copies(row, n)
           qs == Grown(ps, row, n)
           new == [header |-> h, rows |-> more]
<1>1. /\ ps # <<>> /\ n \in 1..256 /\ Len(rows) + n <= h.height
  BY LineFactsOf
<1>2. /\ d \in Documents /\ ps \in Seq(Page) /\ Len(d) \in Nat /\ Len(ps) \in Nat \ {0}
      /\ Len(ps) <= Len(d) /\ Len(ps) <= MaxPages /\ h \in PageHeaders /\ WellFormed(h)
      /\ rows \in Rows
  BY <1>1, LastPageFacts
<1>3. e \in Documents /\ Len(e) = Len(d) + Len(bytes) /\ Len(bytes) \in Nat
  BY <1>2, BytesAdded
<1>4. more \in Rows /\ Len(more) = Len(rows) + n
  <2> HIDE DEF n, rows
  <2>1. n \in Nat
    BY <1>1
  <2> DEFINE cs == Copies(row, n)
  <2>2. cs \in Seq(Seq(Colored)) /\ Len(cs) = n
    BY <2>1, CopiesType
  <2> HIDE DEF cs
  <2>3. rows \in Seq(Seq(Colored)) /\ cs \in Seq(Seq(Colored))
    BY <1>2, <2>2 DEF Rows
  <2>4. rows \o cs \in Seq(Seq(Colored)) /\ Len(rows \o cs) = Len(rows) + Len(cs)
    BY ONLY <2>3
  <2>5. QED
    BY <2>2, <2>4 DEF Rows, cs
<1>5. /\ qs \in Seq(Page) /\ Len(qs) = Len(ps) /\ qs # <<>> /\ qs[Len(ps)] = new
      /\ \A k \in 1..(Len(ps) - 1) : qs[k] = ps[k]
  BY <1>1, <1>2, <1>4, LastReplaced DEF Grown
<1>6. WellFormed(new.header) /\ Len(new.rows) <= new.header.height
  BY <1>1, <1>2, <1>4
<1>7. \A k \in 1..Len(ps) : WellFormed(ps[k].header) /\ Len(ps[k].rows) <= ps[k].header.height
  BY DEF Encoded
<1> HIDE DEF e, h, rows, n, more, qs, new
<1>8. ASSUME NEW k \in 1..Len(qs)
      PROVE  WellFormed(qs[k].header) /\ Len(qs[k].rows) <= qs[k].header.height
  <2>1. CASE k = Len(ps)
    BY <1>5, <1>6, <2>1
  <2>2. CASE k # Len(ps)
    <3>1. k \in 1..(Len(ps) - 1) /\ k \in 1..Len(ps)
      BY <1>2, <1>5, <2>2
    <3>2. qs[k] = ps[k]
      BY <1>5, <3>1
    <3>3. QED
      BY <1>7, <3>1, <3>2
  <2>3. QED
    BY <2>1, <2>2
<1>9. NoLine \in LineStarts
  BY DEF NoLine, LineStarts
<1>10. Len(qs) <= Len(e) /\ Len(qs) <= MaxPages
  BY <1>2, <1>3, <1>5, RasterAssumption
<1>11. QED
  BY <1>3, <1>5, <1>8, <1>9, <1>10 DEF Encoded, e, qs, n

(***************************************************************************)
(* The client's steps.                                                     *)
(***************************************************************************)
LEMMA StartPageIs ==
  ASSUME NEW k \in DOMAIN Headers, StartPage(k)
  PROVE  /\ ~ Unfinished /\ Len(pages) < MaxPages
         /\ doc' = doc \o HeaderBytes(k) /\ pages' = Append(pages, StartedPage(k))
         /\ UNCHANGED <<format, encoding, line>>
BY Zenon DEF StartPage, HeaderBytes, StartedPage

LEMMA StartLineIs ==
  ASSUME NEW repeat \in Repeats, StartLine(repeat)
  PROVE  /\ Unfinished /\ line = NoLine /\ pages # <<>> /\ repeat \in 1..256
         /\ Len(Last(pages).rows) + repeat <= Last(pages).header.height
         /\ doc' = Append(doc, repeat - 1) /\ line' = StartedLine(repeat)
         /\ UNCHANGED <<format, encoding, pages>>
<1>1. repeat \in 1..256
  BY RasterAssumption
<1>2. QED
  BY <1>1 DEF StartLine, Unfinished, StartedLine

EncodesRun(h, values, bytes) ==
  LET row == line.row \o values IN
  /\ RunFits(h, line, values, bytes)
  /\ encoding = "decode" => DecodeBytes(bytes, values, ColorSize(h))
  /\ encoding = "info" => InfoBytes(bytes, Len(values), ColorSize(h))
  /\ doc' = doc \o bytes
  /\ Len(row) = ColorsPerRow(h) =>
       line' = NoLine /\ pages' = Grown(pages, row, line.repeat)
  /\ Len(row) # ColorsPerRow(h) =>
       line' = [line EXCEPT !.row = row] /\ pages' = pages
  /\ UNCHANGED <<format, encoding>>

LEMMA EncodeRowIs ==
  ASSUME Client, EncodeRow
  PROVE  line # NoLine /\ \E values, bytes : EncodesRun(Last(pages).header, values, bytes)
<1> DEFINE h == Last(pages).header
<1>1. line # NoLine /\ \E n \in 1..MaxRun :
        /\ n <= ColorsPerRow(h) - Len(line.row)
        /\ \E values \in [1..n -> Colors(h)] : EncodeRun(values)
  BY Zenon DEF EncodeRow
<1>2. PICK n \in 1..MaxRun :
        /\ n <= ColorsPerRow(h) - Len(line.row)
        /\ \E values \in [1..n -> Colors(h)] : EncodeRun(values)
  BY <1>1
<1>3. PICK values \in [1..n -> Colors(h)] : EncodeRun(values)
  BY <1>2
<1> DEFINE row == line.row \o values
<1>4. PICK bytes \in RunBytes(values) : doc' = doc \o bytes
  BY <1>3, Zenon DEF EncodeRun
<1>5. Encoded(doc, pages, line)
  BY DEF Client
<1>6. pages # <<>> /\ line \in LineStarts
  BY <1>1, <1>5, LineFactsOf
<1>7. pages \in Seq(Page) /\ h \in PageHeaders /\ WellFormed(h) /\ Last(pages) = pages[Len(pages)]
      /\ Len(pages) \in Nat \ {0}
  BY <1>5, <1>6, LastPageFacts
<1>8. /\ values \in Seq(Colored) /\ Len(values) = n
      /\ encoding = "decode" => DecodeBytes(bytes, values, ColorSize(h))
      /\ encoding = "info" => InfoBytes(bytes, n, ColorSize(h))
  <2> HIDE DEF h
  <2>1. QED
    BY <1>7, RunWritten
<1>9. encoding \in {"decode", "info"}
  BY DEF Client
<1>10. RunFits(h, line, values, bytes)
  <2>1. bytes \in Seq(0..255)
    BY <1>8, <1>9 DEF DecodeBytes, InfoBytes
  <2>2. n \in 1..128
    BY DEF MaxRun
  <2>3. \A k \in 1..n : Len(values[k]) = ColorSize(h)
    <3>1. ASSUME NEW k \in 1..n
          PROVE  Len(values[k]) = ColorSize(h)
      <4>1. values[k] \in Colors(h)
        OBVIOUS
      <4> HIDE DEF h
      <4>2. QED
        BY <1>7, <4>1, ColorsType
    <3>2. QED
      BY <3>1
  <2>4. Len(line.row) + n <= ColorsPerRow(h)
    <3> DEFINE m == ColorsPerRow(h)
               k == Len(line.row)
    <3>1. m \in Nat
      <4> HIDE DEF h
      <4>1. QED
        BY <1>7, GeometryFacts
    <3>2. k \in Nat
      BY <1>6 DEF LineStarts
    <3>3. n <= m - k
      BY <1>2
    <3> HIDE DEF m, k
    <3>4. k + n <= m
      BY <2>2, <3>1, <3>2, <3>3
    <3>5. QED
      BY <3>4 DEF m, k
  <2> HIDE DEF h
  <2>5. QED
    BY <1>8, <2>1, <2>2, <2>3, <2>4 DEF RunFits
<1>11. /\ line' = IF Len(row) = ColorsPerRow(h) THEN NoLine ELSE [line EXCEPT !.row = row]
       /\ pages' = IF Len(row) = ColorsPerRow(h)
                   THEN [pages EXCEPT ![Len(pages)].rows = @ \o [k \in 1..line.repeat |-> row]]
                   ELSE pages
       /\ UNCHANGED <<format, encoding>>
  BY <1>3, Zenon DEF EncodeRun
<1>12. [pages EXCEPT ![Len(pages)].rows = @ \o [k \in 1..line.repeat |-> row]] =
         Grown(pages, row, line.repeat)
  <2>1. pages[Len(pages)].rows = Last(pages).rows
    BY <1>7
  <2>2. QED
    BY <2>1 DEF Grown, Copies
<1> HIDE DEF h, row
<1>13. EncodesRun(h, values, bytes)
  BY <1>4, <1>8, <1>10, <1>11, <1>12 DEF EncodesRun, row
<1>14. QED
  BY <1>1, <1>13 DEF h

LEMMA ClientStarts ==
  ASSUME Init
  PROVE  Client /\ DecodedSoFar
<1>1. Len(<<>>) = 0 /\ NoLine \in LineStarts /\ MaxPages \in Nat
  BY RasterAssumption DEF NoLine, LineStarts
<1>2. Encoded(<<>>, <<>>, NoLine)
  BY <1>1 DEF Encoded, Documents
<1>3. QED
  BY <1>2 DEF Init, Client, Formats, DecodedSoFar

LEMMA FinishedOrNot ==
  pages # <<>> /\ ~ Unfinished => ~ (Len(Last(pages).rows) < Last(pages).header.height)
BY DEF Unfinished

\* A document is only started anew, or between two lines.
LEMMA PageBetweenLines ==
  ASSUME Client, ~ Unfinished
  PROVE  line = NoLine
<1>1. SUFFICES ASSUME line # NoLine
               PROVE  FALSE
  OBVIOUS
<1>2. Encoded(doc, pages, line)
  BY DEF Client
<1>3. pages # <<>> /\ line.repeat \in 1..256
      /\ Len(Last(pages).rows) + line.repeat <= Last(pages).header.height
  BY <1>1, <1>2, LineFactsOf
<1>4. Len(Last(pages).rows) \in Nat /\ Last(pages).header.height \in Nat
  BY <1>2, <1>3, LastPageFacts
<1> DEFINE n == line.repeat
           k == Len(Last(pages).rows)
           m == Last(pages).header.height
<1>5. n \in 1..256 /\ k \in Nat /\ m \in Nat /\ k + n <= m /\ ~ (k < m)
  BY <1>3, <1>4, FinishedOrNot
<1> HIDE DEF n, k, m
<1>6. QED
  BY ONLY <1>5

LEMMA ClientContinues ==
  ASSUME Client, [Next]_vars
  PROVE  Client'
<1>1. /\ format \in Formats /\ encoding \in {"decode", "info"} /\ Encoded(doc, pages, line)
  BY DEF Client
<1>2. ASSUME NEW k \in DOMAIN Headers, StartPage(k)
      PROVE  Client'
  <2>1. /\ ~ Unfinished /\ Len(pages) < MaxPages
        /\ doc' = doc \o HeaderBytes(k) /\ pages' = Append(pages, StartedPage(k))
        /\ UNCHANGED <<format, encoding, line>>
    BY <1>2, StartPageIs
  <2>2. line = NoLine
    BY <2>1, PageBetweenLines
  <2>3. Encoded(doc \o HeaderBytes(k), Append(pages, StartedPage(k)), NoLine)
    BY <1>1, <2>1, <2>2, PageEncoded
  <2>4. QED
    BY <1>1, <2>1, <2>2, <2>3 DEF Client
<1>3. ASSUME NEW repeat \in Repeats, StartLine(repeat)
      PROVE  Client'
  <2>1. /\ Unfinished /\ line = NoLine /\ pages # <<>> /\ repeat \in 1..256
        /\ Len(Last(pages).rows) + repeat <= Last(pages).header.height
        /\ doc' = Append(doc, repeat - 1) /\ line' = StartedLine(repeat)
        /\ UNCHANGED <<format, encoding, pages>>
    BY <1>3, StartLineIs
  <2>2. Encoded(doc, pages, NoLine)
    BY <1>1, <2>1
  <2>3. Encoded(Append(doc, repeat - 1), pages, StartedLine(repeat))
    BY <2>1, <2>2, LineEncoded
  <2>4. QED
    BY <1>1, <2>1, <2>3 DEF Client
<1>4. CASE EncodeRow
  <2> DEFINE h == Last(pages).header
  <2>1. line # NoLine /\ \E values, bytes : EncodesRun(h, values, bytes)
    BY <1>4, EncodeRowIs
  <2>2. PICK values, bytes : EncodesRun(h, values, bytes)
    BY <2>1
  <2> DEFINE row == line.row \o values
  <2>3. /\ RunFits(h, line, values, bytes) /\ doc' = doc \o bytes
        /\ Len(row) = ColorsPerRow(h) =>
             line' = NoLine /\ pages' = Grown(pages, row, line.repeat)
        /\ Len(row) # ColorsPerRow(h) =>
             line' = [line EXCEPT !.row = row] /\ pages' = pages
        /\ UNCHANGED <<format, encoding>>
    BY <2>2, Zenon DEF EncodesRun
  <2>4. CASE Len(row) # ColorsPerRow(h)
    <3>1. Encoded(doc \o bytes, pages, [line EXCEPT !.row = row])
      BY <1>1, <2>1, <2>3, <2>4, RunEncoded
    <3> HIDE DEF row, h
    <3>2. QED
      BY <1>1, <2>3, <2>4, <3>1 DEF Client
  <2>5. CASE Len(row) = ColorsPerRow(h)
    <3>1. bytes \in Seq(0..255)
      BY <2>3 DEF RunFits
    <3>2. line \in LineStarts /\ pages # <<>>
      BY <1>1, <2>1, LineFactsOf
    <3>3. h \in PageHeaders /\ WellFormed(h)
      BY <1>1, <3>2, LastPageFacts
    <3>4. row \in Seq(Colored)
      <4> HIDE DEF h
      <4>1. QED
        BY <2>3, <3>2, <3>3, LongerRow
    <3> HIDE DEF row, h
    <3>5. Encoded(doc \o bytes, Grown(pages, row, line.repeat), NoLine)
      BY <1>1, <2>1, <3>1, <3>4, GrownEncoded
    <3>6. QED
      BY <1>1, <2>3, <2>5, <3>5 DEF Client
  <2>6. QED
    BY <2>4, <2>5
<1>5. CASE UNCHANGED vars
  BY <1>5 DEF vars, Client
<1>6. QED
  BY <1>2, <1>3, <1>4, <1>5 DEF Next

LEMMA DecodingContinues ==
  ASSUME Client, DecodedSoFar, [Next]_vars
  PROVE  DecodedSoFar'
<1>1. /\ format \in Formats /\ encoding \in {"decode", "info"} /\ Encoded(doc, pages, line)
      /\ format' = format /\ encoding' = encoding
  BY DEF Client, Next, vars, StartPage, StartLine, EncodeRow, EncodeRun
<1>2. SUFFICES ASSUME encoding = "decode"
               PROVE  AtPage(format, doc', pages', line') \/ pages' = <<>>
  BY <1>1 DEF DecodedSoFar
<1>3. pages # <<>> => AtPage(format, doc, pages, line)
  BY <1>2 DEF DecodedSoFar
<1>4. ASSUME NEW k \in DOMAIN Headers, StartPage(k)
      PROVE  AtPage(format, doc', pages', line')
  <2>1. /\ ~ Unfinished
        /\ doc' = doc \o HeaderBytes(k) /\ pages' = Append(pages, StartedPage(k))
        /\ line' = line
    BY <1>4, StartPageIs
  <2>2. line = NoLine
    BY <2>1, PageBetweenLines
  <2>3. pages # <<>> => /\ AtPage(format, doc, pages, NoLine)
                        /\ ~ (Len(Last(pages).rows) < Last(pages).header.height)
    BY <1>3, <2>1, <2>2, FinishedOrNot
  <2>4. AtPage(format, doc \o HeaderBytes(k), Append(pages, StartedPage(k)), NoLine)
    BY <1>1, <2>2, <2>3, PageStarted
  <2>5. QED
    BY <2>1, <2>2, <2>4
<1>5. ASSUME NEW repeat \in Repeats, StartLine(repeat)
      PROVE  AtPage(format, doc', pages', line')
  <2>1. /\ line = NoLine /\ pages # <<>> /\ repeat \in 1..256
        /\ doc' = Append(doc, repeat - 1) /\ line' = StartedLine(repeat) /\ pages' = pages
    BY <1>5, StartLineIs
  <2>2. Encoded(doc, pages, NoLine) /\ AtPage(format, doc, pages, NoLine)
    BY <1>1, <1>3, <2>1
  <2>3. AtPage(format, Append(doc, repeat - 1), pages, StartedLine(repeat))
    BY <1>1, <2>1, <2>2, LineStarted
  <2>4. QED
    BY <2>1, <2>3
<1>6. ASSUME EncodeRow
      PROVE  AtPage(format, doc', pages', line')
  <2> DEFINE h == Last(pages).header
  <2>1. line # NoLine /\ \E values, bytes : EncodesRun(h, values, bytes)
    BY <1>6, EncodeRowIs
  <2>2. PICK values, bytes : EncodesRun(h, values, bytes)
    BY <2>1
  <2> DEFINE row == line.row \o values
             e == doc \o bytes
  <2>3. /\ RunFits(h, line, values, bytes) /\ doc' = doc \o bytes
        /\ DecodeBytes(bytes, values, ColorSize(h))
        /\ Len(row) = ColorsPerRow(h) =>
             line' = NoLine /\ pages' = Grown(pages, row, line.repeat)
        /\ Len(row) # ColorsPerRow(h) =>
             line' = [line EXCEPT !.row = row] /\ pages' = pages
    BY <1>2, <2>2, Zenon DEF EncodesRun
  <2>4. /\ pages # <<>> /\ line \in LineStarts /\ line.repeat \in 1..256
        /\ Len(Last(pages).rows) + line.repeat <= h.height
    BY <1>1, <2>1, LineFactsOf
  <2>5. /\ doc \in Documents /\ pages \in Seq(Page) /\ h \in PageHeaders /\ WellFormed(h)
    BY <1>1, <2>4, LastPageFacts
  <2>6. RunAt(format, e, pages, line, row)
    BY <1>1, <1>3, <2>1, <2>3, <2>4, RunAdded
  <2>7. e \in Documents
    <3>1. bytes \in Seq(0..255)
      BY <2>3 DEF RunFits
    <3>2. QED
      BY <2>5, <3>1, BytesAdded
  <2>8. CASE Len(row) # ColorsPerRow(h)
    <3> DEFINE m == [line EXCEPT !.row = row]
    <3>0. m.repeat = line.repeat /\ m.row = row
      BY <2>4 DEF LineStarts
    <3> HIDE DEF m
    <3>1. m # NoLine /\ m.repeat = line.repeat /\ m.row = row
      <4>1. NoLine.repeat = 0
        BY DEF NoLine
      <4> DEFINE n == line.repeat
      <4>2. n \in 1..256
        BY <2>4
      <4> HIDE DEF n
      <4>3. n # 0
        BY ONLY <4>2
      <4>4. m.repeat # NoLine.repeat
        BY <3>0, <4>1, <4>3 DEF n
      <4>5. QED
        BY <3>0, <4>4
    <3> HIDE DEF m, row, e
    <3>2. AtPage(format, e, pages, m)
      BY <2>6, <2>7, <3>1, RowContinued
    <3>3. QED
      BY <2>3, <2>8, <3>2 DEF m, e
  <2>9. CASE Len(row) = ColorsPerRow(h)
    <3>1. row \in Seq(Colored)
      <4> HIDE DEF h
      <4>1. QED
        BY <2>3, <2>4, <2>5, LongerRow
    <3> HIDE DEF row, e
    <3>2. AtPage(format, e, Grown(pages, row, line.repeat), NoLine)
      BY <1>1, <2>4, <2>5, <2>6, <2>7, <2>9, <3>1, LineEnded
    <3>3. QED
      BY <2>3, <2>9, <3>2 DEF e
  <2>10. QED
    BY <2>8, <2>9
<1>7. CASE UNCHANGED vars
  BY <1>3, <1>7 DEF vars
<1>8. QED
  BY <1>4, <1>5, <1>6, <1>7 DEF Next

LEMMA ClientInvariant == Spec => [](Client /\ DecodedSoFar)
<1>1. Init => Client /\ DecodedSoFar
  BY ClientStarts
<1>2. Client /\ DecodedSoFar /\ [Next]_vars => (Client /\ DecodedSoFar)'
  BY ClientContinues, DecodingContinues
<1>3. QED
  BY <1>1, <1>2, PTL DEF Spec

\* raster-decode.ts decodes what was encoded for it, whatever runs, repeated
\* lines and page boundaries the client chose, as far as it has come.
THEOREM DecodedAsEncoded == Spec => []DecodesWhatWasEncoded
<1>1. Client /\ DecodedSoFar => DecodesWhatWasEncoded
  <2> DEFINE full == [k \in 1..Len(pages) |->
                       [header |-> pages[k].header,
                        rows |-> Padded(pages[k].rows, pages[k].header.height)]]
  <2>1. SUFFICES ASSUME Client, DecodedSoFar, encoding = "decode"
                 PROVE  DecodeRasterPages(format, doc) = full
    BY DEF DecodesWhatWasEncoded
  <2>2. format \in Formats /\ Encoded(doc, pages, line) /\ doc \in Documents
    BY <2>1 DEF Client, Encoded
  <2>3. pages # <<>> => AtPage(format, doc, pages, line)
    BY <2>1 DEF DecodedSoFar
  <2>4. WrittenPages(format, doc) = pages
    BY <2>2, <2>3, DecodedIsEncoded
  <2>5. \A k \in 1..Len(pages) : FullPage(pages[k]) = full[k]
    <3>1. ASSUME NEW k \in 1..Len(pages)
          PROVE  FullPage(pages[k]) = full[k]
      <4>1. ~ (pages[k].header.width = 0 \/ pages[k].header.height = 0)
        <5>1. WellFormed(pages[k].header)
          BY <2>2 DEF Encoded
        <5>2. QED
          BY <5>1 DEF WellFormed
      <4>2. FullPage(pages[k]) = [header |-> pages[k].header,
                                  rows |-> Padded(pages[k].rows, pages[k].header.height)]
        BY <4>1, Zenon DEF FullPage
      <4>3. QED
        BY <4>2
    <3>2. QED
      BY <3>1
  <2>6. FullPages(pages) = full
    BY <2>5, Zenon DEF FullPages
  <2>7. QED
    BY <2>2, <2>4, <2>6, PagesAreFull
<1>2. QED
  BY <1>1, ClientInvariant, PTL

\* Of a document cut off anywhere every decoded page has its full size and up to
\* some row the rows the whole document has there, blank ones after it, and only
\* the last page loses any.
THEOREM DamageStaysLocal == Spec => []DamageIsLocal
<1>1. Client => DamageIsLocal
  <2>1. ASSUME Client
        PROVE  format \in Formats /\ doc \in Documents
    BY <2>1 DEF Client, Encoded
  <2>2. QED
    BY <2>1, DamageLocal
<1>2. QED
  BY <1>1, ClientInvariant, PTL

(***************************************************************************)
(* A row of raster-info.ts: runs are skipped.                              *)
(***************************************************************************)
\* Where a run behind a control byte at p ends.
SkipEnd(control, p, size) == p + 1 + size * (IF control <= 127 THEN 1 ELSE RunOf(control))

SkipAhead(d, g, s) ==
  LET control == AsByte(d, s.next)
      after   == SkipEnd(control, s.next, g.groupBytes)
  IN  [next |-> IF after > Len(d) + 1 THEN Short ELSE after, left |-> s.left - RunOf(control)]

SkipDone(s) == s.next = Short \/ s.left <= 0

LEMMA SkipRunIs ==
  ASSUME NEW d, NEW g, NEW s \in SkipStates
  PROVE  /\ SkipDone(s) => SkipRun(d, g)[s] = s
         /\ ~ SkipDone(s) /\ BeyondEnd(d, s) => SkipRun(d, g)[s] = OutOfData(s)
         /\ ~ SkipDone(s) /\ ~ BeyondEnd(d, s) => SkipRun(d, g)[s] = SkipAhead(d, g, s)
<1>1. ~ SkipDone(s) /\ ~ BeyondEnd(d, s) =>
        SkipRun(d, g)[s] =
          LET control == AsByte(d, s.next)
              run     == IF control <= 127 THEN control + 1 ELSE 257 - control
              values  == IF control <= 127 THEN 1 ELSE run
              after   == s.next + 1 + g.groupBytes * values
          IN  [next |-> IF after > Len(d) + 1 THEN Short ELSE after, left |-> s.left - run]
  BY Zenon DEF SkipRun, SkipDone, BeyondEnd
<1>2. /\ SkipDone(s) => SkipRun(d, g)[s] = s
      /\ ~ SkipDone(s) /\ BeyondEnd(d, s) => SkipRun(d, g)[s] = OutOfData(s)
  BY Zenon DEF SkipRun, SkipDone, BeyondEnd, OutOfData
<1> DEFINE control == AsByte(d, s.next)
           run     == RunOf(control)
           values  == IF control <= 127 THEN 1 ELSE run
           after   == s.next + 1 + g.groupBytes * values
           ahead   == [next |-> IF after > Len(d) + 1 THEN Short ELSE after, left |-> s.left - run]
<1>3. ~ SkipDone(s) /\ ~ BeyondEnd(d, s) => SkipRun(d, g)[s] = ahead
  BY <1>1, Zenon DEF RunOf
<1>4. ahead = SkipAhead(d, g, s)
  BY Zenon DEF SkipAhead, SkipEnd
<1> HIDE DEF ahead
<1>5. QED
  BY ONLY <1>2, <1>3, <1>4

\* A walker that has not come to the end of its data.
SkipFacts(d, s) ==
  /\ s.next \in 1..Len(d) /\ s.next \in Nat /\ s.left \in Int /\ s.left > 0
  /\ AsByte(d, s.next) \in 0..255 /\ Len(d) \in Nat

LEMMA SkipInside ==
  ASSUME NEW d \in Documents, NEW s \in SkipStates, ~ SkipDone(s), ~ BeyondEnd(d, s)
  PROVE  SkipFacts(d, s)
<1>1. s.next \in Nat /\ s.left \in Int /\ Len(d) \in Nat
  BY DEF SkipStates, Documents
<1>2. s.next # 0 /\ ~ (s.next > Len(d)) /\ ~ (s.left <= 0)
  BY Zenon DEF SkipDone, BeyondEnd, Short
<1> DEFINE p == s.next
           n == s.left
<1>3. p \in Nat /\ n \in Int /\ p # 0 /\ ~ (p > Len(d)) /\ ~ (n <= 0)
  BY <1>1, <1>2
<1> HIDE DEF p, n
<1>4. p \in 1..Len(d) /\ n > 0
  BY <1>1, <1>3
<1>5. AsByte(d, p) \in 0..255
  BY <1>4, AsByteType
<1>6. QED
  BY <1>1, <1>4, <1>5 DEF SkipFacts, p, n

LEMMA OutOfDataSkips ==
  ASSUME NEW s \in SkipStates
  PROVE  OutOfData(s) \in SkipStates /\ OutOfData(s).next = Short
BY DEF OutOfData, SkipStates, Short

LEMMA SkipAheadType ==
  ASSUME NEW d, NEW g, g.groupBytes \in Nat, NEW s, SkipFacts(d, s)
  PROVE  SkipAhead(d, g, s) \in SkipStates
<1> DEFINE control == AsByte(d, s.next)
           run     == RunOf(control)
           after   == SkipEnd(control, s.next, g.groupBytes)
           z       == g.groupBytes
<1>1. control \in 0..255 /\ s.next \in Nat /\ s.left \in Int /\ z \in Nat
  BY DEF SkipFacts
<1>2. SkipAhead(d, g, s) =
        [next |-> IF after > Len(d) + 1 THEN Short ELSE after, left |-> s.left - run]
  BY Zenon DEF SkipAhead
<1>3. run \in Nat /\ after \in Nat
  <2> DEFINE p == s.next
  <2>1. p \in Nat
    BY <1>1
  <2> HIDE DEF control, z, p
  <2>2. RunOf(control) \in Nat
    BY <1>1 DEF RunOf
  <2>3. SkipEnd(control, p, z) \in Nat
    BY <1>1, <2>1, <2>2 DEF SkipEnd
  <2>4. QED
    BY <2>2, <2>3 DEF z, p
<1> HIDE DEF run, after, z
<1>4. s.left - run \in Int
  BY <1>1, <1>3
<1>5. (IF after > Len(d) + 1 THEN Short ELSE after) \in Nat
  BY <1>3 DEF Short
<1>6. QED
  BY <1>2, <1>4, <1>5 DEF SkipStates

LEMMA SkipRunType ==
  ASSUME NEW d \in Documents, NEW g, g.groupBytes \in Nat, NEW s \in SkipStates
  PROVE  SkipRun(d, g)[s] \in SkipStates
<1>1. CASE SkipDone(s)
  BY ONLY <1>1, SkipRunIs, s \in SkipStates
<1>2. CASE ~ SkipDone(s) /\ BeyondEnd(d, s)
  BY ONLY <1>2, SkipRunIs, s \in SkipStates, OutOfDataSkips
<1>3. CASE ~ SkipDone(s) /\ ~ BeyondEnd(d, s)
  <2>1. SkipAhead(d, g, s) \in SkipStates
    BY <1>3, SkipInside, SkipAheadType
  <2>2. QED
    BY ONLY <1>3, <2>1, SkipRunIs, s \in SkipStates
<1>4. QED
  BY <1>1, <1>2, <1>3

LEMMA SkipRunKept ==
  ASSUME NEW c \in Documents, NEW d \in Documents, Continues(c, d),
         NEW g, g.groupBytes \in Nat, NEW s \in SkipStates
  PROVE  SkipRun(c, g)[s].next = Short \/ SkipRun(d, g)[s] = SkipRun(c, g)[s]
<1>1. CASE SkipDone(s)
  BY ONLY <1>1, SkipRunIs, s \in SkipStates
<1>2. CASE ~ SkipDone(s) /\ BeyondEnd(c, s)
  BY ONLY <1>2, SkipRunIs, s \in SkipStates, OutOfDataSkips
<1>3. CASE ~ SkipDone(s) /\ ~ BeyondEnd(c, s)
  <2> DEFINE p == s.next
             control == AsByte(c, p)
             z       == g.groupBytes
             after   == SkipEnd(control, p, z)
             m       == Len(c)
             n       == Len(d)
  <2>0. SkipFacts(c, s)
    BY <1>3, SkipInside
  <2>1. p \in 1..m /\ p \in Nat /\ m \in Nat /\ control \in 0..255
    BY <2>0 DEF SkipFacts
  <2>2. n \in Nat /\ m <= n /\ AsByte(d, p) = control
    <3>1. n \in Nat /\ m <= n
      BY DEF Continues, Documents
    <3>2. p \in 1..Len(c)
      BY <2>1
    <3> HIDE DEF p
    <3>3. AsByte(d, p) = AsByte(c, p)
      BY <3>2, ContinuesAt
    <3>4. QED
      BY <3>1, <3>3
  <2>3. ~ BeyondEnd(d, s)
    BY <2>1, <2>2 DEF BeyondEnd
  <2>4. /\ SkipRun(c, g)[s] = SkipAhead(c, g, s)
        /\ SkipRun(d, g)[s] = SkipAhead(d, g, s)
    BY ONLY <1>3, <2>3, SkipRunIs, s \in SkipStates
  <2>5. after \in Nat
    <3>1. z \in Nat
      OBVIOUS
    <3> HIDE DEF control, z, p
    <3>2. RunOf(control) \in Nat
      BY <2>1 DEF RunOf
    <3>3. QED
      BY <2>1, <3>1, <3>2 DEF SkipEnd
  <2>6. /\ SkipAhead(c, g, s) =
             [next |-> IF after > m + 1 THEN Short ELSE after, left |-> s.left - RunOf(control)]
        /\ SkipAhead(d, g, s) =
             [next |-> IF after > n + 1 THEN Short ELSE after, left |-> s.left - RunOf(control)]
    BY <2>2, Zenon DEF SkipAhead
  <2> HIDE DEF p, control, z, after, m, n
  <2>7. after > m + 1 \/ ~ (after > n + 1)
    BY <2>1, <2>2, <2>5
  <2>8. QED
    BY ONLY <2>4, <2>6, <2>7
<1>4. QED
  BY <1>1, <1>2, <1>3

Skipped == {s \in SkipStates : s.next = Short}

SkipRowAfter(d, p, groups, g, k) == Iterate(SkipRun(d, g), [next |-> p, left |-> groups], k)

LEMMA SkipRowRound ==
  ASSUME NEW d \in Documents, NEW p \in Nat, NEW groups \in Nat, NEW g, g.groupBytes \in Nat,
         NEW k \in Nat
  PROVE  /\ SkipRowAfter(d, p, groups, g, 0) = [next |-> p, left |-> groups]
         /\ SkipRowAfter(d, p, groups, g, k) \in SkipStates
         /\ SkipRowAfter(d, p, groups, g, k + 1) = SkipRun(d, g)[SkipRowAfter(d, p, groups, g, k)]
<1> DEFINE u == SkipRun(d, g)
           s == [next |-> p, left |-> groups]
<1>1. \A n : SkipRowAfter(d, p, groups, g, n) = Iterate(u, s, n)
  BY Zenon DEF SkipRowAfter
<1>2. s \in SkipStates
  BY DEF SkipStates
<1>3. \A x \in SkipStates : u[x] \in SkipStates
  BY SkipRunType
<1> HIDE DEF u, s
<1>4. Iterate(u, s, 0) = s /\ Iterate(u, s, k + 1) = u[Iterate(u, s, k)]
  BY ONLY IterateRounds, k \in Nat
<1>5. Iterate(u, s, k) \in SkipStates
  BY ONLY <1>2, <1>3, IterateType, k \in Nat
<1>6. QED
  BY <1>1, <1>4, <1>5 DEF u, s

LEMMA SkipRowKept ==
  ASSUME NEW c \in Documents, NEW d \in Documents, Continues(c, d), NEW p \in Nat,
         NEW groups \in Nat, NEW g, g.groupBytes \in Nat, NEW k \in Nat
  PROVE  \/ SkipRowAfter(c, p, groups, g, k).next = Short
         \/ SkipRowAfter(d, p, groups, g, k) = SkipRowAfter(c, p, groups, g, k)
<1> DEFINE u == SkipRun(c, g)
           v == SkipRun(d, g)
           s == [next |-> p, left |-> groups]
<1>1. /\ SkipRowAfter(c, p, groups, g, k) = Iterate(u, s, k)
      /\ SkipRowAfter(d, p, groups, g, k) = Iterate(v, s, k)
  BY Zenon DEF SkipRowAfter
<1>2. s \in SkipStates
  BY DEF SkipStates
<1>3. \A x \in SkipStates : u[x] \in SkipStates
  BY SkipRunType
<1>4. \A x \in SkipStates : x \in Skipped => u[x] \in Skipped
  <2>1. ASSUME NEW x \in SkipStates, x \in Skipped
        PROVE  u[x] \in Skipped
    <3>1. SkipDone(x)
      BY <2>1 DEF Skipped, SkipDone
    <3>2. u[x] = x
      BY ONLY <3>1, SkipRunIs, x \in SkipStates
    <3>3. QED
      BY <2>1, <3>2
  <2>2. QED
    BY <2>1
<1>5. \A x \in SkipStates : u[x] \in Skipped \/ v[x] = u[x]
  BY <1>3, SkipRunKept DEF Skipped
<1> HIDE DEF u, v, s
<1>6. Iterate(u, s, k) \in Skipped \/ Iterate(v, s, k) = Iterate(u, s, k)
  BY ONLY <1>2, <1>3, <1>4, <1>5, IterateAgrees, k \in Nat
<1>7. QED
  BY <1>1, <1>6 DEF Skipped

\* A row that is skipped after k runs is what SkipRow finds.
LEMMA SkipRowRests ==
  ASSUME NEW d \in Documents, NEW p \in Nat, NEW groups \in Nat, NEW g, g.groupBytes \in Nat,
         NEW k \in Nat, k <= groups, SkipDone(SkipRowAfter(d, p, groups, g, k))
  PROVE  SkipRow(d, p, groups, g) = SkipRowAfter(d, p, groups, g, k).next
<1> DEFINE u == SkipRun(d, g)
           s == [next |-> p, left |-> groups]
           x == SkipRowAfter(d, p, groups, g, k)
<1>1. x \in SkipStates
  BY SkipRowRound
<1>2. u[x] = x
  BY ONLY <1>1, SkipRunIs, SkipDone(x)
<1>3. x = Iterate(u, s, k) /\ SkipRow(d, p, groups, g) = Iterate(u, s, groups).next
  BY Zenon DEF SkipRowAfter, SkipRow
<1> HIDE DEF u, s, x
<1>4. Iterate(u, s, groups) = Iterate(u, s, k)
  BY ONLY <1>2, <1>3, IterateRests, k \in Nat, groups \in Nat, k <= groups
<1>5. QED
  BY <1>3, <1>4 DEF x

LEMMA SkipRowType ==
  ASSUME NEW d \in Documents, NEW p \in Nat, NEW groups \in Nat, NEW g, g.groupBytes \in Nat
  PROVE  SkipRow(d, p, groups, g) \in Nat
<1>1. SkipRow(d, p, groups, g) = SkipRowAfter(d, p, groups, g, groups).next
  BY Zenon DEF SkipRow, SkipRowAfter
<1>2. SkipRowAfter(d, p, groups, g, groups) \in SkipStates
  BY SkipRowRound
<1>3. QED
  BY <1>1, <1>2 DEF SkipStates

LEMMA SkipRowContinues ==
  ASSUME NEW c \in Documents, NEW d \in Documents, Continues(c, d), NEW p \in Nat,
         NEW groups \in Nat, NEW g, g.groupBytes \in Nat
  PROVE  SkipRow(c, p, groups, g) = Short \/ SkipRow(d, p, groups, g) = SkipRow(c, p, groups, g)
<1>1. /\ SkipRow(c, p, groups, g) = SkipRowAfter(c, p, groups, g, groups).next
      /\ SkipRow(d, p, groups, g) = SkipRowAfter(d, p, groups, g, groups).next
  BY Zenon DEF SkipRow, SkipRowAfter
<1>2. QED
  BY <1>1, SkipRowKept

(***************************************************************************)
(* The lines of a page of raster-info.ts.                                  *)
(***************************************************************************)
SkipLineAhead(d, groups, g, s) ==
  [next |-> SkipRow(d, s.next + 1, groups, g), left |-> s.left - (AsByte(d, s.next) + 1)]

LEMMA SkipLineIs ==
  ASSUME NEW d, NEW groups, NEW g, NEW s \in SkipStates
  PROVE  /\ SkipDone(s) => SkipLine(d, groups, g)[s] = s
         /\ ~ SkipDone(s) /\ BeyondEnd(d, s) => SkipLine(d, groups, g)[s] = OutOfData(s)
         /\ ~ SkipDone(s) /\ ~ BeyondEnd(d, s)
              => SkipLine(d, groups, g)[s] = SkipLineAhead(d, groups, g, s)
BY Zenon DEF SkipLine, SkipDone, BeyondEnd, OutOfData, SkipLineAhead

LEMMA SkipLineAheadType ==
  ASSUME NEW d \in Documents, NEW groups \in Nat, NEW g, g.groupBytes \in Nat,
         NEW s, SkipFacts(d, s)
  PROVE  SkipLineAhead(d, groups, g, s) \in SkipStates
<1>1. s.next + 1 \in Nat /\ s.left - (AsByte(d, s.next) + 1) \in Int
  <2> DEFINE a == AsByte(d, s.next)
             n == s.left
             p == s.next
  <2>1. a \in 0..255 /\ n \in Int /\ p \in Nat
    BY DEF SkipFacts
  <2> HIDE DEF a, n, p
  <2>2. p + 1 \in Nat /\ n - (a + 1) \in Int
    BY ONLY <2>1
  <2>3. QED
    BY <2>2 DEF a, n, p
<1>2. SkipRow(d, s.next + 1, groups, g) \in Nat
  <2> DEFINE p == s.next + 1
  <2>1. p \in Nat
    BY <1>1
  <2> HIDE DEF p
  <2>2. SkipRow(d, p, groups, g) \in Nat
    BY <2>1, SkipRowType
  <2>3. QED
    BY <2>2 DEF p
<1>3. QED
  BY <1>1, <1>2 DEF SkipLineAhead, SkipStates

LEMMA SkipLineType ==
  ASSUME NEW d \in Documents, NEW groups \in Nat, NEW g, g.groupBytes \in Nat,
         NEW s \in SkipStates
  PROVE  SkipLine(d, groups, g)[s] \in SkipStates
<1>1. CASE SkipDone(s)
  BY ONLY <1>1, SkipLineIs, s \in SkipStates
<1>2. CASE ~ SkipDone(s) /\ BeyondEnd(d, s)
  BY ONLY <1>2, SkipLineIs, s \in SkipStates, OutOfDataSkips
<1>3. CASE ~ SkipDone(s) /\ ~ BeyondEnd(d, s)
  <2>1. SkipLineAhead(d, groups, g, s) \in SkipStates
    BY <1>3, SkipInside, SkipLineAheadType
  <2>2. QED
    BY ONLY <1>3, <2>1, SkipLineIs, s \in SkipStates
<1>4. QED
  BY <1>1, <1>2, <1>3

LEMMA SkipLineKept ==
  ASSUME NEW c \in Documents, NEW d \in Documents, Continues(c, d),
         NEW groups \in Nat, NEW g, g.groupBytes \in Nat, NEW s \in SkipStates
  PROVE  \/ SkipLine(c, groups, g)[s].next = Short
         \/ SkipLine(d, groups, g)[s] = SkipLine(c, groups, g)[s]
<1>1. CASE SkipDone(s)
  BY ONLY <1>1, SkipLineIs, s \in SkipStates
<1>2. CASE ~ SkipDone(s) /\ BeyondEnd(c, s)
  BY ONLY <1>2, SkipLineIs, s \in SkipStates, OutOfDataSkips
<1>3. CASE ~ SkipDone(s) /\ ~ BeyondEnd(c, s)
  <2> DEFINE p == s.next
             q == s.next + 1
             x == SkipRow(c, q, groups, g)
             y == SkipRow(d, q, groups, g)
  <2>0. SkipFacts(c, s)
    BY <1>3, SkipInside
  <2>1. p \in 1..Len(c) /\ p \in Nat /\ Len(c) \in Nat /\ q \in Nat
    BY <2>0 DEF SkipFacts
  <2>2. Len(d) \in Nat /\ Len(c) <= Len(d)
    BY DEF Continues, Documents
  <2>3. AsByte(d, p) = AsByte(c, p)
    <3> HIDE DEF p
    <3>1. QED
      BY <2>1, ContinuesAt
  <2>4. ~ BeyondEnd(d, s)
    BY <2>1, <2>2 DEF BeyondEnd
  <2>5. /\ SkipLine(c, groups, g)[s] = SkipLineAhead(c, groups, g, s)
        /\ SkipLine(d, groups, g)[s] = SkipLineAhead(d, groups, g, s)
    BY ONLY <1>3, <2>4, SkipLineIs, s \in SkipStates
  <2>6. x = Short \/ y = x
    <3> HIDE DEF q
    <3>1. QED
      BY <2>1, SkipRowContinues
  <2>7. /\ SkipLineAhead(c, groups, g, s) = [next |-> x, left |-> s.left - (AsByte(c, p) + 1)]
        /\ SkipLineAhead(d, groups, g, s) = [next |-> y, left |-> s.left - (AsByte(c, p) + 1)]
    BY <2>3, Zenon DEF SkipLineAhead
  <2> HIDE DEF p, q, x, y
  <2>8. QED
    BY ONLY <2>5, <2>6, <2>7
<1>4. QED
  BY <1>1, <1>2, <1>3

\* The page whose lines begin at p, after k lines.
SkippedAfter(fmt, d, p, h, k) ==
  Iterate(SkipLine(d, ColorsPerRow(h), InfoGeometry(fmt, h)), [next |-> p, left |-> h.height], k)

InfoFacts(fmt, h) ==
  /\ InfoGeometry(fmt, h).groupBytes = ColorSize(h) /\ InfoGeometry(fmt, h).groupBytes \in Nat
  /\ GroupsPerRow(h, InfoGeometry(fmt, h)) = ColorsPerRow(h)
  /\ ColorsPerRow(h) \in Nat \ {0} /\ ColorSize(h) \in Nat /\ h.height \in Nat

LEMMA InfoGeometryIs ==
  ASSUME NEW fmt \in Formats, NEW h \in PageHeaders, WellFormed(h)
  PROVE  InfoFacts(fmt, h)
<1> DEFINE g == InfoGeometry(fmt, h)
<1>1. g \in {InfoGeometry(fmt, h), DecodeGeometry(fmt, h)}
  OBVIOUS
<1> HIDE DEF g
<1>2. /\ g.groupBytes = CeilDiv(h.bitsPerPixel, 8) /\ g.groupBytes \in Nat \ {0}
      /\ GroupsPerRow(h, g) = ColorsPerRow(h) /\ ColorsPerRow(h) \in Nat \ {0}
  BY <1>1, GeometryIs
<1>3. h.height \in Nat
  BY DEF PageHeaders
<1>4. QED
  BY <1>2, <1>3 DEF InfoFacts, g, ColorSize

LEMMA SkippedRound ==
  ASSUME NEW fmt \in Formats, NEW d \in Documents, NEW p \in Nat,
         NEW h \in PageHeaders, WellFormed(h), NEW k \in Nat
  PROVE  /\ SkippedAfter(fmt, d, p, h, 0) = [next |-> p, left |-> h.height]
         /\ SkippedAfter(fmt, d, p, h, k) \in SkipStates
         /\ SkippedAfter(fmt, d, p, h, k + 1) =
              SkipLine(d, ColorsPerRow(h), InfoGeometry(fmt, h))[SkippedAfter(fmt, d, p, h, k)]
<1> DEFINE n == ColorsPerRow(h)
           g == InfoGeometry(fmt, h)
           u == SkipLine(d, n, g)
           s == [next |-> p, left |-> h.height]
<1>1. \A i : SkippedAfter(fmt, d, p, h, i) = Iterate(u, s, i)
  BY Zenon DEF SkippedAfter
<1>2. n \in Nat /\ g.groupBytes \in Nat /\ h.height \in Nat
  BY InfoGeometryIs DEF InfoFacts
<1>3. s \in SkipStates
  BY <1>2 DEF SkipStates
<1> HIDE DEF n, g
<1>4. \A x \in SkipStates : u[x] \in SkipStates
  BY <1>2, SkipLineType
<1> HIDE DEF u, s
<1>5. Iterate(u, s, 0) = s /\ Iterate(u, s, k + 1) = u[Iterate(u, s, k)]
  BY ONLY IterateRounds, k \in Nat
<1>6. Iterate(u, s, k) \in SkipStates
  BY ONLY <1>3, <1>4, IterateType, k \in Nat
<1>7. QED
  BY <1>1, <1>5, <1>6 DEF u, s, n, g

LEMMA SkippedKept ==
  ASSUME NEW fmt \in Formats, NEW c \in Documents, NEW d \in Documents, Continues(c, d),
         NEW p \in Nat, NEW h \in PageHeaders, WellFormed(h), NEW k \in Nat
  PROVE  \/ SkippedAfter(fmt, c, p, h, k).next = Short
         \/ SkippedAfter(fmt, d, p, h, k) = SkippedAfter(fmt, c, p, h, k)
<1> DEFINE n == ColorsPerRow(h)
           g == InfoGeometry(fmt, h)
           u == SkipLine(c, n, g)
           v == SkipLine(d, n, g)
           s == [next |-> p, left |-> h.height]
<1>1. /\ SkippedAfter(fmt, c, p, h, k) = Iterate(u, s, k)
      /\ SkippedAfter(fmt, d, p, h, k) = Iterate(v, s, k)
  BY Zenon DEF SkippedAfter
<1>2. n \in Nat /\ g.groupBytes \in Nat /\ h.height \in Nat
  BY InfoGeometryIs DEF InfoFacts
<1>3. s \in SkipStates
  BY <1>2 DEF SkipStates
<1> HIDE DEF n, g
<1>4. \A x \in SkipStates : u[x] \in SkipStates
  BY <1>2, SkipLineType
<1>5. \A x \in SkipStates : x \in Skipped => u[x] \in Skipped
  <2>1. ASSUME NEW x \in SkipStates, x \in Skipped
        PROVE  u[x] \in Skipped
    <3>1. SkipDone(x)
      BY <2>1 DEF Skipped, SkipDone
    <3>2. u[x] = x
      BY ONLY <3>1, SkipLineIs, x \in SkipStates
    <3>3. QED
      BY <2>1, <3>2
  <2>2. QED
    BY <2>1
<1>6. \A x \in SkipStates : u[x] \in Skipped \/ v[x] = u[x]
  BY <1>2, <1>4, SkipLineKept DEF Skipped
<1> HIDE DEF u, v, s
<1>7. Iterate(u, s, k) \in Skipped \/ Iterate(v, s, k) = Iterate(u, s, k)
  BY ONLY <1>3, <1>4, <1>5, <1>6, IterateAgrees, k \in Nat
<1>8. QED
  BY <1>1, <1>7 DEF Skipped

\* What is skipped of a page.
LEMMA SkipPageIs ==
  ASSUME NEW fmt \in Formats, NEW d, NEW p, NEW h \in PageHeaders
  PROVE  /\ WellFormed(h) =>
              SkipRasterData(fmt, d, p, h) = SkippedAfter(fmt, d, p, h, h.height).next
         /\ h = Garbage => SkipRasterData(fmt, d, p, h) = Short
<1>1. ASSUME WellFormed(h)
      PROVE  SkipRasterData(fmt, d, p, h) = SkippedAfter(fmt, d, p, h, h.height).next
  <2>1. ~ (h.width = 0 \/ h.height = 0)
    BY <1>1 DEF WellFormed, PageHeaders
  <2> DEFINE g == InfoGeometry(fmt, h)
  <2>2. SkipRasterData(fmt, d, p, h) = SkipLines(d, p, h.height, GroupsPerRow(h, g), g)
    BY <2>1, Zenon DEF SkipRasterData
  <2>3. GroupsPerRow(h, g) = ColorsPerRow(h)
    BY <1>1, InfoGeometryIs DEF InfoFacts
  <2> HIDE DEF g
  <2>4. SkipRasterData(fmt, d, p, h) = SkipLines(d, p, h.height, ColorsPerRow(h), g)
    BY <2>2, <2>3
  <2>5. QED
    BY <2>4, Zenon DEF SkipLines, SkippedAfter, g
<1>2. ASSUME h = Garbage
      PROVE  SkipRasterData(fmt, d, p, h) = Short
  <2>1. h.width = 0
    BY <1>2 DEF Garbage
  <2>2. QED
    BY <2>1, Zenon DEF SkipRasterData
<1>3. QED
  BY <1>1, <1>2

LEMMA SkippedRests ==
  ASSUME NEW fmt \in Formats, NEW d \in Documents, NEW p \in Nat,
         NEW h \in PageHeaders, WellFormed(h), NEW k \in Nat, k <= h.height,
         SkipDone(SkippedAfter(fmt, d, p, h, k))
  PROVE  SkipRasterData(fmt, d, p, h) = SkippedAfter(fmt, d, p, h, k).next
<1> DEFINE n == ColorsPerRow(h)
           g == InfoGeometry(fmt, h)
           u == SkipLine(d, n, g)
           s == [next |-> p, left |-> h.height]
           m == h.height
           x == SkippedAfter(fmt, d, p, h, k)
<1>1. x \in SkipStates /\ m \in Nat
  BY SkippedRound DEF PageHeaders
<1>2. u[x] = x
  BY ONLY <1>1, SkipLineIs, SkipDone(x)
<1>3. x = Iterate(u, s, k) /\ SkippedAfter(fmt, d, p, h, m) = Iterate(u, s, m)
  BY Zenon DEF SkippedAfter
<1>4. SkipRasterData(fmt, d, p, h) = SkippedAfter(fmt, d, p, h, m).next
  BY SkipPageIs
<1>5. k <= m
  OBVIOUS
<1> HIDE DEF u, s, x, m
<1>6. Iterate(u, s, m) = Iterate(u, s, k)
  BY ONLY <1>1, <1>2, <1>3, <1>5, IterateRests, k \in Nat
<1>7. QED
  BY <1>3, <1>4, <1>6 DEF x

LEMMA SkipPageType ==
  ASSUME NEW fmt \in Formats, NEW d \in Documents, NEW p \in Nat,
         NEW h \in PageHeaders, h = Garbage \/ WellFormed(h)
  PROVE  SkipRasterData(fmt, d, p, h) \in Nat
<1>1. CASE h = Garbage
  <2>1. SkipRasterData(fmt, d, p, h) = Short
    BY ONLY <1>1, SkipPageIs, fmt \in Formats, h \in PageHeaders
  <2>2. QED
    BY <2>1 DEF Short
<1>2. CASE WellFormed(h)
  <2>1. h.height \in Nat
    BY DEF PageHeaders
  <2>2. SkippedAfter(fmt, d, p, h, h.height) \in SkipStates
    BY <1>2, <2>1, SkippedRound
  <2>3. SkipRasterData(fmt, d, p, h) = SkippedAfter(fmt, d, p, h, h.height).next
    BY ONLY <1>2, SkipPageIs, fmt \in Formats, h \in PageHeaders
  <2>4. QED
    BY <2>2, <2>3 DEF SkipStates
<1>3. QED
  BY <1>1, <1>2

LEMMA SkipPageKept ==
  ASSUME NEW fmt \in Formats, NEW c \in Documents, NEW d \in Documents, Continues(c, d),
         NEW p \in Nat, NEW h \in PageHeaders, h = Garbage \/ WellFormed(h)
  PROVE  \/ SkipRasterData(fmt, c, p, h) = Short
         \/ SkipRasterData(fmt, d, p, h) = SkipRasterData(fmt, c, p, h)
<1>1. CASE h = Garbage
  BY ONLY <1>1, SkipPageIs, fmt \in Formats, h \in PageHeaders
<1>2. CASE WellFormed(h)
  <2>1. h.height \in Nat
    BY DEF PageHeaders
  <2>2. \/ SkippedAfter(fmt, c, p, h, h.height).next = Short
        \/ SkippedAfter(fmt, d, p, h, h.height) = SkippedAfter(fmt, c, p, h, h.height)
    BY <1>2, <2>1, SkippedKept
  <2>3. QED
    BY ONLY <1>2, <2>2, SkipPageIs, fmt \in Formats, h \in PageHeaders
<1>3. QED
  BY <1>1, <1>2

(***************************************************************************)
(* The pages raster-info.ts counts.                                        *)
(***************************************************************************)
CountStates == [next : Nat, pages : Seq(PageHeaders)]

CountAhead(fmt, d, s) ==
  [next |-> SkipRasterData(fmt, d, s.next + HeaderLen, HeaderAt(d, s.next)),
   pages |-> Append(s.pages, HeaderAt(d, s.next))]

LEMMA CountPageIs ==
  ASSUME NEW fmt, NEW d, NEW s \in CountStates
  PROVE  /\ PageDone(fmt, d, s) => CountPage(fmt, d)[s] = s
         /\ ~ PageDone(fmt, d, s) => CountPage(fmt, d)[s] = CountAhead(fmt, d, s)
BY Zenon DEF CountPage, CountStates, PageDone, CountAhead

CountFacts(d, s) ==
  /\ s.next \in 1..Len(d) /\ s.next + HeaderLen \in Nat /\ Len(s.pages) \in Nat
  /\ s.pages \in Seq(PageHeaders) /\ HeaderAt(d, s.next) \in PageHeaders
  /\ HeaderAt(d, s.next) = Garbage \/ WellFormed(HeaderAt(d, s.next))

LEMMA CountInside ==
  ASSUME NEW fmt, NEW d \in Documents, NEW s \in CountStates, ~ PageDone(fmt, d, s)
  PROVE  CountFacts(d, s)
<1>1. s.next \in Nat /\ s.pages \in Seq(PageHeaders) /\ Len(s.pages) \in Nat /\ Len(d) \in Nat
      /\ HeaderLen \in Nat \ {0}
  BY RasterAssumption DEF CountStates, Documents
<1>2. s.next # 0 /\ s.next + HeaderLen <= Len(d) + 1
  BY DEF PageDone, Short, MorePages
<1>3. s.next \in 1..Len(d) /\ s.next + HeaderLen \in Nat
  BY <1>1, <1>2
<1> DEFINE p == s.next
<1>4. p \in 1..Len(d)
  BY <1>3
<1> HIDE DEF p
<1>5. HeaderAt(d, p) \in PageHeaders /\ (HeaderAt(d, p) = Garbage \/ WellFormed(HeaderAt(d, p)))
  BY <1>4, HeaderAtType
<1>6. QED
  BY <1>1, <1>3, <1>5 DEF CountFacts, p

LEMMA CountPageType ==
  ASSUME NEW fmt \in Formats, NEW d \in Documents, NEW s \in CountStates
  PROVE  /\ CountPage(fmt, d)[s] \in CountStates
         /\ Len(CountPage(fmt, d)[s].pages) <= Len(s.pages) + 1
<1>1. CASE PageDone(fmt, d, s)
  <2>1. Len(s.pages) <= Len(s.pages) + 1
    BY DEF CountStates
  <2>2. QED
    BY ONLY <1>1, <2>1, CountPageIs, s \in CountStates
<1>2. CASE ~ PageDone(fmt, d, s)
  <2> DEFINE p == s.next
             h == HeaderAt(d, p)
             q == p + HeaderLen
             n == SkipRasterData(fmt, d, q, h)
             ps == s.pages
  <2>0. CountFacts(d, s)
    BY <1>2, CountInside
  <2>1. q \in Nat /\ ps \in Seq(PageHeaders) /\ h \in PageHeaders /\ (h = Garbage \/ WellFormed(h))
    BY <2>0 DEF CountFacts
  <2>2. CountAhead(fmt, d, s) = [next |-> n, pages |-> Append(ps, h)]
    BY Zenon DEF CountAhead
  <2>3. CountPage(fmt, d)[s] = CountAhead(fmt, d, s)
    BY ONLY <1>2, CountPageIs, s \in CountStates
  <2> HIDE DEF q, h, p, ps
  <2>4. n \in Nat
    BY <2>1, SkipPageType
  <2> HIDE DEF n
  <2>5. Append(ps, h) \in Seq(PageHeaders) /\ Len(Append(ps, h)) = Len(ps) + 1 /\ Len(ps) \in Nat
    BY ONLY <2>1
  <2>6. [next |-> n, pages |-> Append(ps, h)] \in CountStates
    BY <2>4, <2>5 DEF CountStates
  <2>7. Len(CountPage(fmt, d)[s].pages) = Len(ps) + 1
    BY <2>2, <2>3, <2>5
  <2>8. QED
    BY <2>2, <2>3, <2>5, <2>6, <2>7 DEF ps
<1>3. QED
  BY <1>1, <1>2

CountedAfter(fmt, d, k) == Iterate(CountPage(fmt, d), [next |-> 1, pages |-> <<>>], k)

LEMMA CountRounds ==
  ASSUME NEW fmt \in Formats, NEW d \in Documents
  PROVE  /\ CountedAfter(fmt, d, 0) = [next |-> 1, pages |-> <<>>]
         /\ \A k \in Nat : /\ CountedAfter(fmt, d, k) \in CountStates
                           /\ CountedAfter(fmt, d, k + 1) =
                                CountPage(fmt, d)[CountedAfter(fmt, d, k)]
                           /\ Len(CountedAfter(fmt, d, k).pages) <= k
<1> DEFINE u == CountPage(fmt, d)
           s == [next |-> 1, pages |-> <<>>]
           x(k) == Iterate(u, s, k)
           S == {k \in Nat : Len(x(k).pages) <= k}
<1>1. \A z \in CountStates : u[z] \in CountStates /\ Len(u[z].pages) <= Len(z.pages) + 1
  BY CountPageType
<1>2. s \in CountStates /\ Len(s.pages) = 0
  BY DEF CountStates
<1>3. \A k \in Nat : CountedAfter(fmt, d, k) = x(k)
  BY Zenon DEF CountedAfter
<1> HIDE DEF u, s
<1>4. x(0) = s /\ \A k \in Nat : x(k + 1) = u[x(k)]
  BY ONLY IterateRounds
<1>5. \A k \in Nat : x(k) \in CountStates
  BY ONLY <1>1, <1>2, IterateType
<1> HIDE DEF x
<1>6. 0 \in S
  BY <1>2, <1>4
<1>7. ASSUME NEW k \in Nat, k \in S
      PROVE  k + 1 \in S
  <2> DEFINE m == Len(x(k).pages)
             n == Len(x(k + 1).pages)
  <2>1. x(k) \in CountStates /\ x(k + 1) = u[x(k)] /\ x(k + 1) \in CountStates
    BY <1>4, <1>5
  <2>2. n <= m + 1
    BY <1>1, <2>1
  <2>3. m \in Nat /\ n \in Nat
    BY <2>1 DEF CountStates
  <2>4. m <= k
    BY <1>7
  <2> HIDE DEF m, n
  <2>5. n <= k + 1
    BY <2>2, <2>3, <2>4
  <2>6. QED
    BY <2>5 DEF n
<1> HIDE DEF S
<1>8. Nat \subseteq S
  BY <1>6, <1>7, SetInduction
<1>9. \A k \in Nat : Len(x(k).pages) <= k
  BY <1>8 DEF S
<1>10. ASSUME NEW k \in Nat
       PROVE  /\ CountedAfter(fmt, d, k) \in CountStates
              /\ CountedAfter(fmt, d, k + 1) = CountPage(fmt, d)[CountedAfter(fmt, d, k)]
              /\ Len(CountedAfter(fmt, d, k).pages) <= k
  <2>1. k + 1 \in Nat /\ 0 \in Nat
    OBVIOUS
  <2>2. /\ CountedAfter(fmt, d, k) = x(k) /\ CountedAfter(fmt, d, k + 1) = x(k + 1)
        /\ x(k) \in CountStates /\ x(k + 1) = u[x(k)] /\ Len(x(k).pages) <= k
    BY ONLY <1>3, <1>4, <1>5, <1>9, <2>1, k \in Nat
  <2>3. QED
    BY <2>2 DEF u
<1>11. CountedAfter(fmt, d, 0) = s
  BY <1>3, <1>4
<1>12. QED
  BY <1>10, <1>11 DEF s

\* x is counted of a document, y of one that goes on from it: x may have lost
\* the next page, or have run out of pages.
CountedBehind(x, y, k) == x.next = Short \/ Len(x.pages) < k \/ y = x

LEMMA CountBehind ==
  ASSUME NEW fmt \in Formats, NEW d \in Documents, NEW e \in Documents, Continues(d, e),
         NEW k \in Nat, NEW s \in CountStates, Len(s.pages) <= k
  PROVE  CountedBehind(CountPage(fmt, d)[s], CountPage(fmt, e)[s], k + 1)
<1>1. CASE PageDone(fmt, d, s)
  <2>1. CountPage(fmt, d)[s] = s
    BY ONLY <1>1, CountPageIs, s \in CountStates
  <2>2. Len(s.pages) < k + 1
    <3> DEFINE n == Len(s.pages)
    <3>1. n \in Nat /\ n <= k
      BY DEF CountStates
    <3> HIDE DEF n
    <3>2. n < k + 1
      BY <3>1
    <3>3. QED
      BY <3>2 DEF n
  <2>3. QED
    BY <2>1, <2>2 DEF CountedBehind
<1>2. CASE ~ PageDone(fmt, d, s)
  <2> DEFINE p == s.next
             q == p + HeaderLen
             h == HeaderAt(d, p)
             x == SkipRasterData(fmt, d, q, h)
             y == SkipRasterData(fmt, e, q, h)
  <2>0. CountFacts(d, s)
    BY <1>2, CountInside
  <2>1. p \in 1..Len(d) /\ q \in Nat /\ h \in PageHeaders /\ (h = Garbage \/ WellFormed(h))
    BY <2>0 DEF CountFacts
  <2>2. Len(d) \in Nat /\ Len(e) \in Nat /\ Len(d) <= Len(e) /\ e[p] = d[p]
    BY <2>1 DEF Continues, Documents
  <2>3. HeaderAt(e, p) = h
    BY <2>2 DEF HeaderAt
  <2>4. ~ PageDone(fmt, e, s)
    BY <1>2, <2>1, <2>2, RasterAssumption DEF PageDone, MorePages
  <2>5. /\ CountPage(fmt, d)[s] = CountAhead(fmt, d, s)
        /\ CountPage(fmt, e)[s] = CountAhead(fmt, e, s)
    BY ONLY <1>2, <2>4, CountPageIs, s \in CountStates
  <2>6. /\ CountAhead(fmt, d, s) = [next |-> x, pages |-> Append(s.pages, h)]
        /\ CountAhead(fmt, e, s) = [next |-> y, pages |-> Append(s.pages, h)]
    BY <2>3, Zenon DEF CountAhead
  <2>7. x = Short \/ y = x
    <3> HIDE DEF q, h
    <3>1. QED
      BY <2>1, SkipPageKept
  <2> HIDE DEF x, y, h, q, p
  <2>8. QED
    BY ONLY <2>5, <2>6, <2>7 DEF CountedBehind
<1>3. QED
  BY <1>1, <1>2

LEMMA CountContinues ==
  ASSUME NEW fmt \in Formats, NEW d \in Documents, NEW e \in Documents, Continues(d, e)
  PROVE  \A k \in Nat : CountedBehind(CountedAfter(fmt, d, k), CountedAfter(fmt, e, k), k)
<1> DEFINE x(k) == CountedAfter(fmt, d, k)
           y(k) == CountedAfter(fmt, e, k)
           S == {k \in Nat : CountedBehind(x(k), y(k), k)}
<1>1. /\ x(0) = y(0)
      /\ \A k \in Nat : /\ x(k) \in CountStates /\ x(k + 1) = CountPage(fmt, d)[x(k)]
                        /\ Len(x(k).pages) <= k
  BY CountRounds
<1>2. \A k \in Nat : y(k + 1) = CountPage(fmt, e)[y(k)]
  BY CountRounds
<1> HIDE DEF x, y
<1>3. 0 \in S
  BY <1>1 DEF CountedBehind
<1>4. ASSUME NEW k \in Nat, k \in S
      PROVE  k + 1 \in S
  <2> DEFINE a == x(k)
             b == y(k)
             a1 == x(k + 1)
             b1 == y(k + 1)
  <2>1. /\ a \in CountStates /\ a1 = CountPage(fmt, d)[a] /\ Len(a.pages) <= k
        /\ b1 = CountPage(fmt, e)[b] /\ CountedBehind(a, b, k)
    BY <1>1, <1>2, <1>4
  <2> HIDE DEF a, b, a1, b1
  <2>2. CASE a.next = Short
    <3>1. PageDone(fmt, d, a)
      BY <2>2 DEF PageDone
    <3>2. a1 = a
      BY ONLY <2>1, <3>1, CountPageIs
    <3>3. QED
      BY <2>2, <3>2 DEF CountedBehind, a1, b1
  <2>3. CASE Len(a.pages) < k
    <3> DEFINE m == Len(a.pages)
               n == Len(a1.pages)
    <3>1. n <= m + 1 /\ a1 \in CountStates
      BY <2>1, CountPageType
    <3>2. m \in Nat /\ n \in Nat
      BY <2>1, <3>1 DEF CountStates
    <3>3. m < k
      BY <2>3
    <3> HIDE DEF m, n
    <3>4. n < k + 1
      BY <3>1, <3>2, <3>3
    <3>5. QED
      BY <3>4 DEF CountedBehind, a1, b1, n
  <2>4. CASE b = a
    <3>1. CountedBehind(CountPage(fmt, d)[a], CountPage(fmt, e)[a], k + 1)
      BY <2>1, CountBehind
    <3>2. CountedBehind(a1, b1, k + 1)
      BY <2>1, <2>4, <3>1
    <3>3. QED
      BY <3>2 DEF a1, b1
  <2>5. QED
    BY <2>1, <2>2, <2>3, <2>4 DEF CountedBehind
<1> HIDE DEF S
<1>5. Nat \subseteq S
  BY <1>3, <1>4, SetInduction
<1>6. QED
  BY <1>5 DEF S, x, y

LEMMA CountKept ==
  ASSUME NEW fmt \in Formats, NEW d \in Documents, NEW e \in Documents, Continues(d, e),
         NEW k \in Nat, NEW hs \in Seq(PageHeaders), Len(hs) = k, NEW b \in Nat \ {0},
         CountedAfter(fmt, d, k) = [next |-> b, pages |-> hs]
  PROVE  CountedAfter(fmt, e, k) = [next |-> b, pages |-> hs]
<1> DEFINE x == CountedAfter(fmt, d, k)
           y == CountedAfter(fmt, e, k)
<1>1. CountedBehind(x, y, k)
  BY CountContinues
<1>2. x = [next |-> b, pages |-> hs]
  OBVIOUS
<1> HIDE DEF x, y
<1>3. x.next # Short /\ ~ (Len(x.pages) < k)
  BY <1>2 DEF Short
<1>4. QED
  BY <1>1, <1>2, <1>3 DEF CountedBehind, y

(***************************************************************************)
(* What a client encodes for raster-info.ts, which skips what              *)
(* raster-decode.ts would decode: the same places in the document, with    *)
(* the number of what has been skipped in place of it.                     *)
(***************************************************************************)
HeadersOf(ps) == [k \in 1..Len(ps) |-> ps[k].header]

\* k color values of the row have been skipped.
AtSkippedRow(fmt, d, c, h, k) ==
  \E i \in 0..k : SkipRowAfter(d, c + 1, ColorsPerRow(h), InfoGeometry(fmt, h), i) =
                    [next |-> Len(d) + 1, left |-> ColorsPerRow(h) - k]

\* r rows of the page have been skipped.
AtSkipped(fmt, d, p, h, r, l) ==
  \E j \in 0..r, c \in 1..(Len(d) + 1) :
    /\ SkippedAfter(fmt, d, p, h, j) = [next |-> c, left |-> h.height - r]
    /\ IF l = NoLine THEN c = Len(d) + 1
       ELSE c <= Len(d) /\ d[c] = l.repeat - 1 /\ AtSkippedRow(fmt, d, c, h, Len(l.row))

AtCountedHeader(fmt, d, ps, b) ==
  /\ b \in 1..Len(d) /\ b + HeaderLen <= Len(d) + 1
  /\ CountedAfter(fmt, d, Len(ps) - 1) =
       [next |-> b, pages |-> HeadersOf(SubSeq(ps, 1, Len(ps) - 1))]
  /\ HeaderAt(d, b) = Last(ps).header

AtCounted(fmt, d, ps, l) ==
  \E b \in 1..Len(d) :
    /\ AtCountedHeader(fmt, d, ps, b)
    /\ AtSkipped(fmt, d, b + HeaderLen, Last(ps).header, Len(Last(ps).rows), l)

CountedSoFar == encoding = "info" /\ pages # <<>> => AtCounted(format, doc, pages, line)

LEMMA HeadersOfType ==
  ASSUME NEW ps \in Seq(Page)
  PROVE  HeadersOf(ps) \in Seq(PageHeaders) /\ Len(HeadersOf(ps)) = Len(ps)
<1>1. \A k \in 1..Len(ps) : ps[k].header \in PageHeaders
  <2>1. ASSUME NEW k \in 1..Len(ps)
        PROVE  ps[k].header \in PageHeaders
    <3>1. ps[k] \in Page
      OBVIOUS
    <3>2. QED
      BY <3>1 DEF Page
  <2>2. QED
    BY <2>1
<1>2. Len(ps) \in Nat
  OBVIOUS
<1>3. QED
  BY <1>1, <1>2 DEF HeadersOf

LEMMA HeadersOfFront ==
  ASSUME NEW ps \in Seq(Page), ps # <<>>
  PROVE  Append(HeadersOf(SubSeq(ps, 1, Len(ps) - 1)), Last(ps).header) = HeadersOf(ps)
<1> DEFINE n == Len(ps)
           front == SubSeq(ps, 1, n - 1)
           a == HeadersOf(front)
           b == HeadersOf(ps)
           x == Last(ps).header
<1>1. /\ n \in Nat \ {0} /\ n - 1 \in Nat /\ front \in Seq(Page) /\ Len(front) = n - 1
      /\ Last(ps) = ps[n]
  BY FrontIs
<1>2. \A k \in 1..(n - 1) : front[k] = ps[k]
  BY <1>1
<1>3. a \in Seq(PageHeaders) /\ Len(a) = n - 1 /\ b \in Seq(PageHeaders) /\ Len(b) = n
  <2> HIDE DEF front, n
  <2>1. a \in Seq(PageHeaders) /\ Len(a) = Len(front)
    BY <1>1, HeadersOfType
  <2>2. b \in Seq(PageHeaders) /\ Len(b) = Len(ps)
    BY HeadersOfType
  <2>3. QED
    BY <1>1, <2>1, <2>2 DEF n
<1>4. \A k \in 1..(n - 1) : a[k] = b[k]
  <2> HIDE DEF front
  <2>1. ASSUME NEW k \in 1..(n - 1)
        PROVE  a[k] = b[k]
    <3>1. k \in 1..Len(front) /\ k \in 1..n
      BY <1>1
    <3>2. a[k] = front[k].header /\ b[k] = ps[k].header
      BY <3>1 DEF HeadersOf
    <3>3. QED
      BY <1>2, <3>2
  <2>2. QED
    BY <2>1
<1>5. b[n] = x
  <2>1. n \in 1..n
    BY <1>1
  <2>2. b[n] = ps[n].header
    BY <2>1 DEF HeadersOf
  <2>3. QED
    BY <1>1, <2>2
<1> HIDE DEF a, b, x, front, n
<1>6. x \in PageHeaders
  <2>1. n \in 1..Len(b)
    BY <1>1, <1>3
  <2>2. QED
    BY <1>3, <1>5, <2>1
<1>7. Append(a, x) \in Seq(PageHeaders) /\ Len(Append(a, x)) = n
  BY <1>1, <1>3, <1>6
<1>8. \A k \in 1..n : Append(a, x)[k] = b[k]
  BY <1>1, <1>3, <1>4, <1>5
<1>9. Append(a, x) = b
  BY <1>3, <1>7, <1>8
<1>10. QED
  BY <1>9 DEF a, b, x, front, n

\* A page is counted.
LEMMA PageCounted ==
  ASSUME NEW fmt \in Formats, NEW d \in Documents, NEW ps \in Seq(Page), ps # <<>>,
         Len(ps) <= MaxPages, NEW b, AtCountedHeader(fmt, d, ps, b),
         NEW x, SkipRasterData(fmt, d, b + HeaderLen, Last(ps).header) = x
  PROVE  CountedAfter(fmt, d, Len(ps)) = [next |-> x, pages |-> HeadersOf(ps)]
<1> DEFINE k == Len(ps) - 1
           front == HeadersOf(SubSeq(ps, 1, k))
           s == CountedAfter(fmt, d, k)
           h == Last(ps).header
<1>1. k \in Nat /\ k + 1 = Len(ps) /\ k < MaxPages /\ MaxPages \in Nat /\ Len(front) = k
  <2>1. Len(ps) \in Nat \ {0}
    BY FrontIs
  <2>2. k \in Nat /\ k + 1 = Len(ps) /\ k < MaxPages /\ MaxPages \in Nat
    BY <2>1, RasterAssumption
  <2>3. SubSeq(ps, 1, k) \in Seq(Page) /\ Len(SubSeq(ps, 1, k)) = k
    BY FrontIs
  <2> DEFINE f == SubSeq(ps, 1, k)
  <2>4. f \in Seq(Page) /\ Len(f) = k
    BY <2>3
  <2> HIDE DEF f, k
  <2>5. Len(HeadersOf(f)) = k
    BY <2>4, HeadersOfType
  <2>6. QED
    BY <2>2, <2>5 DEF f
<1>2. s = [next |-> b, pages |-> front] /\ b \in 1..Len(d) /\ b + HeaderLen <= Len(d) + 1
      /\ HeaderAt(d, b) = h
  BY Zenon DEF AtCountedHeader
<1>3. Append(front, h) = HeadersOf(ps)
  BY HeadersOfFront
<1> HIDE DEF h
<1>4. s \in CountStates /\ CountedAfter(fmt, d, k + 1) = CountPage(fmt, d)[s]
  <2> HIDE DEF k
  <2>1. QED
    BY <1>1, CountRounds
<1> HIDE DEF s, front, k
<1>5. ~ PageDone(fmt, d, s)
  <2>1. s.next = b /\ s.pages = front
    BY <1>2
  <2>2. b # 0 /\ Len(s.pages) < MaxPages
    BY <1>1, <1>2, <2>1
  <2>3. QED
    BY <1>2, <2>1, <2>2 DEF PageDone, MorePages, Short
<1>6. CountPage(fmt, d)[s] = CountAhead(fmt, d, s)
  BY ONLY <1>4, <1>5, CountPageIs
<1>7. CountAhead(fmt, d, s) = [next |-> x, pages |-> Append(front, h)]
  <2>1. s.next = b /\ s.pages = front
    BY <1>2
  <2>2. SkipRasterData(fmt, d, b + HeaderLen, h) = x
    BY DEF h
  <2>3. QED
    BY <1>2, <2>1, <2>2 DEF CountAhead
<1>8. QED
  BY <1>1, <1>3, <1>4, <1>6, <1>7

LEMMA CountedHeaderKept ==
  ASSUME NEW fmt \in Formats, NEW d \in Documents, NEW e \in Documents, Continues(d, e),
         NEW ps \in Seq(Page), ps # <<>>, NEW b, AtCountedHeader(fmt, d, ps, b)
  PROVE  AtCountedHeader(fmt, e, ps, b)
<1> DEFINE k == Len(ps) - 1
           f == SubSeq(ps, 1, k)
           front == HeadersOf(f)
<1>1. k \in Nat /\ front \in Seq(PageHeaders) /\ Len(front) = k
  <2>1. k \in Nat /\ f \in Seq(Page) /\ Len(f) = k
    <3>1. Len(ps) \in Nat \ {0} /\ SubSeq(ps, 1, Len(ps) - 1) \in Seq(Page)
          /\ Len(SubSeq(ps, 1, Len(ps) - 1)) = Len(ps) - 1
      BY FrontIs
    <3>2. QED
      BY <3>1
  <2> HIDE DEF f, k
  <2>2. QED
    BY <2>1, HeadersOfType
<1>2. /\ b \in 1..Len(d) /\ b + HeaderLen <= Len(d) + 1
      /\ CountedAfter(fmt, d, k) = [next |-> b, pages |-> front] /\ HeaderAt(d, b) = Last(ps).header
  BY Zenon DEF AtCountedHeader
<1>3. Len(d) \in Nat /\ Len(e) \in Nat /\ Len(d) <= Len(e) /\ e[b] = d[b] /\ b \in Nat \ {0}
  BY <1>2 DEF Continues, Documents
<1> HIDE DEF k, f, front
<1>4. CountedAfter(fmt, e, k) = [next |-> b, pages |-> front]
  BY <1>1, <1>2, <1>3, CountKept
<1>5. HeaderAt(e, b) = Last(ps).header
  BY <1>2, <1>3 DEF HeaderAt
<1>6. b \in 1..Len(e) /\ b + HeaderLen <= Len(e) + 1
  BY <1>2, <1>3, RasterAssumption
<1>7. QED
  BY <1>4, <1>5, <1>6 DEF AtCountedHeader, front, f, k

\* Between two lines.
LEMMA SkippedBetweenLines ==
  ASSUME NEW fmt \in Formats, NEW d \in Documents, NEW p \in Nat,
         NEW h \in PageHeaders, WellFormed(h), NEW r \in Nat, r <= h.height,
         AtSkipped(fmt, d, p, h, r, NoLine)
  PROVE  /\ ~ (r < h.height) => SkipRasterData(fmt, d, p, h) = Len(d) + 1
         /\ r < h.height => SkipRasterData(fmt, d, p, h) = Short
<1> DEFINE m == h.height
           n == ColorsPerRow(h)
           g == InfoGeometry(fmt, h)
<1>1. PICK j \in 0..r : SkippedAfter(fmt, d, p, h, j) = [next |-> Len(d) + 1, left |-> m - r]
  BY DEF AtSkipped
<1>2. m \in Nat /\ j \in Nat /\ j <= m /\ Len(d) \in Nat
  BY DEF PageHeaders, Documents
<1> DEFINE s == SkippedAfter(fmt, d, p, h, j)
           t == SkippedAfter(fmt, d, p, h, j + 1)
<1>3. s \in SkipStates /\ t = SkipLine(d, n, g)[s]
  <2> DEFINE u == SkipLine(d, n, g)
             z == [next |-> p, left |-> m]
  <2>1. s \in SkipStates
    BY <1>2, SkippedRound
  <2>2. s = Iterate(u, z, j) /\ t = Iterate(u, z, j + 1)
    BY Zenon DEF SkippedAfter
  <2> HIDE DEF u, z, s, t
  <2>3. Iterate(u, z, j + 1) = u[Iterate(u, z, j)]
    BY ONLY <1>2, IterateRounds
  <2>4. QED
    BY <2>1, <2>2, <2>3 DEF u
<1>4. s.next = Len(d) + 1 /\ s.left = m - r
  BY <1>1
<1>5. ASSUME ~ (r < m)
      PROVE  SkipRasterData(fmt, d, p, h) = Len(d) + 1
  <2>1. SkipDone(s)
    <3>1. m - r <= 0
      BY <1>2, <1>5
    <3>2. QED
      BY <1>4, <3>1 DEF SkipDone
  <2>2. SkipRasterData(fmt, d, p, h) = s.next
    BY <1>2, <2>1, SkippedRests
  <2>3. QED
    BY <1>4, <2>2
<1>6. ASSUME r < m
      PROVE  SkipRasterData(fmt, d, p, h) = Short
  <2>1. ~ SkipDone(s) /\ BeyondEnd(d, s)
    BY <1>2, <1>4, <1>6 DEF SkipDone, BeyondEnd, Short
  <2> HIDE DEF s, t, n, g
  <2>2. t.next = Short
    BY ONLY <1>3, <2>1, SkipLineIs, OutOfDataSkips
  <2>3. SkipDone(t) /\ j + 1 \in Nat /\ j + 1 <= m
    BY <1>2, <1>6, <2>2 DEF SkipDone
  <2>4. SkipRasterData(fmt, d, p, h) = t.next
    BY <2>3, SkippedRests DEF t
  <2>5. QED
    BY <2>2, <2>4
<1>7. QED
  BY <1>5, <1>6

\* A row that breaks off at the end of the document is not skipped.
LEMMA BrokenRow ==
  ASSUME NEW d \in Documents, NEW q \in Nat, NEW n \in Nat, NEW g, g.groupBytes \in Nat,
         NEW k \in Nat, k < n, NEW i \in 0..k,
         SkipRowAfter(d, q, n, g, i) = [next |-> Len(d) + 1, left |-> n - k]
  PROVE  SkipRow(d, q, n, g) = Short
<1> DEFINE x == SkipRowAfter(d, q, n, g, i)
           y == SkipRowAfter(d, q, n, g, i + 1)
<1>1. i \in Nat /\ i + 1 \in Nat /\ i + 1 <= n /\ n - k > 0 /\ Len(d) \in Nat
  BY DEF Documents
<1>2. x \in SkipStates /\ y = SkipRun(d, g)[x]
  <2> DEFINE u == SkipRun(d, g)
             s == [next |-> q, left |-> n]
  <2>1. x \in SkipStates
    BY <1>1, SkipRowRound
  <2>2. x = Iterate(u, s, i) /\ y = Iterate(u, s, i + 1)
    BY Zenon DEF SkipRowAfter
  <2> HIDE DEF u, s, x, y
  <2>3. Iterate(u, s, i + 1) = u[Iterate(u, s, i)]
    BY ONLY <1>1, IterateRounds
  <2>4. QED
    BY <2>1, <2>2, <2>3 DEF u
<1>3. x.next = Len(d) + 1 /\ x.left = n - k
  OBVIOUS
<1> HIDE DEF x, y
<1>4. ~ SkipDone(x) /\ BeyondEnd(d, x)
  BY <1>1, <1>3 DEF SkipDone, BeyondEnd, Short
<1>5. y.next = Short
  BY ONLY <1>2, <1>4, SkipRunIs, OutOfDataSkips
<1>6. SkipDone(y)
  BY <1>5 DEF SkipDone
<1>7. SkipRow(d, q, n, g) = y.next
  BY <1>1, <1>6, SkipRowRests DEF y
<1>8. QED
  BY <1>5, <1>7

\* In the middle of a line.
LEMMA SkippedWithinLine ==
  ASSUME NEW fmt \in Formats, NEW d \in Documents, NEW p \in Nat,
         NEW h \in PageHeaders, WellFormed(h), NEW r \in Nat, r < h.height,
         NEW l \in LineStarts, l # NoLine, Len(l.row) < ColorsPerRow(h),
         AtSkipped(fmt, d, p, h, r, l)
  PROVE  SkipRasterData(fmt, d, p, h) = Short
<1> DEFINE m == h.height
           n == ColorsPerRow(h)
           g == InfoGeometry(fmt, h)
           k == Len(l.row)
<1>1. PICK j \in 0..r, c \in 1..(Len(d) + 1) :
        /\ SkippedAfter(fmt, d, p, h, j) = [next |-> c, left |-> m - r]
        /\ c <= Len(d) /\ AtSkippedRow(fmt, d, c, h, k)
  BY DEF AtSkipped
<1> DEFINE q == c + 1
<1>2. PICK i \in 0..k : SkipRowAfter(d, q, n, g, i) = [next |-> Len(d) + 1, left |-> n - k]
  BY <1>1 DEF AtSkippedRow
<1>3. n \in Nat /\ g.groupBytes \in Nat
  BY InfoGeometryIs DEF InfoFacts
<1>4. /\ m \in Nat /\ Len(d) \in Nat /\ c \in 1..Len(d) /\ q \in Nat /\ k \in Nat
  BY <1>1 DEF PageHeaders, Documents, LineStarts
<1>5. j \in Nat /\ j + 1 \in Nat /\ j + 1 <= m
  BY <1>4
<1>6. k < n
  OBVIOUS
<1> DEFINE s == SkippedAfter(fmt, d, p, h, j)
           t == SkippedAfter(fmt, d, p, h, j + 1)
<1>7. s \in SkipStates /\ t = SkipLine(d, n, g)[s]
  <2> DEFINE u == SkipLine(d, n, g)
             z == [next |-> p, left |-> m]
  <2>1. s \in SkipStates
    BY <1>5, SkippedRound
  <2>2. s = Iterate(u, z, j) /\ t = Iterate(u, z, j + 1)
    BY Zenon DEF SkippedAfter
  <2> HIDE DEF u, z, s, t
  <2>3. Iterate(u, z, j + 1) = u[Iterate(u, z, j)]
    BY ONLY <1>5, IterateRounds
  <2>4. QED
    BY <2>1, <2>2, <2>3 DEF u
<1>8. s.next = c /\ s.left = m - r
  BY <1>1
<1> HIDE DEF n, g, k, m, q, s, t
<1>14. SkipRow(d, q, n, g) = Short
  BY <1>2, <1>3, <1>4, <1>6, BrokenRow
<1>15. ~ SkipDone(s) /\ ~ BeyondEnd(d, s)
  <2>1. m - r > 0
    BY <1>4 DEF m
  <2>2. QED
    BY <1>4, <1>8, <2>1 DEF SkipDone, BeyondEnd, Short
<1>16. t = SkipLineAhead(d, n, g, s)
  BY ONLY <1>7, <1>15, SkipLineIs
<1>17. t.next = Short
  BY <1>8, <1>14, <1>16 DEF SkipLineAhead, q
<1>18. SkipDone(t)
  BY <1>17 DEF SkipDone
<1>19. SkipRasterData(fmt, d, p, h) = t.next
  BY <1>5, <1>18, SkippedRests DEF t, m
<1>20. QED
  BY <1>17, <1>19

\* All pages are counted, and the last one ends where the document does.
LEMMA LastCountedEnds ==
  ASSUME NEW fmt \in Formats, NEW d, NEW ps, NEW l, Encoded(d, ps, l), ps # <<>>,
         AtCounted(fmt, d, ps, l)
  PROVE  \E x \in {Short, Len(d) + 1} :
           /\ CountedAfter(fmt, d, Len(ps)) = [next |-> x, pages |-> HeadersOf(ps)]
           /\ l = NoLine /\ ~ (Len(Last(ps).rows) < Last(ps).header.height) => x = Len(d) + 1
<1> DEFINE h == Last(ps).header
           rows == Last(ps).rows
           r == Len(rows)
           m == h.height
<1>1. /\ d \in Documents /\ ps \in Seq(Page) /\ l \in LineStarts /\ Len(ps) \in Nat \ {0}
      /\ Len(d) \in Nat /\ Len(ps) <= MaxPages /\ h \in PageHeaders
      /\ WellFormed(h) /\ r <= m /\ m \in Nat /\ r \in Nat
  BY LastPageFacts
<1>2. l # NoLine => /\ Len(l.row) < ColorsPerRow(h) /\ l.repeat > 0
                    /\ r + l.repeat <= m
  BY DEF Encoded
<1>3. PICK b \in 1..Len(d) : AtCountedHeader(fmt, d, ps, b)
                             /\ AtSkipped(fmt, d, b + HeaderLen, h, r, l)
  BY DEF AtCounted
<1> DEFINE p == b + HeaderLen
           ends(x) == SkipRasterData(fmt, d, p, h) = x
<1>4. p \in Nat
  BY <1>1, RasterAssumption
<1>5. ASSUME NEW x, ends(x)
      PROVE  CountedAfter(fmt, d, Len(ps)) = [next |-> x, pages |-> HeadersOf(ps)]
  BY <1>1, <1>3, <1>5, PageCounted
<1> HIDE DEF h, r, p
<1>7. CASE l = NoLine
  <2>1. /\ ~ (r < h.height) => SkipRasterData(fmt, d, p, h) = Len(d) + 1
        /\ r < h.height => SkipRasterData(fmt, d, p, h) = Short
    BY <1>1, <1>3, <1>4, <1>7, SkippedBetweenLines DEF p
  <2>2. (~ (r < m) => ends(Len(d) + 1)) /\ (r < m => ends(Short))
    BY <2>1
  <2> HIDE DEF ends, m
  <2>3. QED
    BY <1>5, <1>7, <2>2 DEF h, r, m
<1>8. CASE l # NoLine
  <2>0. l.repeat \in 0..256
    BY <1>1 DEF LineStarts
  <2>1. l.repeat > 0 /\ r + l.repeat <= m
    BY <1>2, <1>8, Zenon
  <2>2. r < m
    <3> DEFINE n == l.repeat
    <3>1. n \in 0..256 /\ r \in Nat /\ m \in Nat /\ n > 0 /\ r + n <= m
      BY <1>1, <2>0, <2>1, Zenon
    <3> HIDE DEF n, m
    <3>2. QED
      BY ONLY <3>1
  <2>3. ends(Short)
    BY <1>1, <1>2, <1>3, <1>4, <1>8, <2>2, SkippedWithinLine DEF p
  <2> HIDE DEF ends
  <2>4. QED
    BY <1>5, <1>8, <2>3
<1>9. QED
  BY <1>7, <1>8

\* So what is counted are the headers that have been encoded.
LEMMA CountedIsEncoded ==
  ASSUME NEW fmt \in Formats, NEW d, NEW ps, NEW l, Encoded(d, ps, l),
         ps # <<>> => AtCounted(fmt, d, ps, l)
  PROVE  ParseRasterInfo(fmt, d) = HeadersOf(ps)
<1>1. /\ d \in Documents /\ ps \in Seq(Page) /\ Len(d) \in Nat /\ Len(ps) \in Nat
      /\ Len(ps) <= Len(d)
  BY DEF Encoded, Documents
<1>2. \E x \in {Short, Len(d) + 1} :
        CountedAfter(fmt, d, Len(ps)) = [next |-> x, pages |-> HeadersOf(ps)]
  <2>1. CASE ps = <<>>
    <3>1. d = <<>> /\ Len(ps) = 0 /\ Len(d) + 1 = 1
      BY <2>1 DEF Encoded
    <3>2. CountedAfter(fmt, d, 0) = [next |-> 1, pages |-> <<>>]
      BY <1>1, CountRounds
    <3>3. HeadersOf(ps) = <<>>
      <4> DEFINE hs == HeadersOf(ps)
      <4>1. hs \in Seq(PageHeaders) /\ Len(hs) = 0
        BY <1>1, <3>1, HeadersOfType
      <4> HIDE DEF hs
      <4>2. hs = <<>>
        BY <4>1
      <4>3. QED
        BY <4>2 DEF hs
    <3>4. QED
      BY <3>1, <3>2, <3>3
  <2>2. CASE ps # <<>>
    BY <2>2, LastCountedEnds
  <2>3. QED
    BY <2>1, <2>2
<1>3. PICK x \in {Short, Len(d) + 1} :
        CountedAfter(fmt, d, Len(ps)) = [next |-> x, pages |-> HeadersOf(ps)]
  BY <1>2
<1> DEFINE step == CountPage(fmt, d)
           s == [next |-> 1, pages |-> <<>>]
           y == CountedAfter(fmt, d, Len(ps))
<1>4. y \in CountStates
  BY <1>1, CountRounds
<1>5. PageDone(fmt, d, y)
  <2>1. y.next = x
    BY <1>3
  <2>2. x # Short => ~ (x + HeaderLen <= Len(d) + 1)
    BY <1>1, RasterAssumption
  <2>3. QED
    BY <2>1, <2>2 DEF PageDone, MorePages
<1>6. step[y] = y
  BY ONLY <1>4, <1>5, CountPageIs
<1>7. y = Iterate(step, s, Len(ps)) /\ ParseRasterInfo(fmt, d) = Iterate(step, s, Len(d)).pages
  BY Zenon DEF CountedAfter, ParseRasterInfo
<1> HIDE DEF step, s, y
<1>8. Iterate(step, s, Len(d)) = Iterate(step, s, Len(ps))
  BY ONLY <1>1, <1>6, <1>7, IterateRests
<1>9. QED
  BY <1>3, <1>7, <1>8 DEF y

LEMMA CountStarted ==
  ASSUME NEW fmt \in Formats, NEW d, NEW ps, Encoded(d, ps, NoLine),
         ps # <<>> => AtCounted(fmt, d, ps, NoLine) /\ ~ (Len(Last(ps).rows) < Last(ps).header.height),
         NEW k \in DOMAIN Headers
  PROVE  AtCounted(fmt, d \o HeaderBytes(k), Append(ps, StartedPage(k)), NoLine)
<1> DEFINE e == d \o HeaderBytes(k)
           new == StartedPage(k)
           qs == Append(ps, new)
           b == Len(d) + 1
           hs == HeadersOf(ps)
<1>1. /\ d \in Documents /\ ps \in Seq(Page) /\ Len(d) \in Nat /\ Len(ps) \in Nat
      /\ hs \in Seq(PageHeaders) /\ Len(hs) = Len(ps)
  <2>1. d \in Documents /\ ps \in Seq(Page) /\ Len(d) \in Nat /\ Len(ps) \in Nat
    BY DEF Encoded, Documents
  <2>2. QED
    BY <2>1, HeadersOfType
<1>2. /\ e \in Documents /\ Continues(d, e) /\ Len(e) = Len(d) + HeaderLen
      /\ HeaderAt(e, b) = Headers[k] /\ new \in Page /\ WellFormed(Headers[k])
  BY <1>1, HeaderAdded
<1>3. HeaderLen \in Nat \ {0} /\ Headers[k] \in PageHeaders
  BY RasterAssumption
<1>4. CountedAfter(fmt, d, Len(ps)) = [next |-> b, pages |-> hs]
  <2>1. CASE ps = <<>>
    <3>1. d = <<>> /\ Len(ps) = 0 /\ b = 1
      BY <2>1 DEF Encoded
    <3>2. CountedAfter(fmt, d, 0) = [next |-> 1, pages |-> <<>>]
      BY <1>1, CountRounds
    <3>3. hs = <<>>
      BY <1>1, <3>1
    <3>4. QED
      BY <3>1, <3>2, <3>3
  <2>2. CASE ps # <<>>
    <3>1. PICK x \in {Short, Len(d) + 1} :
            /\ CountedAfter(fmt, d, Len(ps)) = [next |-> x, pages |-> hs]
            /\ ~ (Len(Last(ps).rows) < Last(ps).header.height) => x = Len(d) + 1
      BY <2>2, LastCountedEnds
    <3>2. QED
      BY <2>2, <3>1
  <2>3. QED
    BY <2>1, <2>2
<1>5. qs # <<>> /\ Last(qs) = new /\ SubSeq(qs, 1, Len(qs) - 1) = ps /\ Len(qs) - 1 = Len(ps)
  <2> HIDE DEF new
  <2>1. QED
    BY <1>1, <1>2, AppendFront
<1>6. new.header = Headers[k] /\ new.rows = <<>> /\ Len(new.rows) = 0
  BY DEF StartedPage
<1>7. b \in Nat \ {0} /\ b \in 1..Len(e) /\ b + HeaderLen = Len(e) + 1
  BY <1>1, <1>2, <1>3
<1> HIDE DEF e, new, qs, b, hs
<1>8. CountedAfter(fmt, e, Len(ps)) = [next |-> b, pages |-> hs]
  BY <1>1, <1>2, <1>4, <1>7, CountKept
<1>9. AtCountedHeader(fmt, e, qs, b)
  <2>1. b + HeaderLen <= Len(e) + 1
    BY <1>2, <1>7 DEF Documents
  <2>2. QED
    BY <1>2, <1>5, <1>6, <1>7, <1>8, <2>1 DEF AtCountedHeader, hs
<1>10. AtSkipped(fmt, e, b + HeaderLen, Headers[k], 0, NoLine)
  <2> DEFINE p == b + HeaderLen
             h == Headers[k]
  <2>1. p \in Nat /\ p = Len(e) + 1 /\ h.height - 0 = h.height
    BY <1>3, <1>7 DEF PageHeaders
  <2> HIDE DEF p, h
  <2>2. SkippedAfter(fmt, e, p, h, 0) = [next |-> p, left |-> h.height]
    BY <1>2, <1>3, <2>1, SkippedRound DEF h
  <2>3. 0 \in 0..0 /\ p \in 1..(Len(e) + 1)
    BY <1>7, <2>1
  <2>4. QED
    BY <2>1, <2>2, <2>3 DEF AtSkipped, p, h
<1>11. QED
  BY <1>5, <1>6, <1>7, <1>9, <1>10 DEF AtCounted, e, qs, new

\* A line is started.
LEMMA CountLineStarted ==
  ASSUME NEW fmt \in Formats, NEW d, NEW ps, Encoded(d, ps, NoLine), ps # <<>>,
         AtCounted(fmt, d, ps, NoLine), NEW repeat \in 1..256
  PROVE  AtCounted(fmt, Append(d, repeat - 1), ps, StartedLine(repeat))
<1> DEFINE e == Append(d, repeat - 1)
           l == StartedLine(repeat)
           h == Last(ps).header
           r == Len(Last(ps).rows)
           c == Len(d) + 1
<1>1. /\ d \in Documents /\ ps \in Seq(Page) /\ Len(d) \in Nat /\ h \in PageHeaders
      /\ r \in Nat /\ WellFormed(h)
  BY LastPageFacts
<1>2. repeat - 1 \in 0..255
  OBVIOUS
<1>3. e \in Documents /\ Continues(d, e) /\ Len(e) = Len(d) + 1 /\ e[c] = repeat - 1
  BY <1>1, <1>2, ByteAdded
<1>4. PICK b \in 1..Len(d) : AtCountedHeader(fmt, d, ps, b)
                             /\ AtSkipped(fmt, d, b + HeaderLen, h, r, NoLine)
  BY DEF AtCounted
<1>5. AtCountedHeader(fmt, e, ps, b) /\ b \in 1..Len(e)
  <2>1. b \in 1..Len(e)
    BY <1>1, <1>3
  <2> HIDE DEF e
  <2>2. QED
    BY <1>1, <1>3, <1>4, <2>1, CountedHeaderKept
<1> DEFINE p == b + HeaderLen
           m == h.height
<1>6. PICK j \in 0..r : SkippedAfter(fmt, d, p, h, j) = [next |-> c, left |-> m - r]
  BY <1>4 DEF AtSkipped
<1>7. l # NoLine /\ l.repeat = repeat /\ l.row = <<>> /\ Len(l.row) = 0
  BY DEF StartedLine, NoLine
<1>8. p \in Nat /\ j \in Nat /\ c \in Nat \ {0} /\ c \in 1..(Len(e) + 1) /\ c <= Len(e)
  BY <1>1, <1>3, <1>6, RasterAssumption
<1> HIDE DEF e, l, h, r, c, p, m
<1>9. SkippedAfter(fmt, e, p, h, j) = [next |-> c, left |-> m - r]
  <2> DEFINE x == SkippedAfter(fmt, d, p, h, j)
             y == SkippedAfter(fmt, e, p, h, j)
  <2>1. x.next = Short \/ y = x
    BY <1>1, <1>3, <1>8, SkippedKept
  <2>2. x = [next |-> c, left |-> m - r]
    BY <1>6
  <2> HIDE DEF x, y
  <2>3. x.next # Short
    BY <1>8, <2>2 DEF Short
  <2>4. QED
    BY <2>1, <2>2, <2>3 DEF y
<1>10. AtSkippedRow(fmt, e, c, h, 0)
  <2> DEFINE n == ColorsPerRow(h)
             g == InfoGeometry(fmt, h)
             q == c + 1
             u == SkipRun(e, g)
             s == [next |-> q, left |-> n]
  <2>1. SkipRowAfter(e, q, n, g, 0) = Iterate(u, s, 0)
    BY Zenon DEF SkipRowAfter
  <2>2. q = Len(e) + 1 /\ 0 \in 0..0 /\ n - 0 = n
    BY <1>1, <1>3, GeometryFacts DEF c
  <2> HIDE DEF u, s
  <2>3. Iterate(u, s, 0) = s
    BY ONLY IterateRounds
  <2>4. SkipRowAfter(e, q, n, g, 0) = [next |-> Len(e) + 1, left |-> n - 0]
    BY <2>1, <2>2, <2>3 DEF s
  <2> HIDE DEF n, g
  <2>5. QED
    BY <2>2, <2>4 DEF AtSkippedRow, n, g
<1>11. AtSkipped(fmt, e, p, h, r, l)
  BY <1>3, <1>7, <1>8, <1>9, <1>10 DEF AtSkipped, m
<1>12. QED
  BY <1>5, <1>11 DEF AtCounted, p, h, r, e, l

\* A run of v values is skipped, k behind the start of its row.
SkipTakes(k, v, bytes, groups, size) ==
  /\ size \in Nat /\ groups \in Nat /\ k \in Nat /\ v \in 1..128 /\ k + v <= groups
  /\ InfoBytes(bytes, v, size)

SkipTaken(d, k, v, bytes, groups, g) ==
  SkipRun(d \o bytes, g)[[next |-> Len(d) + 1, left |-> groups - k]] =
    [next |-> Len(d \o bytes) + 1, left |-> groups - (k + v)]

LEMMA RunSkipped ==
  ASSUME NEW d \in Documents, NEW k, NEW v, NEW bytes, NEW groups, NEW g,
         SkipTakes(k, v, bytes, groups, g.groupBytes)
  PROVE  SkipTaken(d, k, v, bytes, groups, g)
<1> DEFINE e == d \o bytes
           p == Len(d) + 1
           left == groups - k
           s == [next |-> p, left |-> left]
           z == g.groupBytes
           control == AsByte(e, s.next)
           after   == SkipEnd(control, s.next, z)
<1>1. /\ z \in Nat /\ groups \in Nat /\ k \in Nat /\ v \in 1..128 /\ k + v <= groups
      /\ bytes \in Seq(0..255)
  BY DEF SkipTakes, InfoBytes
<1>2. \/ bytes[1] = v - 1 /\ Len(bytes) = 1 + z
      \/ v > 1 /\ bytes[1] = 257 - v /\ Len(bytes) = 1 + z * v
  BY DEF SkipTakes, InfoBytes
<1>3. /\ e \in Documents /\ Len(e) = Len(d) + Len(bytes) /\ Len(d) \in Nat /\ Len(bytes) \in Nat
      /\ \A i \in 1..Len(bytes) : AsByte(e, Len(d) + i) = bytes[i]
  BY <1>1, BytesAdded
<1>4. z * v \in Nat
  BY <1>1
<1>5. Len(bytes) >= 1 /\ 1 \in 1..Len(bytes)
  BY <1>1, <1>2, <1>3, <1>4
<1>6. s \in SkipStates /\ s.next = p /\ s.left = left /\ left > 0 /\ p \in Nat \ {0} /\ p <= Len(e)
  <2>1. left \in Int /\ left > 0
    BY <1>1
  <2> HIDE DEF left
  <2>2. QED
    BY <1>3, <1>5, <2>1 DEF SkipStates
<1>7. ~ SkipDone(s) /\ ~ BeyondEnd(e, s)
  <2>1. p # 0 /\ ~ (left <= 0) /\ ~ (p > Len(e))
    BY <1>1, <1>3, <1>6
  <2> HIDE DEF s, p, left, e
  <2>2. QED
    BY <1>6, <2>1 DEF SkipDone, BeyondEnd, Short
<1>8. control = bytes[1]
  BY <1>3, <1>5, <1>6
<1>9. SkipRun(e, g)[s] = SkipAhead(e, g, s)
  BY ONLY <1>6, <1>7, SkipRunIs
<1>10. SkipAhead(e, g, s) =
         [next |-> IF after > Len(e) + 1 THEN Short ELSE after, left |-> s.left - RunOf(control)]
  BY Zenon DEF SkipAhead
<1> DEFINE c == bytes[1]
<1>11. after = SkipEnd(c, p, z) /\ s.left - RunOf(control) = left - RunOf(c)
  BY <1>6, <1>8
<1> HIDE DEF control, after, s, e, p, c, z
<1>12. RunOf(c) = v
  <2>1. c = v - 1 \/ (v > 1 /\ c = 257 - v)
    BY <1>2 DEF c
  <2>2. QED
    BY ONLY <1>1, <2>1 DEF RunOf
<1>13. left - RunOf(c) = groups - (k + v)
  <2>1. left = groups - k
    OBVIOUS
  <2> HIDE DEF left
  <2>2. QED
    BY ONLY <1>1, <1>12, <2>1
<1>14. after = Len(e) + 1
  <2>1. CASE c = v - 1 /\ Len(bytes) = 1 + z
    <3>1. c <= 127
      BY <1>1, <2>1
    <3>2. after = p + 1 + z * 1
      BY <1>11, <3>1 DEF SkipEnd
    <3>3. QED
      BY <1>1, <1>3, <2>1, <3>2 DEF p
  <2>2. CASE v > 1 /\ c = 257 - v /\ Len(bytes) = 1 + z * v
    <3>1. ~ (c <= 127)
      BY <1>1, <2>2
    <3>2. after = p + 1 + z * v
      BY <1>11, <1>12, <3>1 DEF SkipEnd
    <3> DEFINE w == z * v
               n == Len(d)
               m == Len(bytes)
    <3>3. n \in Nat /\ w \in Nat /\ m = 1 + w /\ Len(e) = n + m /\ p = n + 1 /\ after = p + 1 + w
      BY <1>3, <1>4, <2>2, <3>2, Zenon DEF p
    <3> HIDE DEF w, n, m
    <3>4. QED
      BY ONLY <3>3
  <2>3. QED
    BY <1>2, <2>1, <2>2 DEF c
<1>15. ~ (after > Len(e) + 1)
  BY <1>3, <1>14
<1> HIDE DEF left
<1>16. SkipRun(e, g)[s] = [next |-> Len(e) + 1, left |-> groups - (k + v)]
  BY <1>9, <1>10, <1>11, <1>13, <1>14, <1>15
<1>17. QED
  BY <1>16 DEF SkipTaken, e, s, p, left

LEMMA SkipRowGoesOn ==
  ASSUME NEW fmt \in Formats, NEW d \in Documents, NEW h \in PageHeaders, WellFormed(h),
         NEW k \in Nat, NEW v \in 1..128, NEW bytes,
         InfoBytes(bytes, v, ColorSize(h)), k + v <= ColorsPerRow(h),
         NEW c \in 1..Len(d), AtSkippedRow(fmt, d, c, h, k)
  PROVE  AtSkippedRow(fmt, d \o bytes, c, h, k + v)
<1> DEFINE e == d \o bytes
           n == ColorsPerRow(h)
           g == InfoGeometry(fmt, h)
           z == ColorSize(h)
           q == c + 1
           w == k + v
<1>1. n \in Nat /\ z \in Nat /\ g.groupBytes = z /\ w <= n
  BY InfoGeometryIs DEF InfoFacts
<1>2. e \in Documents /\ Continues(d, e) /\ Len(d) + 1 # Short /\ q \in Nat
  <2>1. bytes \in Seq(0..255)
    BY DEF InfoBytes
  <2>2. QED
    BY <2>1, BytesAdded DEF Documents, Short
<1>3. PICK i \in 0..k : SkipRowAfter(d, q, n, g, i) = [next |-> Len(d) + 1, left |-> n - k]
  BY DEF AtSkippedRow
<1>4. i \in Nat /\ i + 1 \in 0..w
  OBVIOUS
<1>5. SkipRun(e, g)[[next |-> Len(d) + 1, left |-> n - k]] = [next |-> Len(e) + 1, left |-> n - w]
  <2>1. k \in Nat /\ v \in 1..128 /\ k + v <= n /\ InfoBytes(bytes, v, z)
    OBVIOUS
  <2> HIDE DEF n, z, g, e, w
  <2>2. SkipTakes(k, v, bytes, n, g.groupBytes)
    BY <1>1, <2>1 DEF SkipTakes
  <2>3. SkipTaken(d, k, v, bytes, n, g)
    BY <2>2, RunSkipped
  <2>4. QED
    BY <2>3 DEF SkipTaken, e, w
<1> DEFINE x == SkipRowAfter(d, q, n, g, i)
           y == SkipRowAfter(e, q, n, g, i)
           u == SkipRun(e, g)
           s == [next |-> q, left |-> n]
<1> HIDE DEF e, n, g, z, q, w
<1>6. x.next = Short \/ y = x
  BY <1>1, <1>2, <1>4, SkipRowKept
<1>7. y = Iterate(u, s, i) /\ SkipRowAfter(e, q, n, g, i + 1) = Iterate(u, s, i + 1)
  BY Zenon DEF SkipRowAfter
<1> HIDE DEF x, y, u, s
<1>8. Iterate(u, s, i + 1) = u[Iterate(u, s, i)]
  BY ONLY <1>4, IterateRounds
<1>9. x = [next |-> Len(d) + 1, left |-> n - k]
  BY <1>3 DEF x
<1>10. y = x
  <2>1. x.next # Short
    BY <1>2, <1>9
  <2>2. QED
    BY <1>6, <2>1
<1>11. SkipRowAfter(e, q, n, g, i + 1) = [next |-> Len(e) + 1, left |-> n - w]
  BY <1>5, <1>7, <1>8, <1>9, <1>10 DEF u
<1>12. QED
  BY <1>4, <1>11 DEF AtSkippedRow, e, n, g, q, w

\* The page behind a run, up to the line the run belongs to.
SkipRunAt(fmt, e, ps, l, k) ==
  \E b \in 1..Len(e) :
    /\ AtCountedHeader(fmt, e, ps, b)
    /\ \E j \in 0..Len(Last(ps).rows), c \in 1..Len(e) :
         /\ SkippedAfter(fmt, e, b + HeaderLen, Last(ps).header, j) =
              [next |-> c, left |-> Last(ps).header.height - Len(Last(ps).rows)]
         /\ e[c] = l.repeat - 1 /\ AtSkippedRow(fmt, e, c, Last(ps).header, k)

LEMMA SkipRunAdded ==
  ASSUME NEW fmt \in Formats, NEW d, NEW ps, NEW l, Encoded(d, ps, l), ps # <<>>, l # NoLine,
         AtCounted(fmt, d, ps, l), NEW values, NEW bytes,
         RunFits(Last(ps).header, l, values, bytes),
         InfoBytes(bytes, Len(values), ColorSize(Last(ps).header))
  PROVE  SkipRunAt(fmt, d \o bytes, ps, l, Len(l.row \o values))
<1> DEFINE e == d \o bytes
           h == Last(ps).header
           r == Len(Last(ps).rows)
           k == Len(l.row)
           v == Len(values)
           w == Len(l.row \o values)
<1>1. /\ d \in Documents /\ ps \in Seq(Page) /\ Len(d) \in Nat /\ h \in PageHeaders
      /\ WellFormed(h) /\ l \in LineStarts /\ r \in Nat
  BY LastPageFacts
<1>2. e \in Documents /\ Continues(d, e) /\ Len(d) <= Len(e) /\ Len(e) \in Nat
  <2>1. bytes \in Seq(0..255)
    BY DEF RunFits
  <2>2. e \in Documents /\ Continues(d, e)
    BY <1>1, <2>1, BytesAdded
  <2> HIDE DEF e
  <2>3. QED
    BY <2>2 DEF Continues, Documents
<1>3. PICK b \in 1..Len(d) : AtCountedHeader(fmt, d, ps, b)
                             /\ AtSkipped(fmt, d, b + HeaderLen, h, r, l)
  BY DEF AtCounted
<1> DEFINE p == b + HeaderLen
           m == h.height
<1>4. PICK j \in 0..r, c \in 1..(Len(d) + 1) :
        /\ SkippedAfter(fmt, d, p, h, j) = [next |-> c, left |-> m - r]
        /\ c <= Len(d) /\ d[c] = l.repeat - 1 /\ AtSkippedRow(fmt, d, c, h, k)
  BY <1>3 DEF AtSkipped
<1>5. p \in Nat /\ j \in Nat /\ c \in Nat \ {0} /\ c \in 1..Len(d) /\ c \in 1..Len(e) /\ b \in 1..Len(e)
  BY <1>1, <1>2, <1>4, RasterAssumption
<1>6. AtSkippedRow(fmt, e, c, h, w)
  <2>1. k \in Nat /\ v \in 1..128 /\ k + v <= ColorsPerRow(h) /\ w = k + v
    <3>1. l.row \in Seq(Colored) /\ values \in Seq(Colored)
      BY <1>1 DEF LineStarts, RunFits
    <3> DEFINE row == l.row
    <3>2. row \in Seq(Colored) /\ values \in Seq(Colored)
      BY <3>1
    <3> HIDE DEF row
    <3>3. Len(row) \in Nat /\ Len(row \o values) = Len(row) + Len(values)
      BY ONLY <3>2
    <3>4. Len(values) \in 1..128 /\ Len(row) + Len(values) <= ColorsPerRow(h)
      BY DEF RunFits, row
    <3>5. QED
      BY <3>3, <3>4 DEF row
  <2>2. InfoBytes(bytes, v, ColorSize(h))
    OBVIOUS
  <2>3. AtSkippedRow(fmt, d, c, h, k)
    BY <1>4
  <2> HIDE DEF k, v, w, h
  <2>4. AtSkippedRow(fmt, d \o bytes, c, h, k + v)
    BY <1>1, <1>5, <2>1, <2>2, <2>3, SkipRowGoesOn
  <2>5. QED
    BY <2>1, <2>4
<1> HIDE DEF e, h, r, k, v, w, p, m
<1>7. AtCountedHeader(fmt, e, ps, b)
  BY <1>1, <1>2, <1>3, CountedHeaderKept
<1>8. SkippedAfter(fmt, e, p, h, j) = [next |-> c, left |-> m - r]
  <2> DEFINE x == SkippedAfter(fmt, d, p, h, j)
             y == SkippedAfter(fmt, e, p, h, j)
  <2>1. x.next = Short \/ y = x
    BY <1>1, <1>2, <1>5, SkippedKept
  <2>2. x = [next |-> c, left |-> m - r]
    BY <1>4
  <2> HIDE DEF x, y
  <2>3. x.next # Short
    BY <1>5, <2>2 DEF Short
  <2>4. QED
    BY <2>1, <2>2, <2>3 DEF y
<1>9. e[c] = l.repeat - 1
  BY <1>2, <1>4, <1>5 DEF Continues
<1>10. QED
  BY <1>4, <1>5, <1>6, <1>7, <1>8, <1>9 DEF SkipRunAt, e, h, r, w, p, m

LEMMA SkipRowContinued ==
  ASSUME NEW fmt, NEW e \in Documents, NEW ps, NEW l, NEW m, m # NoLine, m.repeat = l.repeat,
         SkipRunAt(fmt, e, ps, l, Len(m.row))
  PROVE  AtCounted(fmt, e, ps, m)
<1>1. PICK b \in 1..Len(e) :
        /\ AtCountedHeader(fmt, e, ps, b)
        /\ \E j \in 0..Len(Last(ps).rows), c \in 1..Len(e) :
             /\ SkippedAfter(fmt, e, b + HeaderLen, Last(ps).header, j) =
                  [next |-> c, left |-> Last(ps).header.height - Len(Last(ps).rows)]
             /\ e[c] = l.repeat - 1 /\ AtSkippedRow(fmt, e, c, Last(ps).header, Len(m.row))
  BY Zenon DEF SkipRunAt
<1> DEFINE p == b + HeaderLen
           h == Last(ps).header
           r == Len(Last(ps).rows)
<1>2. PICK j \in 0..r, c \in 1..Len(e) :
        /\ SkippedAfter(fmt, e, p, h, j) = [next |-> c, left |-> h.height - r]
        /\ e[c] = m.repeat - 1 /\ AtSkippedRow(fmt, e, c, h, Len(m.row))
  BY <1>1
<1>3. c \in 1..(Len(e) + 1) /\ c <= Len(e)
  BY DEF Documents
<1> HIDE DEF p, h, r
<1>4. AtSkipped(fmt, e, p, h, r, m)
  BY <1>2, <1>3 DEF AtSkipped
<1>5. QED
  BY <1>1, <1>4 DEF AtCounted, p, h, r

\* A row that is whole is skipped to the end of the document.
LEMMA WholeRow ==
  ASSUME NEW d \in Documents, NEW q \in Nat, NEW n \in Nat, NEW g, g.groupBytes \in Nat,
         NEW i \in 0..n, SkipRowAfter(d, q, n, g, i) = [next |-> Len(d) + 1, left |-> n - n]
  PROVE  SkipRow(d, q, n, g) = Len(d) + 1
<1> DEFINE x == SkipRowAfter(d, q, n, g, i)
<1>1. i \in Nat /\ i <= n
  OBVIOUS
<1>2. SkipDone(x)
  BY DEF SkipDone
<1>3. SkipRow(d, q, n, g) = x.next
  <2> HIDE DEF x
  <2>1. QED
    BY <1>1, <1>2, SkipRowRests DEF x
<1>4. QED
  BY <1>3

\* The line is whole.
LEMMA SkipLineEnded ==
  ASSUME NEW fmt \in Formats, NEW e \in Documents, NEW ps \in Seq(Page), ps # <<>>,
         WellFormed(Last(ps).header), NEW l, NEW repeat \in 1..256, l.repeat = repeat,
         Len(Last(ps).rows) + repeat <= Last(ps).header.height,
         NEW row \in Seq(Colored),
         SkipRunAt(fmt, e, ps, l, ColorsPerRow(Last(ps).header))
  PROVE  AtCounted(fmt, e, Grown(ps, row, repeat), NoLine)
<1> DEFINE h == Last(ps).header
           rows == Last(ps).rows
           r == Len(rows)
           more == rows \o Copies(row, repeat)
           qs == Grown(ps, row, repeat)
           n == ColorsPerRow(h)
           g == InfoGeometry(fmt, h)
           m == h.height
           w == r + repeat
<1>1. h \in PageHeaders /\ m \in Nat /\ rows \in Rows /\ r \in Nat /\ Len(e) \in Nat
  <2>1. Last(ps) \in Page
    BY FrontIs
  <2>2. h \in PageHeaders /\ rows \in Rows
    BY <2>1 DEF Page
  <2> HIDE DEF h, rows
  <2>3. h.height \in Nat /\ Len(rows) \in Nat /\ Len(e) \in Nat
    BY <2>2 DEF PageHeaders, Rows, Documents
  <2>4. QED
    BY <2>2, <2>3 DEF h, rows
<1>2. n \in Nat /\ g.groupBytes \in Nat
  <2> HIDE DEF h
  <2>1. QED
    BY <1>1, InfoGeometryIs DEF InfoFacts, h
<1>3. more \in Rows /\ Len(more) = w
  <2>1. Copies(row, repeat) \in Seq(Seq(Colored)) /\ Len(Copies(row, repeat)) = repeat
    <3>1. repeat \in Nat /\ row \in Seq(Colored)
      OBVIOUS
    <3>2. QED
      BY ONLY <3>1, CopiesType
  <2> DEFINE cs == Copies(row, repeat)
  <2> HIDE DEF cs, rows
  <2>2. rows \in Seq(Seq(Colored)) /\ cs \in Seq(Seq(Colored))
    BY <1>1, <2>1 DEF Rows, cs
  <2>3. rows \o cs \in Seq(Seq(Colored)) /\ Len(rows \o cs) = Len(rows) + Len(cs)
    BY ONLY <2>2
  <2>4. QED
    BY <2>1, <2>3 DEF Rows, cs
<1>4. /\ qs \in Seq(Page) /\ Len(qs) = Len(ps) /\ Last(qs) = [header |-> h, rows |-> more]
      /\ SubSeq(qs, 1, Len(qs) - 1) = SubSeq(ps, 1, Len(ps) - 1)
  BY <1>3, LastReplaced DEF Grown
<1>5. PICK b \in 1..Len(e) :
        /\ AtCountedHeader(fmt, e, ps, b)
        /\ \E j \in 0..r, c \in 1..Len(e) :
             /\ SkippedAfter(fmt, e, b + HeaderLen, h, j) = [next |-> c, left |-> m - r]
             /\ e[c] = l.repeat - 1 /\ AtSkippedRow(fmt, e, c, h, n)
  BY Zenon DEF SkipRunAt
<1> DEFINE p == b + HeaderLen
<1>6. PICK j \in 0..r, c \in 1..Len(e) :
        /\ SkippedAfter(fmt, e, p, h, j) = [next |-> c, left |-> m - r]
        /\ e[c] = repeat - 1 /\ AtSkippedRow(fmt, e, c, h, n)
  BY <1>5
<1>7. p \in Nat /\ j \in Nat /\ c \in Nat \ {0} /\ c + 1 \in Nat /\ c <= Len(e)
  BY <1>1, <1>6, RasterAssumption
<1> DEFINE q == c + 1
<1>8. SkipRow(e, q, n, g) = Len(e) + 1
  <2>1. PICK i \in 0..n : SkipRowAfter(e, q, n, g, i) = [next |-> Len(e) + 1, left |-> n - n]
    BY <1>6 DEF AtSkippedRow
  <2>2. q \in Nat
    BY <1>7
  <2> HIDE DEF n, g, q
  <2>3. QED
    BY <1>2, <2>1, <2>2, WholeRow
<1> DEFINE s == SkippedAfter(fmt, e, p, h, j)
<1>9. s \in SkipStates /\ SkippedAfter(fmt, e, p, h, j + 1) = SkipLine(e, n, g)[s]
  <2> DEFINE u == SkipLine(e, n, g)
             z == [next |-> p, left |-> m]
             t == SkippedAfter(fmt, e, p, h, j + 1)
  <2>1. s \in SkipStates
    <3>1. h \in PageHeaders /\ WellFormed(h) /\ p \in Nat /\ j \in Nat
      BY <1>1, <1>7
    <3> HIDE DEF h, p
    <3>2. QED
      BY <3>1, SkippedRound
  <2>2. s = Iterate(u, z, j) /\ t = Iterate(u, z, j + 1)
    BY Zenon DEF SkippedAfter
  <2> HIDE DEF u, z, s, t
  <2>3. Iterate(u, z, j + 1) = u[Iterate(u, z, j)]
    BY ONLY <1>7, IterateRounds
  <2>4. QED
    BY <2>1, <2>2, <2>3 DEF u, t
<1>10. s.next = c /\ s.left = m - r
  BY <1>6
<1>11. w <= m /\ w \in Nat
  <2>1. w <= m
    OBVIOUS
  <2>2. r \in Nat
    BY <1>1
  <2> HIDE DEF r, m
  <2>3. w \in Nat
    BY ONLY <2>2, repeat \in 1..256
  <2>4. QED
    BY <2>1, <2>3
<1> HIDE DEF s, m, n, g, h, rows, r, p, q, qs, more
<1>12. ~ SkipDone(s) /\ ~ BeyondEnd(e, s)
  <2>1. m - r > 0
    BY ONLY <1>1, <1>11, repeat \in 1..256
  <2>2. QED
    BY <1>1, <1>7, <1>10, <2>1 DEF SkipDone, BeyondEnd, Short
<1>13. SkipLine(e, n, g)[s] = SkipLineAhead(e, n, g, s)
  BY ONLY <1>9, <1>12, SkipLineIs
<1>14. SkipLineAhead(e, n, g, s) = [next |-> Len(e) + 1, left |-> m - w]
  <2>1. AsByte(e, c) + 1 = repeat
    <3>1. e[c] = repeat - 1 /\ repeat - 1 \in 0..255
      BY <1>6
    <3>2. AsByte(e, c) = repeat - 1
      BY <3>1 DEF AsByte
    <3>3. QED
      BY ONLY <3>2, repeat \in 1..256
  <2>2. (m - r) - repeat = m - w
    BY ONLY <1>1, repeat \in 1..256
  <2>3. SkipLineAhead(e, n, g, s) = [next |-> SkipRow(e, q, n, g), left |-> (m - r) - repeat]
    BY <1>10, <2>1 DEF SkipLineAhead, q
  <2> HIDE DEF w
  <2>4. QED
    BY <1>8, <2>2, <2>3
<1>15. SkippedAfter(fmt, e, p, h, j + 1) = [next |-> Len(e) + 1, left |-> m - w]
  BY <1>9, <1>13, <1>14
<1>16. AtSkipped(fmt, e, p, h, w, NoLine)
  <2>1. j + 1 \in 0..w /\ Len(e) + 1 \in 1..(Len(e) + 1)
    BY <1>1, <1>6
  <2> HIDE DEF w
  <2>2. QED
    BY <1>15, <2>1 DEF AtSkipped, m
<1>17. AtCountedHeader(fmt, e, qs, b) /\ Last(qs).header = h /\ Len(Last(qs).rows) = w
  <2>1. Last(qs).header = h /\ Last(qs).rows = more
    BY <1>4
  <2> HIDE DEF w
  <2>2. QED
    BY <1>3, <1>4, <1>5, <2>1 DEF AtCountedHeader, h
<1> HIDE DEF w
<1>18. QED
  BY <1>16, <1>17 DEF AtCounted, qs, p

LEMMA CountingContinues ==
  ASSUME Client, CountedSoFar, [Next]_vars
  PROVE  CountedSoFar'
<1>1. /\ format \in Formats /\ encoding \in {"decode", "info"} /\ Encoded(doc, pages, line)
      /\ format' = format /\ encoding' = encoding
  BY DEF Client, Next, vars, StartPage, StartLine, EncodeRow, EncodeRun
<1>2. SUFFICES ASSUME encoding = "info"
               PROVE  AtCounted(format, doc', pages', line') \/ pages' = <<>>
  BY <1>1 DEF CountedSoFar
<1>3. pages # <<>> => AtCounted(format, doc, pages, line)
  BY <1>2 DEF CountedSoFar
<1>4. ASSUME NEW k \in DOMAIN Headers, StartPage(k)
      PROVE  AtCounted(format, doc', pages', line')
  <2>1. /\ ~ Unfinished
        /\ doc' = doc \o HeaderBytes(k) /\ pages' = Append(pages, StartedPage(k))
        /\ line' = line
    BY <1>4, StartPageIs
  <2>2. line = NoLine
    BY <2>1, PageBetweenLines
  <2>3. pages # <<>> => /\ AtCounted(format, doc, pages, NoLine)
                        /\ ~ (Len(Last(pages).rows) < Last(pages).header.height)
    BY <1>3, <2>1, <2>2, FinishedOrNot
  <2>4. AtCounted(format, doc \o HeaderBytes(k), Append(pages, StartedPage(k)), NoLine)
    BY <1>1, <2>2, <2>3, CountStarted
  <2>5. QED
    BY <2>1, <2>2, <2>4
<1>5. ASSUME NEW repeat \in Repeats, StartLine(repeat)
      PROVE  AtCounted(format, doc', pages', line')
  <2>1. /\ line = NoLine /\ pages # <<>> /\ repeat \in 1..256
        /\ doc' = Append(doc, repeat - 1) /\ line' = StartedLine(repeat) /\ pages' = pages
    BY <1>5, StartLineIs
  <2>2. Encoded(doc, pages, NoLine) /\ AtCounted(format, doc, pages, NoLine)
    BY <1>1, <1>3, <2>1
  <2>3. AtCounted(format, Append(doc, repeat - 1), pages, StartedLine(repeat))
    BY <1>1, <2>1, <2>2, CountLineStarted
  <2>4. QED
    BY <2>1, <2>3
<1>6. ASSUME EncodeRow
      PROVE  AtCounted(format, doc', pages', line')
  <2> DEFINE h == Last(pages).header
  <2>1. line # NoLine /\ \E values, bytes : EncodesRun(h, values, bytes)
    BY <1>6, EncodeRowIs
  <2>2. PICK values, bytes : EncodesRun(h, values, bytes)
    BY <2>1
  <2> DEFINE row == line.row \o values
             e == doc \o bytes
  <2>3. /\ RunFits(h, line, values, bytes) /\ doc' = doc \o bytes
        /\ InfoBytes(bytes, Len(values), ColorSize(h))
        /\ Len(row) = ColorsPerRow(h) =>
             line' = NoLine /\ pages' = Grown(pages, row, line.repeat)
        /\ Len(row) # ColorsPerRow(h) =>
             line' = [line EXCEPT !.row = row] /\ pages' = pages
    BY <1>2, <2>2, Zenon DEF EncodesRun
  <2>4. /\ pages # <<>> /\ line \in LineStarts /\ line.repeat \in 1..256
        /\ Len(Last(pages).rows) + line.repeat <= h.height
    BY <1>1, <2>1, LineFactsOf
  <2>5. /\ doc \in Documents /\ pages \in Seq(Page) /\ h \in PageHeaders /\ WellFormed(h)
    BY <1>1, <2>4, LastPageFacts
  <2>6. SkipRunAt(format, e, pages, line, Len(row))
    BY <1>1, <1>3, <2>1, <2>3, <2>4, SkipRunAdded
  <2>7. e \in Documents
    <3>1. bytes \in Seq(0..255)
      BY <2>3 DEF RunFits
    <3>2. QED
      BY <2>5, <3>1, BytesAdded
  <2>8. CASE Len(row) # ColorsPerRow(h)
    <3> DEFINE m == [line EXCEPT !.row = row]
    <3>0. m.repeat = line.repeat /\ m.row = row
      BY <2>4 DEF LineStarts
    <3> HIDE DEF m
    <3>1. m # NoLine /\ m.repeat = line.repeat /\ m.row = row
      <4>1. NoLine.repeat = 0
        BY DEF NoLine
      <4> DEFINE n == line.repeat
      <4>2. n \in 1..256
        BY <2>4
      <4> HIDE DEF n
      <4>3. n # 0
        BY ONLY <4>2
      <4>4. m.repeat # NoLine.repeat
        BY <3>0, <4>1, <4>3 DEF n
      <4>5. QED
        BY <3>0, <4>4
    <3> HIDE DEF m, row, e
    <3>2. AtCounted(format, e, pages, m)
      BY <2>6, <2>7, <3>1, SkipRowContinued
    <3>3. QED
      BY <2>3, <2>8, <3>2 DEF m, e
  <2>9. CASE Len(row) = ColorsPerRow(h)
    <3>1. row \in Seq(Colored)
      <4> HIDE DEF h
      <4>1. QED
        BY <2>3, <2>4, <2>5, LongerRow
    <3>2. SkipRunAt(format, e, pages, line, ColorsPerRow(h))
      BY <2>6, <2>9
    <3> HIDE DEF row, e
    <3>3. AtCounted(format, e, Grown(pages, row, line.repeat), NoLine)
      BY <1>1, <2>4, <2>5, <2>7, <3>1, <3>2, SkipLineEnded
    <3>4. QED
      BY <2>3, <2>9, <3>3 DEF e
  <2>10. QED
    BY <2>8, <2>9
<1>7. CASE UNCHANGED vars
  BY <1>3, <1>7 DEF vars
<1>8. QED
  BY <1>4, <1>5, <1>6, <1>7 DEF Next

LEMMA CountInvariant == Spec => [](Client /\ CountedSoFar)
<1>1. Init => Client /\ CountedSoFar
  BY ClientStarts DEF Init, CountedSoFar
<1>2. Client /\ CountedSoFar /\ [Next]_vars => (Client /\ CountedSoFar)'
  BY ClientContinues, CountingContinues
<1>3. QED
  BY <1>1, <1>2, PTL DEF Spec

\* raster-info.ts counts the pages that were encoded for it, whatever runs,
\* repeated lines and page boundaries the client chose, as far as it has come:
\* the headers it reads are those of the pages, in their order.
THEOREM CountedAsEncoded == Spec => []CountsWhatWasEncoded
<1>1. Client /\ CountedSoFar => CountsWhatWasEncoded
  <2>1. SUFFICES ASSUME Client, CountedSoFar, encoding = "info"
                 PROVE  ParseRasterInfo(format, doc) = HeadersOf(pages)
    BY DEF CountsWhatWasEncoded, HeadersOf
  <2>2. format \in Formats /\ Encoded(doc, pages, line)
    BY <2>1 DEF Client
  <2>3. pages # <<>> => AtCounted(format, doc, pages, line)
    BY <2>1 DEF CountedSoFar
  <2>4. QED
    BY <2>2, <2>3, CountedIsEncoded
<1>2. QED
  BY <1>1, CountInvariant, PTL
=============================================================================
