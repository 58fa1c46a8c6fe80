----------------------------- MODULE RenderProofs -----------------------------
(***************************************************************************)
(* What a rendering leaves on disk, for any number of documents and pages, *)
(* pages of any size, any template and any number of failures.             *)
(*                                                                         *)
(* RInv says what the documents are and that there are finitely many       *)
(* files.  What the properties say of the files a rendering leaves is then *)
(* a fact about the functions the rendering is built from; it comes in     *)
(* two halves, the loop over Ghostscript's documents and the loop over the *)
(* raster pages.                                                           *)
(***************************************************************************)
EXTENDS Render, ListsProofs, FiniteSetTheorems

(***************************************************************************)
(* Files.                                                                  *)
(***************************************************************************)
\* The first n files of a base.
Files(base, n) == {<<base, i>> : i \in 1..n}

LEMMA FilesCount ==
  ASSUME NEW base, NEW n \in Nat
  PROVE  IsFiniteSet(Files(base, n)) /\ Cardinality(Files(base, n)) = n
<1> DEFINE S == {k \in Nat : IsFiniteSet(Files(base, k)) /\ Cardinality(Files(base, k)) = k}
<1>1. 0 \in S
  <2>1. Files(base, 0) = {}
    BY DEF Files
  <2>2. QED
    BY <2>1, FS_EmptySet
<1>2. ASSUME NEW k \in Nat, k \in S
      PROVE  k + 1 \in S
  <2>1. Files(base, k + 1) = Files(base, k) \cup {<<base, k + 1>>}
    <3>1. 1..(k + 1) = 1..k \cup {k + 1}
      OBVIOUS
    <3>2. QED
      BY <3>1, Zenon DEF Files
  <2>2. <<base, k + 1>> \notin Files(base, k)
    BY DEF Files
  <2>3. IsFiniteSet(Files(base, k)) /\ Cardinality(Files(base, k)) = k
    BY <1>2
  <2>4. QED
    BY <2>1, <2>2, <2>3, FS_AddElement
<1> HIDE DEF S
<1>3. Nat \subseteq S
  BY <1>1, <1>2, SetInduction
<1>4. QED
  BY <1>3 DEF S

\* There are finitely many files, so the probe ends at the first gap.
LEMMA ProbeIs ==
  ASSUME NEW base, NEW files, IsFiniteSet(DOMAIN files)
  PROVE  /\ Probe(base, files) \in Nat
         /\ \A i \in 1..Probe(base, files) : <<base, i>> \in DOMAIN files
         /\ <<base, Probe(base, files) + 1>> \notin DOMAIN files
<1> DEFINE c == Cardinality(DOMAIN files)
           Gap(n) == /\ \A i \in 1..n : <<base, i>> \in DOMAIN files
                     /\ <<base, n + 1>> \notin DOMAIN files
<1>1. c \in Nat
  BY FS_CardinalityType
<1>2. \E n \in 0..c : Gap(n)
  <2> SUFFICES ASSUME \A n \in 0..c : ~ Gap(n)
               PROVE  FALSE
    OBVIOUS
  <2> DEFINE S == {k \in Nat : k <= c + 1 => Files(base, k) \subseteq DOMAIN files}
  <2>1. 0 \in S
    BY DEF Files
  <2>2. ASSUME NEW k \in Nat, k \in S
        PROVE  k + 1 \in S
    <3> SUFFICES ASSUME k + 1 <= c + 1
                 PROVE  Files(base, k + 1) \subseteq DOMAIN files
      OBVIOUS
    <3>1. k \in 0..c /\ k <= c + 1
      BY <1>1
    <3>2. \A i \in 1..k : <<base, i>> \in DOMAIN files
      BY <2>2, <3>1 DEF Files
    <3>3. <<base, k + 1>> \in DOMAIN files
      BY <3>1, <3>2
    <3>4. \A i \in 1..(k + 1) : i \in 1..k \/ i = k + 1
      OBVIOUS
    <3>5. QED
      BY <3>2, <3>3, <3>4 DEF Files
  <2> HIDE DEF S
  <2>3. Nat \subseteq S
    BY <2>1, <2>2, SetInduction
  <2>4. Files(base, c + 1) \subseteq DOMAIN files
    BY <1>1, <2>3 DEF S
  <2>5. Cardinality(Files(base, c + 1)) = c + 1
    BY <1>1, FilesCount
  <2>6. Cardinality(Files(base, c + 1)) <= c
    BY <2>4, FS_Subset
  <2>7. QED
    BY <1>1, <2>5, <2>6
<1>3. Probe(base, files) = CHOOSE n \in 0..c : Gap(n)
  BY Zenon DEF Probe
<1> HIDE DEF Gap, c
<1>4. Probe(base, files) \in 0..c /\ Gap(Probe(base, files))
  BY <1>2, <1>3, Zenon
<1>5. QED
  BY <1>1, <1>4 DEF Gap

(***************************************************************************)
(* Ghostscript: the loop over the documents.                               *)
(***************************************************************************)
\* The recursion of RasterizePdfOrPostScript, over the first m documents.
RasterizedUpTo(f, docs, produced, files, m) ==
  f = [d \in 0..m |->
        IF d = 0 THEN [disk |-> files, gsPages |-> 0]
        ELSE IF docs[d].format = "pdf"
             THEN RasterizeNext(f[d - 1], docs[d], produced[d])
             ELSE f[d - 1]]

\* The same, one document at a time.
StepByStep(f, docs, produced, files, m) ==
  /\ f[0] = [disk |-> files, gsPages |-> 0]
  /\ \A d \in Nat : d < m =>
       f[d + 1] = IF docs[d + 1].format = "pdf"
                  THEN RasterizeNext(f[d], docs[d + 1], produced[d + 1])
                  ELSE f[d]

LEMMA RasterizedStep ==
  ASSUME NEW docs, NEW produced, NEW files, NEW m \in Nat,
         NEW f, RasterizedUpTo(f, docs, produced, files, m)
  PROVE  StepByStep(f, docs, produced, files, m)
<1>1. \A d \in 0..m :
        f[d] = IF d = 0 THEN [disk |-> files, gsPages |-> 0]
               ELSE IF docs[d].format = "pdf"
                    THEN RasterizeNext(f[d - 1], docs[d], produced[d])
                    ELSE f[d - 1]
  BY Zenon DEF RasterizedUpTo
<1>2. ASSUME NEW d \in Nat, d < m
      PROVE  f[d + 1] = IF docs[d + 1].format = "pdf"
                        THEN RasterizeNext(f[d], docs[d + 1], produced[d + 1])
                        ELSE f[d]
  <2>1. d + 1 \in 0..m /\ d + 1 # 0 /\ (d + 1) - 1 = d
    BY <1>2
  <2>2. QED
    BY <1>1, <2>1
<1>3. 0 \in 0..m
  OBVIOUS
<1>4. QED
  BY <1>1, <1>2, <1>3 DEF StepByStep

LEMMA RasterizingExists ==
  ASSUME NEW docs, NEW produced, NEW files
  PROVE  \A m \in Nat : \E f : RasterizedUpTo(f, docs, produced, files, m)
<1> DEFINE After(g, d) == IF docs[d].format = "pdf"
                          THEN RasterizeNext(g, docs[d], produced[d])
                          ELSE g
           S == {m \in Nat : \E f : RasterizedUpTo(f, docs, produced, files, m)}
<1>0. ASSUME NEW f, NEW m
      PROVE  RasterizedUpTo(f, docs, produced, files, m) <=>
               f = [d \in 0..m |-> IF d = 0 THEN [disk |-> files, gsPages |-> 0]
                                   ELSE After(f[d - 1], d)]
  BY Zenon DEF RasterizedUpTo
<1> HIDE DEF After
<1>1. 0 \in S
  <2> DEFINE f == [d \in 0..0 |-> [disk |-> files, gsPages |-> 0]]
  <2>1. f = [d \in 0..0 |-> IF d = 0 THEN [disk |-> files, gsPages |-> 0]
                            ELSE After(f[d - 1], d)]
    OBVIOUS
  <2>2. QED
    BY <1>0, <2>1
<1>2. ASSUME NEW m \in Nat, m \in S
      PROVE  m + 1 \in S
  <2>1. PICK f : RasterizedUpTo(f, docs, produced, files, m)
    BY <1>2
  <2> DEFINE g == [d \in 0..(m + 1) |-> IF d = m + 1 THEN After(f[m], d) ELSE f[d]]
  <2>2. ASSUME NEW d \in 0..(m + 1)
        PROVE  g[d] = IF d = 0 THEN [disk |-> files, gsPages |-> 0]
                      ELSE After(g[d - 1], d)
    <3>1. \A k \in 0..m : g[k] = f[k]
      OBVIOUS
    <3>2. CASE d = m + 1
      <4>1. m \in 0..m /\ d # 0 /\ d - 1 = m
        BY <3>2
      <4>2. g[d] = After(f[m], d)
        BY <3>2
      <4>3. QED
        BY <3>1, <4>1, <4>2
    <3>3. CASE d # m + 1
      <4>1. d \in 0..m /\ (d # 0 => d - 1 \in 0..m)
        BY <3>3
      <4>2. f = [n \in 0..m |-> IF n = 0 THEN [disk |-> files, gsPages |-> 0]
                                ELSE After(f[n - 1], n)]
        BY <1>0, <2>1
      <4>3. f[d] = IF d = 0 THEN [disk |-> files, gsPages |-> 0]
                   ELSE After(f[d - 1], d)
        BY <4>1, <4>2, Zenon
      <4>4. QED
        BY <3>1, <4>1, <4>3
    <3>4. QED
      BY <3>2, <3>3
  <2>3. g = [d \in 0..(m + 1) |-> g[d]]
    OBVIOUS
  <2> HIDE DEF g
  <2>4. g = [d \in 0..(m + 1) |-> IF d = 0 THEN [disk |-> files, gsPages |-> 0]
                                  ELSE After(g[d - 1], d)]
    BY <2>2, <2>3
  <2>5. RasterizedUpTo(g, docs, produced, files, m + 1)
    BY <1>0, <2>4, Zenon
  <2>6. QED
    BY <2>5
<1> HIDE DEF S
<1>3. Nat \subseteq S
  BY <1>1, <1>2, SetInduction
<1>4. QED
  BY <1>3 DEF S

LEMMA RasterizeIs ==
  ASSUME NEW docs, NEW produced, NEW files, Len(docs) \in Nat
  PROVE  \E f : /\ RasterizedUpTo(f, docs, produced, files, Len(docs))
                /\ RasterizePdfOrPostScript(docs, produced, files) = f[Len(docs)]
<1>1. RasterizePdfOrPostScript(docs, produced, files)
        = (CHOOSE f : RasterizedUpTo(f, docs, produced, files, Len(docs)))[Len(docs)]
  BY Zenon DEF RasterizePdfOrPostScript, RasterizedUpTo
<1>2. QED
  BY <1>1, RasterizingExists, Zenon

\* One document: its pages are named after the pages before it, and the next
\* base lies beyond them.
LEMMA RasterizeNextIs ==
  ASSUME NEW sofar, NEW d, NEW made \in Int, made >= NotStarted,
         sofar.gsPages \in Nat, IsFiniteSet(DOMAIN sofar.disk)
  PROVE  LET next == RasterizeNext(sofar, d, made) IN
         /\ next.gsPages \in Nat /\ next.gsPages >= sofar.gsPages + made
         /\ next.gsPages >= sofar.gsPages
         /\ DOMAIN next.disk = Files(sofar.gsPages, made) \cup DOMAIN sofar.disk
         /\ IsFiniteSet(DOMAIN next.disk)
         /\ \A n \in 1..made : next.disk[<<sofar.gsPages, n>>] = GsPage(d, n)
         /\ \A f \in DOMAIN sofar.disk :
              f \notin Files(sofar.gsPages, made) => next.disk[f] = sofar.disk[f]
         /\ (\A i \in Nat : <<sofar.gsPages, i>> \notin DOMAIN sofar.disk) =>
              next.gsPages = sofar.gsPages + Cardinality(Files(sofar.gsPages, made))
<1> DEFINE base == sofar.gsPages
           pages == [n \in 1..made |-> GsPage(d, n)]
           over == Over(base, pages, sofar.disk)
<1>1. /\ DOMAIN over = Files(base, made) \cup DOMAIN sofar.disk
      /\ \A n \in 1..made : over[<<base, n>>] = GsPage(d, n)
      /\ \A f \in DOMAIN sofar.disk : f \notin Files(base, made) => over[f] = sofar.disk[f]
  <2>1. DOMAIN pages = 1..made /\ \A n \in 1..made : pages[n] = GsPage(d, n)
    OBVIOUS
  <2> HIDE DEF pages
  <2>2. Files(base, made) = {<<base, n>> : n \in DOMAIN pages}
    BY <2>1, Zenon DEF Files
  <2>3. /\ DOMAIN over = {<<base, n>> : n \in DOMAIN pages} \cup DOMAIN sofar.disk
        /\ \A n \in DOMAIN pages : over[<<base, n>>] = pages[n]
        /\ \A f \in DOMAIN sofar.disk :
             f \notin {<<base, n>> : n \in DOMAIN pages} => over[f] = sofar.disk[f]
    BY Zenon DEF Over
  <2> HIDE DEF over
  <2>4. QED
    BY <2>1, <2>2, <2>3, Zenon
<1>2. CASE made = NotStarted
  <2>1. Files(base, made) = {} /\ 1..made = {} /\ base + made <= base
    BY <1>2 DEF Files, NotStarted
  <2>2. RasterizeNext(sofar, d, made) = sofar
    BY <1>2 DEF RasterizeNext
  <2>3. QED
    BY <2>1, <2>2, FS_EmptySet
<1>3. CASE made # NotStarted
  <2>1. made \in Nat
    BY <1>3 DEF NotStarted
  <2>2. IsFiniteSet(Files(base, made)) /\ Cardinality(Files(base, made)) = made
    BY <2>1, FilesCount
  <2>3. IsFiniteSet(DOMAIN over)
    BY <1>1, <2>2, FS_Union
  <2> DEFINE found == Probe(base, over)
  <2>4. RasterizeNext(sofar, d, made) = [disk |-> over, gsPages |-> base + found]
    BY <1>3 DEF RasterizeNext
  <2> HIDE DEF over, pages
  <2>5. /\ found \in Nat
        /\ \A i \in 1..found : <<base, i>> \in DOMAIN over
        /\ <<base, found + 1>> \notin DOMAIN over
    BY <2>3, ProbeIs
  <2>6. found >= made
    <3>1. found + 1 \notin 1..made
      BY <1>1, <2>5 DEF Files
    <3>2. QED
      BY <2>1, <2>5, <3>1
  <2>7. ASSUME \A i \in Nat : <<base, i>> \notin DOMAIN sofar.disk
        PROVE  found = made
    <3>1. ASSUME found > made PROVE FALSE
      <4>1. made + 1 \in 1..found /\ made + 1 \in Nat
        BY <2>1, <2>5, <3>1
      <4>2. <<base, made + 1>> \in Files(base, made)
        BY <1>1, <2>5, <2>7, <4>1
      <4>3. made + 1 \in 1..made
        BY <4>2 DEF Files
      <4>4. QED
        BY <2>1, <4>3
    <3>2. QED
      BY <2>1, <2>5, <2>6, <3>1
  <2> HIDE DEF found
  <2>8. QED
    BY <1>1, <2>1, <2>2, <2>3, <2>4, <2>5, <2>6, <2>7
<1>4. QED
  BY <1>2, <1>3

\* What the loop is given: documents of which Ghostscript makes some pages,
\* and none of what is no page description.
Makeable(docs, produced) ==
  /\ Len(docs) \in Nat
  /\ \A d \in 1..Len(docs) :
       /\ produced[d] \in Int /\ produced[d] >= NotStarted
       /\ docs[d].format # "pdf" => produced[d] <= 0

\* The pages of the first m documents are on disk, under the bases used.
PagesKept(docs, produced, m, done) ==
  \A d \in 1..m : \A n \in 1..produced[d] :
    \E f \in DOMAIN done.disk : /\ f[1] \in Nat /\ f[1] < done.gsPages
                                /\ done.disk[f] = GsPage(docs[d], n)

\* From an empty disk there is one file for each page that is counted.
PagesCounted(done) ==
  /\ Cardinality(DOMAIN done.disk) = done.gsPages
  /\ \A f \in DOMAIN done.disk : f[1] \in Nat /\ f[1] < done.gsPages

LEMMA OneMoreDocument ==
  ASSUME NEW docs, NEW produced, Makeable(docs, produced),
         NEW m \in Nat, m < Len(docs), NEW done, NEW next,
         done.gsPages \in Nat, IsFiniteSet(DOMAIN done.disk),
         PagesKept(docs, produced, m, done),
         next = IF docs[m + 1].format = "pdf"
                THEN RasterizeNext(done, docs[m + 1], produced[m + 1])
                ELSE done
  PROVE  /\ next.gsPages \in Nat /\ IsFiniteSet(DOMAIN next.disk)
         /\ PagesKept(docs, produced, m + 1, next)
         /\ PagesCounted(done) => PagesCounted(next)
<1> DEFINE made == produced[m + 1]
           base == done.gsPages
<1>0. m + 1 \in 1..Len(docs) /\ made \in Int /\ made >= NotStarted
  BY DEF Makeable
<1>1. \A d \in 1..(m + 1) : d \in 1..m \/ d = m + 1
  OBVIOUS
<1>2. CASE docs[m + 1].format # "pdf"
  <2>1. made <= 0 /\ next = done
    BY <1>0, <1>2 DEF Makeable
  <2>2. 1..made = {}
    BY <1>0, <2>1
  <2>3. PagesKept(docs, produced, m + 1, next)
    BY <1>1, <2>1, <2>2 DEF PagesKept
  <2>4. QED
    BY <2>1, <2>3
<1>3. CASE docs[m + 1].format = "pdf"
  <2>1. next = RasterizeNext(done, docs[m + 1], made)
    BY <1>3
  <2>2. /\ next.gsPages \in Nat /\ next.gsPages >= base + made
        /\ next.gsPages >= base
        /\ DOMAIN next.disk = Files(base, made) \cup DOMAIN done.disk
        /\ IsFiniteSet(DOMAIN next.disk)
        /\ \A n \in 1..made : next.disk[<<base, n>>] = GsPage(docs[m + 1], n)
        /\ \A f \in DOMAIN done.disk :
             f \notin Files(base, made) => next.disk[f] = done.disk[f]
        /\ (\A i \in Nat : <<base, i>> \notin DOMAIN done.disk) =>
             next.gsPages = base + Cardinality(Files(base, made))
    BY <1>0, <2>1, RasterizeNextIs
  <2>3. \A f \in Files(base, made) : f[1] = base
    BY DEF Files
  <2> HIDE DEF made, base
  <2>4. ASSUME NEW d \in 1..(m + 1), NEW n \in 1..produced[d]
        PROVE  \E f \in DOMAIN next.disk : /\ f[1] \in Nat /\ f[1] < next.gsPages
                                           /\ next.disk[f] = GsPage(docs[d], n)
    <3>1. CASE d = m + 1
      <4>1. n \in 1..made /\ made \in Int
        BY <1>0, <3>1 DEF made
      <4>2. <<base, n>> \in DOMAIN next.disk /\ next.disk[<<base, n>>] = GsPage(docs[d], n)
        BY <2>2, <3>1, <4>1 DEF Files
      <4>3. base \in Nat /\ base < next.gsPages
        BY <2>2, <4>1 DEF base
      <4>4. <<base, n>>[1] = base
        OBVIOUS
      <4>5. QED
        BY <4>2, <4>3, <4>4
    <3>2. CASE d \in 1..m
      <4>1. PICK f \in DOMAIN done.disk : /\ f[1] \in Nat /\ f[1] < base
                                          /\ done.disk[f] = GsPage(docs[d], n)
        BY <3>2 DEF PagesKept, base
      <4>2. f \notin Files(base, made)
        BY <2>3, <4>1 DEF base
      <4>3. QED
        BY <2>2, <4>1, <4>2 DEF base
    <3>3. QED
      BY <1>1, <3>1, <3>2
  <2>5. ASSUME PagesCounted(done)
        PROVE  PagesCounted(next)
    <3>1. \A f \in DOMAIN done.disk : f[1] \in Nat /\ f[1] < base
      BY <2>5 DEF PagesCounted, base
    <3>2. \A i \in Nat : <<base, i>> \notin DOMAIN done.disk
      <4>1. ASSUME NEW i \in Nat, <<base, i>> \in DOMAIN done.disk
            PROVE  FALSE
        <5>1. <<base, i>>[1] < base /\ <<base, i>>[1] = base
          BY <3>1, <4>1
        <5>2. QED
          BY <5>1 DEF base
      <4>2. QED
        BY <4>1
    <3>3. next.gsPages = base + Cardinality(Files(base, made))
      BY <2>2, <3>2
    <3>4. Files(base, made) \cap DOMAIN done.disk = {}
      BY <2>3, <3>1 DEF base
    <3>5. IsFiniteSet(Files(base, made)) /\ Cardinality(Files(base, made)) \in Nat
      <4>1. Files(base, made) \in SUBSET (DOMAIN next.disk)
        BY <2>2
      <4>2. QED
        BY <2>2, <4>1, FS_Subset, FS_CardinalityType
    <3>6. Cardinality(DOMAIN next.disk)
            = Cardinality(Files(base, made)) + Cardinality(DOMAIN done.disk)
      <4> DEFINE A == Files(base, made)
                 B == DOMAIN done.disk
      <4>1. DOMAIN next.disk = A \cup B /\ A \cap B = {} /\ IsFiniteSet(A) /\ IsFiniteSet(B)
        BY <2>2, <3>4, <3>5
      <4> HIDE DEF A, B
      <4>2. Cardinality(A \cup B) = Cardinality(A) + Cardinality(B) - Cardinality(A \cap B)
        BY <4>1, FS_Union
      <4>3. Cardinality(A \cap B) = 0 /\ Cardinality(A) \in Nat /\ Cardinality(B) \in Nat
        BY <4>1, FS_EmptySet, FS_CardinalityType
      <4>4. Cardinality(DOMAIN next.disk) = Cardinality(A \cup B)
        BY <4>1, Zenon
      <4>5. Cardinality(DOMAIN next.disk) = Cardinality(A) + Cardinality(B)
        BY <4>2, <4>3, <4>4
      <4>6. QED
        BY <4>5 DEF A, B
    <3>7. Cardinality(DOMAIN done.disk) = base /\ base \in Nat
      BY <2>5 DEF PagesCounted, base
    <3>8. ASSUME NEW f \in DOMAIN next.disk
          PROVE  f[1] \in Nat /\ f[1] < next.gsPages
      <4>1. CASE f \in DOMAIN done.disk
        BY <2>2, <3>1, <3>7, <4>1
      <4>2. CASE f \in Files(base, made)
        <5>1. PICK n \in 1..made : f = <<base, n>>
          BY <4>2 DEF Files
        <5>2. made \in Int /\ n \in Int /\ f[1] = base
          BY <1>0, <5>1 DEF made
        <5>3. QED
          BY <2>2, <3>7, <5>1, <5>2
      <4>3. QED
        BY <2>2, <4>1, <4>2
    <3>9. QED
      BY <3>3, <3>5, <3>6, <3>7, <3>8 DEF PagesCounted
  <2>6. PagesKept(docs, produced, m + 1, next)
    BY <2>4 DEF PagesKept
  <2>7. QED
    BY <2>2, <2>5, <2>6
<1>4. QED
  BY <1>2, <1>3

\* All of the documents.
LEMMA DocumentsRasterized ==
  ASSUME NEW docs, NEW produced, NEW files, Makeable(docs, produced),
         IsFiniteSet(DOMAIN files)
  PROVE  LET done == RasterizePdfOrPostScript(docs, produced, files) IN
         /\ done.gsPages \in Nat /\ IsFiniteSet(DOMAIN done.disk)
         /\ PagesKept(docs, produced, Len(docs), done)
         /\ DOMAIN files = {} => PagesCounted(done)
<1> DEFINE m == Len(docs)
<1>0. m \in Nat
  BY DEF Makeable
<1>1. PICK f : /\ RasterizedUpTo(f, docs, produced, files, m)
               /\ RasterizePdfOrPostScript(docs, produced, files) = f[m]
  BY <1>0, RasterizeIs
<1>2. /\ f[0] = [disk |-> files, gsPages |-> 0]
      /\ \A d \in Nat : d < m =>
           f[d + 1] = IF docs[d + 1].format = "pdf"
                      THEN RasterizeNext(f[d], docs[d + 1], produced[d + 1])
                      ELSE f[d]
  <2> HIDE DEF m
  <2>1. StepByStep(f, docs, produced, files, m)
    BY <1>0, <1>1, RasterizedStep, Zenon
  <2>2. QED
    BY <2>1, Zenon DEF StepByStep
<1> DEFINE Good(d) == /\ f[d].gsPages \in Nat /\ IsFiniteSet(DOMAIN f[d].disk)
                      /\ PagesKept(docs, produced, d, f[d])
                      /\ DOMAIN files = {} => PagesCounted(f[d])
           S == {d \in Nat : d <= m => Good(d)}
<1>3. Good(0)
  <2>1. f[0].gsPages = 0 /\ f[0].disk = files
    BY <1>2
  <2>2. PagesKept(docs, produced, 0, f[0])
    BY DEF PagesKept
  <2>3. DOMAIN files = {} => PagesCounted(f[0])
    BY <2>1, FS_EmptySet DEF PagesCounted
  <2>4. QED
    BY <2>1, <2>2, <2>3
<1>4. ASSUME NEW d \in Nat, d < m, Good(d)
      PROVE  Good(d + 1)
  <2>1. f[d + 1] = IF docs[d + 1].format = "pdf"
                   THEN RasterizeNext(f[d], docs[d + 1], produced[d + 1])
                   ELSE f[d]
    BY <1>2, <1>4
  <2>2. QED
    BY <1>4, <2>1, OneMoreDocument
<1> HIDE DEF Good
<1>5. Nat \subseteq S
  <2>1. 0 \in S
    BY <1>3
  <2>2. \A d \in Nat : d \in S => d + 1 \in S
    <3>1. ASSUME NEW d \in Nat, d \in S, d + 1 <= m
          PROVE  Good(d + 1)
      <4>1. d < m /\ d <= m
        BY <1>0, <3>1
      <4>2. QED
        BY <1>4, <3>1, <4>1
    <3>2. QED
      BY <3>1
  <2> HIDE DEF S
  <2>3. QED
    BY <2>1, <2>2, SetInduction
<1>6. Good(m)
  BY <1>0, <1>5
<1>7. QED
  BY <1>1, <1>6 DEF Good

(***************************************************************************)
(* The raster pages of the documents.                                      *)
(***************************************************************************)
Sizes == (Nat \ {0}) \X (Nat \ {0})

\* A document as the job holds it.
Numbered == [format: {"pdf", "other"}, raster: Seq(Sizes), pages: Nat, number: Nat]

\* No two documents have one number.
Distinct(docs) ==
  \A c, d \in 1..Len(docs) : docs[c].number = docs[d].number => c = d

PageImages == {PageImage(c, n, z) : c \in Nat, n \in Nat, z \in Sizes}

LabelRows(docs) ==
  [d \in DOMAIN docs |-> [n \in DOMAIN docs[d].raster |-> <<docs[d].number, n>>]]

PageRows(docs) ==
  [d \in DOMAIN docs |-> [n \in DOMAIN docs[d].raster |->
     PageImage(docs[d].number, n, docs[d].raster[n])]]

\* source holds the pages that the labels name, and no label comes twice.
Labelled(source, labels) ==
  /\ labels \in Seq(Nat \X Nat) /\ source \in Seq(PageImages)
  /\ Len(source) = Len(labels)
  /\ \A i \in 1..Len(labels) : \E z \in Sizes :
       source[i] = PageImage(labels[i][1], labels[i][2], z)
  /\ \A i, j \in 1..Len(labels) : labels[i] = labels[j] => i = j

LEMMA RowsTypes ==
  ASSUME NEW docs \in Seq(Numbered)
  PROVE  /\ LabelRows(docs) \in Seq(Seq(Nat \X Nat)) /\ PageRows(docs) \in Seq(Seq(PageImages))
         /\ Len(LabelRows(docs)) = Len(docs) /\ Len(PageRows(docs)) = Len(docs)
         /\ \A d \in 1..Len(docs) :
              /\ Len(LabelRows(docs)[d]) = Len(docs[d].raster)
              /\ Len(PageRows(docs)[d]) = Len(docs[d].raster)
              /\ \A n \in 1..Len(docs[d].raster) :
                   /\ LabelRows(docs)[d][n] = <<docs[d].number, n>>
                   /\ PageRows(docs)[d][n] = PageImage(docs[d].number, n, docs[d].raster[n])
                   /\ docs[d].raster[n] \in Sizes /\ docs[d].number \in Nat
<1>1. /\ DOMAIN docs = 1..Len(docs) /\ Len(docs) \in Nat
      /\ \A d \in 1..Len(docs) : /\ docs[d].raster \in Seq(Sizes) /\ docs[d].number \in Nat
                                 /\ DOMAIN docs[d].raster = 1..Len(docs[d].raster)
                                 /\ Len(docs[d].raster) \in Nat
  <2>1. DOMAIN docs = 1..Len(docs) /\ Len(docs) \in Nat
    OBVIOUS
  <2>2. ASSUME NEW d \in 1..Len(docs)
        PROVE  /\ docs[d].raster \in Seq(Sizes) /\ docs[d].number \in Nat
               /\ DOMAIN docs[d].raster = 1..Len(docs[d].raster)
               /\ Len(docs[d].raster) \in Nat
    <3>1. docs[d] \in Numbered
      OBVIOUS
    <3>2. docs[d].raster \in Seq(Sizes) /\ docs[d].number \in Nat
      BY <3>1 DEF Numbered
    <3>3. QED
      BY ONLY <3>2
  <2>3. QED
    BY <2>1, <2>2
<1>2. ASSUME NEW d \in 1..Len(docs)
      PROVE  /\ [n \in DOMAIN docs[d].raster |-> <<docs[d].number, n>>] \in Seq(Nat \X Nat)
             /\ Len([n \in DOMAIN docs[d].raster |-> <<docs[d].number, n>>]) = Len(docs[d].raster)
  <2>1. /\ DOMAIN docs[d].raster = 1..Len(docs[d].raster) /\ Len(docs[d].raster) \in Nat
        /\ docs[d].number \in Nat
    BY <1>1
  <2>2. QED
    BY ONLY <2>1
<1>3. ASSUME NEW d \in 1..Len(docs)
      PROVE  LET row == [n \in DOMAIN docs[d].raster |->
                           PageImage(docs[d].number, n, docs[d].raster[n])]
             IN  row \in Seq(PageImages) /\ Len(row) = Len(docs[d].raster)
  <2> DEFINE P(n) == PageImage(docs[d].number, n, docs[d].raster[n])
  <2>1. \A n \in 1..Len(docs[d].raster) : P(n) \in PageImages
    <3>1. \A n \in 1..Len(docs[d].raster) :
            n \in Nat /\ docs[d].number \in Nat /\ docs[d].raster[n] \in Sizes
      BY <1>1
    <3>2. QED
      BY <3>1 DEF PageImages
  <2> HIDE DEF P
  <2>2. [n \in 1..Len(docs[d].raster) |-> P(n)] \in Seq(PageImages)
        /\ Len([n \in 1..Len(docs[d].raster) |-> P(n)]) = Len(docs[d].raster)
    BY <1>1, <2>1
  <2>3. QED
    BY <1>1, <2>2 DEF P
<1>4. \A d \in 1..Len(docs) :
        /\ LabelRows(docs)[d] = [n \in DOMAIN docs[d].raster |-> <<docs[d].number, n>>]
        /\ PageRows(docs)[d] = [n \in DOMAIN docs[d].raster |->
                                  PageImage(docs[d].number, n, docs[d].raster[n])]
  BY <1>1, Zenon DEF LabelRows, PageRows
<1>5. /\ LabelRows(docs) = [d \in 1..Len(docs) |-> LabelRows(docs)[d]]
      /\ PageRows(docs) = [d \in 1..Len(docs) |-> PageRows(docs)[d]]
  BY <1>1, Zenon DEF LabelRows, PageRows
<1>6. \A d \in 1..Len(docs) : \A n \in 1..Len(docs[d].raster) :
        /\ LabelRows(docs)[d][n] = <<docs[d].number, n>>
        /\ PageRows(docs)[d][n] = PageImage(docs[d].number, n, docs[d].raster[n])
        /\ docs[d].raster[n] \in Sizes
  <2>1. ASSUME NEW d \in 1..Len(docs), NEW n \in 1..Len(docs[d].raster)
        PROVE  /\ LabelRows(docs)[d][n] = <<docs[d].number, n>>
               /\ PageRows(docs)[d][n] = PageImage(docs[d].number, n, docs[d].raster[n])
    BY <1>1, <1>4, Zenon
  <2>2. ASSUME NEW d \in 1..Len(docs), NEW n \in 1..Len(docs[d].raster)
        PROVE  docs[d].raster[n] \in Sizes
    BY <1>1
  <2>3. QED
    BY <2>1, <2>2, Zenon
<1>7. \A d \in 1..Len(docs) :
        /\ LabelRows(docs)[d] \in Seq(Nat \X Nat) /\ PageRows(docs)[d] \in Seq(PageImages)
        /\ Len(LabelRows(docs)[d]) = Len(docs[d].raster)
        /\ Len(PageRows(docs)[d]) = Len(docs[d].raster)
  BY <1>2, <1>3, <1>4, Zenon
<1> DEFINE L == LabelRows(docs)
           P == PageRows(docs)
<1>8. L \in Seq(Seq(Nat \X Nat)) /\ Len(L) = Len(docs)
  <2> HIDE DEF L, P
  <2>1. L = [d \in 1..Len(docs) |-> L[d]] /\ \A d \in 1..Len(docs) : L[d] \in Seq(Nat \X Nat)
    BY <1>5, <1>7 DEF L
  <2>2. QED
    BY ONLY <1>1, <2>1
<1>9. P \in Seq(Seq(PageImages)) /\ Len(P) = Len(docs)
  <2> HIDE DEF L, P
  <2>1. P = [d \in 1..Len(docs) |-> P[d]] /\ \A d \in 1..Len(docs) : P[d] \in Seq(PageImages)
    BY <1>5, <1>7 DEF P
  <2>2. QED
    BY ONLY <1>1, <2>1
<1>10. QED
  BY <1>1, <1>6, <1>7, <1>8, <1>9

\* The counter of renderRasterJob and the labels count the same pages.
LEMMA SourceLabelled ==
  ASSUME NEW docs \in Seq(Numbered), Distinct(docs)
  PROVE  Labelled(SourcePages(docs), FlattenSeq(LabelRows(docs)))
<1> DEFINE L == LabelRows(docs)
           P == PageRows(docs)
           labels == FlattenSeq(L)
           source == FlattenSeq(P)
           at == FlattenSeq(Places(L))
<1>1. SourcePages(docs) = source
  BY DEF SourcePages, PageRows
<1>2. /\ L \in Seq(Seq(Nat \X Nat)) /\ P \in Seq(Seq(PageImages))
      /\ Len(L) = Len(docs) /\ Len(P) = Len(docs)
      /\ \A d \in 1..Len(docs) :
           /\ Len(L[d]) = Len(docs[d].raster) /\ Len(P[d]) = Len(docs[d].raster)
           /\ \A n \in 1..Len(docs[d].raster) :
                /\ L[d][n] = <<docs[d].number, n>>
                /\ P[d][n] = PageImage(docs[d].number, n, docs[d].raster[n])
                /\ docs[d].raster[n] \in Sizes /\ docs[d].number \in Nat
  BY RowsTypes
<1>3. Places(P) = Places(L)
  BY <1>2, Zenon DEF Places
<1>4. labels \in Seq(Nat \X Nat) /\ source \in Seq(PageImages)
  BY <1>2, FlattenType
<1>5. Located(at, labels, L) /\ Located(at, source, P)
  <2>1. Located(FlattenSeq(Places(L)), FlattenSeq(L), L)
    BY <1>2, FlattenPlaces
  <2>2. Located(FlattenSeq(Places(P)), FlattenSeq(P), P)
    BY <1>2, FlattenPlaces
  <2>3. QED
    BY <1>3, <2>1, <2>2
<1> HIDE DEF L, P, labels, source, at
<1>6. ASSUME NEW i \in 1..Len(labels)
      PROVE  /\ at[i][1] \in 1..Len(docs) /\ at[i][2] \in 1..Len(docs[at[i][1]].raster)
             /\ at[i] = <<at[i][1], at[i][2]>>
             /\ labels[i] = <<docs[at[i][1]].number, at[i][2]>>
             /\ source[i] = PageImage(docs[at[i][1]].number, at[i][2],
                                      docs[at[i][1]].raster[at[i][2]])
             /\ docs[at[i][1]].raster[at[i][2]] \in Sizes
  <2>1. i \in 1..Len(at) /\ at \in Seq(Nat \X Nat)
    BY <1>5 DEF Located
  <2>2. at[i] \in Nat \X Nat
    BY <2>1
  <2>3. /\ at[i][1] \in 1..Len(L) /\ at[i][2] \in 1..Len(L[at[i][1]])
        /\ labels[i] = L[at[i][1]][at[i][2]] /\ source[i] = P[at[i][1]][at[i][2]]
    BY <1>5, <2>1 DEF Located
  <2>4. at[i][1] \in 1..Len(docs) /\ at[i][2] \in 1..Len(docs[at[i][1]].raster)
    BY <1>2, <2>3
  <2> DEFINE d == at[i][1]
             n == at[i][2]
  <2>5. d \in 1..Len(docs) /\ n \in 1..Len(docs[d].raster)
        /\ labels[i] = L[d][n] /\ source[i] = P[d][n]
    BY <2>3, <2>4
  <2>6. at[i] = <<d, n>>
    BY <2>2
  <2> HIDE DEF d, n
  <2>7. QED
    BY <1>2, <2>5, <2>6 DEF d, n
<1>7. Len(source) = Len(labels) /\ Len(at) = Len(labels)
  BY <1>5 DEF Located
<1>8. ASSUME NEW i \in 1..Len(labels), NEW j \in 1..Len(labels), labels[i] = labels[j]
      PROVE  i = j
  <2>1. docs[at[i][1]].number = docs[at[j][1]].number /\ at[i][2] = at[j][2]
    BY <1>6, <1>8
  <2>2. at[i][1] = at[j][1]
    BY <1>6, <2>1 DEF Distinct
  <2>3. at[i] = at[j]
    BY <1>6, <2>1, <2>2, Zenon
  <2>4. QED
    BY <1>5, <1>7, <2>3, LocatedOnce
<1>9. ASSUME NEW i \in 1..Len(labels)
      PROVE  \E z \in Sizes : source[i] = PageImage(labels[i][1], labels[i][2], z)
  <2> DEFINE c == docs[at[i][1]].number
             n == at[i][2]
             z == docs[at[i][1]].raster[at[i][2]]
  <2>1. labels[i] = <<c, n>> /\ source[i] = PageImage(c, n, z) /\ z \in Sizes
    BY <1>6
  <2> HIDE DEF c, n, z
  <2>2. labels[i][1] = c /\ labels[i][2] = n
    BY <2>1
  <2>3. QED
    BY <2>1, <2>2, Zenon
<1>10. QED
  BY <1>1, <1>4, <1>7, <1>8, <1>9 DEF Labelled, labels, source, L

(***************************************************************************)
(* Images of one page.                                                     *)
(***************************************************************************)
\* Every pixel is from the page that the label names.
Shows(i, label) ==
  /\ i.w \in Nat \ {0} /\ i.h \in Nat \ {0}
  /\ \A x \in 0..(i.w - 1), y \in 0..(i.h - 1) :
       \E a, b \in Nat : i.px[x, y] = <<label[1], label[2], a, b>>

LEMMA ShowsThroughout ==
  ASSUME NEW label, NEW w \in Nat \ {0}, NEW h \in Nat \ {0}, NEW px,
         \A x \in 0..(w - 1), y \in 0..(h - 1) :
           \E a, b \in Nat : px[x, y] = <<label[1], label[2], a, b>>
  PROVE  Shows([w |-> w, h |-> h, px |-> px], label)
<1> DEFINE o == [w |-> w, h |-> h, px |-> px]
<1>1. o.w = w /\ o.h = h /\ o.px = px
  OBVIOUS
<1> HIDE DEF o
<1>2. Shows(o, label)
  BY <1>1, Zenon DEF Shows
<1>3. QED
  BY <1>2 DEF o

LEMMA PageShows ==
  ASSUME NEW c \in Nat, NEW n \in Nat, NEW z \in Sizes
  PROVE  Shows(PageImage(c, n, z), <<c, n>>)
<1>1. PICK w \in Nat \ {0}, h \in Nat \ {0} : z[1] = w /\ z[2] = h
  BY DEF Sizes
<1> DEFINE px == [p \in (0..(w - 1)) \X (0..(h - 1)) |-> <<c, n, p[1], p[2]>>]
           label == <<c, n>>
<1>2. PageImage(c, n, z) = [w |-> w, h |-> h, px |-> px]
  BY <1>1 DEF PageImage, Image
<1>3. ASSUME NEW x \in 0..(w - 1), NEW y \in 0..(h - 1)
      PROVE  \E a, b \in Nat : px[x, y] = <<label[1], label[2], a, b>>
  <2>1. <<x, y>> \in (0..(w - 1)) \X (0..(h - 1)) /\ x \in Nat /\ y \in Nat
    OBVIOUS
  <2>2. px[x, y] = <<label[1], label[2], x, y>>
    BY <2>1
  <2>3. QED
    BY <2>1, <2>2
<1> HIDE DEF px, label
<1>4. QED
  BY <1>2, <1>3, ShowsThroughout DEF label

LEMMA RotatedIs ==
  ASSUME NEW i
  PROVE  /\ RotatePixels(i, 90) =
              [w |-> i.h, h |-> i.w,
               px |-> [p \in (0..(i.h - 1)) \X (0..(i.w - 1)) |->
                         i.px[p[2], i.h - 1 - p[1]]]]
         /\ RotatePixels(i, 270) =
              [w |-> i.h, h |-> i.w,
               px |-> [p \in (0..(i.h - 1)) \X (0..(i.w - 1)) |->
                         i.px[i.w - 1 - p[2], p[1]]]]
         /\ RotatePixels(i, 180) =
              [w |-> i.w, h |-> i.h,
               px |-> [p \in (0..(i.w - 1)) \X (0..(i.h - 1)) |->
                         i.px[i.w - 1 - p[1], i.h - 1 - p[2]]]]
<1>1. RotatePixels(i, 90) =
        [w |-> i.h, h |-> i.w,
         px |-> [p \in (0..(i.h - 1)) \X (0..(i.w - 1)) |-> i.px[p[2], i.h - 1 - p[1]]]]
  BY DEF RotatePixels, Image
<1>2. RotatePixels(i, 270) =
        [w |-> i.h, h |-> i.w,
         px |-> [p \in (0..(i.h - 1)) \X (0..(i.w - 1)) |-> i.px[i.w - 1 - p[2], p[1]]]]
  BY DEF RotatePixels, Image
<1>3. RotatePixels(i, 180) =
        [w |-> i.w, h |-> i.h,
         px |-> [p \in (0..(i.w - 1)) \X (0..(i.h - 1)) |->
                   i.px[i.w - 1 - p[1], i.h - 1 - p[2]]]]
  BY DEF RotatePixels, Image
<1>4. QED
  BY <1>1, <1>2, <1>3

LEMMA RotatedShows ==
  ASSUME NEW i, NEW label, Shows(i, label), NEW degrees
  PROVE  Shows(RotatePixels(i, degrees), label)
<1> DEFINE w == i.w
           h == i.h
<1>1. w \in Nat \ {0} /\ h \in Nat \ {0}
  BY DEF Shows
<1>2. \A x \in 0..(w - 1), y \in 0..(h - 1) :
        \E a, b \in Nat : i.px[x, y] = <<label[1], label[2], a, b>>
  BY DEF Shows
<1>7. /\ RotatePixels(i, 90) = [w |-> h, h |-> w,
           px |-> [p \in (0..(h - 1)) \X (0..(w - 1)) |-> i.px[p[2], h - 1 - p[1]]]]
      /\ RotatePixels(i, 270) = [w |-> h, h |-> w,
           px |-> [p \in (0..(h - 1)) \X (0..(w - 1)) |-> i.px[w - 1 - p[2], p[1]]]]
      /\ RotatePixels(i, 180) = [w |-> w, h |-> h,
           px |-> [p \in (0..(w - 1)) \X (0..(h - 1)) |-> i.px[w - 1 - p[1], h - 1 - p[2]]]]
  BY RotatedIs, Zenon
<1> HIDE DEF w, h
<1>3. CASE degrees = 90
  <2> DEFINE px == [p \in (0..(h - 1)) \X (0..(w - 1)) |-> i.px[p[2], h - 1 - p[1]]]
  <2>1. RotatePixels(i, degrees) = [w |-> h, h |-> w, px |-> px]
    BY <1>3, <1>7, Zenon
  <2>2. ASSUME NEW x \in 0..(h - 1), NEW y \in 0..(w - 1)
        PROVE  \E a, b \in Nat : px[x, y] = <<label[1], label[2], a, b>>
    <3>1. <<x, y>> \in (0..(h - 1)) \X (0..(w - 1))
          /\ y \in 0..(w - 1) /\ h - 1 - x \in 0..(h - 1)
      BY <1>1
    <3>2. px[x, y] = i.px[y, h - 1 - x]
      BY <3>1
    <3>3. QED
      BY <1>2, <3>1, <3>2
  <2> HIDE DEF px
  <2>3. QED
    BY <1>1, <2>1, <2>2, ShowsThroughout
<1>4. CASE degrees = 270
  <2> DEFINE px == [p \in (0..(h - 1)) \X (0..(w - 1)) |-> i.px[w - 1 - p[2], p[1]]]
  <2>1. RotatePixels(i, degrees) = [w |-> h, h |-> w, px |-> px]
    BY <1>4, <1>7, Zenon
  <2>2. ASSUME NEW x \in 0..(h - 1), NEW y \in 0..(w - 1)
        PROVE  \E a, b \in Nat : px[x, y] = <<label[1], label[2], a, b>>
    <3>1. <<x, y>> \in (0..(h - 1)) \X (0..(w - 1))
          /\ w - 1 - y \in 0..(w - 1) /\ x \in 0..(h - 1)
      BY <1>1
    <3>2. px[x, y] = i.px[w - 1 - y, x]
      BY <3>1
    <3>3. QED
      BY <1>2, <3>1, <3>2
  <2> HIDE DEF px
  <2>3. QED
    BY <1>1, <2>1, <2>2, ShowsThroughout
<1>5. CASE degrees = 180
  <2> DEFINE px == [p \in (0..(w - 1)) \X (0..(h - 1)) |-> i.px[w - 1 - p[1], h - 1 - p[2]]]
  <2>1. RotatePixels(i, degrees) = [w |-> w, h |-> h, px |-> px]
    BY <1>5, <1>7, Zenon
  <2>2. ASSUME NEW x \in 0..(w - 1), NEW y \in 0..(h - 1)
        PROVE  \E a, b \in Nat : px[x, y] = <<label[1], label[2], a, b>>
    <3>1. <<x, y>> \in (0..(w - 1)) \X (0..(h - 1))
          /\ w - 1 - x \in 0..(w - 1) /\ h - 1 - y \in 0..(h - 1)
      BY <1>1
    <3>2. px[x, y] = i.px[w - 1 - x, h - 1 - y]
      BY <3>1
    <3>3. QED
      BY <1>2, <3>1, <3>2
  <2> HIDE DEF px
  <2>3. QED
    BY <1>1, <2>1, <2>2, ShowsThroughout
<1>6. CASE degrees \notin {90, 180, 270}
  BY <1>6 DEF RotatePixels
<1>8. QED
  BY <1>3, <1>4, <1>5, <1>6

\* Nearest neighbor stays inside the image.
LEMMA InRange ==
  ASSUME NEW x \in Nat, NEW w \in Nat \ {0}, NEW v \in Nat \ {0}, x < w
  PROVE  (x * v) \div w \in 0..(v - 1)
<1> DEFINE q == (x * v) \div w
           p == x * v
<1>1. p \in Nat
  OBVIOUS
<1>2. p < v * w
  OBVIOUS
<1>3. q \in Nat /\ q * w <= p
  OBVIOUS
<1> HIDE DEF p, q
<1>4. ASSUME q >= v PROVE FALSE
  <2>1. v * w <= q * w
    BY <1>3, <1>4
  <2>2. v * w \in Nat /\ q * w \in Nat
    BY <1>3
  <2>3. QED
    BY <1>1, <1>2, <1>3, <2>1, <2>2
<1>5. QED
  BY <1>3, <1>4 DEF q, p

LEMMA ScaledShows ==
  ASSUME NEW i, NEW label, Shows(i, label), NEW w \in Nat \ {0}, NEW h \in Nat \ {0}
  PROVE  Shows(Scaled(i, w, h), label)
<1> DEFINE v == i.w
           g == i.h
           px == [p \in (0..(w - 1)) \X (0..(h - 1)) |->
                    i.px[(p[1] * v) \div w, (p[2] * g) \div h]]
<1>1. v \in Nat \ {0} /\ g \in Nat \ {0}
  BY DEF Shows
<1>2. \A x \in 0..(v - 1), y \in 0..(g - 1) :
        \E a, b \in Nat : i.px[x, y] = <<label[1], label[2], a, b>>
  BY DEF Shows
<1>3. Scaled(i, w, h) = [w |-> w, h |-> h, px |-> px]
  BY DEF Scaled, Image
<1> HIDE DEF v, g
<1>4. ASSUME NEW x \in 0..(w - 1), NEW y \in 0..(h - 1)
      PROVE  \E a, b \in Nat : px[x, y] = <<label[1], label[2], a, b>>
  <2>1. x \in Nat /\ x < w /\ y \in Nat /\ y < h /\ <<x, y>> \in (0..(w - 1)) \X (0..(h - 1))
    OBVIOUS
  <2>2. (x * v) \div w \in 0..(v - 1) /\ (y * g) \div h \in 0..(g - 1)
    BY <1>1, <2>1, InRange
  <2>3. px[x, y] = i.px[(x * v) \div w, (y * g) \div h]
    BY <2>1
  <2> DEFINE c == (x * v) \div w
             d == (y * g) \div h
  <2>4. c \in 0..(v - 1) /\ d \in 0..(g - 1) /\ px[x, y] = i.px[c, d]
    BY <2>2, <2>3
  <2> HIDE DEF px, c, d
  <2>5. \E a, b \in Nat : i.px[c, d] = <<label[1], label[2], a, b>>
    BY <1>2, <2>4, Zenon
  <2>6. QED
    BY <2>4, <2>5
<1> HIDE DEF px
<1>5. QED
  BY <1>3, <1>4, ShowsThroughout

LEMMA PreparedShows ==
  ASSUME NEW page, NEW label, Shows(page, label), NEW index, NEW e, NEW t
  PROVE  /\ Shows(Prepare(page, index, e, t).image, label)
         /\ Prepare(page, index, e, t).index = index
<1> DEFINE turned == RotatePixels(page, Degrees(t))
           scaled == DownscalePixels(turned, t.draft)
<1>1. Shows(turned, label)
  BY RotatedShows
<1> HIDE DEF turned
<1>2. Shows(scaled, label)
  <2> DEFINE w == turned.w
             h == turned.h
  <2>1. w \in Nat /\ h \in Nat
    BY <1>1 DEF Shows
  <2> HIDE DEF w, h
  <2>2. Larger(1, w \div 2) \in Nat \ {0} /\ Larger(1, h \div 2) \in Nat \ {0}
    BY <2>1 DEF Larger
  <2>3. Shows(Scaled(turned, Larger(1, w \div 2), Larger(1, h \div 2)), label)
    BY <1>1, <2>2, ScaledShows
  <2>4. QED
    BY <1>1, <2>3 DEF DownscalePixels, w, h
<1> HIDE DEF scaled
<1>3. Shows(RotatePixels(scaled, 180), label)
  BY <1>2, RotatedShows
<1>4. Prepare(page, index, e, t) =
        [index |-> index,
         image |-> IF SidesTumbles(t) /\ e % 2 = 0
                   THEN RotatePixels(scaled, 180) ELSE scaled]
  BY Zenon DEF Prepare, scaled, turned
<1>5. QED
  BY <1>2, <1>3, <1>4

(***************************************************************************)
(* Reading an image of one page gives that page.                           *)
(***************************************************************************)
LEMMA ListedAlone ==
  ASSUME NEW s, NEW n, Lists(s, {n})
  PROVE  s \in Seq(Nat) /\ Len(s) = 1 /\ s[1] = n
<1>1. /\ s \in Seq(Nat) /\ Len(s) \in Nat /\ DOMAIN s = 1..Len(s)
      /\ \A a \in 1..Len(s) : s[a] = n
      /\ \E a \in 1..Len(s) : s[a] = n
      /\ \A a, b \in 1..Len(s) : a < b => s[a] < s[b]
  <2>1. s \in Seq(Nat) /\ {s[a] : a \in DOMAIN s} = {n}
        /\ \A a, b \in DOMAIN s : a < b => s[a] < s[b]
    BY DEF Lists, ToSet
  <2>2. Len(s) \in Nat /\ DOMAIN s = 1..Len(s)
    BY <2>1
  <2>3. (\A a \in DOMAIN s : s[a] = n) /\ \E a \in DOMAIN s : s[a] = n
    BY <2>1, Zenon
  <2>4. QED
    BY <2>1, <2>2, <2>3
<1>2. Len(s) >= 1 /\ n \in Nat
  BY <1>1
<1>3. ASSUME Len(s) > 1 PROVE FALSE
  <2>1. 1 \in 1..Len(s) /\ 2 \in 1..Len(s) /\ 1 < 2
    BY <1>1, <1>3
  <2>2. s[1] < s[2] /\ s[1] = n /\ s[2] = n
    BY <1>1, <2>1
  <2>3. QED
    BY <1>2, <2>2
<1>4. QED
  BY <1>1, <1>2, <1>3

LEMMA RowByRow ==
  ASSUME NEW w \in Nat \ {0}, NEW h \in Nat \ {0}, NEW k \in 1..(w * h)
  PROVE  /\ w * h \in Nat \ {0}
         /\ (k - 1) % w \in 0..(w - 1) /\ (k - 1) \div w \in 0..(h - 1)
<1>1. w * h \in Nat /\ k \in Nat \ {0} /\ k - 1 \in Nat /\ k <= w * h /\ w * h # 0
  OBVIOUS
<1>2. (k - 1) % w \in 0..(w - 1)
  BY <1>1
<1> DEFINE q == (k - 1) \div w
<1>3. q \in Nat /\ q * w <= k - 1
  BY <1>1
<1> HIDE DEF q
<1>4. ASSUME q >= h PROVE FALSE
  <2>1. w * h <= q * w
    BY <1>3, <1>4
  <2>2. q * w \in Nat
    BY <1>3
  <2>3. QED
    BY <1>1, <1>3, <2>1, <2>2
<1>5. QED
  BY <1>1, <1>2, <1>3, <1>4 DEF q

LEMMA OnePageReads ==
  ASSUME NEW image, NEW labels, NEW p, p \in DOMAIN labels, Shows(image, labels[p]),
         labels[p] = <<labels[p][1], labels[p][2]>>,
         \A q \in DOMAIN labels : labels[q] = labels[p] => q = p
  PROVE  Reading(image, labels) = <<p>>
<1> DEFINE w == image.w
           h == image.h
           size == w * h
           At(k) == image.px[(k - 1) % w, (k - 1) \div w]
           New(k) == /\ At(k) # White
                     /\ \A j \in 1..(k - 1) : At(j) # White =>
                          <<At(j)[1], At(j)[2]>> # <<At(k)[1], At(k)[2]>>
           order == Ascending({k \in 1..size : New(k)}, size)
           Page(k) == CHOOSE q \in DOMAIN labels : labels[q] = <<At(k)[1], At(k)[2]>>
<1>1. Reading(image, labels) = [i \in DOMAIN order |-> Page(order[i])]
  BY Zenon DEF Reading
<1>2. w \in Nat \ {0} /\ h \in Nat \ {0}
  BY DEF Shows
<1>3. ASSUME NEW k \in 1..size
      PROVE  At(k) # White /\ <<At(k)[1], At(k)[2]>> = labels[p]
  <2> DEFINE x == (k - 1) % w
             y == (k - 1) \div w
  <2>1. x \in 0..(w - 1) /\ y \in 0..(h - 1)
    BY <1>2, RowByRow
  <2> HIDE DEF x, y
  <2>2. PICK a \in Nat, b \in Nat : image.px[x, y] = <<labels[p][1], labels[p][2], a, b>>
    BY <2>1, Shows(image, labels[p]) DEF Shows
  <2>3. At(k) = <<labels[p][1], labels[p][2], a, b>>
    BY <2>2 DEF x, y
  <2> HIDE DEF At
  <2>4. At(k)[1] = labels[p][1] /\ At(k)[2] = labels[p][2] /\ At(k) # <<>>
    BY <2>3
  <2>5. QED
    BY <2>4 DEF White
<1>4. size \in Nat \ {0}
  <2>1. w * h \in Nat \ {0}
    BY <1>2
  <2>2. QED
    BY <2>1
<1> HIDE DEF size, At
<1>5. {k \in 1..size : New(k)} = {1}
  <2>1. New(1)
    <3>1. 1 \in 1..size /\ 1..(1 - 1) = {}
      BY <1>4
    <3>2. QED
      BY <1>3, <3>1
  <2>2. ASSUME NEW k \in 1..size, k # 1
        PROVE  ~ New(k)
    <3>1. 1 \in 1..(k - 1) /\ 1 \in 1..size
      BY <1>4, <2>2
    <3>2. QED
      BY <1>3, <3>1, Zenon
  <2> HIDE DEF New
  <2>3. 1 \in 1..size
    BY <1>4
  <2>4. QED
    BY <2>1, <2>2, <2>3
<1>6. order \in Seq(Nat) /\ Len(order) = 1 /\ order[1] = 1
  <2>1. {1} \in SUBSET (1..size)
    BY <1>4
  <2>2. Lists(Ascending({1}, size), {1})
    BY <1>4, <2>1, AscendingLists
  <2>3. order = Ascending({1}, size)
    BY <1>5, Zenon
  <2>4. QED
    BY <2>2, <2>3, ListedAlone
<1>7. Page(1) = p
  <2>1. 1 \in 1..size
    BY <1>4
  <2>2. <<At(1)[1], At(1)[2]>> = labels[p]
    BY <1>3, <2>1
  <2>3. QED
    BY <2>2, Zenon
<1> HIDE DEF order, Page
<1>8. QED
  <2>1. DOMAIN order = {1}
    BY <1>6
  <2>2. Reading(image, labels) = [i \in {1} |-> Page(order[i])]
    BY <1>1, <2>1
  <2>3. QED
    BY <1>6, <1>7, <2>2

(***************************************************************************)
(* The renderer of the raster documents.                                   *)
(***************************************************************************)
\* The pages that renderRasterJob selects, in their order.
Chosen(docs, t) ==
  Ascending({i \in DOMAIN SourcePages(docs) : InSelectedRanges(i, PageRanges(t))},
            Len(SourcePages(docs)))

LEMMA ChosenLists ==
  ASSUME NEW docs \in Seq(Numbered), Distinct(docs), NEW t
  PROVE  /\ Lists(Chosen(docs, t),
                  {i \in 1..Len(SourcePages(docs)) : InSelectedRanges(i, PageRanges(t))})
         /\ Chosen(docs, t) \in Seq(Nat)
         /\ ToSet(Chosen(docs, t)) \subseteq 1..Len(SourcePages(docs))
         /\ Len(SourcePages(docs)) \in Nat
<1> DEFINE source == SourcePages(docs)
           ids == {i \in 1..Len(source) : InSelectedRanges(i, PageRanges(t))}
<1>1. source \in Seq(PageImages)
  BY SourceLabelled DEF Labelled
<1> HIDE DEF source
<1>2. Len(source) \in Nat /\ DOMAIN source = 1..Len(source)
  BY <1>1
<1>3. ids \in SUBSET (1..Len(source))
  OBVIOUS
<1>4. Chosen(docs, t) = Ascending(ids, Len(source))
  BY <1>2, Zenon DEF Chosen, source
<1>5. Lists(Chosen(docs, t), ids)
  BY <1>2, <1>3, <1>4, AscendingLists
<1>6. Chosen(docs, t) \in Seq(Nat) /\ ToSet(Chosen(docs, t)) = ids
  BY <1>5 DEF Lists
<1>7. QED
  BY <1>2, <1>3, <1>5, <1>6 DEF source

LEMMA PreparedIs ==
  ASSUME NEW docs, NEW t
  PROVE  /\ DOMAIN Prepared(docs, t) = DOMAIN Chosen(docs, t)
         /\ \A e \in DOMAIN Chosen(docs, t) :
              Prepared(docs, t)[e] =
                Prepare(SourcePages(docs)[Chosen(docs, t)[e]], Chosen(docs, t)[e], e, t)
BY Zenon DEF Prepared, Chosen

\* Without number-up, a file for each page, with the page's number.
LEMMA EmittedPerPage ==
  ASSUME NEW docs \in Seq(Numbered), Distinct(docs), NEW t, NumberUp(t) <= 1
  PROVE  LET pages == RenderRasterJob(docs, t)
             chosen == Chosen(docs, t)
         IN  /\ DOMAIN pages = ToSet(chosen)
             /\ \A e \in DOMAIN chosen :
                  pages[chosen[e]] =
                    Prepare(SourcePages(docs)[chosen[e]], chosen[e], e, t).image
<1> DEFINE prepared == Prepared(docs, t)
           chosen == Chosen(docs, t)
           source == SourcePages(docs)
           pages == RenderRasterJob(docs, t)
<1>1. pages = EmitPerPage(prepared)
  BY DEF RenderRasterJob
<1>2. chosen \in Seq(Nat) /\ \A a, b \in DOMAIN chosen : a < b => chosen[a] < chosen[b]
  BY ChosenLists DEF Lists
<1>3. DOMAIN prepared = DOMAIN chosen
      /\ \A e \in DOMAIN chosen : prepared[e] = Prepare(source[chosen[e]], chosen[e], e, t)
  BY PreparedIs
<1>4. \A e \in DOMAIN chosen : prepared[e].index = chosen[e]
  BY <1>3 DEF Prepare
<1> HIDE DEF prepared, chosen, source, pages
<1>5. pages = [n \in {prepared[e].index : e \in DOMAIN prepared} |->
                 prepared[CHOOSE e \in DOMAIN prepared : prepared[e].index = n].image]
  BY <1>1 DEF EmitPerPage
<1>6. {prepared[e].index : e \in DOMAIN prepared} = ToSet(chosen)
  BY <1>3, <1>4 DEF ToSet
<1>7. ASSUME NEW e \in DOMAIN chosen
      PROVE  pages[chosen[e]] = Prepare(source[chosen[e]], chosen[e], e, t).image
  <2>1. ASSUME NEW a \in DOMAIN chosen, chosen[a] = chosen[e] PROVE a = e
    <3>1. a \in Nat /\ e \in Nat /\ chosen[a] \in Nat /\ chosen[e] \in Nat
      BY <1>2
    <3>2. ~ (a < e) /\ ~ (e < a)
      BY <1>2, <2>1, <3>1
    <3>3. QED
      BY <3>1, <3>2
  <2> DEFINE pick == CHOOSE a \in DOMAIN prepared : prepared[a].index = chosen[e]
  <2>2. pick = e
    <3>1. e \in DOMAIN prepared /\ prepared[e].index = chosen[e]
      BY <1>3, <1>4
    <3>2. pick \in DOMAIN prepared /\ prepared[pick].index = chosen[e]
      BY <3>1, Zenon
    <3> HIDE DEF pick
    <3>3. QED
      BY <1>3, <1>4, <2>1, <3>2
  <2>3. chosen[e] \in {prepared[a].index : a \in DOMAIN prepared}
    BY <1>3, <1>4, Zenon
  <2>4. pages[chosen[e]] = prepared[pick].image
    BY <1>5, <2>3, Zenon
  <2>5. QED
    BY <1>3, <2>2, <2>4, Zenon
<1>8. DOMAIN pages = ToSet(chosen)
  BY <1>5, <1>6, Zenon
<1>9. QED
  BY <1>7, <1>8 DEF pages, chosen, source

\* The files of a rendering are finitely many; none without raster pages.
LEMMA PagesFinite ==
  ASSUME NEW docs \in Seq(Numbered), Distinct(docs), NEW t, t.numberUp \in Int
  PROVE  /\ IsFiniteSet(DOMAIN RenderRasterJob(docs, t))
         /\ SourcePages(docs) = <<>> => DOMAIN RenderRasterJob(docs, t) = {}
<1> DEFINE prepared == Prepared(docs, t)
           chosen == Chosen(docs, t)
           k == Len(SourcePages(docs))
           n == NumberUp(t)
           pages == RenderRasterJob(docs, t)
<1>1. chosen \in Seq(Nat) /\ ToSet(chosen) \subseteq 1..k /\ k \in Nat
  BY ChosenLists
<1>2. n \in Nat \ {0}
  BY DEF NumberUp, Larger
<1>3. ToSet(chosen) \in SUBSET (1..k) /\ IsFiniteSet(1..k)
  BY <1>1, FS_Interval
<1>4. IsFiniteSet(ToSet(chosen))
  BY <1>3, FS_Subset
<1>5. CASE n <= 1
  <2>1. DOMAIN pages = ToSet(chosen)
    BY <1>5, EmittedPerPage
  <2>2. k = 0 => ToSet(chosen) = {}
    BY <1>1
  <2>3. SourcePages(docs) = <<>> => k = 0
    OBVIOUS
  <2>4. QED
    BY <1>4, <2>1, <2>2, <2>3
<1>6. CASE n > 1
  <2> DEFINE l == Len(prepared)
             sheets == (l + n - 1) \div n
  <2>1. pages = EmitNUp(prepared, n)
    BY <1>2, <1>6 DEF RenderRasterJob
  <2>2. DOMAIN EmitNUp(prepared, n) = 1..sheets
    BY Zenon DEF EmitNUp
  <2>3. l \in Nat /\ l = Len(chosen)
    <3>1. DOMAIN prepared = 1..Len(chosen) /\ Len(chosen) \in Nat
      BY <1>1, PreparedIs
    <3> HIDE DEF prepared, chosen
    <3>2. QED
      BY <3>1
  <2>4. sheets \in Int /\ (l = 0 => sheets = 0)
    <3> HIDE DEF n, l
    <3>1. l + n - 1 \in Nat /\ n \in Nat \ {0}
      BY <1>2, <2>3
    <3>2. (l + n - 1) \div n \in Int
      BY <3>1
    <3>3. l = 0 => (l + n - 1) \div n = 0
      BY <1>2
    <3>4. QED
      BY <3>2, <3>3
  <2>5. k = 0 => l = 0
    <3>1. ASSUME k = 0, Len(chosen) # 0 PROVE FALSE
      <4>1. 1 \in DOMAIN chosen /\ chosen[1] \in ToSet(chosen)
        BY <1>1, <3>1 DEF ToSet
      <4>2. QED
        BY <1>1, <3>1, <4>1
    <3>2. QED
      BY <2>3, <3>1
  <2> HIDE DEF sheets
  <2>6. IsFiniteSet(1..sheets) /\ (sheets = 0 => 1..sheets = {})
    BY <2>4, FS_Interval
  <2>7. SourcePages(docs) = <<>> => k = 0
    OBVIOUS
  <2>8. QED
    BY <2>1, <2>2, <2>4, <2>5, <2>6, <2>7
<1>7. QED
  BY <1>2, <1>5, <1>6

(***************************************************************************)
(* The invariant, and what a rendering does in a state that has it.        *)
(***************************************************************************)
RInv ==
  /\ template \in TemplateType /\ sent \in Nat
  /\ documents \in Seq(Numbered)
  /\ \A d \in 1..Len(documents) : documents[d].number <= sent
  /\ Distinct(documents)
  /\ IsFiniteSet(DOMAIN disk)

LEMMA NothingToRasterize ==
  ASSUME NEW docs, NEW produced, NEW files, Len(docs) \in Nat,
         \A d \in 1..Len(docs) : docs[d].format # "pdf"
  PROVE  RasterizePdfOrPostScript(docs, produced, files) = [disk |-> files, gsPages |-> 0]
<1> DEFINE m == Len(docs)
<1>1. PICK f : /\ RasterizedUpTo(f, docs, produced, files, m)
               /\ RasterizePdfOrPostScript(docs, produced, files) = f[m]
  BY RasterizeIs
<1>2. /\ f[0] = [disk |-> files, gsPages |-> 0]
      /\ \A d \in Nat : d < m =>
           f[d + 1] = IF docs[d + 1].format = "pdf"
                      THEN RasterizeNext(f[d], docs[d + 1], produced[d + 1])
                      ELSE f[d]
  <2>1. m \in Nat
    OBVIOUS
  <2> HIDE DEF m
  <2>2. StepByStep(f, docs, produced, files, m)
    BY <1>1, <2>1, RasterizedStep, Zenon
  <2>3. QED
    BY <2>2, Zenon DEF StepByStep
<1> DEFINE S == {d \in Nat : d <= m => f[d] = f[0]}
<1>3. \A d \in Nat : d \in S => d + 1 \in S
  <2>1. ASSUME NEW d \in Nat, d \in S, d + 1 <= m
        PROVE  f[d + 1] = f[0]
    <3>1. d < m /\ d <= m /\ d + 1 \in 1..Len(docs)
      BY <2>1
    <3>2. QED
      BY <1>2, <2>1, <3>1
  <2>2. QED
    BY <2>1
<1>4. 0 \in S
  OBVIOUS
<1> HIDE DEF S
<1>5. Nat \subseteq S
  BY <1>3, <1>4, SetInduction
<1>6. f[m] = f[0]
  BY <1>5 DEF S
<1>7. QED
  BY <1>1, <1>2, <1>6

\* What a rendering writes, and what is on disk afterwards.
Leaves(written, gs) ==
  LET pages == RenderRasterJob(documents, template) IN
  /\ DOMAIN written \subseteq DOMAIN pages
  /\ \A n \in DOMAIN written : written[n] = pages[n]
  /\ gs \/ \A d \in 1..Len(documents) : last'.produced[d] <= 0
  /\ Makeable(documents, last'.produced)
  /\ last'.written = DOMAIN written /\ last'.before = DOMAIN disk
  /\ last'.failed = DOMAIN pages \ DOMAIN written
  /\ LET raster == Over(0, written, disk)
         done   == IF gs
                   THEN RasterizePdfOrPostScript(documents, last'.produced, raster)
                   ELSE [disk |-> raster, gsPages |-> 0]
     IN  /\ disk' = done.disk
         /\ impressions' = IF done.gsPages > 0 THEN done.gsPages ELSE impressions
  /\ UNCHANGED <<template, documents, sent>>

LEMMA RenderLeaves ==
  ASSUME RInv, RenderRaster
  PROVE  \E written : \E gs \in BOOLEAN : Leaves(written, gs)
<1> DEFINE pages == RenderRasterJob(documents, template)
           asked == \E d \in DOMAIN documents : documents[d].format = "pdf"
<1>1. PICK failed \in SUBSET DOMAIN pages,
           path \in IF asked /\ gsPath = "unknown" THEN {"found", "absent"} ELSE {gsPath},
           produced \in [DOMAIN documents -> UNION {NotStarted..d.pages : d \in Documents}] :
        /\ \A d \in DOMAIN documents :
             produced[d] \in IF documents[d].format = "pdf" /\ path = "found"
                             THEN NotStarted..documents[d].pages ELSE {0}
        /\ Cardinality(failed)
             + Cardinality({d \in DOMAIN documents : produced[d] = NotStarted})
             <= MaxFailures
        /\ LET written == [n \in DOMAIN pages \ failed |-> pages[n]]
               raster  == Over(0, written, disk)
               gs == IF path = "found"
                     THEN RasterizePdfOrPostScript(documents, produced, raster)
                     ELSE [disk |-> raster, gsPages |-> 0]
           IN  /\ disk' = gs.disk
               /\ impressions' = IF gs.gsPages > 0 THEN gs.gsPages ELSE impressions
               /\ gsPath' = path
               /\ renders' = renders + 1
               /\ last' = [renders |-> renders + 1,
                           written |-> DOMAIN written, failed |-> failed,
                           produced |-> produced, before |-> DOMAIN disk]
  BY DEF RenderRaster
<1> DEFINE written == [n \in DOMAIN pages \ failed |-> pages[n]]
           gs == path = "found"
<1>2. UNCHANGED <<template, documents, sent>>
  BY DEF RenderRaster
<1>3. last'.produced = produced /\ last'.written = DOMAIN written /\ last'.before = DOMAIN disk
  BY <1>1
<1>4. DOMAIN written \subseteq DOMAIN pages /\ \A n \in DOMAIN written : written[n] = pages[n]
  OBVIOUS
<1>12. last'.failed = DOMAIN pages \ DOMAIN written
  <2>1. last'.failed = failed /\ failed \subseteq DOMAIN pages
    BY <1>1
  <2>2. DOMAIN written = DOMAIN pages \ failed
    OBVIOUS
  <2>3. QED
    BY <2>1, <2>2
<1>5. DOMAIN documents = 1..Len(documents) /\ Len(documents) \in Nat
      /\ \A d \in 1..Len(documents) : documents[d].pages \in Nat
  <2>1. documents \in Seq(Numbered)
    BY DEF RInv
  <2>2. DOMAIN documents = 1..Len(documents) /\ Len(documents) \in Nat
        /\ \A d \in 1..Len(documents) : documents[d] \in Numbered
    BY <2>1
  <2>3. QED
    BY <2>2 DEF Numbered
<1>6. ASSUME NEW d \in 1..Len(documents)
      PROVE  /\ produced[d] \in Int /\ produced[d] >= NotStarted
             /\ documents[d].format # "pdf" \/ path # "found" => produced[d] <= 0
  <2>1. produced[d] \in IF documents[d].format = "pdf" /\ path = "found"
                        THEN NotStarted..documents[d].pages ELSE {0}
    BY <1>1, <1>5
  <2>2. NotStarted \in Int /\ documents[d].pages \in Int /\ 0 >= NotStarted
    BY <1>5 DEF NotStarted
  <2>3. QED
    BY ONLY <2>1, <2>2
<1> HIDE DEF pages, asked
<1>7. /\ disk' = (IF gs THEN RasterizePdfOrPostScript(documents, last'.produced, Over(0, written, disk))
                  ELSE [disk |-> Over(0, written, disk), gsPages |-> 0]).disk
      /\ impressions' =
           LET done == IF gs
                       THEN RasterizePdfOrPostScript(documents, last'.produced, Over(0, written, disk))
                       ELSE [disk |-> Over(0, written, disk), gsPages |-> 0]
           IN  IF done.gsPages > 0 THEN done.gsPages ELSE impressions
  BY <1>1, <1>3, Zenon
<1>8. Makeable(documents, last'.produced)
  BY <1>3, <1>5, <1>6 DEF Makeable
<1>9. gs \/ \A d \in 1..Len(documents) : last'.produced[d] <= 0
  BY <1>3, <1>6
<1> HIDE DEF written, gs
<1>10. Leaves(written, gs)
  BY <1>2, <1>3, <1>4, <1>12, <1>7, <1>8, <1>9 DEF Leaves, pages
<1>11. gs \in BOOLEAN
  BY DEF gs
<1>13. QED
  BY <1>10, <1>11

LEMMA WrittenFinite ==
  ASSUME RInv, NEW written, NEW gs, Leaves(written, gs)
  PROVE  /\ IsFiniteSet(DOMAIN Over(0, written, disk))
         /\ DOMAIN Over(0, written, disk) = {<<0, n>> : n \in DOMAIN written} \cup DOMAIN disk
         /\ \A n \in DOMAIN written : Over(0, written, disk)[<<0, n>>] = written[n]
<1>1. /\ DOMAIN Over(0, written, disk) = {<<0, n>> : n \in DOMAIN written} \cup DOMAIN disk
      /\ \A n \in DOMAIN written : Over(0, written, disk)[<<0, n>>] = written[n]
  BY Zenon DEF Over
<1>2. IsFiniteSet(DOMAIN written)
  <2>1. IsFiniteSet(DOMAIN RenderRasterJob(documents, template))
    BY PagesFinite DEF RInv, TemplateType
  <2>2. DOMAIN written \in SUBSET DOMAIN RenderRasterJob(documents, template)
    BY DEF Leaves
  <2>3. QED
    BY <2>1, <2>2, FS_Subset
<1> DEFINE names == {<<0, n>> : n \in DOMAIN written}
           f == [n \in DOMAIN written |-> <<0, n>>]
<1>3. f \in Surjection(DOMAIN written, names)
  BY DEF Surjection
<1>4. IsFiniteSet(names)
  BY <1>2, <1>3, FS_Surjection
<1>5. QED
  BY <1>1, <1>4, FS_Union DEF RInv

LEMMA InitRInv == Init => RInv
<1> SUFFICES ASSUME Init PROVE RInv
  OBVIOUS
<1>1. documents = <<>> /\ DOMAIN disk = {} /\ sent = 0 /\ template \in TemplateType
  BY RenderAssumption DEF Init
<1>2. documents \in Seq(Numbered) /\ Len(documents) = 0
  BY <1>1
<1>3. QED
  BY <1>1, <1>2, FS_EmptySet DEF RInv, Distinct

LEMMA NextRInv ==
  ASSUME RInv, [Next]_vars
  PROVE  RInv'
<1>1. ASSUME NEW d \in Documents, AddDocument(d)
      PROVE  RInv'
  <2> DEFINE new == [format |-> d.format, raster |-> d.raster, pages |-> d.pages,
                     number |-> sent + 1]
             more == Append(documents, new)
  <2>1. d \in DocumentType /\ sent \in Nat
    BY RenderAssumption DEF RInv
  <2>2. new \in Numbered /\ new.number = sent + 1
    BY <2>1 DEF DocumentType, Numbered, Sizes
  <2>3. documents' = more /\ sent' = sent + 1 /\ UNCHANGED <<template, disk>>
    BY <1>1 DEF AddDocument
  <2> HIDE DEF new
  <2>4. /\ documents \in Seq(Numbered) /\ Len(documents) \in Nat
        /\ more \in Seq(Numbered) /\ Len(more) = Len(documents) + 1
        /\ more[Len(documents) + 1] = new
        /\ \A c \in 1..Len(documents) : more[c] = documents[c]
    BY <2>2 DEF RInv
  <2> HIDE DEF more
  <2>5. \A c \in 1..Len(more) : c \in 1..Len(documents) \/ c = Len(documents) + 1
    BY <2>4
  <2>6. \A c \in 1..Len(documents) : /\ documents[c].number \in Nat
                                     /\ documents[c].number <= sent
    <3>1. \A c \in 1..Len(documents) : documents[c] \in Numbered
      BY <2>4
    <3>2. \A c \in 1..Len(documents) : documents[c].number <= sent
      BY DEF RInv
    <3>3. QED
      BY <3>1, <3>2 DEF Numbered
  <2>7. \A c \in 1..Len(more) : more[c].number <= sent + 1
    BY <2>1, <2>2, <2>4, <2>5, <2>6
  <2>8. Distinct(more)
    <3>1. ASSUME NEW b \in 1..Len(more), NEW c \in 1..Len(more),
                 more[b].number = more[c].number
          PROVE  b = c
      <4>1. CASE b \in 1..Len(documents) /\ c \in 1..Len(documents)
        BY <2>4, <3>1, <4>1 DEF RInv, Distinct
      <4>2. CASE b = Len(documents) + 1 /\ c \in 1..Len(documents)
        BY <2>1, <2>2, <2>4, <2>6, <3>1, <4>2
      <4>3. CASE c = Len(documents) + 1 /\ b \in 1..Len(documents)
        BY <2>1, <2>2, <2>4, <2>6, <3>1, <4>3
      <4>4. QED
        BY <2>5, <4>1, <4>2, <4>3
    <3>2. QED
      BY <3>1 DEF Distinct
  <2>9. QED
    BY <2>1, <2>3, <2>4, <2>7, <2>8 DEF RInv
<1>2. CASE RenderRaster
  <2>0. PICK written : \E gs \in BOOLEAN : Leaves(written, gs)
    BY <1>2, RenderLeaves
  <2>1. PICK gs \in BOOLEAN : Leaves(written, gs)
    BY <2>0
  <2> DEFINE raster == Over(0, written, disk)
  <2>2. IsFiniteSet(DOMAIN raster)
    BY <2>1, WrittenFinite
  <2>3. Makeable(documents, last'.produced)
    BY <2>1 DEF Leaves
  <2>4. disk' = (IF gs THEN RasterizePdfOrPostScript(documents, last'.produced, raster)
                 ELSE [disk |-> raster, gsPages |-> 0]).disk
    BY <2>1 DEF Leaves
  <2> HIDE DEF raster
  <2>5. IsFiniteSet(DOMAIN disk')
    <3>1. CASE gs
      BY <2>2, <2>3, <2>4, <3>1, DocumentsRasterized
    <3>2. CASE ~ gs
      BY <2>2, <2>4, <3>2
    <3>3. QED
      BY <3>1, <3>2
  <2>6. UNCHANGED <<template, documents, sent>>
    BY <2>1 DEF Leaves
  <2>7. QED
    BY <2>5, <2>6 DEF RInv, Distinct
<1>3. CASE Restart
  <2>1. documents' = <<>> /\ UNCHANGED <<template, disk, sent>>
    BY <1>3 DEF Restart
  <2>2. documents' \in Seq(Numbered) /\ Len(documents') = 0
    BY <2>1
  <2>3. QED
    BY <2>1, <2>2 DEF RInv, Distinct
<1>4. CASE UNCHANGED vars
  BY <1>4 DEF RInv, Distinct, vars
<1>5. QED
  BY <1>1, <1>2, <1>3, <1>4 DEF Next

\* Every step forgets the latest rendering, changes nothing, or renders.
LEMMA RenderSteps ==
  ASSUME RInv, [Next]_vars
  PROVE  \/ last' = None
         \/ UNCHANGED vars
         \/ \E written : \E gs \in BOOLEAN : Leaves(written, gs)
BY RenderLeaves DEF Next, AddDocument, Restart

(***************************************************************************)
(* The pages of page descriptions.                                         *)
(***************************************************************************)
LEMMA KeptByRendering ==
  ASSUME RInv, NEW written, NEW gs \in BOOLEAN, Leaves(written, gs)
  PROVE  DocumentsKeepTheirPages'
<1> DEFINE raster == Over(0, written, disk)
<1>1. /\ gs \/ \A d \in 1..Len(documents) : last'.produced[d] <= 0
      /\ Makeable(documents, last'.produced)
      /\ disk' = (IF gs THEN RasterizePdfOrPostScript(documents, last'.produced, raster)
                  ELSE [disk |-> raster, gsPages |-> 0]).disk
      /\ documents' = documents
  BY DEF Leaves
<1>2. DOMAIN documents = 1..Len(documents)
  BY DEF RInv
<1>3. IsFiniteSet(DOMAIN raster)
  BY WrittenFinite
<1> HIDE DEF raster
<1>4. ASSUME NEW d \in 1..Len(documents), NEW n \in 1..(last'.produced[d])
      PROVE  \E f \in DOMAIN disk' : disk'[f] = GsPage(documents[d], n)
  <2>1. CASE gs
    <3>1. PagesKept(documents, last'.produced, Len(documents),
                    RasterizePdfOrPostScript(documents, last'.produced, raster))
      BY <1>1, <1>3, DocumentsRasterized
    <3>2. QED
      BY <1>1, <2>1, <3>1 DEF PagesKept
  <2>2. CASE ~ gs
    BY <1>1, <2>2 DEF Makeable
  <2>3. QED
    BY <2>1, <2>2
<1>5. QED
  BY <1>1, <1>2, <1>4 DEF DocumentsKeepTheirPages

\* renderRaster: the pages of every document that Ghostscript makes are in the
\* files it leaves, none written over by a later document.
THEOREM PagesAreKept == Spec => []DocumentsKeepTheirPages
<1>1. Init => RInv /\ DocumentsKeepTheirPages
  BY InitRInv DEF Init, DocumentsKeepTheirPages, Rendered
<1>2. RInv /\ DocumentsKeepTheirPages /\ [Next]_vars => RInv' /\ DocumentsKeepTheirPages'
  <2> SUFFICES ASSUME RInv, DocumentsKeepTheirPages, [Next]_vars
               PROVE  DocumentsKeepTheirPages'
    BY NextRInv
  <2>1. CASE last' = None
    BY <2>1 DEF DocumentsKeepTheirPages, Rendered, None
  <2>2. CASE UNCHANGED vars
    BY <2>2 DEF DocumentsKeepTheirPages, Rendered, PdfOnly, vars
  <2>3. QED
    BY <2>1, <2>2, RenderSteps, KeptByRendering
<1>3. QED
  BY <1>1, <1>2, PTL DEF Spec

LEMMA NoRasterPages ==
  ASSUME NEW docs \in Seq(Numbered), \A d \in 1..Len(docs) : docs[d].raster = <<>>
  PROVE  SourcePages(docs) = <<>>
<1> DEFINE P == PageRows(docs)
           flat == FlattenSeq(P)
           at == FlattenSeq(Places(P))
<1>1. /\ P \in Seq(Seq(PageImages)) /\ Len(P) = Len(docs)
      /\ \A d \in 1..Len(docs) : Len(P[d]) = Len(docs[d].raster)
  BY RowsTypes
<1>2. SourcePages(docs) = flat
  BY DEF SourcePages, PageRows
<1> HIDE DEF P
<1>3. Located(at, flat, P) /\ flat \in Seq(PageImages)
  BY <1>1, FlattenPlaces, FlattenType
<1>4. \A d \in 1..Len(P) : Len(P[d]) = 0
  <2>1. \A d \in 1..Len(docs) : Len(docs[d].raster) = 0
    BY EmptySeq
  <2>2. QED
    BY ONLY <1>1, <2>1
<1> HIDE DEF at, flat
<1>5. Len(at) = 0
  <2>1. /\ Len(at) \in Nat
        /\ \A i \in 1..Len(at) : at[i][1] \in 1..Len(P) /\ at[i][2] \in 1..Len(P[at[i][1]])
    BY <1>3 DEF Located
  <2>2. QED
    BY <1>4, <2>1
<1>6. Len(flat) = 0
  BY <1>3, <1>5 DEF Located
<1>7. QED
  BY <1>2, <1>3, <1>6, EmptySeq

LEMMA ChargedByRendering ==
  ASSUME RInv, NEW written, NEW gs \in BOOLEAN, Leaves(written, gs)
  PROVE  ChargedForPagesMade'
<1> DEFINE raster == Over(0, written, disk)
           done == RasterizePdfOrPostScript(documents, last'.produced, raster)
<1>1. /\ Makeable(documents, last'.produced)
      /\ LET left == IF gs THEN done ELSE [disk |-> raster, gsPages |-> 0]
         IN  /\ disk' = left.disk
             /\ impressions' = IF left.gsPages > 0 THEN left.gsPages ELSE impressions
      /\ documents' = documents /\ last'.before = DOMAIN disk
      /\ DOMAIN written \subseteq DOMAIN RenderRasterJob(documents, template)
  BY DEF Leaves
<1>2. documents \in Seq(Numbered) /\ DOMAIN documents = 1..Len(documents)
  BY DEF RInv
<1>3. SUFFICES ASSUME \A d \in 1..Len(documents) : documents[d].raster = <<>>,
                      DOMAIN disk = {}, DOMAIN disk' # {}
               PROVE  impressions' = Cardinality(DOMAIN disk')
  BY <1>1, <1>2 DEF ChargedForPagesMade, PdfOnly
<1>4. DOMAIN raster = {} /\ IsFiniteSet(DOMAIN raster)
  <2>1. SourcePages(documents) = <<>>
    BY <1>2, <1>3, NoRasterPages
  <2>2. DOMAIN RenderRasterJob(documents, template) = {}
    BY <2>1, PagesFinite DEF RInv, TemplateType
  <2>3. DOMAIN written = {}
    BY <1>1, <2>2
  <2>4. DOMAIN raster = {<<0, n>> : n \in DOMAIN written} \cup DOMAIN disk
    BY WrittenFinite
  <2>5. DOMAIN raster = {}
    BY <1>3, <2>3, <2>4
  <2>6. QED
    BY <2>5, FS_EmptySet
<1> HIDE DEF raster
<1>5. gs
  <2>1. CASE ~ gs
    BY <1>1, <1>3, <1>4, <2>1
  <2>2. QED
    BY <2>1
<1>6. done.gsPages \in Nat /\ IsFiniteSet(DOMAIN done.disk) /\ PagesCounted(done)
  BY <1>1, <1>4, DocumentsRasterized
<1> HIDE DEF done
<1>7. /\ disk' = done.disk
      /\ impressions' = IF done.gsPages > 0 THEN done.gsPages ELSE impressions
  BY <1>1, <1>5
<1>8. Cardinality(DOMAIN done.disk) = done.gsPages
  BY <1>6 DEF PagesCounted
<1>9. Cardinality(DOMAIN done.disk) # 0
  BY <1>3, <1>6, <1>7, FS_EmptySet
<1>10. QED
  BY <1>6, <1>7, <1>8, <1>9

\* renderRaster: where no file was before, the job is charged for as many
\* impressions as there are files with the pages Ghostscript made, all
\* documents together.
THEOREM PagesAreCharged == Spec => []ChargedForPagesMade
<1>1. Init => RInv /\ ChargedForPagesMade
  BY InitRInv DEF Init, ChargedForPagesMade, Rendered
<1>2. RInv /\ ChargedForPagesMade /\ [Next]_vars => RInv' /\ ChargedForPagesMade'
  <2> SUFFICES ASSUME RInv, ChargedForPagesMade, [Next]_vars
               PROVE  ChargedForPagesMade'
    BY NextRInv
  <2>1. CASE last' = None
    BY <2>1 DEF ChargedForPagesMade, Rendered, None
  <2>2. CASE UNCHANGED vars
    BY <2>2 DEF ChargedForPagesMade, Rendered, PdfOnly, vars
  <2>3. QED
    BY <2>1, <2>2, RenderSteps, ChargedByRendering
<1>3. QED
  BY <1>1, <1>2, PTL DEF Spec

(***************************************************************************)
(* The pages of raster documents, one to a file.                           *)
(***************************************************************************)
\* Without page descriptions, a file holds what was written to it.
LEMMA FilesWritten ==
  ASSUME RInv, NEW written, NEW gs \in BOOLEAN, Leaves(written, gs), RasterOnly
  PROVE  LET pages == RenderRasterJob(documents, template) IN
         /\ DOMAIN written \subseteq DOMAIN pages
         /\ \A n \in DOMAIN written : disk'[<<0, n>>] = pages[n]
<1> DEFINE raster == Over(0, written, disk)
           pages == RenderRasterJob(documents, template)
<1>1. DOMAIN documents = 1..Len(documents) /\ Len(documents) \in Nat
  BY DEF RInv
<1>2. \A d \in 1..Len(documents) : documents[d].format # "pdf"
  BY <1>1 DEF RasterOnly
<1>3. RasterizePdfOrPostScript(documents, last'.produced, raster)
        = [disk |-> raster, gsPages |-> 0]
  BY <1>1, <1>2, NothingToRasterize
<1>4. /\ DOMAIN written \subseteq DOMAIN pages
      /\ \A n \in DOMAIN written : written[n] = pages[n]
      /\ disk' = (IF gs THEN RasterizePdfOrPostScript(documents, last'.produced, raster)
                  ELSE [disk |-> raster, gsPages |-> 0]).disk
  BY DEF Leaves
<1>5. \A n \in DOMAIN written : raster[<<0, n>>] = written[n]
  BY WrittenFinite
<1> HIDE DEF raster
<1>6. disk' = raster
  BY <1>3, <1>4
<1>7. QED
  BY <1>4, <1>5, <1>6, Zenon

LEMMA FileHoldsPage ==
  ASSUME RInv, NEW written, NEW gs \in BOOLEAN, Leaves(written, gs),
         RasterOnly, template.numberUp <= 1
  PROVE  LET chosen == Chosen(documents, template) IN
         /\ DOMAIN written \subseteq ToSet(chosen)
         /\ \A e \in DOMAIN chosen : chosen[e] \in DOMAIN written =>
              disk'[<<0, chosen[e]>>] =
                Prepare(SourcePages(documents)[chosen[e]], chosen[e], e, template).image
<1> DEFINE pages == RenderRasterJob(documents, template)
           chosen == Chosen(documents, template)
<1>1. documents \in Seq(Numbered) /\ Distinct(documents) /\ template.numberUp \in Int
  BY DEF RInv, TemplateType
<1>2. DOMAIN written \subseteq DOMAIN pages
      /\ \A n \in DOMAIN written : disk'[<<0, n>>] = pages[n]
  BY FilesWritten
<1>3. NumberUp(template) <= 1
  BY <1>1 DEF NumberUp, Larger
<1>4. /\ DOMAIN pages = ToSet(chosen)
      /\ \A e \in DOMAIN chosen :
           pages[chosen[e]] =
             Prepare(SourcePages(documents)[chosen[e]], chosen[e], e, template).image
  BY <1>1, <1>3, EmittedPerPage
<1> HIDE DEF pages, chosen
<1>5. QED
  BY <1>2, <1>4, Zenon DEF chosen

LEMMA NamedByRendering ==
  ASSUME RInv, NEW written, NEW gs \in BOOLEAN, Leaves(written, gs)
  PROVE  NameTellsThePage'
<1> DEFINE chosen == Chosen(documents, template)
           source == SourcePages(documents)
           labels == FlattenSeq(LabelRows(documents))
<1>1. UNCHANGED <<template, documents>> /\ last'.written = DOMAIN written
  BY DEF Leaves
<1>2. Labels' = labels
  BY <1>1, Zenon DEF Labels, LabelRows
<1>3. SUFFICES ASSUME RasterOnly, template.numberUp <= 1, NEW n \in DOMAIN written
               PROVE  Reading(disk'[<<0, n>>], labels) = <<n>>
  BY <1>1, <1>2 DEF NameTellsThePage, RasterOnly
<1>4. documents \in Seq(Numbered) /\ Distinct(documents)
  BY DEF RInv
<1>5. /\ DOMAIN written \subseteq ToSet(chosen)
      /\ \A e \in DOMAIN chosen : chosen[e] \in DOMAIN written =>
           disk'[<<0, chosen[e]>>] =
             Prepare(source[chosen[e]], chosen[e], e, template).image
  BY <1>3, FileHoldsPage
<1>6. ToSet(chosen) \subseteq 1..Len(source)
  BY <1>4, ChosenLists
<1>7. Labelled(source, labels)
  BY <1>4, SourceLabelled
<1> HIDE DEF chosen, source, labels
<1>8. PICK e \in DOMAIN chosen : n = chosen[e]
  BY <1>3, <1>5 DEF ToSet
<1>9. /\ n \in 1..Len(labels) /\ DOMAIN labels = 1..Len(labels)
      /\ labels[n] \in Nat \X Nat
      /\ \A q \in DOMAIN labels : labels[q] = labels[n] => q = n
  BY <1>3, <1>5, <1>6, <1>7 DEF Labelled
<1>10. PICK z \in Sizes : source[n] = PageImage(labels[n][1], labels[n][2], z)
  BY <1>7, <1>9 DEF Labelled
<1>11. Shows(source[n], labels[n])
  <2> DEFINE c == labels[n][1]
             p == labels[n][2]
  <2>1. c \in Nat /\ p \in Nat /\ labels[n] = <<c, p>>
    BY <1>9
  <2> HIDE DEF c, p
  <2>2. source[n] = PageImage(c, p, z)
    BY <1>10 DEF c, p
  <2>3. Shows(PageImage(c, p, z), <<c, p>>)
    BY <2>1, PageShows
  <2>4. QED
    BY <2>1, <2>2, <2>3
<1> DEFINE image == disk'[<<0, n>>]
<1>12. Shows(image, labels[n])
  <2>1. image = Prepare(source[n], n, e, template).image
    BY <1>3, <1>5, <1>8
  <2>2. Shows(Prepare(source[n], n, e, template).image, labels[n])
    BY <1>11, PreparedShows
  <2>3. QED
    BY <2>1, <2>2
<1>13. labels[n] = <<labels[n][1], labels[n][2]>>
  BY <1>9
<1> HIDE DEF image
<1>14. Reading(image, labels) = <<n>>
  BY <1>9, <1>12, <1>13, OnePageReads
<1>15. QED
  BY <1>14 DEF image

\* renderRasterJob without number-up: whatever the ranges, the orientation,
\* the quality, the sides and the documents, the file with suffix n holds
\* nothing but the n-th raster page of the job.
THEOREM NamesAreTrue == Spec => []NameTellsThePage
<1>1. Init => RInv /\ NameTellsThePage
  BY InitRInv DEF Init, NameTellsThePage, Rendered
<1>2. RInv /\ NameTellsThePage /\ [Next]_vars => RInv' /\ NameTellsThePage'
  <2> SUFFICES ASSUME RInv, NameTellsThePage, [Next]_vars
               PROVE  NameTellsThePage'
    BY NextRInv
  <2>1. CASE last' = None
    BY <2>1 DEF NameTellsThePage, Rendered, None
  <2>2. CASE UNCHANGED vars
    <3>1. Labels' = Labels
      BY <2>2, Zenon DEF Labels, vars
    <3>2. QED
      BY <2>2, <3>1 DEF NameTellsThePage, Rendered, RasterOnly, vars
  <2>3. QED
    BY <2>1, <2>2, RenderSteps, NamedByRendering
<1>3. QED
  BY <1>1, <1>2, PTL DEF Spec

(***************************************************************************)
(* How a page lies in an image.                                            *)
(***************************************************************************)
\* Where the upper left pixel of a page is and, if the page is wide enough,
\* the one to the right of it.
Points(i, corner, next) ==
  /\ <<i.px[corner][3], i.px[corner][4]>> = <<0, 0>>
  /\ next \in DOMAIN i.px => <<i.px[next][3], i.px[next][4]>> = <<1, 0>>

IsGrid(i) ==
  /\ i.w \in Nat \ {0} /\ i.h \in Nat \ {0}
  /\ DOMAIN i.px = (0..(i.w - 1)) \X (0..(i.h - 1))

LEMMA TurnedIs ==
  ASSUME NEW i, IsGrid(i)
  PROVE  /\ Turned(i, 0)   <=> Points(i, <<0, 0>>, <<1, 0>>)
         /\ Turned(i, 90)  <=> Points(i, <<i.w - 1, 0>>, <<i.w - 1, 1>>)
         /\ Turned(i, 180) <=> Points(i, <<i.w - 1, i.h - 1>>, <<i.w - 2, i.h - 1>>)
         /\ Turned(i, 270) <=> Points(i, <<0, i.h - 1>>, <<0, i.h - 2>>)
<1>1. i.w - 1 + 0 = i.w - 1 /\ i.w - 1 + (-1) = i.w - 2
      /\ i.h - 1 + 0 = i.h - 1 /\ i.h - 1 + (-1) = i.h - 2
  BY DEF IsGrid
<1>2. Turned(i, 0) <=> Points(i, <<0, 0>>, <<1, 0>>)
  BY DEF Turned, Points
<1>3. Turned(i, 90) <=> Points(i, <<i.w - 1, 0>>, <<i.w - 1, 1>>)
  BY <1>1 DEF Turned, Points
<1>4. Turned(i, 180) <=> Points(i, <<i.w - 1, i.h - 1>>, <<i.w - 2, i.h - 1>>)
  BY <1>1 DEF Turned, Points
<1>5. Turned(i, 270) <=> Points(i, <<0, i.h - 1>>, <<0, i.h - 2>>)
  BY <1>1 DEF Turned, Points
<1>6. QED
  BY <1>2, <1>3, <1>4, <1>5

LEMMA RotatedParts ==
  ASSUME NEW i
  PROVE  /\ RotatePixels(i, 90).w = i.h /\ RotatePixels(i, 90).h = i.w
         /\ DOMAIN RotatePixels(i, 90).px = (0..(i.h - 1)) \X (0..(i.w - 1))
         /\ DOMAIN RotatePixels(i, 270).px = (0..(i.h - 1)) \X (0..(i.w - 1))
         /\ DOMAIN RotatePixels(i, 180).px = (0..(i.w - 1)) \X (0..(i.h - 1))
         /\ RotatePixels(i, 90).px =
              [p \in (0..(i.h - 1)) \X (0..(i.w - 1)) |-> i.px[p[2], i.h - 1 - p[1]]]
         /\ RotatePixels(i, 270).w = i.h /\ RotatePixels(i, 270).h = i.w
         /\ RotatePixels(i, 270).px =
              [p \in (0..(i.h - 1)) \X (0..(i.w - 1)) |-> i.px[i.w - 1 - p[2], p[1]]]
         /\ RotatePixels(i, 180).w = i.w /\ RotatePixels(i, 180).h = i.h
         /\ RotatePixels(i, 180).px =
              [p \in (0..(i.w - 1)) \X (0..(i.h - 1)) |->
                 i.px[i.w - 1 - p[1], i.h - 1 - p[2]]]
<1> DEFINE q == [p \in (0..(i.h - 1)) \X (0..(i.w - 1)) |-> i.px[p[2], i.h - 1 - p[1]]]
           r == [p \in (0..(i.h - 1)) \X (0..(i.w - 1)) |-> i.px[i.w - 1 - p[2], p[1]]]
           s == [p \in (0..(i.w - 1)) \X (0..(i.h - 1)) |->
                   i.px[i.w - 1 - p[1], i.h - 1 - p[2]]]
<1>0. /\ DOMAIN q = (0..(i.h - 1)) \X (0..(i.w - 1))
      /\ DOMAIN r = (0..(i.h - 1)) \X (0..(i.w - 1))
      /\ DOMAIN s = (0..(i.w - 1)) \X (0..(i.h - 1))
  OBVIOUS
<1>1. /\ RotatePixels(i, 90) = [w |-> i.h, h |-> i.w, px |-> q]
      /\ RotatePixels(i, 270) = [w |-> i.h, h |-> i.w, px |-> r]
      /\ RotatePixels(i, 180) = [w |-> i.w, h |-> i.h, px |-> s]
  BY RotatedIs, Zenon
<1> HIDE DEF q, r, s
<1>2. /\ RotatePixels(i, 90).w = i.h /\ RotatePixels(i, 90).h = i.w
      /\ RotatePixels(i, 90).px = q
      /\ RotatePixels(i, 270).w = i.h /\ RotatePixels(i, 270).h = i.w
      /\ RotatePixels(i, 270).px = r
      /\ RotatePixels(i, 180).w = i.w /\ RotatePixels(i, 180).h = i.h
      /\ RotatePixels(i, 180).px = s
  BY <1>1
<1>3. QED
  BY <1>0, <1>2, Zenon DEF q, r, s

\* A rotation takes the two pixels where it takes any other.
LEMMA PointsRotated ==
  ASSUME NEW i, IsGrid(i), NEW x \in 0..(i.w - 1), NEW y \in 0..(i.h - 1),
         NEW a \in Int, NEW b \in Int, Points(i, <<x, y>>, <<a, b>>)
  PROVE  /\ Points(RotatePixels(i, 90), <<i.h - 1 - y, x>>, <<i.h - 1 - b, a>>)
         /\ Points(RotatePixels(i, 180), <<i.w - 1 - x, i.h - 1 - y>>,
                   <<i.w - 1 - a, i.h - 1 - b>>)
         /\ Points(RotatePixels(i, 270), <<y, i.w - 1 - x>>, <<b, i.w - 1 - a>>)
<1> DEFINE w == i.w
           h == i.h
           px == i.px
<1>1. /\ w \in Nat \ {0} /\ h \in Nat \ {0}
      /\ DOMAIN px = (0..(w - 1)) \X (0..(h - 1))
      /\ x \in 0..(w - 1) /\ y \in 0..(h - 1)
  BY DEF IsGrid
<1>2. /\ RotatePixels(i, 90).px
           = [p \in (0..(h - 1)) \X (0..(w - 1)) |-> px[p[2], h - 1 - p[1]]]
      /\ RotatePixels(i, 270).px
           = [p \in (0..(h - 1)) \X (0..(w - 1)) |-> px[w - 1 - p[2], p[1]]]
      /\ RotatePixels(i, 180).px
           = [p \in (0..(w - 1)) \X (0..(h - 1)) |-> px[w - 1 - p[1], h - 1 - p[2]]]
  <2>1. RotatePixels(i, 90).px
          = [p \in (0..(h - 1)) \X (0..(w - 1)) |-> px[p[2], h - 1 - p[1]]]
    BY RotatedParts
  <2>2. RotatePixels(i, 270).px
          = [p \in (0..(h - 1)) \X (0..(w - 1)) |-> px[w - 1 - p[2], p[1]]]
    BY ONLY RotatedParts, Zenon
  <2>3. RotatePixels(i, 180).px
          = [p \in (0..(w - 1)) \X (0..(h - 1)) |-> px[w - 1 - p[1], h - 1 - p[2]]]
    BY ONLY RotatedParts
  <2>4. QED
    BY <2>1, <2>2, <2>3
<1>3. /\ <<px[<<x, y>>][3], px[<<x, y>>][4]>> = <<0, 0>>
      /\ <<a, b>> \in DOMAIN px => <<px[<<a, b>>][3], px[<<a, b>>][4]>> = <<1, 0>>
  BY DEF Points
<1> HIDE DEF w, h, px
<1>4. Points(RotatePixels(i, 90), <<h - 1 - y, x>>, <<h - 1 - b, a>>)
  <2> DEFINE q == RotatePixels(i, 90).px
  <2>1. /\ DOMAIN q = (0..(h - 1)) \X (0..(w - 1))
        /\ \A c \in 0..(h - 1), d \in 0..(w - 1) : q[<<c, d>>] = px[<<d, h - 1 - c>>]
    BY <1>2
  <2> HIDE DEF q
  <2>2. h - 1 - y \in 0..(h - 1) /\ h - 1 - (h - 1 - y) = y
    BY <1>1
  <2>3. q[<<h - 1 - y, x>>] = px[<<x, y>>]
    BY <1>1, <2>1, <2>2
  <2>4. ASSUME <<h - 1 - b, a>> \in DOMAIN q
        PROVE  <<a, b>> \in DOMAIN px /\ q[<<h - 1 - b, a>>] = px[<<a, b>>]
    <3>1. h - 1 - b \in 0..(h - 1) /\ a \in 0..(w - 1) /\ b \in 0..(h - 1)
          /\ h - 1 - (h - 1 - b) = b
      BY <1>1, <2>1, <2>4
    <3>2. QED
      BY <1>1, <2>1, <3>1
  <2>5. QED
    BY <1>3, <2>3, <2>4 DEF Points, q
<1>5. Points(RotatePixels(i, 180), <<w - 1 - x, h - 1 - y>>, <<w - 1 - a, h - 1 - b>>)
  <2> DEFINE q == RotatePixels(i, 180).px
  <2>1. /\ DOMAIN q = (0..(w - 1)) \X (0..(h - 1))
        /\ \A c \in 0..(w - 1), d \in 0..(h - 1) : q[<<c, d>>] = px[<<w - 1 - c, h - 1 - d>>]
    BY <1>2
  <2> HIDE DEF q
  <2>2. /\ w - 1 - x \in 0..(w - 1) /\ w - 1 - (w - 1 - x) = x
        /\ h - 1 - y \in 0..(h - 1) /\ h - 1 - (h - 1 - y) = y
    BY <1>1
  <2>3. q[<<w - 1 - x, h - 1 - y>>] = px[<<x, y>>]
    BY <1>1, <2>1, <2>2
  <2>4. ASSUME <<w - 1 - a, h - 1 - b>> \in DOMAIN q
        PROVE  <<a, b>> \in DOMAIN px /\ q[<<w - 1 - a, h - 1 - b>>] = px[<<a, b>>]
    <3>1. /\ w - 1 - a \in 0..(w - 1) /\ h - 1 - b \in 0..(h - 1)
          /\ a \in 0..(w - 1) /\ b \in 0..(h - 1)
          /\ w - 1 - (w - 1 - a) = a /\ h - 1 - (h - 1 - b) = b
      BY <1>1, <2>1, <2>4
    <3>2. QED
      BY <1>1, <2>1, <3>1
  <2>5. QED
    BY <1>3, <2>3, <2>4 DEF Points, q
<1>6. Points(RotatePixels(i, 270), <<y, w - 1 - x>>, <<b, w - 1 - a>>)
  <2> DEFINE q == RotatePixels(i, 270).px
  <2>1. /\ DOMAIN q = (0..(h - 1)) \X (0..(w - 1))
        /\ \A c \in 0..(h - 1), d \in 0..(w - 1) : q[<<c, d>>] = px[<<w - 1 - d, c>>]
    BY <1>2
  <2> HIDE DEF q
  <2>2. w - 1 - x \in 0..(w - 1) /\ w - 1 - (w - 1 - x) = x
    BY <1>1
  <2>3. q[<<y, w - 1 - x>>] = px[<<x, y>>]
    BY <1>1, <2>1, <2>2
  <2>4. ASSUME <<b, w - 1 - a>> \in DOMAIN q
        PROVE  <<a, b>> \in DOMAIN px /\ q[<<b, w - 1 - a>>] = px[<<a, b>>]
    <3>1. /\ w - 1 - a \in 0..(w - 1) /\ a \in 0..(w - 1) /\ b \in 0..(h - 1)
          /\ w - 1 - (w - 1 - a) = a
      BY <1>1, <2>1, <2>4
    <3>2. QED
      BY <1>1, <2>1, <3>1
  <2>5. QED
    BY <1>3, <2>3, <2>4 DEF Points, q
<1>7. QED
  BY <1>4, <1>5, <1>6 DEF w, h

\* A page turned by the orientation, and the back of a sheet by half a turn
\* more.
LEMMA TurnedRotated ==
  ASSUME NEW i, IsGrid(i)
  PROVE  /\ Turned(i, 0) => /\ Turned(RotatePixels(i, 90), 90)
                            /\ Turned(RotatePixels(i, 180), 180)
                            /\ Turned(RotatePixels(i, 270), 270)
         /\ Turned(i, 90) => Turned(RotatePixels(i, 180), 270)
         /\ Turned(i, 180) => Turned(RotatePixels(i, 180), 0)
         /\ Turned(i, 270) => Turned(RotatePixels(i, 180), 90)
         /\ IsGrid(RotatePixels(i, 90)) /\ IsGrid(RotatePixels(i, 180))
         /\ IsGrid(RotatePixels(i, 270))
<1> DEFINE w == i.w
           h == i.h
           q == RotatePixels(i, 90)
           s == RotatePixels(i, 180)
           r == RotatePixels(i, 270)
<1>1. w \in Nat \ {0} /\ h \in Nat \ {0}
  BY DEF IsGrid
<1>2. /\ q.w = h /\ q.h = w /\ DOMAIN q.px = (0..(h - 1)) \X (0..(w - 1))
      /\ r.w = h /\ r.h = w /\ DOMAIN r.px = (0..(h - 1)) \X (0..(w - 1))
      /\ s.w = w /\ s.h = h /\ DOMAIN s.px = (0..(w - 1)) \X (0..(h - 1))
  <2>1. q.w = h /\ q.h = w /\ DOMAIN q.px = (0..(h - 1)) \X (0..(w - 1))
    BY ONLY RotatedParts, Zenon
  <2>2. r.w = h /\ r.h = w /\ DOMAIN r.px = (0..(h - 1)) \X (0..(w - 1))
    BY ONLY RotatedParts, Zenon
  <2>3. s.w = w /\ s.h = h /\ DOMAIN s.px = (0..(w - 1)) \X (0..(h - 1))
    BY ONLY RotatedParts, Zenon
  <2>4. QED
    BY <2>1, <2>2, <2>3
<1>3. \A x \in 0..(w - 1), y \in 0..(h - 1), a, b \in Int :
        Points(i, <<x, y>>, <<a, b>>) =>
          /\ Points(q, <<h - 1 - y, x>>, <<h - 1 - b, a>>)
          /\ Points(s, <<w - 1 - x, h - 1 - y>>, <<w - 1 - a, h - 1 - b>>)
          /\ Points(r, <<y, w - 1 - x>>, <<b, w - 1 - a>>)
  BY PointsRotated
<1> HIDE DEF q, s, r
<1>4. IsGrid(q) /\ IsGrid(s) /\ IsGrid(r)
  BY <1>1, <1>2 DEF IsGrid
<1>5. ASSUME Turned(i, 0)
      PROVE  Turned(q, 90) /\ Turned(s, 180) /\ Turned(r, 270)
  <2>1. Points(i, <<0, 0>>, <<1, 0>>)
    BY <1>5, TurnedIs
  <2>2. 0 \in 0..(w - 1) /\ 0 \in 0..(h - 1) /\ 1 \in Int /\ 0 \in Int
    BY <1>1
  <2>3. /\ Points(q, <<h - 1 - 0, 0>>, <<h - 1 - 0, 1>>)
        /\ Points(s, <<w - 1 - 0, h - 1 - 0>>, <<w - 1 - 1, h - 1 - 0>>)
        /\ Points(r, <<0, w - 1 - 0>>, <<0, w - 1 - 1>>)
    BY <1>3, <2>1, <2>2
  <2>4. h - 1 - 0 = h - 1 /\ w - 1 - 0 = w - 1 /\ w - 1 - 1 = w - 2
    BY <1>1
  <2>5. /\ Points(q, <<q.w - 1, 0>>, <<q.w - 1, 1>>)
        /\ Points(s, <<s.w - 1, s.h - 1>>, <<s.w - 2, s.h - 1>>)
        /\ Points(r, <<0, r.h - 1>>, <<0, r.h - 2>>)
    BY <1>2, <2>3, <2>4
  <2>6. Turned(q, 90)
    <3>1. Turned(q, 90) <=> Points(q, <<q.w - 1, 0>>, <<q.w - 1, 1>>)
      BY <1>4, TurnedIs, Zenon
    <3>2. QED
      BY <2>5, <3>1
  <2>7. Turned(s, 180)
    <3>1. Turned(s, 180) <=> Points(s, <<s.w - 1, s.h - 1>>, <<s.w - 2, s.h - 1>>)
      BY <1>4, TurnedIs, Zenon
    <3>2. QED
      BY <2>5, <3>1
  <2>8. Turned(r, 270)
    BY <1>4, <2>5, TurnedIs
  <2>9. QED
    BY <2>6, <2>7, <2>8
<1>6. ASSUME Turned(i, 90) PROVE Turned(s, 270)
  <2>1. Points(i, <<w - 1, 0>>, <<w - 1, 1>>)
    BY <1>6, TurnedIs
  <2>2. w - 1 \in 0..(w - 1) /\ 0 \in 0..(h - 1) /\ w - 1 \in Int /\ 1 \in Int
    BY <1>1
  <2>3. Points(s, <<w - 1 - (w - 1), h - 1 - 0>>, <<w - 1 - (w - 1), h - 1 - 1>>)
    BY <1>3, <2>1, <2>2
  <2>4. w - 1 - (w - 1) = 0 /\ h - 1 - 0 = h - 1 /\ h - 1 - 1 = h - 2
    BY <1>1
  <2>5. Points(s, <<0, s.h - 1>>, <<0, s.h - 2>>)
    BY <1>2, <2>3, <2>4
  <2>6. QED
    BY <1>4, <2>5, TurnedIs
<1>7. ASSUME Turned(i, 180) PROVE Turned(s, 0)
  <2>1. Points(i, <<w - 1, h - 1>>, <<w - 2, h - 1>>)
    BY <1>7, TurnedIs
  <2>2. w - 1 \in 0..(w - 1) /\ h - 1 \in 0..(h - 1) /\ w - 2 \in Int /\ h - 1 \in Int
    BY <1>1
  <2>3. Points(s, <<w - 1 - (w - 1), h - 1 - (h - 1)>>, <<w - 1 - (w - 2), h - 1 - (h - 1)>>)
    BY <1>3, <2>1, <2>2
  <2>4. w - 1 - (w - 1) = 0 /\ h - 1 - (h - 1) = 0 /\ w - 1 - (w - 2) = 1
    BY <1>1
  <2>5. Points(s, <<0, 0>>, <<1, 0>>)
    BY <2>3, <2>4
  <2>6. QED
    BY <1>4, <2>5, TurnedIs, Zenon
<1>8. ASSUME Turned(i, 270) PROVE Turned(s, 90)
  <2>1. Points(i, <<0, h - 1>>, <<0, h - 2>>)
    BY <1>8, TurnedIs
  <2>2. 0 \in 0..(w - 1) /\ h - 1 \in 0..(h - 1) /\ 0 \in Int /\ h - 2 \in Int
    BY <1>1
  <2>3. Points(s, <<w - 1 - 0, h - 1 - (h - 1)>>, <<w - 1 - 0, h - 1 - (h - 2)>>)
    BY <1>3, <2>1, <2>2
  <2>4. w - 1 - 0 = w - 1 /\ h - 1 - (h - 1) = 0 /\ h - 1 - (h - 2) = 1
    BY <1>1
  <2>5. Points(s, <<s.w - 1, 0>>, <<s.w - 1, 1>>)
    BY <1>2, <2>3, <2>4
  <2>6. Turned(s, 90) <=> Points(s, <<s.w - 1, 0>>, <<s.w - 1, 1>>)
    BY <1>4, TurnedIs, Zenon
  <2>7. QED
    BY <2>5, <2>6
<1>9. QED
  BY <1>4, <1>5, <1>6, <1>7, <1>8 DEF q, s, r

(***************************************************************************)
(* What the client asked for is what renderRasterJob selects.              *)
(***************************************************************************)
LEMMA RangesSelect ==
  ASSUME NEW t \in TemplateType, NEW p \in Nat \ {0}
  PROVE  LET covering == {r \in t.pageRanges : \E k \in 1..r[2] : k >= r[1]} IN
         InSelectedRanges(p, PageRanges(t)) <=>
           covering = {} \/ \E r \in covering : r[1] <= p /\ p <= r[2]
<1> DEFINE covering == {r \in t.pageRanges : \E k \in 1..r[2] : k >= r[1]}
           Raised(r) == <<Larger(1, r[1]), r[2]>>
           ranges == PageRanges(t)
<1>1. \A r \in t.pageRanges : r[1] \in Int /\ r[2] \in Int
  BY DEF TemplateType
<1>2. ASSUME NEW r \in t.pageRanges
      PROVE  /\ r \in covering <=> Raised(r)[1] <= Raised(r)[2]
             /\ p \in Raised(r)[1]..Raised(r)[2] <=> r[1] <= p /\ p <= r[2]
  <2> DEFINE a == r[1]
             b == r[2]
  <2>1. a \in Int /\ b \in Int
    BY <1>1
  <2>2. /\ Raised(r)[1] = Larger(1, a) /\ Raised(r)[2] = b
        /\ r \in covering <=> \E k \in 1..b : k >= a
    OBVIOUS
  <2> HIDE DEF a, b, Raised, covering
  <2>3. (\E k \in 1..b : k >= a) <=> Larger(1, a) <= b
    <3>1. ASSUME NEW k \in 1..b, k >= a PROVE Larger(1, a) <= b
      BY <2>1, <3>1 DEF Larger
    <3>2. ASSUME Larger(1, a) <= b PROVE b \in 1..b /\ b >= a
      BY <2>1, <3>2 DEF Larger
    <3>3. QED
      BY <3>1, <3>2
  <2>4. p \in Larger(1, a)..b <=> a <= p /\ p <= b
    BY <2>1 DEF Larger
  <2>5. QED
    BY <2>2, <2>3, <2>4 DEF a, b
<1>3. ranges = {s \in {Raised(r) : r \in t.pageRanges} : s[1] <= s[2]}
  BY DEF PageRanges
<1> HIDE DEF covering, Raised, ranges
<1>4. \A s : s \in ranges <=> \E r \in covering : s = Raised(r)
  <2>1. covering \subseteq t.pageRanges
    BY DEF covering
  <2>2. QED
    BY <1>2, <1>3, <2>1
<1>5. covering \subseteq t.pageRanges
  BY DEF covering
<1>6. ranges = {} <=> covering = {}
  BY <1>4
<1>7. (\E s \in ranges : p \in s[1]..s[2]) <=> \E r \in covering : r[1] <= p /\ p <= r[2]
  BY <1>2, <1>4, <1>5
<1>8. InSelectedRanges(p, ranges) <=>
        covering = {} \/ \E r \in covering : r[1] <= p /\ p <= r[2]
  BY <1>6, <1>7 DEF InSelectedRanges
<1>9. QED
  BY <1>8 DEF covering, ranges

LEMMA WantedIsChosen ==
  ASSUME RInv
  PROVE  Wanted = Chosen(documents, template)
<1> DEFINE source == SourcePages(documents)
           labels == FlattenSeq(LabelRows(documents))
           Covering == {r \in template.pageRanges : \E k \in 1..r[2] : k >= r[1]}
           Asked(p) == Covering = {} \/ \E r \in Covering : r[1] <= p /\ p <= r[2]
<1>1. Labels = labels
  BY Zenon DEF Labels, LabelRows
<1>2. Labelled(source, labels)
  BY SourceLabelled DEF RInv
<1> HIDE DEF source, labels
<1>3. /\ DOMAIN labels = 1..Len(labels) /\ DOMAIN source = 1..Len(labels)
      /\ Len(source) = Len(labels) /\ Len(labels) \in Nat
  BY <1>2 DEF Labelled
<1>4. \A p \in 1..Len(labels) : InSelectedRanges(p, PageRanges(template)) <=> Asked(p)
  BY <1>3, RangesSelect DEF RInv
<1>5. Wanted = Ascending({p \in DOMAIN labels : Asked(p)}, Len(labels))
  BY <1>1, Zenon DEF Wanted
<1>6. Chosen(documents, template)
        = Ascending({i \in DOMAIN source : InSelectedRanges(i, PageRanges(template))},
                    Len(source))
  BY Zenon DEF Chosen, source
<1> HIDE DEF Asked
<1>7. {p \in DOMAIN labels : Asked(p)}
        = {i \in DOMAIN source : InSelectedRanges(i, PageRanges(template))}
  BY <1>3, <1>4
<1>8. QED
  BY <1>3, <1>5, <1>6, <1>7, Zenon

(***************************************************************************)
(* How the pages of raster documents lie.                                  *)
(***************************************************************************)
LEMMA PageUpright ==
  ASSUME NEW c, NEW n, NEW z \in Sizes
  PROVE  IsGrid(PageImage(c, n, z)) /\ Turned(PageImage(c, n, z), 0)
<1> DEFINE w == z[1]
           h == z[2]
           px == [p \in (0..(w - 1)) \X (0..(h - 1)) |-> <<c, n, p[1], p[2]>>]
           page == PageImage(c, n, z)
<1>1. w \in Nat \ {0} /\ h \in Nat \ {0}
  BY DEF Sizes
<1>2. page = [w |-> w, h |-> h, px |-> px]
  BY Zenon DEF PageImage, Image
<1>3. DOMAIN px = (0..(w - 1)) \X (0..(h - 1))
      /\ \A x \in 0..(w - 1), y \in 0..(h - 1) : px[<<x, y>>] = <<c, n, x, y>>
  OBVIOUS
<1> HIDE DEF w, h, px, page
<1>4. page.w = w /\ page.h = h /\ page.px = px
  BY <1>2
<1>5. IsGrid(page)
  BY <1>1, <1>3, <1>4 DEF IsGrid
<1>6. Points(page, <<0, 0>>, <<1, 0>>)
  <2>1. 0 \in 0..(w - 1) /\ 0 \in 0..(h - 1)
    BY <1>1
  <2>2. px[<<0, 0>>] = <<c, n, 0, 0>>
    BY <1>3, <2>1
  <2>3. <<1, 0>> \in DOMAIN px => px[<<1, 0>>] = <<c, n, 1, 0>>
    BY <1>3
  <2>4. QED
    BY <1>4, <2>2, <2>3 DEF Points
<1>7. QED
  BY <1>5, <1>6, TurnedIs DEF page

\* The orientation that was asked for, and half a turn more for a back.
LEMMA PreparedTurned ==
  ASSUME NEW page, IsGrid(page), Turned(page, 0), NEW t, ~ t.draft,
         NEW index, NEW e \in Nat
  PROVE  Turned(Prepare(page, index, e, t).image, AskedTurn(e, t))
<1> DEFINE back == e % 2 = 0 /\ t.sides = "two-sided-short-edge"
           asked == CASE t.orientation = 4 -> 90
                      [] t.orientation = 5 -> 270
                      [] t.orientation = 6 -> 180
                      [] OTHER -> 0
           turned == RotatePixels(page, Degrees(t))
           image == Prepare(page, index, e, t).image
<1>1. asked = Degrees(t) /\ asked \in {0, 90, 180, 270}
  BY DEF Degrees
<1>2. image = IF back THEN RotatePixels(turned, 180) ELSE turned
  BY DEF Prepare, DownscalePixels, SidesTumbles
<1>3. IsGrid(turned) /\ Turned(turned, asked)
  <2>1. CASE Degrees(t) = 0
    BY <1>1, <2>1 DEF RotatePixels
  <2>2. /\ IsGrid(RotatePixels(page, 90)) /\ Turned(RotatePixels(page, 90), 90)
        /\ IsGrid(RotatePixels(page, 180)) /\ Turned(RotatePixels(page, 180), 180)
        /\ IsGrid(RotatePixels(page, 270)) /\ Turned(RotatePixels(page, 270), 270)
    BY TurnedRotated
  <2>3. \A d \in {90, 180, 270} :
          IsGrid(RotatePixels(page, d)) /\ Turned(RotatePixels(page, d), d)
    BY <2>2
  <2>4. asked = Degrees(t) /\ asked \in {0, 90, 180, 270}
    BY <1>1
  <2> HIDE DEF asked
  <2>5. CASE Degrees(t) # 0
    BY <2>3, <2>4, <2>5
  <2>6. QED
    BY <2>1, <2>5
<1> HIDE DEF asked, turned, image, back
<1>4. Turned(image, (asked + IF back THEN 180 ELSE 0) % 360)
  <2>1. CASE back
    <3>1. image = RotatePixels(turned, 180)
      BY <1>2, <2>1
    <3>2. /\ asked = 0 => Turned(image, 180)
          /\ asked = 90 => Turned(image, 270)
          /\ asked = 180 => Turned(image, 0)
          /\ asked = 270 => Turned(image, 90)
      <4>1. /\ Turned(turned, 0) => Turned(RotatePixels(turned, 180), 180)
            /\ Turned(turned, 90) => Turned(RotatePixels(turned, 180), 270)
            /\ Turned(turned, 180) => Turned(RotatePixels(turned, 180), 0)
            /\ Turned(turned, 270) => Turned(RotatePixels(turned, 180), 90)
        BY <1>3, TurnedRotated
      <4>2. QED
        BY <1>3, <3>1, <4>1
    <3>3. /\ (0 + 180) % 360 = 180 /\ (90 + 180) % 360 = 270
          /\ (180 + 180) % 360 = 0 /\ (270 + 180) % 360 = 90
      OBVIOUS
    <3>4. (asked + IF back THEN 180 ELSE 0) = asked + 180
      BY <2>1
    <3>5. Turned(image, (asked + 180) % 360)
      <4>1. asked \in {0, 90, 180, 270}
        BY <1>1
      <4>2. QED
        BY <3>2, <3>3, <4>1
    <3>6. QED
      BY <3>4, <3>5, Zenon
  <2>2. CASE ~ back
    <3>1. image = turned
      BY <1>2, <2>2
    <3>2. (asked + IF back THEN 180 ELSE 0) % 360 = asked
      BY <1>1, <2>2
    <3>3. QED
      BY <1>3, <3>1, <3>2, Zenon
  <2>3. QED
    BY <2>1, <2>2
<1>5. QED
  BY <1>4 DEF AskedTurn, asked, image, back

LEMMA TumbledByRendering ==
  ASSUME RInv, NEW written, NEW gs \in BOOLEAN, Leaves(written, gs)
  PROVE  BacksAreTumbled'
<1> DEFINE chosen == Chosen(documents, template)
           source == SourcePages(documents)
           labels == FlattenSeq(LabelRows(documents))
<1>1. template' = template /\ documents' = documents /\ last'.written = DOMAIN written
  BY DEF Leaves
<1>2. Wanted' = chosen
  <2>1. Wanted' = Wanted
    BY <1>1, Zenon DEF Wanted, Labels
  <2>2. QED
    BY <2>1, WantedIsChosen
<1>3. ASSUME RasterOnly, template.numberUp <= 1, ~ template.draft,
             NEW e \in DOMAIN chosen, chosen[e] \in DOMAIN written
      PROVE  Turned(disk'[<<0, chosen[e]>>], AskedTurn(e, template))
  <2>1. documents \in Seq(Numbered) /\ Distinct(documents)
    BY DEF RInv
  <2>2. disk'[<<0, chosen[e]>>] = Prepare(source[chosen[e]], chosen[e], e, template).image
    BY <1>3, FileHoldsPage
  <2>3. /\ chosen \in Seq(Nat) /\ ToSet(chosen) \subseteq 1..Len(source)
        /\ Labelled(source, labels)
    BY <2>1, ChosenLists, SourceLabelled
  <2> HIDE DEF chosen, source, labels
  <2>4. e \in Nat /\ chosen[e] \in 1..Len(labels)
    BY <1>3, <2>3 DEF ToSet, Labelled
  <2>5. PICK z \in Sizes :
          source[chosen[e]] = PageImage(labels[chosen[e]][1], labels[chosen[e]][2], z)
    BY <2>3, <2>4 DEF Labelled
  <2>6. IsGrid(source[chosen[e]]) /\ Turned(source[chosen[e]], 0)
    BY <2>5, PageUpright
  <2> DEFINE page == source[chosen[e]]
             n == chosen[e]
  <2> HIDE DEF page, n
  <2>7. Turned(Prepare(page, n, e, template).image, AskedTurn(e, template))
    BY <1>3, <2>4, <2>6, PreparedTurned DEF page
  <2>8. QED
    BY <2>2, <2>7, Zenon DEF page, n
<1> HIDE DEF chosen
<1>4. RasterOnly' => RasterOnly
  BY <1>1 DEF RasterOnly
<1>5. QED
  BY <1>1, <1>2, <1>3, <1>4 DEF BacksAreTumbled

\* renderRasterJob at full quality and one page to a sheet: every page the
\* client asked for that is written lies as its orientation says, and the even
\* ones among them, the backs, are turned over when the sides are flipped on
\* the short edge.
THEOREM BacksTumble == Spec => []BacksAreTumbled
<1>1. Init => RInv /\ BacksAreTumbled
  BY InitRInv DEF Init, BacksAreTumbled, Rendered
<1>2. RInv /\ BacksAreTumbled /\ [Next]_vars => RInv' /\ BacksAreTumbled'
  <2> SUFFICES ASSUME RInv, BacksAreTumbled, [Next]_vars
               PROVE  BacksAreTumbled'
    BY NextRInv
  <2>1. CASE last' = None
    BY <2>1 DEF BacksAreTumbled, Rendered, None
  <2>2. CASE UNCHANGED vars
    <3>1. /\ UNCHANGED <<template, documents, disk, last>>
          /\ Wanted' = Wanted
      BY <2>2, Zenon DEF Wanted, Labels, vars
    <3>2. QED
      BY <3>1, Zenon DEF BacksAreTumbled, Rendered, RasterOnly
  <2>3. QED
    BY <2>1, <2>2, RenderSteps, TumbledByRendering
<1>3. QED
  BY <1>1, <1>2, PTL DEF Spec

(***************************************************************************)
(* The cells of a grid.                                                    *)
(***************************************************************************)
\* A number below a product: which of its parts it is in.
LEMMA DivBelow ==
  ASSUME NEW b \in Nat \ {0}, NEW c \in Nat \ {0}, NEW a \in Nat, a < c * b
  PROVE  a \div b \in 0..(c - 1)
<1>1. a \div b \in Nat /\ (a \div b) * b \in Nat /\ (a \div b) * b <= a
  BY DivMod
<1>2. ASSUME c <= a \div b PROVE FALSE
  <2>1. c * b <= (a \div b) * b /\ c * b \in Nat
    BY <1>1, <1>2, Times
  <2>2. QED
    BY <1>1, <2>1
<1>3. QED
  BY <1>1, <1>2

\* The corner of a cell: a multiple of b below c * b has the cell to itself.
LEMMA DivCorner ==
  ASSUME NEW b \in Nat \ {0}, NEW c \in Nat \ {0}, NEW q \in 0..(c - 1)
  PROVE  q * b \in 0..(c * b - b) /\ c * b \in Nat /\ (q * b) \div b = q
<1>1. q \in Nat /\ c - 1 \in Nat /\ q <= c - 1
  OBVIOUS
<1>2. q * b \in Nat /\ q * b <= (c - 1) * b
  BY <1>1, Times
<1>3. (c - 1) * b = c * b - b /\ c * b \in Nat
  OBVIOUS
<1>4. (q * b + 0) \div b = q
  BY <1>1, DivIs
<1>5. QED
  BY <1>2, <1>3, <1>4

(***************************************************************************)
(* A grid of c by r cells, each u by v pixels; pixels and cells are both   *)
(* counted row by row, pixels from 1 and cells from 0.                     *)
(***************************************************************************)
CellOf(x, y, u, v, c) == (y \div v) * c + x \div u

\* The pixel in the upper left corner of cell d.
CornerOf(d, u, v, c) == ((d \div c) * v) * (u * c) + (d % c) * u + 1

\* Where the k-th pixel is.
ColumnOf(k, u, c) == (k - 1) % (u * c)
RowOf(k, u, c) == (k - 1) \div (u * c)
CellAt(k, u, v, c) == CellOf(ColumnOf(k, u, c), RowOf(k, u, c), u, v, c)

LEMMA PixelInCell ==
  ASSUME NEW u \in Nat \ {0}, NEW v \in Nat \ {0}, NEW c \in Nat \ {0},
         NEW r \in Nat \ {0}, NEW x \in 0..(u * c - 1), NEW y \in 0..(v * r - 1)
  PROVE  LET d == CellOf(x, y, u, v, c) IN
         /\ d \in 0..(c * r - 1)
         /\ d \div c = y \div v /\ d % c = x \div u
         /\ CornerOf(d, u, v, c) \in 1..(y * (u * c) + x + 1)
<1> DEFINE X == x \div u
           Y == y \div v
           w == u * c
           d == Y * c + X
<1>1. w \in Nat \ {0} /\ x \in Nat /\ x < c * u /\ y \in Nat /\ y < r * v
  <2>1. u * c = c * u /\ v * r = r * v /\ u * c \in Nat \ {0} /\ v * r \in Nat \ {0}
    OBVIOUS
  <2>2. QED
    BY <2>1
<1>2. X \in 0..(c - 1) /\ Y \in 0..(r - 1)
  BY <1>1, DivBelow
<1>3. /\ X \in Nat /\ X * u \in Nat /\ X * u <= x
      /\ Y \in Nat /\ Y * v \in Nat /\ Y * v <= y
  BY <1>1, DivMod
<1> HIDE DEF X, Y, w
<1>4. d \div c = Y /\ d % c = X
  BY <1>2, <1>3, DivIs
<1>5. d \in 0..(c * r - 1)
  <2>1. Y * c \in Nat /\ Y * c <= (r - 1) * c
    BY <1>2, <1>3, Times
  <2>2. (r - 1) * c = c * r - c /\ c * r \in Nat
    OBVIOUS
  <2>3. QED
    BY <1>2, <2>1, <2>2
<1>6. (Y * v) * w \in Nat /\ (Y * v) * w <= y * w /\ y * w \in Nat
  BY <1>1, <1>3, Times
<1> HIDE DEF d
<1>7. CornerOf(d, u, v, c) = (Y * v) * w + X * u + 1
  BY <1>4, Zenon DEF CornerOf, w
<1>8. CornerOf(d, u, v, c) \in 1..(y * w + x + 1)
  <2> DEFINE p == (Y * v) * w
             q == y * w
             o == X * u
  <2>1. p \in Nat /\ q \in Nat /\ o \in Nat /\ p <= q /\ o <= x
    BY <1>3, <1>6
  <2>2. CornerOf(d, u, v, c) = p + o + 1
    BY <1>7
  <2> HIDE DEF p, q, o
  <2>3. CornerOf(d, u, v, c) \in 1..(q + x + 1)
    BY <1>1, <2>1, <2>2
  <2>4. QED
    BY <2>3 DEF q
<1>9. QED
  BY <1>4, <1>5, <1>8, Zenon DEF CellOf, d, w, X, Y

\* The corner of cell d is a pixel of the grid, and of the cell.
Cornered(d, u, v, c, r) ==
  /\ CornerOf(d, u, v, c) \in 1..((u * c) * (v * r))
  /\ CellAt(CornerOf(d, u, v, c), u, v, c) = d

LEMMA CornerInCell ==
  ASSUME NEW u \in Nat \ {0}, NEW v \in Nat \ {0}, NEW c \in Nat \ {0},
         NEW r \in Nat \ {0}, NEW d \in 0..(c * r - 1)
  PROVE  Cornered(d, u, v, c, r)
<1> DEFINE X == d % c
           Y == d \div c
           w == u * c
           h == v * r
           a == X * u
           b == Y * v
           k == b * w + a + 1
<1>1. w \in Nat \ {0} /\ h \in Nat \ {0} /\ d \in Nat /\ d < r * c
  <2>1. c * r = r * c /\ c * r \in Nat /\ u * c \in Nat \ {0} /\ v * r \in Nat \ {0}
    OBVIOUS
  <2>2. QED
    BY <2>1
<1>2. Y \in 0..(r - 1) /\ X \in 0..(c - 1) /\ d = Y * c + X
  BY <1>1, DivBelow, DivMod
<1>3. a \in 0..(c * u - u) /\ c * u \in Nat /\ a \div u = X
  <2> HIDE DEF X
  <2>1. QED
    BY <1>2, DivCorner
<1>4. b \in 0..(r * v - v) /\ r * v \in Nat /\ b \div v = Y
  <2> HIDE DEF Y
  <2>1. QED
    BY <1>2, DivCorner
<1> HIDE DEF X, Y, a, b
<1>5. a \in 0..(w - 1) /\ b \in 0..(h - 1)
  <2>1. c * u = u * c /\ r * v = v * r
    OBVIOUS
  <2>2. QED
    BY ONLY <1>1, <1>3, <1>4, <2>1, u \in Nat \ {0}, v \in Nat \ {0} DEF w, h
<1> HIDE DEF w, h
<1>6. b \in Nat /\ a \in Nat /\ b * w \in Nat /\ k - 1 = b * w + a
  BY <1>1, <1>5
<1>7. (k - 1) \div w = b /\ (k - 1) % w = a
  <2>1. (b * w + a) \div w = b /\ (b * w + a) % w = a
    BY <1>1, <1>5, <1>6, DivIs
  <2> HIDE DEF k
  <2>2. QED
    BY <1>6, <2>1
<1>8. k \in 1..(w * h)
  <2>1. b * w <= (h - 1) * w
    BY <1>1, <1>5, <1>6, Times
  <2>2. (h - 1) * w = w * h - w /\ w * h \in Nat
    BY <1>1
  <2> DEFINE p == b * w
             q == w * h
  <2>3. p <= q - w /\ p \in Nat /\ q \in Nat /\ k = p + a + 1
    BY <1>6, <2>1, <2>2
  <2> HIDE DEF p, q, k
  <2>4. k \in 1..q
    BY <1>1, <1>5, <2>3
  <2>5. QED
    BY <2>4 DEF q
<1> HIDE DEF k
<1>9. CornerOf(d, u, v, c) = k
  BY Zenon DEF CornerOf, k, w, a, b, X, Y
<1>10. CellAt(k, u, v, c) = Y * c + X
  BY <1>3, <1>4, <1>7, Zenon DEF CellAt, CellOf, ColumnOf, RowOf, w
<1>11. QED
  BY <1>2, <1>8, <1>9, <1>10, Zenon DEF Cornered, w, h

LEMMA CornersAscend ==
  ASSUME NEW u \in Nat \ {0}, NEW v \in Nat \ {0}, NEW c \in Nat \ {0},
         NEW d \in Nat, NEW e \in Nat, d < e
  PROVE  /\ CornerOf(d, u, v, c) \in Nat
         /\ CornerOf(d, u, v, c) < CornerOf(e, u, v, c)
<1> DEFINE w == u * c
           A == d \div c
           B == e \div c
           x == d % c
           y == e % c
<1>1. /\ A \in Nat /\ x \in 0..(c - 1) /\ A * c \in Nat /\ d = A * c + x
      /\ B \in Nat /\ y \in 0..(c - 1) /\ B * c \in Nat /\ e = B * c + y
  BY DivMod
<1>2. w \in Nat \ {0}
  OBVIOUS
<1>3. CornerOf(d, u, v, c) = (A * v) * w + x * u + 1
      /\ CornerOf(e, u, v, c) = (B * v) * w + y * u + 1
  BY Zenon DEF CornerOf
<1> HIDE DEF A, B, x, y
<1>4. /\ x * u \in Nat /\ y * u \in Nat /\ x * u < w
      /\ (x < y => x * u < y * u)
  <2>1. x * u <= (c - 1) * u /\ (c - 1) * u = w - u
    BY <1>1, Times
  <2>2. ASSUME x < y PROVE x * u < y * u
    <3>1. (x + 1) * u <= y * u /\ (x + 1) * u = x * u + u
      BY <1>1, <2>2, Times
    <3>2. x * u \in Nat /\ y * u \in Nat
      BY <1>1
    <3>3. QED
      BY ONLY <3>1, <3>2, u \in Nat \ {0}
  <2>3. x * u \in Nat /\ y * u \in Nat
    BY <1>1
  <2> HIDE DEF w
  <2>4. QED
    BY ONLY <1>2, <2>1, <2>2, <2>3, u \in Nat \ {0}
<1> HIDE DEF w
<1>5. A < B \/ (A = B /\ x < y)
  <2>1. ASSUME B < A PROVE FALSE
    <3>1. (B + 1) * c <= A * c /\ (B + 1) * c = B * c + c
      BY <1>1, <2>1, Times
    <3>2. QED
      BY <1>1, <3>1
  <2>2. A = B => x < y
    BY <1>1
  <2>3. QED
    BY <1>1, <2>1, <2>2
<1>6. /\ (A * v) * w \in Nat /\ (B * v) * w \in Nat
      /\ (A < B => (A * v) * w + w <= (B * v) * w)
  <2>1. A * v \in Nat /\ B * v \in Nat
    BY <1>1
  <2>2. ASSUME A < B PROVE A * v + 1 <= B * v
    <3>1. (A + 1) * v <= B * v /\ (A + 1) * v = A * v + v
      BY <1>1, <2>2, Times
    <3>2. QED
      BY <2>1, <3>1
  <2>3. ASSUME A < B PROVE (A * v) * w + w <= (B * v) * w
    <3> DEFINE p == A * v
               q == B * v
    <3>1. p \in Nat /\ q \in Nat /\ p + 1 <= q
      BY <2>1, <2>2, <2>3
    <3> HIDE DEF p, q
    <3>2. (p + 1) * w <= q * w /\ (p + 1) * w = p * w + w
      BY <1>2, <3>1, Times
    <3>3. QED
      BY <3>2 DEF p, q
  <2>4. QED
    BY <1>2, <2>1, <2>3
<1> DEFINE P == (A * v) * w
           Q == (B * v) * w
           a == x * u
           b == y * u
<1>7. /\ P \in Nat /\ Q \in Nat /\ a \in Nat /\ b \in Nat /\ a < w
      /\ (x < y => a < b) /\ (A < B => P + w <= Q) /\ (A = B => P = Q)
  BY <1>4, <1>6
<1> HIDE DEF P, Q, a, b
<1>8. P + a + 1 \in Nat /\ P + a + 1 < Q + b + 1
  BY <1>2, <1>5, <1>7
<1>9. QED
  BY <1>3, <1>8 DEF P, Q, a, b

(***************************************************************************)
(* Sheets.                                                                 *)
(***************************************************************************)
\* A sheet has room for the pages it is to hold.
LEMMA GridHolds ==
  ASSUME NEW n \in Nat \ {0}
  PROVE  LET grid == NumberUpGrid(n) IN
         /\ grid.cols \in Nat \ {0} /\ grid.rows \in Nat \ {0}
         /\ n <= grid.cols * grid.rows
<1> DEFINE Fits(c) == c * c >= n /\ (c - 1) * (c - 1) < n
           cols == CHOOSE c \in 1..n : Fits(c)
           S == {m \in Nat : m * m < n}
<1>1. \E c \in 1..n : Fits(c)
  <2>1. SUFFICES ASSUME \A c \in 1..n : ~ Fits(c) PROVE FALSE
    OBVIOUS
  <2>2. 0 \in S
    OBVIOUS
  <2>3. ASSUME NEW m \in Nat, m \in S
        PROVE  m + 1 \in S
    <3>1. m < n
      <4>1. CASE m = 0
        BY <4>1
      <4>2. CASE m # 0
        <5>1. 1 * m <= m * m /\ m * m < n /\ m * m \in Nat
          BY <2>3, <4>2, Times
        <5>2. QED
          BY <5>1
      <4>3. QED
        BY <4>1, <4>2
    <3>2. m + 1 \in 1..n /\ (m + 1) - 1 = m
      BY <3>1
    <3>3. ~ ((m + 1) * (m + 1) >= n)
      BY <2>1, <2>3, <3>2
    <3>4. (m + 1) * (m + 1) \in Nat
      OBVIOUS
    <3>5. QED
      BY <3>3, <3>4
  <2> HIDE DEF S
  <2>4. n \in S
    BY <2>2, <2>3, SetInduction
  <2>5. n * n < n
    BY <2>4 DEF S
  <2>6. 1 * n <= n * n /\ n * n \in Nat
    BY Times
  <2>7. QED
    BY <2>5, <2>6
<1>2. cols \in 1..n /\ Fits(cols)
  BY <1>1, Zenon
<1>3. NumberUpGrid(n).cols = cols /\ NumberUpGrid(n).rows = (n + cols - 1) \div cols
  <2>1. NumberUpGrid(n) = [cols |-> cols, rows |-> (n + cols - 1) \div cols]
    BY Zenon DEF NumberUpGrid
  <2> HIDE DEF cols
  <2>2. QED
    BY <2>1
<1> HIDE DEF cols
<1> DEFINE rows == (n + cols - 1) \div cols
           a == n + cols - 1
<1>4. rows \in Nat /\ rows * cols \in Nat /\ a = rows * cols + (a % cols)
      /\ a % cols \in 0..(cols - 1)
  <2>1. a \in Nat /\ cols \in Nat \ {0}
    BY <1>2
  <2>2. rows = a \div cols
    OBVIOUS
  <2> HIDE DEF a, rows
  <2>3. QED
    BY <2>1, <2>2, DivMod
<1>5. a = n + cols - 1
  OBVIOUS
<1> HIDE DEF rows, a
<1>6. n <= rows * cols
  <2> DEFINE p == rows * cols
             m == a % cols
  <2>1. p \in Nat /\ m \in 0..(cols - 1) /\ a = p + m /\ a = n + cols - 1 /\ cols \in Nat
    BY <1>2, <1>4, <1>5
  <2> HIDE DEF p, m, a
  <2>2. n <= p
    BY <2>1
  <2>3. QED
    BY <2>2 DEF p
<1>7. rows # 0
  <2>1. ASSUME rows = 0 PROVE FALSE
    <3>1. rows * cols = 0
      BY <1>2, <2>1
    <3>2. QED
      BY <1>6, <3>1
  <2>2. QED
    BY <2>1
<1>8. rows * cols = cols * rows
  BY <1>2, <1>4
<1>9. QED
  BY <1>2, <1>3, <1>4, <1>6, <1>7, <1>8 DEF rows

\* A sheet of c by r cells, each u by v pixels: the first m show the pages that
\* lab names, the others are white.
Tiled(sheet, lab, m, u, v, c, r) ==
  /\ u \in Nat \ {0} /\ v \in Nat \ {0}
  /\ sheet.w = u * c /\ sheet.h = v * r
  /\ \A x \in 0..(u * c - 1), y \in 0..(v * r - 1) :
       LET d == CellOf(x, y, u, v, c) IN
       IF d < m
       THEN \E a, b \in Nat : sheet.px[x, y] = <<lab[d + 1][1], lab[d + 1][2], a, b>>
       ELSE sheet.px[x, y] = White

LEMMA SheetShows ==
  ASSUME NEW m \in Nat \ {0}, NEW lab, NEW batch, Len(batch) = m,
         \A j \in 1..m : Shows(batch[j], lab[j]),
         NEW grid, grid.cols \in Nat \ {0}, grid.rows \in Nat \ {0}
  PROVE  Tiled(CompositeNUp(batch, grid), lab, m, batch[1].w, batch[1].h,
               grid.cols, grid.rows)
<1> DEFINE u == batch[1].w
           v == batch[1].h
           c == grid.cols
           r == grid.rows
           px == [p \in (0..(u * c - 1)) \X (0..(v * r - 1)) |->
                    LET d == (p[2] \div v) * c + p[1] \div u IN
                    IF d < Len(batch)
                    THEN Scaled(batch[d + 1], u, v).px[p[1] % u, p[2] % v]
                    ELSE White]
           sheet == CompositeNUp(batch, grid)
<1>1. sheet = [w |-> u * c, h |-> v * r, px |-> px]
  BY Zenon DEF CompositeNUp, Image
<1>2. u \in Nat \ {0} /\ v \in Nat \ {0} /\ c \in Nat \ {0} /\ r \in Nat \ {0}
  <2>1. Shows(batch[1], lab[1])
    OBVIOUS
  <2>2. QED
    BY <2>1 DEF Shows
<1>3. ASSUME NEW x \in 0..(u * c - 1), NEW y \in 0..(v * r - 1)
      PROVE  LET d == CellOf(x, y, u, v, c) IN
             px[x, y] = IF d < m THEN Scaled(batch[d + 1], u, v).px[x % u, y % v] ELSE White
  BY Zenon DEF CellOf
<1> HIDE DEF px, sheet
<1>4. sheet.w = u * c /\ sheet.h = v * r /\ sheet.px = px
  <2> DEFINE W == u * c
             H == v * r
  <2> HIDE DEF W, H
  <2>1. sheet = [w |-> W, h |-> H, px |-> px]
    BY <1>1, Zenon DEF W, H
  <2>2. sheet.w = W /\ sheet.h = H /\ sheet.px = px
    BY <2>1
  <2>3. QED
    BY <2>2 DEF W, H
<1> HIDE DEF u, v, c, r
<1>5. ASSUME NEW x \in 0..(u * c - 1), NEW y \in 0..(v * r - 1)
      PROVE  LET d == CellOf(x, y, u, v, c) IN
             IF d < m
             THEN \E a, b \in Nat : sheet.px[x, y] = <<lab[d + 1][1], lab[d + 1][2], a, b>>
             ELSE sheet.px[x, y] = White
  <2> DEFINE d == CellOf(x, y, u, v, c)
  <2>1. d \in Nat
    <3>1. d \in 0..(c * r - 1)
      BY <1>2, PixelInCell
    <3>2. QED
      BY <3>1
  <2>2. sheet.px[x, y] = IF d < m THEN Scaled(batch[d + 1], u, v).px[x % u, y % v] ELSE White
    BY <1>3, <1>4
  <2>3. x \in Nat /\ y \in Nat
    BY <1>2
  <2> HIDE DEF d
  <2>4. ASSUME d < m
        PROVE  \E a, b \in Nat : sheet.px[x, y] = <<lab[d + 1][1], lab[d + 1][2], a, b>>
    <3> DEFINE j == d + 1
               s == Scaled(batch[j], u, v)
    <3>1. Shows(batch[j], lab[j])
      BY <2>1, <2>4
    <3>2. Shows(s, lab[j])
      BY <1>2, <3>1, ScaledShows
    <3>3. s.w = u /\ s.h = v
      BY DEF Scaled, Image
    <3>4. x % u \in 0..(u - 1) /\ y % v \in 0..(v - 1)
      BY <1>2, <2>3
    <3>5. sheet.px[x, y] = s.px[x % u, y % v]
      BY <2>2, <2>4
    <3> HIDE DEF s
    <3>6. \E a, b \in Nat : s.px[x % u, y % v] = <<lab[j][1], lab[j][2], a, b>>
      <4> DEFINE X == x % u
                 Y == y % v
      <4>1. X \in 0..(s.w - 1) /\ Y \in 0..(s.h - 1)
        BY <3>3, <3>4
      <4> HIDE DEF X, Y
      <4>2. \E a, b \in Nat : s.px[X, Y] = <<lab[j][1], lab[j][2], a, b>>
        BY <3>2, <4>1, Zenon DEF Shows
      <4>3. QED
        BY <4>2 DEF X, Y
    <3>7. QED
      BY <3>5, <3>6
  <2>5. ASSUME ~ (d < m) PROVE sheet.px[x, y] = White
    BY <2>2, <2>5
  <2>6. QED
    BY <2>4, <2>5 DEF d
<1> HIDE DEF sheet
<1>6. Tiled(sheet, lab, m, u, v, c, r)
  BY <1>2, <1>4, <1>5, Zenon DEF Tiled
<1>7. QED
  BY <1>6 DEF u, v, c, r, sheet

(***************************************************************************)
(* Reading a sheet gives its pages in the order of their cells.            *)
(***************************************************************************)
\* Labels that can be told apart, as pairs.
Telling(labels) ==
  /\ \A p \in DOMAIN labels : labels[p] = <<labels[p][1], labels[p][2]>>
  /\ \A p, q \in DOMAIN labels : labels[p] = labels[q] => p = q

\* m different places among labels that can be told apart.
AmongLabels(places, labels, m) ==
  /\ Telling(labels)
  /\ m \in Nat \ {0}
  /\ places \in [1..m -> DOMAIN labels]
  /\ \A i, j \in 1..m : places[i] = places[j] => i = j

\* A grid with room for m pages.
RoomFor(m, grid) ==
  /\ grid.cols \in Nat \ {0} /\ grid.rows \in Nat \ {0}
  /\ m <= grid.cols * grid.rows

\* A sheet whose cells show the pages at the given places.
SheetShowing(sheet, labels, places, m, u, v, grid) ==
  Tiled(sheet, [j \in 1..m |-> labels[places[j]]], m, u, v, grid.cols, grid.rows)

\* A sheet read row by row gives the pages in the order of their cells.
LEMMA TiledReads ==
  ASSUME NEW labels, NEW m, NEW places, AmongLabels(places, labels, m),
         NEW grid, RoomFor(m, grid),
         NEW u, NEW v, NEW sheet, SheetShowing(sheet, labels, places, m, u, v, grid)
  PROVE  Reading(sheet, labels) = places
<1> DEFINE c == grid.cols
           r == grid.rows
           lab == [j \in 1..m |-> labels[places[j]]]
<1>01. /\ Telling(labels) /\ m \in Nat \ {0} /\ places \in [1..m -> DOMAIN labels]
      /\ \A i, j \in 1..m : places[i] = places[j] => i = j
  BY Zenon DEF AmongLabels
<1>02. c \in Nat \ {0} /\ r \in Nat \ {0} /\ m <= c * r
  BY Zenon DEF RoomFor
<1>03. Tiled(sheet, lab, m, u, v, c, r)
  BY Zenon DEF SheetShowing
<1>04. \A j \in 1..m : lab[j] = labels[places[j]]
  OBVIOUS
<1> HIDE DEF c, r, lab
<1>05. u \in Nat \ {0} /\ v \in Nat \ {0}
  BY <1>03, Zenon DEF Tiled
<1> USE <1>01, <1>02, <1>03, <1>04, <1>05
<1> DEFINE w == sheet.w
           h == sheet.h
           size == w * h
           At(k) == sheet.px[(k - 1) % w, (k - 1) \div w]
           New(k) == /\ At(k) # White
                     /\ \A j \in 1..(k - 1) : At(j) # White =>
                          <<At(j)[1], At(j)[2]>> # <<At(k)[1], At(k)[2]>>
           order == Ascending({k \in 1..size : New(k)}, size)
           Page(k) == CHOOSE p \in DOMAIN labels : labels[p] = <<At(k)[1], At(k)[2]>>
           Cell(k) == CellAt(k, u, v, c)
           Corner(d) == CornerOf(d, u, v, c)
<1>1. Reading(sheet, labels) = [i \in DOMAIN order |-> Page(order[i])]
  BY Zenon DEF Reading
<1>2. w = u * c /\ h = v * r
  BY Zenon DEF Tiled
<1>06. \A x \in 0..(u * c - 1), y \in 0..(v * r - 1) :
        LET d == CellOf(x, y, u, v, c) IN
        IF d < m
        THEN \E a, b \in Nat : sheet.px[x, y] = <<lab[d + 1][1], lab[d + 1][2], a, b>>
        ELSE sheet.px[x, y] = White
  BY Zenon DEF Tiled
<1> HIDE DEF w, h
<1>3. w \in Nat \ {0} /\ h \in Nat \ {0} /\ size \in Nat
  <2>1. u * c \in Nat \ {0} /\ v * r \in Nat \ {0}
    BY <1>2
  <2>2. w \in Nat \ {0} /\ h \in Nat \ {0}
    BY <1>2, <2>1
  <2>3. QED
    BY <2>2
<1>4. ASSUME NEW k \in 1..size
      PROVE  /\ Cell(k) \in Nat /\ Corner(Cell(k)) \in 1..k
             /\ Cell(k) < m => At(k) # White /\ <<At(k)[1], At(k)[2]>> = lab[Cell(k) + 1]
             /\ ~ (Cell(k) < m) => At(k) = White
  <2> DEFINE x == (k - 1) % w
             y == (k - 1) \div w
             d == CellOf(x, y, u, v, c)
  <2>1. x \in 0..(w - 1) /\ y \in 0..(h - 1)
    BY <1>3, RowByRow
  <2>2. y * w + x + 1 = k
    <3>1. k - 1 \in Nat
      OBVIOUS
    <3>2. k - 1 = y * w + x /\ y * w \in Nat
      BY <1>3, <3>1, DivMod
    <3> DEFINE z == y * w
    <3>3. k - 1 = z + x /\ z \in Nat
      BY <3>2
    <3> HIDE DEF z, x
    <3>4. z + x + 1 = k
      BY <2>1, <3>3
    <3>5. QED
      BY <3>4 DEF z
  <2>3. Cell(k) = d
    BY <1>2, Zenon DEF CellAt, ColumnOf, RowOf
  <2>4. At(k) = sheet.px[x, y]
    OBVIOUS
  <2> HIDE DEF x, y, Cell, At, Corner, size
  <2>5. x \in 0..(u * c - 1) /\ y \in 0..(v * r - 1)
    BY <1>2, <2>1
  <2>6. d \in 0..(c * r - 1) /\ CornerOf(d, u, v, c) \in 1..(y * (u * c) + x + 1)
    <3> HIDE DEF d
    <3>1. QED
      BY <1>2, <2>5, PixelInCell, Zenon DEF d
  <2>7. IF d < m
        THEN \E a, b \in Nat : sheet.px[x, y] = <<lab[d + 1][1], lab[d + 1][2], a, b>>
        ELSE sheet.px[x, y] = White
    BY <1>06, <2>5, Zenon
  <2>8. Corner(d) \in 1..k
    BY <1>2, <2>2, <2>6, Zenon DEF Corner
  <2>9. d \in Nat
    <3> DEFINE z == c * r
    <3>1. z \in Nat /\ d \in 0..(z - 1)
      BY <1>2, <2>6
    <3> HIDE DEF z, d
    <3>2. QED
      BY <3>1
  <2> HIDE DEF d
  <2>10. ASSUME d < m
         PROVE  At(k) # White /\ <<At(k)[1], At(k)[2]>> = lab[d + 1]
    <3> DEFINE a == lab[d + 1][1]
               b == lab[d + 1][2]
    <3>1. lab[d + 1] = <<a, b>>
      <4>1. d + 1 \in 1..m
        BY <2>9, <2>10
      <4>2. places[d + 1] \in DOMAIN labels /\ lab[d + 1] = labels[places[d + 1]]
        BY <4>1
      <4>3. QED
        BY <4>2, Zenon DEF Telling
    <3>2. \E e, f \in Nat : At(k) = <<a, b, e, f>>
      BY <2>4, <2>7, <2>10
    <3> HIDE DEF a, b
    <3>3. At(k)[1] = a /\ At(k)[2] = b /\ At(k) # <<>>
      BY <3>2
    <3>4. QED
      BY <3>1, <3>3, Zenon DEF White
  <2>11. ~ (d < m) => At(k) = White
    BY <2>4, <2>7
  <2>12. QED
    BY <2>3, <2>8, <2>9, <2>10, <2>11, Zenon DEF Cell, Corner
<1>5. ASSUME NEW d \in 0..(m - 1)
      PROVE  Corner(d) \in 1..size /\ Cell(Corner(d)) = d
  <2>1. d \in 0..(c * r - 1)
    <3> DEFINE z == c * r
    <3>1. z \in Nat
      BY <1>2
    <3>0. m <= z
      OBVIOUS
    <3> HIDE DEF z
    <3>2. d \in 0..(z - 1)
      BY <3>0, <3>1
    <3>3. QED
      BY <3>2 DEF z
  <2>2. /\ Corner(d) \in 1..((u * c) * (v * r))
        /\ Cell(Corner(d)) = d
    <3>1. Cornered(d, u, v, c, r)
      BY <2>1, CornerInCell
    <3>2. QED
      BY <3>1 DEF Cornered
  <2>3. QED
    BY <1>2, <2>2
<1>6. \A d, e \in Nat : d < e => Corner(d) \in Nat /\ Corner(d) < Corner(e)
  BY <1>2, CornersAscend, Zenon
<1>7. \A i, j \in 1..m : lab[i] = lab[j] => i = j
  BY DEF Telling
<1> HIDE DEF size, At, Cell, Corner
<1>8. ASSUME NEW k \in 1..size
      PROVE  New(k) <=> Cell(k) < m /\ k = Corner(Cell(k))
  <2> DEFINE d == Cell(k)
  <2>1. d \in Nat /\ Corner(d) \in 1..k /\ k \in Nat /\ size \in Nat /\ k <= size
    BY <1>2, <1>3, <1>4
  <2>2. ASSUME New(k)
        PROVE  d < m /\ k = Corner(d)
    <3>1. d < m
      BY <1>4, <2>2
    <3>2. ASSUME Corner(d) # k PROVE FALSE
      <4> DEFINE K == Corner(d)
      <4>1. K \in 1..(k - 1) /\ K \in 1..size
        BY <2>1, <3>2
      <4>2. Cell(K) = d
        BY <1>5, <2>1, <3>1
      <4> HIDE DEF K, d
      <4>3. /\ At(K) # White /\ <<At(K)[1], At(K)[2]>> = lab[d + 1]
            /\ At(k) # White /\ <<At(k)[1], At(k)[2]>> = lab[d + 1]
        BY <1>4, <3>1, <4>1, <4>2 DEF d
      <4>4. QED
        BY <2>2, <4>1, <4>3, Zenon
    <3>3. QED
      BY <3>1, <3>2
  <2>3. ASSUME d < m, k = Corner(d)
        PROVE  New(k)
    <3>1. At(k) # White /\ <<At(k)[1], At(k)[2]>> = lab[d + 1]
      BY <1>4, <2>3
    <3>2. ASSUME NEW j \in 1..(k - 1), At(j) # White,
                 <<At(j)[1], At(j)[2]>> = <<At(k)[1], At(k)[2]>>
          PROVE  FALSE
      <4> DEFINE e == Cell(j)
      <4>1. j \in 1..size /\ j \in Nat
        BY <2>1
      <4>2. /\ e \in Nat /\ Corner(e) \in 1..j /\ e < m
            /\ <<At(j)[1], At(j)[2]>> = lab[e + 1]
        BY <1>2, <1>4, <3>2, <4>1
      <4> HIDE DEF e, d
      <4>3. lab[e + 1] = lab[d + 1]
        BY <3>1, <3>2, <4>2, Zenon
      <4>4. e + 1 \in 1..m /\ d + 1 \in 1..m
        BY <2>1, <2>3, <4>2
      <4>5. e + 1 = d + 1
        BY <1>7, <4>3, <4>4
      <4>6. e = d
        BY <2>1, <4>2, <4>5
      <4>7. QED
        BY <2>1, <2>3, <4>1, <4>2, <4>6
    <3>3. QED
      BY <3>1, <3>2, Zenon
  <2>4. QED
    BY <2>2, <2>3
<1> DEFINE corners == [j \in 1..m |-> Corner(j - 1)]
           news == {k \in 1..size : New(k)}
<1> HIDE DEF New
<1>9. Lists(corners, news)
  <2>1. ASSUME NEW j \in 1..m
        PROVE  j - 1 \in 0..(m - 1) /\ j - 1 \in Nat /\ j - 1 < m
    OBVIOUS
  <2>2. ASSUME NEW j \in 1..m
        PROVE  corners[j] \in news /\ corners[j] \in Nat
    <3>1. Corner(j - 1) \in 1..size /\ Cell(Corner(j - 1)) = j - 1
      BY <1>5, <2>1
    <3>2. New(Corner(j - 1))
      BY <1>8, <2>1, <3>1
    <3>3. QED
      BY <3>1, <3>2
  <2>3. ASSUME NEW k \in news
        PROVE  \E j \in 1..m : k = corners[j]
    <3>1. k \in 1..size /\ Cell(k) < m /\ k = Corner(Cell(k)) /\ Cell(k) \in Nat
      BY <1>2, <1>4, <1>8
    <3> DEFINE j == Cell(k) + 1
    <3>2. j \in 1..m /\ j - 1 = Cell(k)
      BY <3>1
    <3>3. k = corners[j]
      BY <3>1, <3>2
    <3>4. QED
      BY <3>2, <3>3
  <2>4. ASSUME NEW a \in 1..m, NEW b \in 1..m, a < b
        PROVE  corners[a] < corners[b]
    <3>1. a - 1 \in Nat /\ b - 1 \in Nat /\ a - 1 < b - 1
      BY <2>4
    <3>2. Corner(a - 1) < Corner(b - 1)
      BY <1>6, <3>1
    <3>3. QED
      BY <3>2
  <2>5. DOMAIN corners = 1..m
    OBVIOUS
  <2>6. corners \in Seq(Nat)
    <3>1. corners = [j \in 1..m |-> corners[j]]
      OBVIOUS
    <3> HIDE DEF corners
    <3>2. QED
      BY <2>2, <3>1
  <2> HIDE DEF corners, news
  <2>7. ToSet(corners) = news
    <3>1. ToSet(corners) = {corners[j] : j \in 1..m}
      BY <2>5, Zenon DEF ToSet
    <3>2. QED
      BY <2>2, <2>3, <3>1
  <2>8. QED
    BY <2>4, <2>5, <2>6, <2>7 DEF Lists
<1>10. order = corners
  <2>1. news \in SUBSET (1..size)
    BY DEF news
  <2>2. Lists(Ascending(news, size), news)
    <3> HIDE DEF news
    <3>1. QED
      BY <1>3, <2>1, AscendingLists
  <2>3. order = Ascending(news, size)
    OBVIOUS
  <2> HIDE DEF news, order, corners
  <2>4. QED
    BY <1>9, <2>2, <2>3, ListsUnique
<1>11. ASSUME NEW j \in 1..m
       PROVE  Page(corners[j]) = places[j]
  <2>1. Corner(j - 1) \in 1..size /\ Cell(Corner(j - 1)) = j - 1 /\ j - 1 < m /\ (j - 1) + 1 = j
    BY <1>5
  <2> DEFINE k == Corner(j - 1)
  <2>2. <<At(k)[1], At(k)[2]>> = labels[places[j]]
    <3> HIDE DEF k
    <3>1. <<At(k)[1], At(k)[2]>> = lab[(j - 1) + 1]
      BY <1>4, <2>1 DEF k
    <3>2. QED
      BY <2>1, <3>1
  <2>3. corners[j] = k
    OBVIOUS
  <2> HIDE DEF k, corners
  <2>4. Page(k) = CHOOSE p \in DOMAIN labels : labels[p] = labels[places[j]]
    BY <2>2
  <2>5. (CHOOSE p \in DOMAIN labels : labels[p] = labels[places[j]]) = places[j]
    <3>1. places[j] \in DOMAIN labels
      OBVIOUS
    <3>2. QED
      BY <3>1, Zenon DEF Telling
  <2>6. QED
    BY <2>3, <2>4, <2>5
<1> HIDE DEF Page, order
<1>12. DOMAIN corners = 1..m
  OBVIOUS
<1> HIDE DEF corners
<1>13. Reading(sheet, labels) = [j \in 1..m |-> Page(corners[j])]
  BY <1>1, <1>10, <1>12
<1>14. Reading(sheet, labels) = [j \in 1..m |-> places[j]]
  BY <1>11, <1>13
<1>15. QED
  BY <1>14

\* Images of the pages at m places.
Imaged(batch, labels, places, m) ==
  Len(batch) = m /\ \A j \in 1..m : Shows(batch[j], labels[places[j]])

LEMMA SheetReads ==
  ASSUME NEW labels, NEW m, NEW places, AmongLabels(places, labels, m),
         NEW batch, Imaged(batch, labels, places, m),
         NEW grid, RoomFor(m, grid)
  PROVE  Reading(CompositeNUp(batch, grid), labels) = places
<1> DEFINE sheet == CompositeNUp(batch, grid)
           lab == [j \in 1..m |-> labels[places[j]]]
           u == batch[1].w
           v == batch[1].h
           c == grid.cols
           r == grid.rows
<1>1. m \in Nat \ {0} /\ Len(batch) = m /\ \A j \in 1..m : Shows(batch[j], lab[j])
  BY DEF AmongLabels, Imaged
<1>2. c \in Nat \ {0} /\ r \in Nat \ {0}
  BY Zenon DEF RoomFor
<1> HIDE DEF lab
<1>3. Tiled(sheet, lab, m, u, v, c, r)
  BY <1>1, <1>2, SheetShows
<1>4. SheetShowing(sheet, labels, places, m, u, v, grid)
  BY <1>3, Zenon DEF SheetShowing, lab, c, r
<1> HIDE DEF sheet, u, v
<1>5. Reading(sheet, labels) = places
  BY <1>4, TiledReads, Zenon
<1>6. QED
  BY <1>5 DEF sheet

(***************************************************************************)
(* Pages on sheets: k pages, n to a sheet.                                 *)
(***************************************************************************)
SheetCount(k, n) == (k + n - 1) \div n

\* How many pages are on sheet i.
BatchSize(k, n, i) == IF (i - 1) * n + n <= k THEN n ELSE k - (i - 1) * n

\* The sheet a page is on, and its place there.
SheetOf(p, n) == (p - 1) \div n + 1
PlaceOn(p, n) == ((p - 1) % n) + 1

LEMMA SheetsHold ==
  ASSUME NEW k \in Nat, NEW n \in Nat \ {0}, NEW i \in 1..SheetCount(k, n)
  PROVE  /\ SheetCount(k, n) \in Nat
         /\ (i - 1) * n \in Nat
         /\ BatchSize(k, n, i) \in 1..n
         /\ (i - 1) * n + BatchSize(k, n, i) <= k
         /\ i < SheetCount(k, n) => BatchSize(k, n, i) = n
<1> DEFINE S == SheetCount(k, n)
           a == k + n - 1
           y == S * n
           x == (i - 1) * n
<1>1. S \in Nat /\ y \in Nat /\ a \in Nat /\ a >= y /\ a - y <= n - 1
  <2>1. a \in Nat
    OBVIOUS
  <2>2. S = a \div n
    BY DEF SheetCount
  <2> HIDE DEF S, a
  <2> DEFINE e == a % n
  <2>3. S \in Nat /\ y \in Nat /\ e \in 0..(n - 1) /\ a = y + e
    BY <2>1, <2>2, DivMod
  <2> HIDE DEF y, e
  <2>4. QED
    BY <2>1, <2>3
<1>2. i \in Nat /\ i >= 1 /\ i <= S
  BY <1>1
<1> HIDE DEF S
<1>3. x \in Nat /\ x <= y - n /\ (i < S => x + n <= y - n)
  <2>1. (S - 1) * n = y - n
    BY <1>1
  <2>2. i - 1 \in Nat /\ S - 1 \in Nat /\ i - 1 <= S - 1
    BY <1>1, <1>2
  <2>3. x \in Nat /\ x <= (S - 1) * n
    BY <2>2, Times
  <2>4. ASSUME i < S
        PROVE  x + n <= y - n
    <3>1. i <= S - 1 /\ S - 1 \in Nat
      BY <1>1, <1>2, <2>4
    <3>2. i * n <= (S - 1) * n
      BY <1>2, <3>1, Times
    <3>3. i * n = x + n
      BY <1>2
    <3>4. QED
      BY <2>1, <3>2, <3>3
  <2>5. QED
    BY <2>1, <2>3, <2>4
<1>4. a = k + n - 1
  OBVIOUS
<1>5. BatchSize(k, n, i) = IF x + n <= k THEN n ELSE k - x
  BY DEF BatchSize
<1> HIDE DEF a, x, y
<1>6. x < k /\ (i < S => x + n <= k)
  BY <1>1, <1>3, <1>4
<1>7. BatchSize(k, n, i) \in 1..n /\ x + BatchSize(k, n, i) <= k
      /\ (i < S => BatchSize(k, n, i) = n)
  BY <1>3, <1>5, <1>6
<1>8. QED
  BY <1>1, <1>3, <1>7 DEF S, x

LEMMA PageOnSheet ==
  ASSUME NEW k \in Nat, NEW n \in Nat \ {0}, NEW p \in 1..k
  PROVE  /\ SheetOf(p, n) \in 1..SheetCount(k, n)
         /\ PlaceOn(p, n) \in 1..BatchSize(k, n, SheetOf(p, n))
         /\ p = (SheetOf(p, n) - 1) * n + PlaceOn(p, n)
<1> DEFINE q == (p - 1) \div n
           e == (p - 1) % n
           z == q * n
           i == q + 1
<1>1. p \in Nat /\ p >= 1 /\ p <= k /\ p - 1 \in Nat
  OBVIOUS
<1>2. q \in Nat /\ e \in 0..(n - 1) /\ z \in Nat /\ p - 1 = z + e
  <2>1. QED
    BY <1>1, DivMod
<1> HIDE DEF q, e
<1>3. SheetOf(p, n) = i /\ PlaceOn(p, n) = e + 1
  BY DEF SheetOf, PlaceOn, q, e
<1>4. i - 1 = q /\ i \in Nat
  BY <1>2
<1>5. i \in 1..SheetCount(k, n)
  <2> DEFINE S == SheetCount(k, n)
             a == k + n - 1
             y == S * n
             f == a % n
  <2>1. a \in Nat
    OBVIOUS
  <2>2. S = a \div n
    BY DEF SheetCount
  <2> HIDE DEF S, a
  <2>3. S \in Nat /\ y \in Nat /\ f \in 0..(n - 1) /\ a = y + f
    BY <2>1, <2>2, DivMod
  <2>4. a = k + n - 1
    BY DEF a
  <2>5. ASSUME S <= q PROVE FALSE
    <3>1. y <= z
      BY <1>2, <2>3, <2>5, Times
    <3> HIDE DEF y, z, f
    <3>2. QED
      BY <1>1, <1>2, <2>3, <2>4, <3>1
  <2>6. i \in 1..S
    BY <1>2, <2>3, <2>5
  <2>7. QED
    BY <2>6 DEF S
<1>6. BatchSize(k, n, i) = IF z + n <= k THEN n ELSE k - z
  BY <1>4 DEF BatchSize
<1> HIDE DEF z, i
<1>7. e + 1 \in 1..BatchSize(k, n, i)
  BY <1>1, <1>2, <1>6
<1>8. p = z + (e + 1)
  BY <1>1, <1>2
<1>9. z = (i - 1) * n
  BY <1>4 DEF z
<1>10. QED
  BY <1>3, <1>5, <1>7, <1>8, <1>9

\* A page is on one sheet, at one place.
LEMMA OnOneSheet ==
  ASSUME NEW k \in Nat, NEW n \in Nat \ {0}, NEW i \in 1..SheetCount(k, n),
         NEW j \in 1..BatchSize(k, n, i)
  PROVE  LET p == (i - 1) * n + j IN
         p \in 1..k /\ SheetOf(p, n) = i /\ PlaceOn(p, n) = j
<1> DEFINE z == (i - 1) * n
           p == z + j
<1>1. z \in Nat /\ BatchSize(k, n, i) \in 1..n /\ z + BatchSize(k, n, i) <= k
      /\ SheetCount(k, n) \in Nat
  BY SheetsHold
<1>2. i - 1 \in Nat /\ i \in Nat /\ j - 1 \in 0..(n - 1) /\ j \in Nat
  BY <1>1
<1>3. (z + (j - 1)) \div n = i - 1 /\ (z + (j - 1)) % n = j - 1
  BY <1>2, DivIs
<1> HIDE DEF z
<1>4. p \in 1..k /\ p - 1 = z + (j - 1)
  BY <1>1, <1>2
<1> HIDE DEF p
<1>5. SheetOf(p, n) = (i - 1) + 1 /\ PlaceOn(p, n) = (j - 1) + 1
  BY <1>3, <1>4 DEF SheetOf, PlaceOn
<1>6. QED
  BY <1>2, <1>4, <1>5 DEF p, z

(***************************************************************************)
(* What is read from sheets some of which are missing.                     *)
(***************************************************************************)
Rising(s) == \A a, b \in 1..Len(s) : a < b => s[a] < s[b]

\* The pages on sheet i.
Batch(chosen, n, i) ==
  [j \in 1..BatchSize(Len(chosen), n, i) |-> chosen[(i - 1) * n + j]]

\* read has what is on the sheets that names lists, which are some of those
\* that keys lists, n of the chosen pages on each.
ReadFrom(read, names, keys, chosen, n) ==
  /\ chosen \in Seq(Nat) /\ Rising(chosen)
  /\ keys \in Seq(Nat) /\ Rising(keys) /\ Len(keys) = SheetCount(Len(chosen), n)
  /\ names \in Seq(Nat) /\ Rising(names) /\ ToSet(names) \subseteq ToSet(keys)
  /\ read \in Seq(Seq(Nat)) /\ Len(read) = Len(names)
  /\ \A s \in 1..Len(names), i \in 1..Len(keys) :
       names[s] = keys[i] => read[s] = Batch(chosen, n, i)

LEMMA RisingOnce ==
  ASSUME NEW s \in Seq(Nat), Rising(s), NEW a \in 1..Len(s), NEW b \in 1..Len(s)
  PROVE  (s[a] < s[b] => a < b) /\ (s[a] = s[b] => a = b)
<1>1. a \in Nat /\ b \in Nat /\ s[a] \in Nat /\ s[b] \in Nat
  OBVIOUS
<1>2. (a < b => s[a] < s[b]) /\ (b < a => s[b] < s[a])
  BY DEF Rising
<1>3. QED
  BY <1>1, <1>2

\* The sheets that are read, as places in keys.
LEMMA SheetsRead ==
  ASSUME NEW read, NEW names, NEW keys, NEW chosen, NEW n \in Nat \ {0},
         ReadFrom(read, names, keys, chosen, n)
  PROVE  \E I \in [1..Len(names) -> 1..Len(keys)] :
           /\ \A s \in 1..Len(names) :
                /\ names[s] = keys[I[s]]
                /\ I[s] \in 1..SheetCount(Len(chosen), n)
                /\ read[s] = Batch(chosen, n, I[s])
                /\ Len(read[s]) = BatchSize(Len(chosen), n, I[s])
           /\ \A a, b \in 1..Len(names) : a < b => I[a] < I[b]
<1>1. /\ names \in Seq(Nat) /\ keys \in Seq(Nat) /\ Rising(names) /\ Rising(keys)
      /\ ToSet(names) \subseteq ToSet(keys) /\ Len(chosen) \in Nat
      /\ Len(keys) = SheetCount(Len(chosen), n)
      /\ \A s \in 1..Len(names), i \in 1..Len(keys) :
           names[s] = keys[i] => read[s] = Batch(chosen, n, i)
  BY DEF ReadFrom
<1>2. ASSUME NEW s \in 1..Len(names)
      PROVE  \E i \in 1..Len(keys) : names[s] = keys[i]
  <2>1. names[s] \in ToSet(keys)
    <3>1. DOMAIN names = 1..Len(names)
      BY <1>1
    <3>2. names[s] \in ToSet(names)
      BY <3>1, Zenon DEF ToSet
    <3>3. QED
      BY <1>1, <3>2
  <2>2. DOMAIN keys = 1..Len(keys)
    BY <1>1
  <2>3. QED
    BY <2>1, <2>2 DEF ToSet
<1> DEFINE I == [s \in 1..Len(names) |-> CHOOSE i \in 1..Len(keys) : names[s] = keys[i]]
<1>3. ASSUME NEW s \in 1..Len(names)
      PROVE  I[s] \in 1..Len(keys) /\ names[s] = keys[I[s]]
  <2>1. I[s] = CHOOSE i \in 1..Len(keys) : names[s] = keys[i]
    BY Zenon
  <2>2. QED
    BY <1>2, <2>1, Zenon
<1>4. I = [s \in 1..Len(names) |-> I[s]]
  OBVIOUS
<1> HIDE DEF I
<1>5. I \in [1..Len(names) -> 1..Len(keys)]
  BY <1>3, <1>4
<1>6. ASSUME NEW s \in 1..Len(names)
      PROVE  /\ I[s] \in 1..SheetCount(Len(chosen), n)
             /\ read[s] = Batch(chosen, n, I[s])
             /\ Len(read[s]) = BatchSize(Len(chosen), n, I[s])
  <2> DEFINE i == I[s]
             m == BatchSize(Len(chosen), n, i)
  <2>1. i \in 1..SheetCount(Len(chosen), n) /\ read[s] = Batch(chosen, n, i)
    BY <1>1, <1>3
  <2>2. m \in 1..n
    <3> HIDE DEF i
    <3>1. QED
      BY <1>1, <2>1, SheetsHold
  <2>3. Batch(chosen, n, i) = [j \in 1..m |-> chosen[(i - 1) * n + j]]
    BY Zenon DEF Batch
  <2> HIDE DEF i, m
  <2>4. Len(Batch(chosen, n, i)) = m
    BY <2>2, <2>3
  <2>5. QED
    BY <2>1, <2>4 DEF i, m
<1>7. ASSUME NEW a \in 1..Len(names), NEW b \in 1..Len(names), a < b
      PROVE  I[a] < I[b]
  <2>1. names[a] < names[b]
    BY <1>1, <1>7 DEF Rising
  <2>2. I[a] \in 1..Len(keys) /\ I[b] \in 1..Len(keys) /\ keys[I[a]] < keys[I[b]]
    BY <1>3, <2>1
  <2>3. QED
    BY <1>1, <2>2, RisingOnce
<1>8. QED
  BY <1>3, <1>5, <1>6, <1>7

\* The pages that are read, as places in chosen.
Positions(pos, all, names, keys, chosen, n) ==
  /\ pos \in [1..Len(all) -> 1..Len(chosen)]
  /\ \A i \in 1..Len(all) : all[i] = chosen[pos[i]]
  /\ \A i, j \in 1..Len(all) : i < j => pos[i] < pos[j]
  /\ \A p \in 1..Len(chosen) :
       (\E i \in 1..Len(all) : p = pos[i]) <=> keys[SheetOf(p, n)] \in ToSet(names)

LEMMA PagesRead ==
  ASSUME NEW read, NEW names, NEW keys, NEW chosen, NEW n \in Nat \ {0},
         ReadFrom(read, names, keys, chosen, n)
  PROVE  /\ FlattenSeq(read) \in Seq(Nat)
         /\ \E pos : Positions(pos, FlattenSeq(read), names, keys, chosen, n)
<1> DEFINE all == FlattenSeq(read)
           at == FlattenSeq(Places(read))
           k == Len(chosen)
<1>1. PICK I \in [1..Len(names) -> 1..Len(keys)] :
        /\ \A s \in 1..Len(names) :
             /\ names[s] = keys[I[s]]
             /\ I[s] \in 1..SheetCount(Len(chosen), n)
             /\ read[s] = Batch(chosen, n, I[s])
             /\ Len(read[s]) = BatchSize(Len(chosen), n, I[s])
        /\ \A a, b \in 1..Len(names) : a < b => I[a] < I[b]
  BY SheetsRead
<1>2. /\ read \in Seq(Seq(Nat)) /\ Len(read) = Len(names) /\ k \in Nat
      /\ names \in Seq(Nat) /\ DOMAIN names = 1..Len(names)
      /\ keys \in Seq(Nat) /\ Rising(keys) /\ Len(keys) = SheetCount(k, n)
  BY DEF ReadFrom
<1>3. all \in Seq(Nat) /\ Located(at, all, read)
  <2>1. read \in Seq(Seq(Nat))
    BY <1>2
  <2>2. all \in Seq(Nat)
    BY <2>1, FlattenType
  <2>3. Located(at, all, read)
    BY <2>1, FlattenPlaces, Zenon
  <2>4. QED
    BY <2>2, <2>3
<1> HIDE DEF all, at, k
<1>4. /\ at \in Seq(Nat \X Nat) /\ Len(at) = Len(all)
      /\ \A i \in 1..Len(all) : /\ at[i][1] \in 1..Len(names)
                                /\ at[i][2] \in 1..Len(read[at[i][1]])
                                /\ all[i] = read[at[i][1]][at[i][2]]
      /\ \A i, j \in 1..Len(all) : i < j => Before(at[i], at[j])
      /\ \A s \in 1..Len(names) : \A j \in 1..Len(read[s]) :
           \E i \in 1..Len(all) : at[i] = <<s, j>>
  BY <1>2, <1>3 DEF Located
<1> DEFINE Sheet(i) == I[at[i][1]]
           Place(i) == at[i][2]
           Pos(i) == (Sheet(i) - 1) * n + Place(i)
<1>5. ASSUME NEW i \in 1..Len(all)
      PROVE  /\ at[i][1] \in 1..Len(names)
             /\ Sheet(i) \in 1..SheetCount(k, n) /\ Place(i) \in 1..BatchSize(k, n, Sheet(i))
             /\ names[at[i][1]] = keys[Sheet(i)]
             /\ all[i] = Batch(chosen, n, Sheet(i))[Place(i)]
  BY <1>1, <1>4 DEF k
<1>6. ASSUME NEW i \in 1..Len(all), NEW j \in 1..Len(all), i < j
      PROVE  Sheet(i) < Sheet(j) \/ (Sheet(i) = Sheet(j) /\ Place(i) < Place(j))
  <2>1. at[i][1] < at[j][1] \/ (at[i][1] = at[j][1] /\ at[i][2] < at[j][2])
    BY <1>4, <1>6 DEF Before
  <2>2. at[i][1] < at[j][1] => Sheet(i) < Sheet(j)
    BY <1>1, <1>5
  <2>3. QED
    BY <2>1, <2>2
<1> HIDE DEF Sheet, Place
<1>7. ASSUME NEW i \in 1..Len(all)
      PROVE  /\ Pos(i) \in 1..k /\ SheetOf(Pos(i), n) = Sheet(i) /\ PlaceOn(Pos(i), n) = Place(i)
             /\ all[i] = chosen[Pos(i)]
  <2> DEFINE s == Sheet(i)
             j == Place(i)
  <2>1. s \in 1..SheetCount(k, n) /\ j \in 1..BatchSize(k, n, s)
        /\ all[i] = Batch(chosen, n, s)[j]
    BY <1>5
  <2> HIDE DEF s, j
  <2>2. LET p == (s - 1) * n + j IN
        p \in 1..k /\ SheetOf(p, n) = s /\ PlaceOn(p, n) = j
    BY <1>2, <2>1, OnOneSheet
  <2>3. Batch(chosen, n, s)[j] = chosen[(s - 1) * n + j]
    BY <2>1 DEF Batch, k
  <2>4. QED
    BY <2>1, <2>2, <2>3 DEF s, j
<1>8. ASSUME NEW i \in 1..Len(all), NEW j \in 1..Len(all), i < j
      PROVE  Pos(i) < Pos(j)
  <2> DEFINE s == Sheet(i)
             t == Sheet(j)
             a == Place(i)
             b == Place(j)
             x == (s - 1) * n
             y == (t - 1) * n
  <2>1. /\ s \in 1..SheetCount(k, n) /\ a \in 1..BatchSize(k, n, s)
        /\ t \in 1..SheetCount(k, n) /\ b \in 1..BatchSize(k, n, t)
        /\ s < t \/ (s = t /\ a < b)
    BY <1>5, <1>6, <1>8
  <2> HIDE DEF s, t, a, b
  <2>2. BatchSize(k, n, s) \in 1..n /\ BatchSize(k, n, t) \in 1..n /\ SheetCount(k, n) \in Nat
    BY <1>2, <2>1, SheetsHold
  <2>3. /\ s - 1 \in Nat /\ t - 1 \in Nat /\ s \in Nat /\ t \in Nat /\ a \in 1..n /\ b \in 1..n
    BY <2>1, <2>2
  <2>4. ASSUME s < t PROVE x + n <= y
    <3>1. s <= t - 1
      BY <2>3, <2>4
    <3>2. s * n <= (t - 1) * n
      BY <2>3, <3>1, Times
    <3>3. s * n = x + n
      BY <2>3
    <3>4. QED
      BY <3>2, <3>3
  <2>5. x \in Nat /\ y \in Nat /\ (s = t => x = y)
    BY <2>3
  <2> HIDE DEF x, y
  <2>6. x + a < y + b
    BY <2>1, <2>3, <2>4, <2>5
  <2>7. QED
    BY <2>6 DEF x, y, s, t, a, b
<1>9. ASSUME NEW p \in 1..k
      PROVE  (\E i \in 1..Len(all) : p = Pos(i)) <=> keys[SheetOf(p, n)] \in ToSet(names)
  <2>1. ASSUME NEW i \in 1..Len(all), p = Pos(i)
        PROVE  keys[SheetOf(p, n)] \in ToSet(names)
    <3>1. SheetOf(p, n) = Sheet(i)
      BY <1>7, <2>1
    <3>2. keys[SheetOf(p, n)] = names[at[i][1]] /\ at[i][1] \in DOMAIN names
      BY <1>2, <1>5, <3>1
    <3>3. QED
      BY <3>2 DEF ToSet
  <2>2. ASSUME keys[SheetOf(p, n)] \in ToSet(names)
        PROVE  \E i \in 1..Len(all) : p = Pos(i)
    <3>1. PICK s \in 1..Len(names) : names[s] = keys[SheetOf(p, n)]
      BY <1>2, <2>2 DEF ToSet
    <3>2. /\ SheetOf(p, n) \in 1..SheetCount(k, n)
          /\ PlaceOn(p, n) \in 1..BatchSize(k, n, SheetOf(p, n))
          /\ p = (SheetOf(p, n) - 1) * n + PlaceOn(p, n)
      BY <1>2, PageOnSheet
    <3>3. keys[I[s]] = keys[SheetOf(p, n)] /\ I[s] \in 1..Len(keys)
          /\ Len(read[s]) = BatchSize(k, n, I[s])
      BY <1>1, <1>2, <3>1 DEF k
    <3>4. I[s] = SheetOf(p, n)
      BY <1>2, <3>2, <3>3, RisingOnce
    <3>5. PICK i \in 1..Len(all) : at[i] = <<s, PlaceOn(p, n)>>
      BY <1>4, <3>2, <3>3, <3>4
    <3>6. Sheet(i) = SheetOf(p, n) /\ Place(i) = PlaceOn(p, n)
      BY <3>4, <3>5 DEF Sheet, Place
    <3>7. p = Pos(i)
      BY <3>2, <3>6
    <3>8. QED
      BY <3>7
  <2>3. QED
    BY <2>1, <2>2
<1> HIDE DEF Pos
<1> DEFINE pos == [i \in 1..Len(all) |-> Pos(i)]
<1>10. Positions(pos, all, names, keys, chosen, n)
  <2>1. \A i \in 1..Len(all) : pos[i] = Pos(i)
    OBVIOUS
  <2>2. pos \in [1..Len(all) -> 1..k]
    BY <1>7
  <2> HIDE DEF pos
  <2>3. \A i \in 1..Len(all) : all[i] = chosen[pos[i]]
    BY <1>7, <2>1
  <2>4. \A i, j \in 1..Len(all) : i < j => pos[i] < pos[j]
    BY <1>8, <2>1
  <2>5. \A p \in 1..k :
          (\E i \in 1..Len(all) : p = pos[i]) <=> keys[SheetOf(p, n)] \in ToSet(names)
    BY <1>9, <2>1
  <2>6. QED
    BY <2>2, <2>3, <2>4, <2>5, Zenon DEF Positions, k
<1>11. QED
  BY <1>3, <1>10 DEF all
\* Of the sheets that are not read there is at least one page each, and at
\* most n, that is not read either.
LEMMA PagesLost ==
  ASSUME NEW read, NEW names, NEW keys, NEW chosen, NEW n \in Nat \ {0},
         ReadFrom(read, names, keys, chosen, n)
  PROVE  LET lost   == Len(chosen) - Len(FlattenSeq(read))
             failed == ToSet(keys) \ ToSet(names)
         IN  /\ Cardinality(failed) \in Nat
             /\ lost >= Cardinality(failed)
             /\ lost <= Cardinality(failed) * n
<1> DEFINE all == FlattenSeq(read)
           k == Len(chosen)
           failed == ToSet(keys) \ ToSet(names)
<1>1. all \in Seq(Nat) /\ \E pos : Positions(pos, all, names, keys, chosen, n)
  BY PagesRead
<1>2. PICK pos : Positions(pos, all, names, keys, chosen, n)
  BY <1>1
<1>3. /\ keys \in Seq(Nat) /\ Rising(keys) /\ Len(keys) = SheetCount(k, n)
      /\ DOMAIN keys = 1..Len(keys) /\ Len(keys) \in Nat
      /\ k \in Nat
  BY DEF ReadFrom
<1> HIDE DEF all, k
<1>4. Len(all) \in Nat
  BY <1>1
<1>5. /\ pos \in [1..Len(all) -> 1..k]
      /\ \A i, j \in 1..Len(all) : i < j => pos[i] < pos[j]
      /\ \A p \in 1..k :
           (\E i \in 1..Len(all) : p = pos[i]) <=> keys[SheetOf(p, n)] \in ToSet(names)
  BY <1>2 DEF Positions, k
<1> DEFINE there == {pos[i] : i \in 1..Len(all)}
           gone == (1..k) \ there
<1>6. IsFiniteSet(there) /\ Cardinality(there) = Len(all)
  <2>1. pos \in [1..Len(all) -> there]
    BY <1>5
  <2>2. ASSUME NEW i \in 1..Len(all), NEW j \in 1..Len(all), pos[i] = pos[j]
        PROVE  i = j
    <3>1. i \in Nat /\ j \in Nat /\ pos[i] \in 1..k /\ pos[j] \in 1..k
      BY <1>5
    <3>2. pos[i] \in Nat /\ pos[j] \in Nat
      BY <1>3, <3>1
    <3>3. ~ (i < j) /\ ~ (j < i)
      BY <1>5, <2>2, <3>2
    <3>4. QED
      BY <3>1, <3>3
  <2>3. pos \in Injection(1..Len(all), there)
    <3>1. DOMAIN pos = 1..Len(all)
      BY <2>1
    <3>2. QED
      BY <2>1, <2>2, <3>1 DEF Injection, IsInjective
  <2>4. pos \in Surjection(1..Len(all), there)
    BY <2>1 DEF Surjection
  <2>5. IsFiniteSet(1..Len(all)) /\ Cardinality(1..Len(all)) = Len(all)
    <3> DEFINE l == Len(all)
    <3>1. l \in Nat
      BY <1>4
    <3> HIDE DEF l
    <3>2. IsFiniteSet(1..l) /\ Cardinality(1..l) = l
      BY <3>1, FS_Interval
    <3>3. QED
      BY <3>2 DEF l
  <2> HIDE DEF there
  <2>6. QED
    BY <2>3, <2>4, <2>5, FS_Surjection
<1>7. IsFiniteSet(gone) /\ Cardinality(gone) = k - Len(all)
  <2>1. IsFiniteSet(1..k) /\ Cardinality(1..k) = k
    BY <1>3, FS_Interval
  <2>2. (1..k) \cap there = there
    BY <1>5
  <2> HIDE DEF there
  <2> DEFINE S == 1..k
  <2>3. IsFiniteSet(S) /\ Cardinality(S) = k /\ S \cap there = there /\ gone = S \ there
    BY <2>1, <2>2
  <2> HIDE DEF S, gone
  <2>4. IsFiniteSet(S \ there) /\ Cardinality(S \ there) = Cardinality(S) - Cardinality(S \cap there)
    BY <2>3, FS_Difference
  <2>5. QED
    BY <1>6, <2>3, <2>4
<1>8. ASSUME NEW p \in 1..k
      PROVE  /\ SheetOf(p, n) \in 1..Len(keys)
             /\ p \in gone <=> keys[SheetOf(p, n)] \in failed
  <2>1. SheetOf(p, n) \in 1..Len(keys)
    BY <1>3, PageOnSheet
  <2>2. keys[SheetOf(p, n)] \in ToSet(keys)
    BY <1>3, <2>1 DEF ToSet
  <2>3. p \in there <=> \E i \in 1..Len(all) : p = pos[i]
    OBVIOUS
  <2> HIDE DEF there
  <2>4. QED
    BY <1>5, <2>1, <2>2, <2>3
<1> HIDE DEF gone, there
<1>9. IsFiniteSet(failed)
  <2>1. keys \in Surjection(1..Len(keys), ToSet(keys))
    <3>1. ToSet(keys) = {keys[i] : i \in 1..Len(keys)}
      BY <1>3, Zenon DEF ToSet
    <3>2. QED
      BY <1>3, <3>1 DEF Surjection
  <2>2. IsFiniteSet(1..Len(keys))
    BY <1>3, FS_Interval
  <2>3. IsFiniteSet(ToSet(keys))
    BY <2>1, <2>2, FS_Surjection
  <2>4. failed \in SUBSET ToSet(keys)
    OBVIOUS
  <2>5. QED
    BY <2>3, <2>4, FS_Subset
<1>10. Cardinality(failed) <= Cardinality(gone)
  <2> DEFINE Sheet(f) == CHOOSE i \in 1..Len(keys) : keys[i] = f
             First(f) == (Sheet(f) - 1) * n + 1
             first == [f \in failed |-> First(f)]
  <2>1. ASSUME NEW f \in failed
        PROVE  Sheet(f) \in 1..Len(keys) /\ keys[Sheet(f)] = f
    <3>1. \E i \in 1..Len(keys) : keys[i] = f
      BY <1>3 DEF ToSet
    <3>2. QED
      BY <3>1, Zenon
  <2> HIDE DEF Sheet
  <2>2. ASSUME NEW f \in failed
        PROVE  First(f) \in 1..k /\ SheetOf(First(f), n) = Sheet(f)
    <3> DEFINE i == Sheet(f)
    <3>1. i \in 1..SheetCount(k, n)
      BY <1>3, <2>1
    <3> HIDE DEF i
    <3>2. 1 \in 1..BatchSize(k, n, i)
      <4>1. BatchSize(k, n, i) \in 1..n
        BY <1>3, <3>1, SheetsHold
      <4>2. QED
        BY <4>1
    <3>3. LET p == (i - 1) * n + 1 IN
          p \in 1..k /\ SheetOf(p, n) = i /\ PlaceOn(p, n) = 1
      BY <1>3, <3>1, <3>2, OnOneSheet
    <3>4. QED
      BY <3>3 DEF i
  <2> HIDE DEF First
  <2>3. ASSUME NEW f \in failed
        PROVE  First(f) \in gone
    BY <1>8, <2>1, <2>2
  <2>4. ASSUME NEW f \in failed, NEW g \in failed, First(f) = First(g)
        PROVE  f = g
    BY <2>1, <2>2, <2>4
  <2>5. first \in Injection(failed, gone)
    <3>1. first \in [failed -> gone] /\ \A f \in failed : first[f] = First(f)
      BY <2>3
    <3> HIDE DEF first, failed
    <3>2. DOMAIN first = failed
      BY <3>1
    <3>3. \A f, g \in failed : first[f] = first[g] => f = g
      BY <2>4, <3>1
    <3>4. QED
      BY <3>1, <3>2, <3>3 DEF Injection, IsInjective
  <2> HIDE DEF first, failed
  <2>6. QED
    BY <1>7, <2>5, FS_Injection
<1>11. Cardinality(gone) <= Cardinality(failed) * n
  <2> DEFINE cells == failed \X (1..n)
             in == [p \in gone |-> <<keys[SheetOf(p, n)], PlaceOn(p, n)>>]
  <2>1. ASSUME NEW p \in gone
        PROVE  /\ p \in 1..k /\ SheetOf(p, n) \in 1..Len(keys) /\ keys[SheetOf(p, n)] \in failed
               /\ PlaceOn(p, n) \in 1..n
               /\ p = (SheetOf(p, n) - 1) * n + PlaceOn(p, n)
    <3>1. p \in 1..k
      BY DEF gone
    <3>2. SheetOf(p, n) \in 1..Len(keys) /\ keys[SheetOf(p, n)] \in failed
      BY <1>8, <3>1
    <3>3. /\ PlaceOn(p, n) \in 1..BatchSize(k, n, SheetOf(p, n))
          /\ p = (SheetOf(p, n) - 1) * n + PlaceOn(p, n)
      BY <1>3, <3>1, PageOnSheet
    <3> DEFINE i == SheetOf(p, n)
    <3>4. i \in 1..SheetCount(k, n)
      BY <1>3, <3>2
    <3> HIDE DEF i
    <3>5. BatchSize(k, n, i) \in 1..n
      BY <1>3, <3>4, SheetsHold
    <3>6. PlaceOn(p, n) \in 1..n
      BY <3>3, <3>5 DEF i
    <3>7. QED
      BY <3>1, <3>2, <3>3, <3>6
  <2>2. \A p \in gone : in[p] = <<keys[SheetOf(p, n)], PlaceOn(p, n)>>
    OBVIOUS
  <2>3. in \in [gone -> cells]
    BY <2>1
  <2> HIDE DEF in
  <2>4. ASSUME NEW p \in gone, NEW q \in gone, in[p] = in[q]
        PROVE  p = q
    <3>1. keys[SheetOf(p, n)] = keys[SheetOf(q, n)] /\ PlaceOn(p, n) = PlaceOn(q, n)
      BY <2>2, <2>4
    <3>2. SheetOf(p, n) = SheetOf(q, n)
      BY <1>3, <2>1, <3>1, RisingOnce
    <3>3. QED
      BY <2>1, <3>1, <3>2
  <2>5. in \in Injection(gone, cells)
    <3>1. DOMAIN in = gone
      BY <2>3
    <3>2. QED
      BY <2>3, <2>4, <3>1 DEF Injection, IsInjective
  <2>6. IsFiniteSet(1..n) /\ Cardinality(1..n) = n
    BY FS_Interval
  <2> HIDE DEF failed
  <2>7. IsFiniteSet(cells) /\ Cardinality(cells) = Cardinality(failed) * n
    BY <1>9, <2>6, FS_Product
  <2> HIDE DEF cells
  <2>8. QED
    BY <2>5, <2>7, FS_Injection
<1>12. Cardinality(failed) \in Nat
  BY <1>9, FS_CardinalityType
<1> HIDE DEF failed
<1>13. QED
  BY <1>7, <1>10, <1>11, <1>12 DEF failed, all, k

\* Every page at most once, in order, and only the last sheet is not full.
LEMMA PagesInOrder ==
  ASSUME NEW read, NEW names, NEW keys, NEW chosen, NEW n \in Nat \ {0},
         ReadFrom(read, names, keys, chosen, n)
  PROVE  LET all == FlattenSeq(read) IN
         /\ \A i, j \in DOMAIN all : i < j => all[i] < all[j]
         /\ ToSet(all) \subseteq ToSet(chosen)
         /\ \A s \in DOMAIN read : s < Len(read) => Len(read[s]) = n
<1>0. PICK I \in [1..Len(names) -> 1..Len(keys)] :
        /\ \A a \in 1..Len(names) :
             /\ names[a] = keys[I[a]]
             /\ I[a] \in 1..SheetCount(Len(chosen), n)
             /\ read[a] = Batch(chosen, n, I[a])
             /\ Len(read[a]) = BatchSize(Len(chosen), n, I[a])
        /\ \A a, b \in 1..Len(names) : a < b => I[a] < I[b]
  BY SheetsRead
<1> DEFINE all == FlattenSeq(read)
           k == Len(chosen)
<1>1. /\ chosen \in Seq(Nat) /\ Rising(chosen) /\ k \in Nat /\ DOMAIN chosen = 1..k
      /\ read \in Seq(Seq(Nat)) /\ DOMAIN read = 1..Len(names) /\ Len(read) = Len(names)
      /\ Len(names) \in Nat /\ Len(keys) \in Nat /\ Len(keys) = SheetCount(k, n)
  BY DEF ReadFrom
<1>2. all \in Seq(Nat) /\ \E pos : Positions(pos, all, names, keys, chosen, n)
  BY PagesRead
<1>3. PICK pos : Positions(pos, all, names, keys, chosen, n)
  BY <1>2
<1> HIDE DEF all, k
<1>4. /\ pos \in [1..Len(all) -> 1..k] /\ DOMAIN all = 1..Len(all)
      /\ \A i \in 1..Len(all) : all[i] = chosen[pos[i]]
      /\ \A i, j \in 1..Len(all) : i < j => pos[i] < pos[j]
  BY <1>2, <1>3 DEF Positions, k
<1>5. ASSUME NEW i \in DOMAIN all, NEW j \in DOMAIN all, i < j
      PROVE  all[i] < all[j]
  <2>1. pos[i] \in 1..k /\ pos[j] \in 1..k /\ pos[i] < pos[j]
    BY <1>4, <1>5
  <2>2. chosen[pos[i]] < chosen[pos[j]]
    BY <1>1, <2>1 DEF Rising, k
  <2>3. QED
    BY <1>4, <2>2
<1>6. ToSet(all) \subseteq ToSet(chosen)
  <2>1. \A i \in DOMAIN all : all[i] = chosen[pos[i]] /\ pos[i] \in DOMAIN chosen
    BY <1>1, <1>4
  <2>2. QED
    BY <2>1 DEF ToSet
<1>7. ASSUME NEW s \in DOMAIN read, s < Len(read)
      PROVE  Len(read[s]) = n
  <2>2. s \in 1..Len(names) /\ s + 1 \in 1..Len(names) /\ s < s + 1
    BY <1>1, <1>7
  <2>3. /\ I[s] \in 1..SheetCount(k, n) /\ I[s + 1] \in 1..SheetCount(k, n)
        /\ I[s] < I[s + 1] /\ Len(read[s]) = BatchSize(k, n, I[s])
    BY <1>0, <2>2 DEF k
  <2> DEFINE i == I[s]
             l == I[s + 1]
             S == SheetCount(k, n)
  <2>4. i \in 1..S /\ l \in 1..S /\ i < l /\ Len(read[s]) = BatchSize(k, n, i) /\ S \in Nat
    BY <1>1, <2>3
  <2> HIDE DEF i, l
  <2>5. i < S => BatchSize(k, n, i) = n
    BY <1>1, <2>4, SheetsHold
  <2> HIDE DEF S
  <2>6. QED
    BY <2>4, <2>5
<1>8. QED
  BY <1>5, <1>6, <1>7 DEF all

\* The images to be written show the pages that their labels name.
LEMMA PreparedLabelled ==
  ASSUME NEW docs \in Seq(Numbered), Distinct(docs), NEW t, NEW e \in DOMAIN Chosen(docs, t)
  PROVE  LET labels == FlattenSeq(LabelRows(docs))
             p == Chosen(docs, t)[e]
         IN  /\ p \in DOMAIN labels
             /\ Shows(Prepared(docs, t)[e].image, labels[p])
<1> DEFINE chosen == Chosen(docs, t)
           source == SourcePages(docs)
           labels == FlattenSeq(LabelRows(docs))
           p == chosen[e]
<1>1. ToSet(chosen) \subseteq 1..Len(source)
  BY ChosenLists
<1>2. Labelled(source, labels)
  BY SourceLabelled
<1>3. Prepared(docs, t)[e] = Prepare(source[p], p, e, t)
  BY PreparedIs
<1>4. p \in ToSet(chosen)
  BY DEF ToSet
<1> HIDE DEF chosen, source, labels, p
<1>5. p \in 1..Len(labels) /\ DOMAIN labels = 1..Len(labels) /\ labels[p] \in Nat \X Nat
  BY <1>1, <1>2, <1>4 DEF Labelled
<1>6. PICK z \in Sizes : source[p] = PageImage(labels[p][1], labels[p][2], z)
  BY <1>2, <1>5 DEF Labelled
<1>7. Shows(source[p], labels[p])
  <2> DEFINE a == labels[p][1]
             b == labels[p][2]
  <2>1. a \in Nat /\ b \in Nat /\ labels[p] = <<a, b>>
    BY <1>5
  <2> HIDE DEF a, b
  <2>2. source[p] = PageImage(a, b, z)
    BY <1>6 DEF a, b
  <2>3. Shows(PageImage(a, b, z), <<a, b>>)
    BY <2>1, PageShows
  <2>4. QED
    BY <2>1, <2>2, <2>3
<1>8. Shows(Prepare(source[p], p, e, t).image, labels[p])
  BY <1>7, PreparedShows
<1>9. QED
  BY <1>3, <1>5, <1>8 DEF labels, p, chosen

LEMMA LabelsTell ==
  ASSUME NEW docs \in Seq(Numbered), Distinct(docs)
  PROVE  LET labels == FlattenSeq(LabelRows(docs)) IN
         Telling(labels) /\ DOMAIN labels = 1..Len(SourcePages(docs))
<1> DEFINE labels == FlattenSeq(LabelRows(docs))
           source == SourcePages(docs)
<1>1. Labelled(source, labels)
  BY SourceLabelled
<1> HIDE DEF labels, source
<1>2. /\ DOMAIN labels = 1..Len(labels) /\ Len(source) = Len(labels)
      /\ \A p \in 1..Len(labels) : labels[p] \in Nat \X Nat
      /\ \A p, q \in 1..Len(labels) : labels[p] = labels[q] => p = q
  BY <1>1 DEF Labelled
<1>3. \A p \in DOMAIN labels : labels[p] = <<labels[p][1], labels[p][2]>>
  BY <1>2
<1>4. QED
  BY <1>2, <1>3 DEF Telling, labels, source

\* With number-up, a file for each sheet, with the sheet's number.
LEMMA EmittedNUp ==
  ASSUME NEW docs \in Seq(Numbered), Distinct(docs), NEW t,
         NumberUp(t) \in Nat, NumberUp(t) > 1
  PROVE  LET pages == RenderRasterJob(docs, t)
             chosen == Chosen(docs, t)
             n == NumberUp(t)
         IN  /\ DOMAIN pages = 1..SheetCount(Len(chosen), n)
             /\ \A s \in DOMAIN pages :
                  Reading(pages[s], FlattenSeq(LabelRows(docs))) = Batch(chosen, n, s)
<1> DEFINE prepared == Prepared(docs, t)
           chosen == Chosen(docs, t)
           labels == FlattenSeq(LabelRows(docs))
           n == NumberUp(t)
           k == Len(chosen)
           pages == RenderRasterJob(docs, t)
           batch(s) == [j \in 1..BatchSize(k, n, s) |-> prepared[(s - 1) * n + j].image]
<1>1. /\ chosen \in Seq(Nat) /\ k \in Nat /\ DOMAIN chosen = 1..k
      /\ \A a, b \in DOMAIN chosen : a < b => chosen[a] < chosen[b]
  BY ChosenLists DEF Lists
<1>2. DOMAIN prepared = DOMAIN chosen
  BY PreparedIs
<1>3. Telling(labels)
  BY LabelsTell
<1>4. \A e \in DOMAIN chosen : /\ chosen[e] \in DOMAIN labels
                               /\ Shows(prepared[e].image, labels[chosen[e]])
  BY PreparedLabelled
<1>5. pages = EmitNUp(prepared, n)
  BY DEF RenderRasterJob
<1> HIDE DEF prepared, chosen, labels, n, pages
<1>6. Len(prepared) = k
  BY <1>1, <1>2
<1>7. /\ DOMAIN pages = 1..SheetCount(k, n)
      /\ \A s \in DOMAIN pages : pages[s] = CompositeNUp(batch(s), NumberUpGrid(n))
  BY <1>5, <1>6, Zenon DEF EmitNUp, SheetCount, BatchSize
<1> HIDE DEF k, batch
<1>8. n \in Nat \ {0}
  BY DEF n
<1>9. ASSUME NEW s \in 1..SheetCount(k, n)
      PROVE  Reading(CompositeNUp(batch(s), NumberUpGrid(n)), labels) = Batch(chosen, n, s)
  <2> DEFINE m == BatchSize(k, n, s)
             x == (s - 1) * n
             grid == NumberUpGrid(n)
             places == Batch(chosen, n, s)
  <2>1. x \in Nat /\ m \in 1..n /\ x + m <= k
    BY <1>1, <1>8, SheetsHold
  <2>2. batch(s) = [j \in 1..m |-> prepared[x + j].image]
    BY DEF batch
  <2>3. places = [j \in 1..m |-> chosen[x + j]]
    BY DEF Batch, k
  <2> HIDE DEF m, x, places
  <2>4. m \in Nat \ {0} /\ m <= n
    BY <1>8, <2>1
  <2>5. \A j \in 1..m : x + j \in DOMAIN chosen
    BY <1>1, <2>1, <2>4
  <2>6. Len(batch(s)) = m /\ \A j \in 1..m : batch(s)[j] = prepared[x + j].image
    BY <2>2, <2>4
  <2>7. places \in [1..m -> DOMAIN labels] /\ \A j \in 1..m : places[j] = chosen[x + j]
    BY <1>4, <2>3, <2>5
  <2>8. ASSUME NEW i \in 1..m, NEW j \in 1..m, places[i] = places[j]
        PROVE  i = j
    <3>1. x + i \in DOMAIN chosen /\ x + j \in DOMAIN chosen /\ chosen[x + i] = chosen[x + j]
      BY <2>5, <2>7, <2>8
    <3>2. chosen[x + i] \in Nat /\ i \in Nat /\ j \in Nat
      BY <1>1, <2>4, <3>1
    <3>3. ~ (x + i < x + j) /\ ~ (x + j < x + i)
      BY <1>1, <3>1, <3>2
    <3>4. QED
      BY <2>1, <3>2, <3>3
  <2>9. \A j \in 1..m : Shows(batch(s)[j], labels[places[j]])
    BY <1>4, <2>5, <2>6, <2>7
  <2>10. /\ grid.cols \in Nat \ {0} /\ grid.rows \in Nat \ {0}
         /\ n <= grid.cols * grid.rows
    BY <1>8, GridHolds
  <2> HIDE DEF grid
  <2>11. m <= grid.cols * grid.rows
    <3> DEFINE z == grid.cols * grid.rows
    <3>1. z \in Nat /\ n <= z
      BY <2>10
    <3> HIDE DEF z
    <3>2. m <= z
      BY <1>8, <2>4, <3>1
    <3>3. QED
      BY <3>2 DEF z
  <2>12. Reading(CompositeNUp(batch(s), grid), labels) = places
    <3>1. AmongLabels(places, labels, m)
      BY <1>3, <2>4, <2>7, <2>8 DEF AmongLabels
    <3>2. RoomFor(m, grid)
      BY <2>10, <2>11, Zenon DEF RoomFor
    <3>3. Imaged(batch(s), labels, places, m)
      BY <2>6, <2>9, Zenon DEF Imaged
    <3>4. QED
      BY <3>1, <3>2, <3>3, SheetReads, Zenon
  <2>13. QED
    BY <2>12 DEF grid, places
<1>10. QED
  BY <1>7, <1>9 DEF pages, chosen, n, k, labels

(***************************************************************************)
(* The files of a rendering, whether pages or sheets.                      *)
(***************************************************************************)
LEMMA BatchType ==
  ASSUME NEW chosen \in Seq(Nat), NEW n \in Nat \ {0},
         NEW i \in 1..SheetCount(Len(chosen), n)
  PROVE  Batch(chosen, n, i) \in Seq(Nat)
<1> DEFINE k == Len(chosen)
           m == BatchSize(k, n, i)
           x == (i - 1) * n
<1>1. k \in Nat /\ DOMAIN chosen = 1..k /\ \A p \in 1..k : chosen[p] \in Nat
  OBVIOUS
<1>2. x \in Nat /\ m \in 1..n /\ x + m <= k
  <2> HIDE DEF k
  <2>1. QED
    BY <1>1, SheetsHold DEF k
<1>3. Batch(chosen, n, i) = [j \in 1..m |-> chosen[x + j]]
  BY DEF Batch
<1> HIDE DEF k, m, x
<1>4. \A j \in 1..m : x + j \in 1..k
  BY <1>1, <1>2
<1>5. m \in Nat /\ \A j \in 1..m : chosen[x + j] \in Nat
  BY <1>1, <1>2, <1>4
<1>6. QED
  BY <1>3, <1>5

\* As many numbers as there are below a bound, at most.
LEMMA RisingLength ==
  ASSUME NEW s \in Seq(Nat), Rising(s), NEW m \in Nat, ToSet(s) \subseteq 1..m
  PROVE  Len(s) <= m
<1> DEFINE k == Len(s)
<1>1. k \in Nat /\ DOMAIN s = 1..k /\ s \in [1..k -> 1..m]
  BY DEF ToSet
<1>2. s \in Injection(1..k, 1..m)
  BY <1>1, RisingOnce DEF Injection, IsInjective
<1> HIDE DEF k
<1>3. IsFiniteSet(1..m) /\ Cardinality(1..m) = m
  BY FS_Interval
<1>4. Cardinality(1..k) = k
  BY <1>1, FS_Interval
<1>5. Cardinality(1..k) <= Cardinality(1..m)
  BY <1>2, <1>3, FS_Injection
<1>6. QED
  BY <1>3, <1>4, <1>5 DEF k

\* The files of a rendering, whether pages or sheets: they are named in the
\* order of the pages in them.
Filed(keys, docs, t) ==
  LET pages  == RenderRasterJob(docs, t)
      chosen == Chosen(docs, t)
      n      == NumberUp(t)
  IN  /\ keys \in Seq(Nat) /\ Rising(keys) /\ Len(keys) = SheetCount(Len(chosen), n)
      /\ ToSet(keys) = DOMAIN pages
      /\ ToSet(keys) \subseteq 1..Len(SourcePages(docs))
      /\ \A i \in 1..Len(keys) :
           Reading(pages[keys[i]], FlattenSeq(LabelRows(docs))) = Batch(chosen, n, i)

LEMMA FilesInOrder ==
  ASSUME NEW docs \in Seq(Numbered), Distinct(docs), NEW t, t.numberUp \in Int
  PROVE  \E keys : Filed(keys, docs, t)
<1> DEFINE pages == RenderRasterJob(docs, t)
           chosen == Chosen(docs, t)
           labels == FlattenSeq(LabelRows(docs))
           n == NumberUp(t)
           k == Len(chosen)
           limit == Len(SourcePages(docs))
<1>1. /\ chosen \in Seq(Nat) /\ k \in Nat /\ DOMAIN chosen = 1..k /\ Rising(chosen)
      /\ ToSet(chosen) \subseteq 1..limit /\ limit \in Nat
  BY ChosenLists DEF Lists, Rising
<1>2. n \in Nat \ {0}
  BY DEF NumberUp, Larger
<1>3. k <= limit
  BY <1>1, RisingLength
<1>4. CASE n <= 1
  <2>1. n = 1
    BY <1>2, <1>4
  <2>2. /\ DOMAIN pages = ToSet(chosen)
        /\ \A e \in DOMAIN chosen :
             pages[chosen[e]] = Prepare(SourcePages(docs)[chosen[e]], chosen[e], e, t).image
    BY <1>4, EmittedPerPage
  <2>3. \A e \in DOMAIN chosen :
          Prepared(docs, t)[e] = Prepare(SourcePages(docs)[chosen[e]], chosen[e], e, t)
    BY PreparedIs
  <2>4. Telling(labels)
    BY LabelsTell
  <2>5. \A e \in DOMAIN chosen : /\ chosen[e] \in DOMAIN labels
                                 /\ Shows(Prepared(docs, t)[e].image, labels[chosen[e]])
    BY PreparedLabelled
  <2> HIDE DEF pages, chosen, labels
  <2>6. k = SheetCount(k, n)
    <3>0. k \in Nat
      BY <1>1
    <3> HIDE DEF k
    <3>1. (k * 1 + 0) \div 1 = k
      BY <3>0, DivIs
    <3>2. k * 1 + 0 = k /\ k + 1 - 1 = k
      BY <3>0
    <3>3. SheetCount(k, 1) = k
      BY <3>1, <3>2, Zenon DEF SheetCount
    <3> HIDE DEF n
    <3>4. QED
      BY <2>1, <3>3
  <2>7. ASSUME NEW e \in 1..k
        PROVE  Reading(pages[chosen[e]], labels) = Batch(chosen, n, e)
    <3> DEFINE p == chosen[e]
    <3>1. p \in DOMAIN labels /\ Shows(pages[p], labels[p])
      BY <1>1, <2>2, <2>3, <2>5
    <3>2. labels[p] = <<labels[p][1], labels[p][2]>>
          /\ \A q \in DOMAIN labels : labels[q] = labels[p] => q = p
      BY <2>4, <3>1 DEF Telling
    <3>3. Batch(chosen, n, e) = <<p>>
      <4>1. BatchSize(k, n, e) = 1 /\ (e - 1) * n + 1 = e
        <5>1. (e - 1) * 1 = e - 1 /\ e - 1 + 1 = e /\ e <= k
          BY <1>1
        <5>2. BatchSize(k, 1, e) = 1
          BY <1>1, <5>1 DEF BatchSize
        <5> HIDE DEF n
        <5>3. QED
          BY <2>1, <5>1, <5>2
      <4>2. Batch(chosen, n, e) = [j \in 1..1 |-> chosen[(e - 1) * n + j]]
        BY <4>1 DEF Batch
      <4>3. \A j \in 1..1 : chosen[(e - 1) * n + j] = p
        BY <4>1
      <4>4. Batch(chosen, n, e) = [j \in 1..1 |-> p]
        BY <4>2, <4>3
      <4> HIDE DEF p
      <4>5. QED
        BY <4>4
    <3> HIDE DEF p
    <3>4. Reading(pages[p], labels) = <<p>>
      BY <3>1, <3>2, OnePageReads
    <3>5. QED
      BY <3>3, <3>4 DEF p
  <2>8. Filed(chosen, docs, t)
    BY <1>1, <2>2, <2>6, <2>7 DEF Filed, pages, chosen, labels
  <2>9. QED
    BY <2>8
<1>5. CASE n > 1
  <2> DEFINE S == SheetCount(k, n)
             keys == [i \in 1..S |-> i]
  <2>1. /\ DOMAIN pages = 1..SheetCount(k, n)
        /\ \A s \in DOMAIN pages : Reading(pages[s], labels) = Batch(chosen, n, s)
    BY <1>2, <1>5, EmittedNUp
  <2> HIDE DEF pages, chosen, labels, n, limit
  <2>2. S \in Nat
    <3>1. k + n - 1 \in Nat
      BY <1>1, <1>2
    <3> DEFINE a == k + n - 1
    <3> HIDE DEF a
    <3>2. a \div n \in Nat
      BY <1>2, <3>1, DivMod DEF a
    <3>3. QED
      BY <3>2 DEF SheetCount, a
  <2>3. ASSUME NEW i \in 1..S
        PROVE  i \in 1..limit
    <3> DEFINE x == (i - 1) * n
    <3>1. x \in Nat /\ BatchSize(k, n, i) \in 1..n /\ x + BatchSize(k, n, i) <= k
      BY <1>1, <1>2, SheetsHold
    <3>2. (i - 1) * 1 <= (i - 1) * n
      <4>1. i - 1 \in Nat /\ 1 <= n
        BY <1>2, <2>2
      <4>2. 1 * (i - 1) <= n * (i - 1)
        BY <1>2, <4>1, Times
      <4>3. QED
        BY <1>2, <4>1, <4>2
    <3>3. i - 1 <= x /\ i \in Nat /\ i >= 1
      BY <2>2, <3>2
    <3> HIDE DEF x
    <3>4. QED
      BY <1>1, <1>2, <1>3, <3>1, <3>3
  <2> HIDE DEF S
  <2>4. keys \in Seq(Nat) /\ Len(keys) = S /\ \A i \in 1..S : keys[i] = i
    BY <2>2
  <2>5. DOMAIN keys = 1..S
    BY <2>4
  <2> HIDE DEF keys
  <2>6. ToSet(keys) = 1..S
    <3>1. ToSet(keys) = {keys[i] : i \in 1..S}
      BY <2>5, Zenon DEF ToSet
    <3>2. QED
      BY <2>4, <3>1
  <2>7. Rising(keys)
    BY <2>4 DEF Rising
  <2>8. \A i \in 1..Len(keys) : Reading(pages[keys[i]], labels) = Batch(chosen, n, i)
    BY <2>1, <2>4 DEF S
  <2>9. Filed(keys, docs, t)
    BY <2>1, <2>3, <2>4, <2>6, <2>7, <2>8 DEF Filed, pages, chosen, labels, n, limit, S
  <2>10. QED
    BY <2>9
<1>6. QED
  BY <1>2, <1>4, <1>5

LEMMA EachPageByRendering ==
  ASSUME RInv, NEW written, NEW gs \in BOOLEAN, Leaves(written, gs)
  PROVE  EverySelectedPageOnce'
<1> DEFINE pages == RenderRasterJob(documents, template)
           chosen == Chosen(documents, template)
           labels == FlattenSeq(LabelRows(documents))
           n == NumberUp(template)
<1>1. /\ template' = template /\ documents' = documents
      /\ last'.written = DOMAIN written
      /\ last'.failed = DOMAIN pages \ DOMAIN written
  BY DEF Leaves
<1>2. Wanted' = chosen
  <2>1. Wanted' = Wanted
    BY <1>1, Zenon DEF Wanted, Labels
  <2>2. QED
    BY <2>1, WantedIsChosen
<1>3. Labels' = labels
  BY <1>1, Zenon DEF Labels, LabelRows
<1>4. SUFFICES ASSUME RasterOnly
               PROVE  EverySelectedPageOnce'
  BY <1>1 DEF EverySelectedPageOnce, RasterOnly
<1>5. documents \in Seq(Numbered) /\ Distinct(documents) /\ template.numberUp \in Int
  BY DEF RInv, TemplateType
<1>6. DOMAIN written \subseteq DOMAIN pages
      /\ \A f \in DOMAIN written : disk'[<<0, f>>] = pages[f]
  BY <1>4, FilesWritten
<1>7. n \in Nat \ {0}
  BY <1>5 DEF NumberUp, Larger
<1>8. /\ chosen \in Seq(Nat) /\ Rising(chosen)
      /\ Len(SourcePages(documents)) \in Nat
  BY <1>5, ChosenLists DEF Lists, Rising
<1>9. DOMAIN labels = 1..Len(SourcePages(documents)) /\ Len(labels) \in Nat
      /\ DOMAIN labels = 1..Len(labels)
  <2>1. DOMAIN labels = 1..Len(SourcePages(documents))
    BY <1>5, LabelsTell
  <2>2. Labelled(SourcePages(documents), labels)
    BY <1>5, SourceLabelled
  <2> HIDE DEF labels
  <2>3. QED
    BY <2>1, <2>2 DEF Labelled
<1>10. PICK keys : Filed(keys, documents, template)
  BY <1>5, FilesInOrder
<1>11. /\ keys \in Seq(Nat) /\ Rising(keys) /\ Len(keys) = SheetCount(Len(chosen), n)
       /\ ToSet(keys) = DOMAIN pages
       /\ ToSet(keys) \subseteq DOMAIN labels
       /\ \A i \in 1..Len(keys) : Reading(pages[keys[i]], labels) = Batch(chosen, n, i)
  BY <1>9, <1>10 DEF Filed
<1> HIDE DEF pages, chosen, labels, n
<1> DEFINE names == Ascending(DOMAIN written, Len(labels))
<1>12. names \in Seq(Nat) /\ Rising(names) /\ ToSet(names) = DOMAIN written
       /\ DOMAIN names = 1..Len(names)
  <2>1. DOMAIN written \in SUBSET (1..Len(labels))
    BY <1>6, <1>9, <1>11
  <2> DEFINE S == DOMAIN written
             m == Len(labels)
  <2>2. S \in SUBSET (1..m) /\ m \in Nat
    BY <1>9, <2>1
  <2> HIDE DEF S, m
  <2>3. Lists(Ascending(S, m), S)
    BY <2>2, AscendingLists
  <2>4. Lists(names, DOMAIN written)
    BY <2>3 DEF S, m
  <2> HIDE DEF names
  <2>5. QED
    BY <2>4 DEF Lists, Rising
<1>13. Sheets' = names
  BY <1>1, <1>3, Zenon DEF Sheets
<1> HIDE DEF names
<1> DEFINE read == [s \in DOMAIN Sheets' |-> Reading(disk'[<<0, Sheets'[s]>>], Labels')]
<1>14. DOMAIN read = 1..Len(names)
  BY <1>12, <1>13
<1>15. ASSUME NEW s \in 1..Len(names), NEW i \in 1..Len(keys), names[s] = keys[i]
       PROVE  read[s] = Batch(chosen, n, i)
  <2>1. names[s] \in DOMAIN written
    BY <1>12 DEF ToSet
  <2>2. read[s] = Reading(disk'[<<0, names[s]>>], labels)
    BY <1>3, <1>12, <1>13
  <2>3. disk'[<<0, names[s]>>] = pages[keys[i]]
    BY <1>6, <1>15, <2>1
  <2>4. QED
    BY <1>11, <2>2, <2>3
<1>16. read = [s \in 1..Len(names) |-> read[s]]
  BY <1>12, <1>13
<1> HIDE DEF read
<1>17. read \in Seq(Seq(Nat)) /\ Len(read) = Len(names)
  <2>1. ASSUME NEW s \in 1..Len(names)
        PROVE  read[s] \in Seq(Nat)
    <3>1. names[s] \in ToSet(keys)
      BY <1>6, <1>11, <1>12 DEF ToSet
    <3>2. PICK i \in 1..Len(keys) : names[s] = keys[i]
      BY <1>11, <3>1 DEF ToSet
    <3>3. read[s] = Batch(chosen, n, i)
      BY <1>15, <3>2
    <3>4. Batch(chosen, n, i) \in Seq(Nat)
      BY <1>7, <1>8, <1>11, BatchType
    <3>5. QED
      BY <3>3, <3>4
  <2>2. Len(names) \in Nat
    BY <1>12
  <2>3. QED
    BY <1>16, <2>1, <2>2
<1>18. ReadFrom(read, names, keys, chosen, n)
  BY <1>6, <1>8, <1>11, <1>12, <1>15, <1>17 DEF ReadFrom
<1> DEFINE all == FlattenSeq(read)
           lost == Len(chosen) - Len(all)
           failed == ToSet(keys) \ ToSet(names)
<1>19. /\ \A i, j \in DOMAIN all : i < j => all[i] < all[j]
       /\ ToSet(all) \subseteq ToSet(chosen)
       /\ \A s \in DOMAIN read : s < Len(read) => Len(read[s]) = n
  BY <1>7, <1>18, PagesInOrder
<1>20. lost >= Cardinality(failed) /\ lost <= Cardinality(failed) * n
  BY <1>7, <1>18, PagesLost
<1>21. failed = last'.failed
  BY <1>1, <1>11, <1>12
<1>22. n = NumberUp(template')
  BY <1>1 DEF n
<1> HIDE DEF all, failed
<1>23. EverySelectedPageOnce'
  <2>1. lost >= Cardinality(last'.failed) /\ lost <= Cardinality(last'.failed) * NumberUp(template')
    BY <1>20, <1>21, <1>22
  <2>2. lost = Len(Wanted') - Len(all)
    BY <1>2
  <2>3. /\ ToSet(all) \subseteq ToSet(Wanted')
        /\ \A s \in DOMAIN read : s < Len(read) => Len(read[s]) = NumberUp(template')
    BY <1>2, <1>19, <1>22
  <2> HIDE DEF lost
  <2>4. QED
    BY <1>19, <2>1, <2>2, <2>3, Zenon DEF EverySelectedPageOnce, all, read
<1>24. QED
  BY <1>23

\* renderRasterJob and the writes of renderRaster: whatever the documents, the
\* ranges, the pages to a sheet and the writes that fail, every page that the
\* client selected and whose file is written is in one file, once, and the
\* files in their order have the pages in theirs.
THEOREM EveryPageOnce == Spec => []EverySelectedPageOnce
<1>1. Init => RInv /\ EverySelectedPageOnce
  BY InitRInv DEF Init, EverySelectedPageOnce, Rendered
<1>2. RInv /\ EverySelectedPageOnce /\ [Next]_vars => RInv' /\ EverySelectedPageOnce'
  <2> SUFFICES ASSUME RInv, EverySelectedPageOnce, [Next]_vars
               PROVE  EverySelectedPageOnce'
    BY NextRInv
  <2>1. CASE last' = None
    BY <2>1 DEF EverySelectedPageOnce, Rendered, None
  <2>2. CASE UNCHANGED vars
    <3>1. /\ UNCHANGED <<template, documents, disk, last>>
          /\ Wanted' = Wanted /\ Labels' = Labels /\ Sheets' = Sheets
      BY <2>2, Zenon DEF Wanted, Sheets, Labels, vars
    <3>2. QED
      BY <3>1, Zenon DEF EverySelectedPageOnce, Rendered, RasterOnly
  <2>3. QED
    BY <2>1, <2>2, RenderSteps, EachPageByRendering
<1>3. QED
  BY <1>1, <1>2, PTL DEF Spec
=============================================================================
