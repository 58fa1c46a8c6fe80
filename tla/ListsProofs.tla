------------------------------ MODULE ListsProofs ------------------------------
(***************************************************************************)
(* What Ascending, Iterate and FlattenSeq compute, for lists of any length *)
(* and any number of rounds.  They are recursive functions; induction is   *)
(* used over a set of numbers: those up to which such a function exists,   *)
(* or up to which its values are what they should be.                      *)
(***************************************************************************)
EXTENDS Lists, Integers, SequencesExt, SequenceTheorems, WellFoundedInduction, TLAPS

(***************************************************************************)
(* Induction.                                                              *)
(***************************************************************************)
LEMMA SetInduction ==
  ASSUME NEW S, 0 \in S, \A n \in Nat : n \in S => n + 1 \in S
  PROVE  Nat \subseteq S
<1>1. SUFFICES ASSUME Nat \ S # {} PROVE FALSE
  OBVIOUS
<1>2. PICK x \in Nat \ S : \A y \in Nat \ S : ~ (<<y, x>> \in OpToRel(<, Nat))
  <2>1. Nat \ S \subseteq Nat
    OBVIOUS
  <2>2. QED
    BY ONLY <1>1, <2>1, WFMin, NatLessThanWellFounded
<1>3. x \in Nat /\ x # 0 /\ x - 1 \in Nat \ S
  <2>1. x \in Nat /\ x \notin S
    BY ONLY x \in Nat \ S
  <2>2. x # 0
    BY ONLY <2>1, 0 \in S
  <2>3. x - 1 \in Nat /\ (x - 1) + 1 = x
    BY ONLY <2>1, <2>2
  <2>4. QED
    BY ONLY <2>1, <2>2, <2>3, \A n \in Nat : n \in S => n + 1 \in S
<1>4. <<x - 1, x>> \in OpToRel(<, Nat)
  <2> DEFINE y == x - 1
  <2>1. y \in Nat /\ x \in Nat /\ y < x
    BY ONLY <1>3
  <2> HIDE DEF y
  <2>2. <<y, x>> \in OpToRel(<, Nat)
    BY ONLY <2>1, Zenon DEF OpToRel
  <2>3. QED
    BY ONLY <2>2, Zenon DEF y
<1>5. QED
  BY <1>2, <1>3, <1>4

(***************************************************************************)
(* Whole-numbered division.                                                *)
(***************************************************************************)
LEMMA Times ==
  ASSUME NEW a \in Nat, NEW b \in Nat, NEW c \in Nat, a <= b
  PROVE  a * c \in Nat /\ b * c \in Nat /\ a * c <= b * c
OBVIOUS

LEMMA DivMod ==
  ASSUME NEW a \in Nat, NEW b \in Nat \ {0}
  PROVE  /\ a \div b \in Nat /\ a % b \in 0..(b - 1)
         /\ (a \div b) * b \in Nat /\ a = (a \div b) * b + (a % b)
<1>1. a % b \in 0..(b - 1) /\ a \div b \in Nat
  OBVIOUS
<1>2. (a \div b) * b \in Nat
  BY <1>1
<1>3. a = (a \div b) * b + (a % b)
  OBVIOUS
<1>4. QED
  BY <1>1, <1>2, <1>3

\* A number in terms of its quotient and remainder determines both.
LEMMA DivIs ==
  ASSUME NEW b \in Nat \ {0}, NEW q \in Nat, NEW r \in 0..(b - 1)
  PROVE  (q * b + r) \div b = q /\ (q * b + r) % b = r
<1> DEFINE a == q * b + r
           d == a \div b
           m == a % b
<1>1. q * b \in Nat /\ a \in Nat /\ r \in Nat
  OBVIOUS
<1>2. d \in Nat /\ m \in 0..(b - 1) /\ d * b \in Nat /\ a = d * b + m
  <2> HIDE DEF a
  <2>1. QED
    BY <1>1, DivMod
<1>3. a = q * b + r
  OBVIOUS
<1> HIDE DEF a, d, m
<1>4. ASSUME d < q PROVE FALSE
  <2>1. (d + 1) * b <= q * b
    BY <1>2, <1>4, Times
  <2>2. (d + 1) * b = d * b + b
    BY <1>2
  <2>3. QED
    BY <1>1, <1>2, <1>3, <2>1, <2>2
<1>5. ASSUME q < d PROVE FALSE
  <2>1. (q + 1) * b <= d * b
    BY <1>2, <1>5, Times
  <2>2. (q + 1) * b = q * b + b
    BY <1>2
  <2>3. QED
    BY <1>1, <1>2, <1>3, <2>1, <2>2
<1>6. d = q
  BY <1>2, <1>4, <1>5
<1>7. m = r
  BY <1>1, <1>2, <1>3, <1>6
<1>8. QED
  BY <1>6, <1>7 DEF a, d, m

(***************************************************************************)
(* Ascending: a set of numbers as a list.                                  *)
(***************************************************************************)
\* The recursion of Ascending, over the ids up to any m.
ListedUpTo(f, ids, m) ==
  f = [n \in 0..m |-> IF n = 0 THEN <<>>
                      ELSE IF n \in ids THEN Append(f[n - 1], n) ELSE f[n - 1]]

LEMMA ListedStep ==
  ASSUME NEW ids, NEW m \in Nat, NEW f, ListedUpTo(f, ids, m)
  PROVE  /\ f[0] = <<>>
         /\ \A n \in Nat : n < m =>
              f[n + 1] = IF n + 1 \in ids THEN Append(f[n], n + 1) ELSE f[n]
<1>1. \A n \in 0..m : f[n] = IF n = 0 THEN <<>>
                             ELSE IF n \in ids THEN Append(f[n - 1], n) ELSE f[n - 1]
  BY Zenon DEF ListedUpTo
<1>2. ASSUME NEW n \in Nat, n < m
      PROVE  f[n + 1] = IF n + 1 \in ids THEN Append(f[n], n + 1) ELSE f[n]
  <2>1. n + 1 \in 0..m /\ n + 1 # 0 /\ (n + 1) - 1 = n
    BY <1>2
  <2>2. QED
    BY <1>1, <2>1
<1>3. 0 \in 0..m
  OBVIOUS
<1>4. QED
  BY <1>1, <1>2, <1>3

LEMMA ListingExists ==
  ASSUME NEW ids
  PROVE  \A m \in Nat : \E f : ListedUpTo(f, ids, m)
<1> DEFINE S == {m \in Nat : \E f : ListedUpTo(f, ids, m)}
<1>1. 0 \in S
  <2> DEFINE f == [n \in 0..0 |-> <<>>]
  <2>1. ListedUpTo(f, ids, 0)
    BY DEF ListedUpTo
  <2>2. QED
    BY <2>1
<1>2. ASSUME NEW m \in Nat, m \in S
      PROVE  m + 1 \in S
  <2>1. PICK f : ListedUpTo(f, ids, m)
    BY <1>2
  <2> DEFINE g == [n \in 0..(m + 1) |->
                     IF n = m + 1
                     THEN IF n \in ids THEN Append(f[m], n) ELSE f[m]
                     ELSE f[n]]
  <2>2. ASSUME NEW n \in 0..(m + 1)
        PROVE  g[n] = IF n = 0 THEN <<>>
                      ELSE IF n \in ids THEN Append(g[n - 1], n) ELSE g[n - 1]
    <3>1. \A k \in 0..m : g[k] = f[k]
      OBVIOUS
    <3>2. CASE n = m + 1
      <4>1. m \in 0..m /\ n # 0 /\ n - 1 = m
        BY <3>2
      <4>2. g[n] = IF n \in ids THEN Append(f[m], n) ELSE f[m]
        BY <3>2
      <4>3. QED
        BY <3>1, <4>1, <4>2
    <3>3. CASE n # m + 1
      <4>1. n \in 0..m /\ (n # 0 => n - 1 \in 0..m)
        BY <3>3
      <4>2. f[n] = IF n = 0 THEN <<>>
                   ELSE IF n \in ids THEN Append(f[n - 1], n) ELSE f[n - 1]
        BY <2>1, <4>1, Zenon DEF ListedUpTo
      <4>3. QED
        BY <3>1, <4>1, <4>2
    <3>4. QED
      BY <3>2, <3>3
  <2>3. g = [n \in 0..(m + 1) |-> g[n]]
    OBVIOUS
  <2> HIDE DEF g
  <2>4. ListedUpTo(g, ids, m + 1)
    BY <2>2, <2>3 DEF ListedUpTo
  <2>5. QED
    BY <2>4
<1> HIDE DEF S
<1>3. Nat \subseteq S
  BY <1>1, <1>2, SetInduction
<1>4. QED
  BY <1>3 DEF S

\* s lists the ids of S, each once and in their order.
Lists(s, S) ==
  /\ s \in Seq(Nat)
  /\ ToSet(s) = S
  /\ \A a, b \in DOMAIN s : a < b => s[a] < s[b]

LEMMA AppendLists ==
  ASSUME NEW s, NEW S, Lists(s, S), NEW n \in Nat, \A x \in S : x < n
  PROVE  Lists(Append(s, n), S \cup {n})
<1> DEFINE t == Append(s, n)
<1>1. /\ t \in Seq(Nat) /\ Len(t) = Len(s) + 1 /\ Len(s) \in Nat
      /\ DOMAIN t = 1..(Len(s) + 1) /\ DOMAIN s = 1..Len(s)
      /\ \A a \in 1..Len(s) : t[a] = s[a] /\ t[a] \in S
      /\ t[Len(s) + 1] = n
  BY DEF Lists, ToSet
<1>2. \A a \in DOMAIN t : a \in DOMAIN s \/ a = Len(s) + 1
  BY <1>1
<1> HIDE DEF t
<1>3. ToSet(t) = S \cup {n}
  BY <1>1, <1>2 DEF Lists, ToSet
<1>4. \A a, b \in DOMAIN t : a < b => t[a] < t[b]
  <2>1. ASSUME NEW a \in DOMAIN t, NEW b \in DOMAIN t, a < b
        PROVE  t[a] < t[b]
    <3>1. a \in 1..Len(s) /\ a \in Nat
      BY <1>1, <2>1
    <3>2. CASE b = Len(s) + 1
      BY <1>1, <3>1, <3>2
    <3>3. CASE b \in DOMAIN s
      BY <1>1, <2>1, <3>1, <3>3 DEF Lists
    <3>4. QED
      BY <1>2, <3>2, <3>3
  <2>2. QED
    BY <2>1
<1>5. QED
  BY <1>1, <1>3, <1>4 DEF Lists, t

LEMMA ListsBegin ==
  ASSUME NEW S, NEW s, NEW t, Lists(s, S), Lists(t, S)
  PROVE  Len(s) <= Len(t) /\ \A n \in 1..Len(s) : s[n] = t[n]
<1>1. /\ DOMAIN s = 1..Len(s) /\ DOMAIN t = 1..Len(t) /\ Len(s) \in Nat /\ Len(t) \in Nat
      /\ \A n \in 1..Len(s) : s[n] \in Nat /\ \E a \in 1..Len(t) : t[a] = s[n]
      /\ \A n \in 1..Len(t) : t[n] \in Nat /\ \E a \in 1..Len(s) : s[a] = t[n]
      /\ \A a, b \in 1..Len(s) : a < b => s[a] < s[b]
      /\ \A a, b \in 1..Len(t) : a < b => t[a] < t[b]
  <2>1. /\ s \in Seq(Nat) /\ t \in Seq(Nat)
        /\ {s[a] : a \in DOMAIN s} = {t[a] : a \in DOMAIN t}
        /\ \A a, b \in DOMAIN s : a < b => s[a] < s[b]
        /\ \A a, b \in DOMAIN t : a < b => t[a] < t[b]
    BY Zenon DEF Lists, ToSet
  <2>2. DOMAIN s = 1..Len(s) /\ DOMAIN t = 1..Len(t) /\ Len(s) \in Nat /\ Len(t) \in Nat
        /\ (\A n \in 1..Len(s) : s[n] \in Nat) /\ \A n \in 1..Len(t) : t[n] \in Nat
    BY <2>1
  <2>3. ASSUME NEW n \in 1..Len(s) PROVE \E a \in 1..Len(t) : t[a] = s[n]
    BY ONLY <2>1, <2>2
  <2>4. ASSUME NEW n \in 1..Len(t) PROVE \E a \in 1..Len(s) : s[a] = t[n]
    BY ONLY <2>1, <2>2
  <2>5. QED
    BY <2>1, <2>2, <2>3, <2>4
<1>0. /\ Len(s) \in Nat /\ Len(t) \in Nat
      /\ (\A n \in 1..Len(s) : s[n] \in Nat) /\ (\A n \in 1..Len(t) : t[n] \in Nat)
      /\ (\A a, b \in 1..Len(s) : a < b => s[a] < s[b])
      /\ (\A a, b \in 1..Len(t) : a < b => t[a] < t[b])
  BY <1>1
<1> DEFINE Same == {n \in Nat : \A m \in 1..n : m <= Len(s) => m <= Len(t) /\ s[m] = t[m]}
<1>2. ASSUME NEW n \in Nat, n \in Same, NEW m, m = n + 1, m <= Len(s)
      PROVE  m <= Len(t) /\ s[m] = t[m]
  <2>1. m \in 1..Len(s) /\ m \in Nat /\ \A k \in 1..n : k < m
    BY ONLY <1>0, <1>2, n \in Nat
  <2>2. \A k \in 1..n : k \in 1..Len(s) /\ k \in 1..Len(t) /\ s[k] = t[k]
    <3>1. ASSUME NEW k \in 1..n PROVE k \in 1..Len(s) /\ k <= Len(t) /\ s[k] = t[k]
      BY <1>0, <1>2
    <3>2. QED
      BY <1>0, <3>1
  <2>3. PICK a \in 1..Len(t) : t[a] = s[m]
    BY <1>1, <2>1
  <2>4. a >= m
    <3>1. ASSUME a \in 1..n PROVE FALSE
      <4>1. s[a] < s[m] /\ s[a] = s[m] /\ s[m] \in Nat
        BY ONLY <1>0, <2>1, <2>2, <2>3, <3>1
      <4>2. QED
        BY ONLY <4>1
    <3>2. QED
      BY ONLY <1>0, <1>2, <3>1, n \in Nat, a \in 1..Len(t)
  <2>5. m \in 1..Len(t) /\ t[m] <= s[m]
    <3>1. m \in 1..Len(t)
      BY ONLY <1>0, <2>1, <2>4, a \in 1..Len(t)
    <3>2. CASE a = m
      BY ONLY <1>0, <2>3, <3>1, <3>2
    <3>3. CASE a # m
      <4>1. m < a
        BY ONLY <1>0, <2>1, <2>4, <3>3, a \in 1..Len(t)
      <4>2. QED
        BY ONLY <1>0, <2>3, <3>1, <4>1, a \in 1..Len(t)
    <3>4. QED
      BY ONLY <3>1, <3>2, <3>3
  <2>6. PICK b \in 1..Len(s) : s[b] = t[m]
    BY <1>1, <2>5
  <2>7. b >= m
    <3>1. ASSUME b \in 1..n PROVE FALSE
      <4>1. b \in 1..Len(t) /\ b < m /\ t[b] = t[m]
        BY ONLY <2>1, <2>2, <2>6, <3>1
      <4>2. t[b] < t[m] /\ t[m] \in Nat
        BY ONLY <1>0, <2>5, <4>1
      <4>3. QED
        BY ONLY <4>1, <4>2
    <3>2. QED
      BY ONLY <1>0, <1>2, <3>1, n \in Nat, b \in 1..Len(s)
  <2>8. s[m] <= t[m]
    <3>1. CASE b = m
      BY ONLY <1>0, <2>1, <2>6, <3>1
    <3>2. CASE b # m
      <4>1. m < b
        BY ONLY <1>0, <2>1, <2>7, <3>2, b \in 1..Len(s)
      <4>2. s[m] < s[b] /\ s[m] \in Nat /\ s[b] \in Nat
        BY ONLY <1>0, <2>1, <4>1, b \in 1..Len(s)
      <4>3. QED
        BY ONLY <2>6, <4>2
    <3>3. QED
      BY ONLY <3>1, <3>2
  <2>9. QED
    BY ONLY <1>0, <2>1, <2>5, <2>8
<1>3. \A n \in Nat : n \in Same => n + 1 \in Same
  <2>1. ASSUME NEW n \in Nat, n \in Same, NEW m \in 1..(n + 1), m <= Len(s)
        PROVE  m <= Len(t) /\ s[m] = t[m]
    <3>1. CASE m = n + 1
      <4> HIDE DEF Same
      <4>1. QED
        BY ONLY <1>2, <2>1, <3>1, n \in Nat
    <3>2. CASE m # n + 1
      BY <2>1, <3>2
    <3>3. QED
      BY <3>1, <3>2
  <2>2. ASSUME NEW n \in Nat, n \in Same
        PROVE  n + 1 \in Same
    BY ONLY <2>1, <2>2, n \in Nat DEF Same
  <2>3. QED
    BY ONLY <2>2
<1>4. 0 \in Same
  OBVIOUS
<1> HIDE DEF Same
<1>5. Nat \subseteq Same
  BY <1>3, <1>4, SetInduction
<1>6. Len(s) \in Same
  BY <1>1, <1>5
<1>7. QED
  BY <1>1, <1>6 DEF Same

\* There is one list of a set.
LEMMA ListsUnique ==
  ASSUME NEW S, NEW s, NEW t, Lists(s, S), Lists(t, S)
  PROVE  s = t
<1>1. /\ Len(s) <= Len(t) /\ \A n \in 1..Len(s) : s[n] = t[n]
      /\ Len(t) <= Len(s)
  BY ListsBegin
<1>2. s \in Seq(Nat) /\ t \in Seq(Nat)
  BY DEF Lists
<1>3. Len(s) = Len(t)
  BY <1>1, <1>2
<1>4. QED
  BY <1>1, <1>2, <1>3, SeqEqual

\* Ascending lists the set it is given.
LEMMA AscendingLists ==
  ASSUME NEW m \in Nat, NEW ids \in SUBSET (1..m)
  PROVE  Lists(Ascending(ids, m), ids)
<1>0. m \in Nat /\ ids \subseteq 1..m
  OBVIOUS
<1>1. Ascending(ids, m) = (CHOOSE f : ListedUpTo(f, ids, m))[m]
  BY Zenon DEF Ascending, ListedUpTo
<1>2. PICK f : ListedUpTo(f, ids, m) /\ Ascending(ids, m) = f[m]
  BY <1>0, <1>1, ListingExists, Zenon
<1>3. /\ f[0] = <<>>
      /\ \A n \in Nat : n < m =>
           f[n + 1] = IF n + 1 \in ids THEN Append(f[n], n + 1) ELSE f[n]
  BY <1>2, ListedStep
<1> DEFINE S == {n \in Nat : n \in 0..m => Lists(f[n], ids \cap (1..n))}
<1>4. 0 \in S
  <2>1. ids \cap (1..0) = {}
    OBVIOUS
  <2>2. Lists(<<>>, {})
    BY DEF Lists, ToSet
  <2>3. QED
    BY <1>3, <2>1, <2>2
<1>5. ASSUME NEW n \in Nat, n \in S, n + 1 \in 0..m
      PROVE  Lists(f[n + 1], ids \cap (1..(n + 1)))
  <2>1. Lists(f[n], ids \cap (1..n))
    BY <1>0, <1>5
  <2>2. f[n + 1] = IF n + 1 \in ids THEN Append(f[n], n + 1) ELSE f[n]
    BY <1>0, <1>3, <1>5
  <2>3. CASE n + 1 \in ids
    <3>1. ids \cap (1..(n + 1)) = (ids \cap (1..n)) \cup {n + 1}
      BY <2>3
    <3>2. QED
      BY <2>1, <2>2, <2>3, <3>1, AppendLists
  <2>4. CASE n + 1 \notin ids
    <3>1. ids \cap (1..(n + 1)) = ids \cap (1..n)
      BY <2>4
    <3>2. QED
      BY <2>1, <2>2, <2>4, <3>1
  <2>5. QED
    BY <2>3, <2>4
<1>6. Nat \subseteq S
  <2>1. \A n \in Nat : n \in S => n + 1 \in S
    BY <1>5
  <2> HIDE DEF S
  <2>2. QED
    BY <1>4, <2>1, SetInduction
<1>7. ids \cap (1..m) = ids
  BY <1>0
<1>8. QED
  BY <1>0, <1>2, <1>6, <1>7

(***************************************************************************)
(* FlattenSeq: one sequence more, and more in the last sequence.           *)
(***************************************************************************)
\* The recursion of FlattenSeq, over the first m sequences.
FlatUpTo(f, ss, m) ==
  f = [i \in 1..m |-> IF i = 1 THEN ss[i] ELSE f[i - 1] \o ss[i]]

LEMMA FlatStep ==
  ASSUME NEW ss, NEW m \in Nat \ {0}, NEW f, FlatUpTo(f, ss, m)
  PROVE  /\ f[1] = ss[1]
         /\ \A i \in 1..m : i < m => f[i + 1] = f[i] \o ss[i + 1]
<1>1. \A i \in 1..m : f[i] = IF i = 1 THEN ss[i] ELSE f[i - 1] \o ss[i]
  BY Zenon DEF FlatUpTo
<1>2. ASSUME NEW i \in 1..m, i < m
      PROVE  f[i + 1] = f[i] \o ss[i + 1]
  <2>1. i + 1 \in 1..m /\ i + 1 # 1 /\ (i + 1) - 1 = i
    BY <1>2
  <2>2. QED
    BY <1>1, <2>1
<1>3. 1 \in 1..m
  OBVIOUS
<1>4. QED
  BY <1>1, <1>2, <1>3

LEMMA FlatteningExists ==
  ASSUME NEW ss
  PROVE  \A m \in Nat : \E f : FlatUpTo(f, ss, m)
<1> DEFINE S == {m \in Nat : \E f : FlatUpTo(f, ss, m)}
<1>1. 0 \in S
  <2> DEFINE f == [i \in 1..0 |-> ss]
  <2>1. FlatUpTo(f, ss, 0)
    BY DEF FlatUpTo
  <2>2. QED
    BY <2>1
<1>2. ASSUME NEW m \in Nat, m \in S
      PROVE  m + 1 \in S
  <2>1. PICK f : FlatUpTo(f, ss, m)
    BY <1>2
  <2> DEFINE g == [i \in 1..(m + 1) |->
                     IF i = m + 1
                     THEN IF i = 1 THEN ss[i] ELSE f[m] \o ss[i]
                     ELSE f[i]]
  <2>2. ASSUME NEW i \in 1..(m + 1)
        PROVE  g[i] = IF i = 1 THEN ss[i] ELSE g[i - 1] \o ss[i]
    <3>1. \A k \in 1..m : g[k] = f[k]
      OBVIOUS
    <3>2. CASE i = m + 1
      <4>1. i - 1 = m /\ (i # 1 => m \in 1..m)
        BY <3>2
      <4>2. g[i] = IF i = 1 THEN ss[i] ELSE f[m] \o ss[i]
        BY <3>2
      <4>3. QED
        BY <3>1, <4>1, <4>2
    <3>3. CASE i # m + 1
      <4>1. i \in 1..m /\ (i # 1 => i - 1 \in 1..m)
        BY <3>3
      <4>2. f[i] = IF i = 1 THEN ss[i] ELSE f[i - 1] \o ss[i]
        BY <2>1, <4>1, Zenon DEF FlatUpTo
      <4>3. QED
        BY <3>1, <4>1, <4>2
    <3>4. QED
      BY <3>2, <3>3
  <2>3. g = [i \in 1..(m + 1) |-> g[i]]
    OBVIOUS
  <2> HIDE DEF g
  <2>4. FlatUpTo(g, ss, m + 1)
    BY <2>2, <2>3 DEF FlatUpTo
  <2>5. QED
    BY <2>4
<1> HIDE DEF S
<1>3. Nat \subseteq S
  BY <1>1, <1>2, SetInduction
<1>4. QED
  BY <1>3 DEF S

LEMMA FlattenIs ==
  ASSUME NEW ss, Len(ss) \in Nat \ {0}
  PROVE  \E f : FlatUpTo(f, ss, Len(ss)) /\ FlattenSeq(ss) = f[Len(ss)]
<1> DEFINE m == Len(ss)
<1>1. FlattenSeq(ss) = (CHOOSE f : FlatUpTo(f, ss, m))[m]
  BY Zenon DEF FlattenSeq, FlatUpTo
<1>2. QED
  BY <1>1, FlatteningExists, Zenon

Begins(ss, tt) ==
  /\ Len(ss) <= Len(tt)
  /\ \A i \in 1..Len(ss) : tt[i] = ss[i]

\* The flattenings of two sequences that begin alike begin alike.
LEMMA FlatteningsAgree ==
  ASSUME NEW T, NEW ss \in Seq(Seq(T)), NEW tt \in Seq(Seq(T)),
         Len(ss) # 0, Begins(ss, tt),
         NEW f, FlatUpTo(f, ss, Len(ss)), NEW g, FlatUpTo(g, tt, Len(tt))
  PROVE  \A i \in 1..Len(ss) : f[i] \in Seq(T) /\ g[i] = f[i]
<1> DEFINE m == Len(ss)
           n == Len(tt)
<1>0. m \in Nat \ {0} /\ n \in Nat \ {0} /\ m <= n /\ \A i \in 1..m : tt[i] = ss[i]
  BY DEF Begins
<1> HIDE DEF m, n
<1>1. /\ f[1] = ss[1]
      /\ \A i \in 1..m : i < m => f[i + 1] = f[i] \o ss[i + 1]
  BY <1>0, FlatStep DEF m
<1>2. /\ g[1] = tt[1]
      /\ \A i \in 1..n : i < n => g[i + 1] = g[i] \o tt[i + 1]
  BY <1>0, FlatStep DEF n
<1>3. \A i \in 1..m : ss[i] \in Seq(T)
  BY DEF m
<1> DEFINE S == {k \in Nat : k + 1 \in 1..m => f[k + 1] \in Seq(T) /\ g[k + 1] = f[k + 1]}
<1>4. 0 \in S
  BY <1>0, <1>1, <1>2, <1>3
<1>5. ASSUME NEW k \in Nat, k \in S, k + 2 \in 1..m
      PROVE  f[k + 2] \in Seq(T) /\ g[k + 2] = f[k + 2]
  <2>1. k + 1 \in 1..m /\ k + 1 \in 1..n /\ k + 1 < m /\ k + 1 < n /\ (k + 1) + 1 = k + 2
    BY <1>0, <1>5
  <2>2. f[k + 2] = f[k + 1] \o ss[k + 2] /\ g[k + 2] = g[k + 1] \o tt[k + 2]
    BY <1>1, <1>2, <2>1
  <2>3. f[k + 1] \in Seq(T) /\ g[k + 1] = f[k + 1]
    BY <1>5, <2>1
  <2>4. ss[k + 2] \in Seq(T) /\ tt[k + 2] = ss[k + 2]
    BY <1>0, <1>3, <1>5
  <2>5. QED
    BY ONLY <2>2, <2>3, <2>4, ConcatProperties
<1>6. Nat \subseteq S
  <2>1. \A k \in Nat : k \in S => k + 1 \in S
    BY <1>5
  <2> HIDE DEF S
  <2>2. QED
    BY <1>4, <2>1, SetInduction
<1>7. ASSUME NEW i \in 1..m
      PROVE  f[i] \in Seq(T) /\ g[i] = f[i]
  <2>1. i - 1 \in Nat /\ (i - 1) + 1 = i
    BY <1>0
  <2>2. QED
    BY <1>6, <2>1
<1>8. QED
  BY <1>7 DEF m

LEMMA FlattenType ==
  ASSUME NEW T, NEW ss \in Seq(Seq(T))
  PROVE  FlattenSeq(ss) \in Seq(T)
<1>1. CASE Len(ss) = 0
  <2>1. FlattenSeq(ss) = <<>>
    BY <1>1, EmptySeq DEF FlattenSeq
  <2>2. QED
    BY <2>1
<1>2. CASE Len(ss) # 0
  <2>1. Len(ss) \in Nat \ {0}
    BY <1>2
  <2>2. PICK f : FlatUpTo(f, ss, Len(ss)) /\ FlattenSeq(ss) = f[Len(ss)]
    BY <2>1, FlattenIs
  <2>3. Begins(ss, ss) /\ Len(ss) # 0
    BY <1>2 DEF Begins
  <2>5. \A i \in 1..Len(ss) : f[i] \in Seq(T)
    BY <2>2, <2>3, FlatteningsAgree, Zenon
  <2>4. QED
    BY <2>1, <2>2, <2>5
<1>3. QED
  BY <1>1, <1>2

LEMMA FlattenMore ==
  ASSUME NEW T, NEW ss \in Seq(Seq(T)), NEW tt \in Seq(Seq(T)),
         Len(tt) = Len(ss) + 1, \A i \in 1..Len(ss) : tt[i] = ss[i]
  PROVE  FlattenSeq(tt) = FlattenSeq(ss) \o tt[Len(tt)]
<1> DEFINE n == Len(ss)
<1>0. n \in Nat /\ Len(tt) \in Nat \ {0} /\ tt[n + 1] \in Seq(T)
  OBVIOUS
<1>1. PICK g : FlatUpTo(g, tt, Len(tt)) /\ FlattenSeq(tt) = g[Len(tt)]
  BY <1>0, FlattenIs
<1>2. /\ g[1] = tt[1]
      /\ \A i \in 1..Len(tt) : i < Len(tt) => g[i + 1] = g[i] \o tt[i + 1]
  BY <1>0, <1>1, FlatStep
<1>3. CASE n = 0
  <2>1. FlattenSeq(ss) = <<>>
    BY <1>3, EmptySeq DEF FlattenSeq
  <2>2. <<>> \o tt[1] = tt[1]
    BY <1>0, <1>3, ConcatEmptySeq
  <2>3. QED
    BY <1>1, <1>2, <1>3, <2>1, <2>2
<1>4. CASE n # 0
  <2>1. n \in Nat \ {0} /\ n \in 1..n /\ n \in 1..Len(tt) /\ n < Len(tt)
    BY <1>0, <1>4
  <2>2. PICK f : FlatUpTo(f, ss, n) /\ FlattenSeq(ss) = f[n]
    BY <2>1, FlattenIs
  <2>3. g[n] = f[n]
    <3>1. Len(ss) # 0 /\ Begins(ss, tt)
      BY <1>4 DEF Begins
    <3>2. FlatUpTo(f, ss, Len(ss)) /\ FlatUpTo(g, tt, Len(tt))
      BY <1>1, <2>2
    <3> HIDE DEF n
    <3>5. ss \in Seq(Seq(T)) /\ tt \in Seq(Seq(T))
      OBVIOUS
    <3>3. \A i \in 1..Len(ss) : f[i] \in Seq(T) /\ g[i] = f[i]
      BY ONLY <3>1, <3>2, <3>5, FlatteningsAgree
    <3>4. QED
      BY <2>1, <3>3 DEF n
  <2>4. QED
    BY <1>1, <1>2, <2>1, <2>2, <2>3
<1>5. QED
  BY <1>3, <1>4

LEMMA FlattenLast ==
  ASSUME NEW T, NEW ss \in Seq(Seq(T)), NEW tt \in Seq(Seq(T)), NEW x \in Seq(T),
         Len(tt) = Len(ss), Len(ss) # 0,
         \A i \in 1..(Len(ss) - 1) : tt[i] = ss[i],
         tt[Len(ss)] = ss[Len(ss)] \o x
  PROVE  FlattenSeq(tt) = FlattenSeq(ss) \o x
<1> DEFINE n == Len(ss)
           front == SubSeq(ss, 1, n - 1)
<1>1. /\ n \in Nat \ {0} /\ front \in Seq(Seq(T)) /\ Len(front) = n - 1
      /\ \A i \in 1..(n - 1) : front[i] = ss[i]
      /\ ss[n] \in Seq(T)
  OBVIOUS
<1> HIDE DEF front
<1>0. Len(ss) = Len(front) + 1 /\ Len(tt) = Len(front) + 1 /\ n = Len(ss)
      /\ \A i \in 1..Len(front) : ss[i] = front[i] /\ tt[i] = front[i]
  <2>1. n \in Nat /\ Len(front) = n - 1 /\ n = Len(ss) /\ Len(tt) = n
    BY <1>1
  <2>2. \A i \in 1..(n - 1) : ss[i] = front[i] /\ tt[i] = front[i]
    BY <1>1, Zenon
  <2>3. (n - 1) + 1 = n
    BY ONLY <2>1
  <2> HIDE DEF n
  <2>4. QED
    BY ONLY <2>1, <2>2, <2>3
<1>2. FlattenSeq(ss) = FlattenSeq(front) \o ss[n]
  BY ONLY <1>0, <1>1, ss \in Seq(Seq(T)), FlattenMore
<1>3. FlattenSeq(tt) = FlattenSeq(front) \o tt[n]
  BY ONLY <1>0, <1>1, tt \in Seq(Seq(T)), FlattenMore
<1>4. FlattenSeq(front) \in Seq(T)
  BY <1>1, FlattenType
<1>5. (FlattenSeq(front) \o ss[n]) \o x = FlattenSeq(front) \o (ss[n] \o x)
  <2>1. ss[n] \in Seq(T)
    BY <1>1
  <2> DEFINE a == FlattenSeq(front)
             b == ss[n]
  <2>2. a \in Seq(T) /\ b \in Seq(T)
    BY <1>4, <2>1
  <2> HIDE DEF a, b
  <2>3. (a \o b) \o x = a \o (b \o x)
    BY ONLY <2>2, x \in Seq(T), ConcatAssociative
  <2>4. QED
    BY <2>3 DEF a, b
<1>6. QED
  BY <1>2, <1>3, <1>5, Zenon

LEMMA OneMore ==
  ASSUME NEW T, NEW s \in Seq(T), NEW v \in T
  PROVE  /\ Len(s \o <<v>>) = Len(s) + 1
         /\ (s \o <<v>>)[Len(s) + 1] = v
         /\ \A k \in 1..Len(s) : (s \o <<v>>)[k] = s[k]
OBVIOUS

(***************************************************************************)
(* FlattenSeq: where its elements come from.  The places of a sequence of  *)
(* sequences, flattened in the same way, say so of every element; every    *)
(* place occurs, and they occur in their order.                            *)
(***************************************************************************)
Places(ss) == [d \in 1..Len(ss) |-> [n \in 1..Len(ss[d]) |-> <<d, n>>]]

Before(p, q) == p[1] < q[1] \/ (p[1] = q[1] /\ p[2] < q[2])

\* at says of each element of flat in which sequence and where in it it is.
Located(at, flat, ss) ==
  /\ at \in Seq(Nat \X Nat) /\ Len(at) = Len(flat)
  /\ \A i \in 1..Len(at) : /\ at[i][1] \in 1..Len(ss)
                           /\ at[i][2] \in 1..Len(ss[at[i][1]])
                           /\ flat[i] = ss[at[i][1]][at[i][2]]
  /\ \A i, j \in 1..Len(at) : i < j => Before(at[i], at[j])
  /\ \A d \in 1..Len(ss) : \A n \in 1..Len(ss[d]) :
       \E i \in 1..Len(at) : at[i] = <<d, n>>

\* Each place occurs once.
LEMMA LocatedOnce ==
  ASSUME NEW at, NEW flat, NEW ss, Located(at, flat, ss),
         NEW i \in 1..Len(at), NEW j \in 1..Len(at), at[i] = at[j]
  PROVE  i = j
<1>1. at[i][1] \in Nat /\ at[i][2] \in Nat
  BY DEF Located
<1>2. ~ Before(at[i], at[j]) /\ ~ Before(at[j], at[i])
  BY <1>1 DEF Before
<1>3. ~ (i < j) /\ ~ (j < i)
  BY <1>2 DEF Located
<1>4. QED
  BY <1>3

LEMMA LocatedMore ==
  ASSUME NEW T, NEW ss \in Seq(Seq(T)), NEW tt \in Seq(Seq(T)),
         Len(tt) = Len(ss) + 1, \A d \in 1..Len(ss) : tt[d] = ss[d],
         NEW at, NEW flat \in Seq(T), Located(at, flat, ss),
         NEW row \in Seq(T), row = tt[Len(tt)],
         NEW more \in Seq(Nat \X Nat), Len(more) = Len(row),
         \A n \in 1..Len(row) : more[n] = <<Len(tt), n>>
  PROVE  Located(at \o more, flat \o row, tt)
<1> DEFINE k == Len(at)
           all == at \o more
           list == flat \o row
<1>1. /\ at \in Seq(Nat \X Nat) /\ k \in Nat /\ Len(flat) = k
      /\ Len(row) \in Nat /\ Len(ss) \in Nat /\ Len(tt) \in Nat
  BY DEF Located
<1>2. /\ all \in Seq(Nat \X Nat) /\ Len(all) = k + Len(row) /\ Len(list) = k + Len(row)
      /\ \A i \in 1..k : all[i] = at[i] /\ list[i] = flat[i]
      /\ \A i \in 1..Len(row) : all[k + i] = more[i] /\ list[k + i] = row[i]
  <2>1. /\ all \in Seq(Nat \X Nat) /\ Len(all) = Len(at) + Len(more)
        /\ \A i \in 1..(Len(at) + Len(more)) :
             all[i] = IF i <= Len(at) THEN at[i] ELSE more[i - Len(at)]
    BY ONLY <1>1, more \in Seq(Nat \X Nat), ConcatProperties
  <2>2. /\ Len(list) = Len(flat) + Len(row)
        /\ \A i \in 1..(Len(flat) + Len(row)) :
             list[i] = IF i <= Len(flat) THEN flat[i] ELSE row[i - Len(flat)]
    BY ONLY <1>1, flat \in Seq(T), row \in Seq(T), ConcatProperties
  <2> HIDE DEF all, list
  <2>3. \A i \in 1..Len(row) : k + i \in 1..(k + Len(row)) /\ ~ (k + i <= k) /\ (k + i) - k = i
    BY ONLY <1>1
  <2>4. \A i \in 1..k : i \in 1..(k + Len(row)) /\ i <= k
    BY ONLY <1>1
  <2>5. Len(more) = Len(row)
    OBVIOUS
  <2>6. ASSUME NEW i \in 1..k
        PROVE  all[i] = at[i] /\ list[i] = flat[i]
    BY ONLY <1>1, <2>1, <2>2, <2>4, <2>5
  <2>7. ASSUME NEW i \in 1..Len(row)
        PROVE  all[k + i] = more[i] /\ list[k + i] = row[i]
    BY ONLY <1>1, <2>1, <2>2, <2>3, <2>5
  <2>8. Len(all) = k + Len(row) /\ Len(list) = k + Len(row)
    BY ONLY <1>1, <2>1, <2>2, <2>5
  <2>9. QED
    BY <2>1, <2>6, <2>7, <2>8
<1> HIDE DEF all, list, k
<1>3. \A i \in 1..Len(all) : i \in 1..k \/ \E n \in 1..Len(row) : i = k + n
  <2>1. ASSUME NEW i \in 1..Len(all), i \notin 1..k
        PROVE  i - k \in 1..Len(row) /\ i = k + (i - k)
    BY ONLY <1>1, <1>2, <2>1
  <2>2. QED
    BY <2>1
<1>4. ASSUME NEW i \in 1..k
      PROVE  /\ all[i][1] \in 1..Len(ss)
             /\ all[i][2] \in 1..Len(ss[all[i][1]])
             /\ list[i] = ss[all[i][1]][all[i][2]]
             /\ tt[all[i][1]] = ss[all[i][1]] /\ all[i][1] # Len(tt)
  <2>1. all[i] = at[i] /\ list[i] = flat[i]
    BY <1>2
  <2>2. /\ at[i][1] \in 1..Len(ss) /\ at[i][2] \in 1..Len(ss[at[i][1]])
        /\ flat[i] = ss[at[i][1]][at[i][2]]
    BY DEF Located, k
  <2>3. tt[at[i][1]] = ss[at[i][1]]
    BY <2>2
  <2>4. at[i][1] # Len(tt)
    BY <1>1, <2>2
  <2>5. QED
    BY ONLY <2>1, <2>2, <2>3, <2>4
<1>5. ASSUME NEW n \in 1..Len(row)
      PROVE  all[k + n] = <<Len(tt), n>> /\ list[k + n] = tt[Len(tt)][n]
  BY <1>2
<1>6. ASSUME NEW i \in 1..Len(all)
      PROVE  /\ all[i][1] \in 1..Len(tt)
             /\ all[i][2] \in 1..Len(tt[all[i][1]])
             /\ list[i] = tt[all[i][1]][all[i][2]]
  <2>1. CASE i \in 1..k
    <3>1. \A d \in 1..Len(ss) : d \in 1..Len(tt)
      BY <1>1
    <3>2. QED
      BY ONLY <1>4, <2>1, <3>1
  <2>2. ASSUME NEW n \in 1..Len(row), i = k + n
        PROVE  /\ all[i][1] \in 1..Len(tt)
               /\ all[i][2] \in 1..Len(tt[all[i][1]])
               /\ list[i] = tt[all[i][1]][all[i][2]]
    <3>1. all[i] = <<Len(tt), n>> /\ list[i] = tt[Len(tt)][n]
      BY <1>5, <2>2
    <3>2. all[i][1] = Len(tt) /\ all[i][2] = n /\ Len(tt) \in 1..Len(tt)
      BY <1>1, <3>1
    <3>3. QED
      BY <3>1, <3>2
  <2>3. QED
    BY <1>3, <2>1, <2>2
<1>7. ASSUME NEW i \in 1..Len(all), NEW j \in 1..Len(all), i < j
      PROVE  Before(all[i], all[j])
  <2>1. CASE i \in 1..k /\ j \in 1..k
    BY <1>2, <1>7, <2>1 DEF Located, k
  <2>2. ASSUME i \in 1..k, NEW n \in 1..Len(row), j = k + n
        PROVE  Before(all[i], all[j])
    <3>1. all[j] = <<Len(tt), n>> /\ all[i][1] \in 1..Len(ss)
      BY <1>4, <1>5, <2>2
    <3> DEFINE d == all[i][1]
    <3>4. d \in 1..Len(ss) /\ Len(ss) \in Nat /\ Len(tt) = Len(ss) + 1
      BY ONLY <1>1, <3>1, Len(tt) = Len(ss) + 1
    <3> HIDE DEF d
    <3>5. d < Len(tt)
      BY ONLY <3>4
    <3>6. all[j][1] = Len(tt)
      BY ONLY <3>1
    <3>2. all[j][1] = Len(tt) /\ all[i][1] < Len(tt)
      BY <3>5, <3>6 DEF d
    <3>3. QED
      BY ONLY <3>2 DEF Before
  <2>3. ASSUME NEW n \in 1..Len(row), NEW o \in 1..Len(row), i = k + n, j = k + o
        PROVE  Before(all[i], all[j])
    <3>1. all[i] = <<Len(tt), n>> /\ all[j] = <<Len(tt), o>>
      BY <1>5, <2>3
    <3>2. n < o
      BY <1>1, <1>7, <2>3
    <3>3. QED
      BY <3>1, <3>2 DEF Before
  <2>4. ASSUME NEW n \in 1..Len(row), i = k + n, j \in 1..k PROVE FALSE
    BY <1>1, <1>7, <2>4
  <2>5. QED
    BY <1>3, <2>1, <2>2, <2>3, <2>4
<1>8. ASSUME NEW d \in 1..Len(tt), NEW n \in 1..Len(tt[d])
      PROVE  \E i \in 1..Len(all) : all[i] = <<d, n>>
  <2>1. CASE d = Len(tt)
    <3>1. n \in 1..Len(row) /\ k + n \in 1..Len(all)
      BY <1>1, <1>2, <2>1
    <3>2. QED
      BY <1>5, <2>1, <3>1
  <2>2. CASE d # Len(tt)
    <3>1. d \in 1..Len(ss) /\ n \in 1..Len(ss[d])
      BY <1>1, <2>2
    <3>2. PICK i \in 1..k : at[i] = <<d, n>>
      BY <3>1 DEF Located, k
    <3>3. i \in 1..Len(all)
      BY ONLY <1>1, <1>2, i \in 1..k
    <3>4. all[i] = <<d, n>>
      BY ONLY <1>2, <3>2, i \in 1..k
    <3>5. QED
      BY <3>3, <3>4
  <2>3. QED
    BY <2>1, <2>2
<1>9. QED
  BY <1>2, <1>6, <1>7, <1>8 DEF Located, all, list

LEMMA FlattenPlaces ==
  ASSUME NEW T, NEW ss \in Seq(Seq(T))
  PROVE  Located(FlattenSeq(Places(ss)), FlattenSeq(ss), ss)
<1> DEFINE Firsts(m) == [d \in 1..m |-> ss[d]]
           Listed(m) ==
             /\ Firsts(m) \in Seq(Seq(T)) /\ Len(Firsts(m)) = m
             /\ Places(Firsts(m)) \in Seq(Seq(Nat \X Nat)) /\ Len(Places(Firsts(m))) = m
             /\ \A d \in 1..m : /\ Firsts(m)[d] = ss[d]
                                /\ Places(Firsts(m))[d] = [n \in 1..Len(ss[d]) |-> <<d, n>>]
           S == {m \in Nat : m <= Len(ss) =>
                   Located(FlattenSeq(Places(Firsts(m))), FlattenSeq(Firsts(m)), Firsts(m))}
<1>0. ASSUME NEW m \in Nat, m <= Len(ss)
      PROVE  Listed(m)
  <2>1. \A d \in 1..m : d \in 1..Len(ss) /\ d \in Nat /\ ss[d] \in Seq(T) /\ Len(ss[d]) \in Nat
    BY <1>0
  <2>2. Firsts(m) \in Seq(Seq(T)) /\ Len(Firsts(m)) = m /\ \A d \in 1..m : Firsts(m)[d] = ss[d]
    BY <2>1
  <2> HIDE DEF Firsts
  <2>3. ASSUME NEW d \in 1..m
        PROVE  [n \in 1..Len(ss[d]) |-> <<d, n>>] \in Seq(Nat \X Nat)
    BY <2>1
  <2>4. Places(Firsts(m)) = [d \in 1..m |-> [n \in 1..Len(ss[d]) |-> <<d, n>>]]
    BY <2>2 DEF Places
  <2>5. Places(Firsts(m)) \in Seq(Seq(Nat \X Nat)) /\ Len(Places(Firsts(m))) = m
        /\ \A d \in 1..m : Places(Firsts(m))[d] = [n \in 1..Len(ss[d]) |-> <<d, n>>]
    BY <1>0, <2>3, <2>4
  <2>6. QED
    BY <2>2, <2>5
<1> HIDE DEF Firsts, Listed
<1>1. 0 \in S
  <2>1. Firsts(0) = <<>> /\ Places(Firsts(0)) = <<>>
    <3>1. 0 <= Len(ss)
      OBVIOUS
    <3>2. Len(Firsts(0)) = 0 /\ Len(Places(Firsts(0))) = 0
          /\ Firsts(0) \in Seq(Seq(T)) /\ Places(Firsts(0)) \in Seq(Seq(Nat \X Nat))
      BY <1>0, <3>1 DEF Listed
    <3>3. QED
      BY <3>2, EmptySeq
  <2>2. FlattenSeq(<<>>) = <<>>
    BY EmptySeq DEF FlattenSeq
  <2>3. Located(<<>>, <<>>, <<>>)
    BY DEF Located
  <2>4. QED
    BY <2>1, <2>2, <2>3
<1>2. ASSUME NEW m \in Nat, m \in S
      PROVE  m + 1 \in S
  <2> SUFFICES ASSUME m + 1 <= Len(ss)
               PROVE  Located(FlattenSeq(Places(Firsts(m + 1))), FlattenSeq(Firsts(m + 1)), Firsts(m + 1))
    OBVIOUS
  <2> DEFINE a == Firsts(m)
             b == Firsts(m + 1)
             p == Places(Firsts(m))
             q == Places(Firsts(m + 1))
             row == ss[m + 1]
             more == [n \in 1..Len(ss[m + 1]) |-> <<m + 1, n>>]
  <2>1. /\ a \in Seq(Seq(T)) /\ Len(a) = m /\ p \in Seq(Seq(Nat \X Nat)) /\ Len(p) = m
        /\ \A d \in 1..m : a[d] = ss[d] /\ p[d] = [n \in 1..Len(ss[d]) |-> <<d, n>>]
        /\ m <= Len(ss)
    <3>1. m <= Len(ss)
      BY <1>2
    <3>2. Listed(m)
      BY <1>0, <3>1
    <3>3. QED
      BY <3>1, <3>2, Zenon DEF Listed
  <2>2. /\ b \in Seq(Seq(T)) /\ Len(b) = m + 1 /\ q \in Seq(Seq(Nat \X Nat)) /\ Len(q) = m + 1
        /\ \A d \in 1..(m + 1) : b[d] = ss[d] /\ q[d] = [n \in 1..Len(ss[d]) |-> <<d, n>>]
    <3>1. m + 1 \in Nat
      OBVIOUS
    <3>2. Listed(m + 1)
      BY <1>0, <3>1
    <3>3. QED
      BY <3>2, Zenon DEF Listed
  <2>3. row \in Seq(T) /\ b[m + 1] = row /\ q[m + 1] = more /\ more \in Seq(Nat \X Nat)
        /\ Len(more) = Len(row) /\ \A n \in 1..Len(row) : more[n] = <<m + 1, n>>
    <3>1. m + 1 \in 1..Len(ss) /\ m + 1 \in 1..(m + 1) /\ m + 1 \in Nat
      OBVIOUS
    <3>2. row \in Seq(T) /\ Len(row) \in Nat
      BY <3>1
    <3>3. b[m + 1] = row /\ q[m + 1] = more
      BY <2>2, <3>1, Zenon
    <3>4. /\ more \in Seq(Nat \X Nat) /\ Len(more) = Len(row)
          /\ \A n \in 1..Len(row) : more[n] = <<m + 1, n>>
      <4> DEFINE l == m + 1
      <4>1. more = [n \in 1..Len(row) |-> <<l, n>>] /\ l \in Nat
        BY <3>1
      <4> HIDE DEF l, more, row
      <4>2. QED
        BY <3>2, <4>1 DEF l
    <3>5. QED
      BY <3>2, <3>3, <3>4
  <2>4. Located(FlattenSeq(p), FlattenSeq(a), a)
    BY <1>2, <2>1
  <2> HIDE DEF a, b, p, q, row, more
  <2>11. /\ Len(b) = Len(a) + 1 /\ \A d \in 1..Len(a) : b[d] = a[d]
         /\ Len(q) = Len(p) + 1 /\ \A d \in 1..Len(p) : q[d] = p[d]
    <3>1. \A d \in 1..m : d \in 1..(m + 1)
      OBVIOUS
    <3>2. QED
      BY ONLY <2>1, <2>2, <3>1
  <2>5. FlattenSeq(b) = FlattenSeq(a) \o row
    <3>1. FlattenSeq(b) = FlattenSeq(a) \o b[Len(b)]
      <4>1. a \in Seq(Seq(T)) /\ b \in Seq(Seq(T))
        BY <2>1, <2>2
      <4>2. QED
        BY ONLY <2>11, <4>1, FlattenMore
    <3>2. QED
      BY <2>2, <2>3, <3>1
  <2>6. FlattenSeq(q) = FlattenSeq(p) \o more
    <3>1. FlattenSeq(q) = FlattenSeq(p) \o q[Len(q)]
      <4>1. p \in Seq(Seq(Nat \X Nat)) /\ q \in Seq(Seq(Nat \X Nat))
        BY <2>1, <2>2
      <4>2. QED
        BY ONLY <2>11, <4>1, FlattenMore
    <3>2. QED
      BY <2>2, <2>3, <3>1
  <2>7. FlattenSeq(a) \in Seq(T)
    BY <2>1, FlattenType
  <2> DEFINE flat == FlattenSeq(a)
             at == FlattenSeq(p)
  <2>8. flat \in Seq(T) /\ Located(at, flat, a)
    BY <2>4, <2>7
  <2> HIDE DEF flat, at
  <2>9. Located(at \o more, flat \o row, b)
    <3>1. Len(b) = Len(a) + 1 /\ \A d \in 1..Len(a) : b[d] = a[d]
      BY <2>11
    <3>2. row = b[Len(b)] /\ \A n \in 1..Len(row) : more[n] = <<Len(b), n>>
      BY <2>2, <2>3
    <3>3. a \in Seq(Seq(T)) /\ b \in Seq(Seq(T)) /\ row \in Seq(T)
          /\ more \in Seq(Nat \X Nat) /\ Len(more) = Len(row)
      BY <2>1, <2>2, <2>3
    <3>4. QED
      BY ONLY <2>8, <3>1, <3>2, <3>3, LocatedMore
  <2>10. QED
    BY <2>5, <2>6, <2>9 DEF a, b, p, q, flat, at
<1> HIDE DEF S
<1>3. Nat \subseteq S
  BY <1>1, <1>2, SetInduction
<1>4. Firsts(Len(ss)) = ss
  BY DEF Firsts
<1>5. QED
  <2>1. Len(ss) \in Nat /\ Len(ss) <= Len(ss)
    OBVIOUS
  <2>2. QED
    BY <1>3, <1>4, <2>1 DEF S

(***************************************************************************)
(* FlattenSeq of sequences of the same length.                             *)
(***************************************************************************)
\* flat has the elements of ss, size of each, in their order.
Packed(flat, ss, size) ==
  /\ Len(flat) = size * Len(ss)
  /\ \A k \in 1..Len(ss) : \A b \in 1..size : flat[size * (k - 1) + b] = ss[k][b]

\* The element b of the sequence k lies inside n sequences of that length.
LEMMA Inside ==
  ASSUME NEW size \in Nat, NEW n \in Nat, NEW k \in 1..n, NEW b \in 1..size
  PROVE  /\ size * (k - 1) \in Nat
         /\ size * (k - 1) + b <= size * n
<1>1. n - k \in Nat /\ size * (n - k) \in Nat /\ k - 1 \in Nat /\ size * (k - 1) \in Nat
  OBVIOUS
<1>2. size * n = size * (n - k) + size * (k - 1) + size
  OBVIOUS
<1>3. QED
  BY <1>1, <1>2

LEMMA PackedMore ==
  ASSUME NEW T, NEW size \in Nat, NEW ss \in Seq(Seq(T)), NEW tt \in Seq(Seq(T)),
         Len(tt) = Len(ss) + 1, \A i \in 1..Len(ss) : tt[i] = ss[i],
         Len(tt[Len(tt)]) = size, Packed(FlattenSeq(ss), ss, size)
  PROVE  Packed(FlattenSeq(tt), tt, size)
<1> DEFINE n == Len(ss)
           last == tt[Len(tt)]
           flat == FlattenSeq(ss)
           more == FlattenSeq(tt)
<1>1. n \in Nat /\ Len(tt) = n + 1 /\ last \in Seq(T) /\ Len(last) = size
  OBVIOUS
<1>2. flat \in Seq(T) /\ Len(flat) = size * n
      /\ \A k \in 1..n : \A b \in 1..size : flat[size * (k - 1) + b] = ss[k][b]
  BY FlattenType DEF Packed
<1>3. more = flat \o last
  BY FlattenMore
<1> HIDE DEF flat, more
<1>4. size * n \in Nat /\ size * (n + 1) = size * n + size
  BY <1>1
<1>5. Len(more) = size * Len(tt)
  <2> HIDE DEF last
  <2>a. flat \in Seq(T) /\ last \in Seq(T)
    BY <1>1, <1>2
  <2>b. more = flat \o last
    BY <1>3 DEF last
  <2>1. Len(more) = Len(flat) + Len(last)
    BY ONLY <2>a, <2>b
  <2>2. QED
    BY <1>1, <1>2, <1>4, <2>1
<1>6. ASSUME NEW k \in 1..(n + 1), NEW b \in 1..size
      PROVE  more[size * (k - 1) + b] = tt[k][b]
  <2>1. CASE k = n + 1
    <3>1. size * (k - 1) = Len(flat) /\ tt[k] = last
      BY <1>1, <1>2, <2>1
    <3>2. (flat \o last)[Len(flat) + b] = last[b]
      BY <1>1, <1>2
    <3>3. QED
      BY <1>3, <3>1, <3>2
  <2>2. CASE k # n + 1
    <3>1. k \in 1..n
      BY <1>1, <2>2
    <3> DEFINE i == size * (k - 1) + b
    <3>2. i \in 1..Len(flat)
      <4>1. size * (k - 1) \in Nat /\ size * (k - 1) + b <= size * n
        BY <1>1, <3>1, Inside
      <4> DEFINE u == size * (k - 1)
                 v == size * n
      <4>2. u \in Nat /\ v \in Nat /\ u + b <= v
        BY <1>4, <4>1
      <4> HIDE DEF u, v
      <4>3. u + b \in 1..v
        BY <4>2
      <4>4. QED
        BY <1>2, <4>3 DEF u, v
    <3>3. flat[i] = ss[k][b] /\ tt[k] = ss[k]
      BY <1>2, <3>1
    <3> HIDE DEF i
    <3>4. (flat \o last)[i] = flat[i]
      BY <1>1, <1>2, <3>2
    <3>5. QED
      BY <1>3, <3>3, <3>4 DEF i
  <2>3. QED
    BY <2>1, <2>2
<1>7. QED
  BY <1>1, <1>5, <1>6 DEF Packed, more

LEMMA FlattenPacked ==
  ASSUME NEW T, NEW size \in Nat, NEW ss \in Seq(Seq(T)), \A k \in 1..Len(ss) : Len(ss[k]) = size
  PROVE  Packed(FlattenSeq(ss), ss, size)
<1> DEFINE Firsts(m) == [k \in 1..m |-> ss[k]]
           S == {m \in Nat : m <= Len(ss) => Packed(FlattenSeq(Firsts(m)), Firsts(m), size)}
<1>1. \A m \in 0..Len(ss) : Firsts(m) \in Seq(Seq(T)) /\ Len(Firsts(m)) = m
  OBVIOUS
<1>2. 0 \in S
  <2>1. Firsts(0) = <<>>
    OBVIOUS
  <2>2. FlattenSeq(<<>>) = <<>>
    BY EmptySeq DEF FlattenSeq
  <2>3. Packed(<<>>, <<>>, size)
    BY DEF Packed
  <2>4. QED
    BY <2>1, <2>2, <2>3
<1>3. ASSUME NEW m \in Nat, m \in S
      PROVE  m + 1 \in S
  <2>1. SUFFICES ASSUME m + 1 <= Len(ss)
                 PROVE  Packed(FlattenSeq(Firsts(m + 1)), Firsts(m + 1), size)
    OBVIOUS
  <2> DEFINE s == Firsts(m)
             t == Firsts(m + 1)
  <2>2. /\ m \in 0..Len(ss) /\ m + 1 \in 0..Len(ss) /\ m <= Len(ss)
        /\ m + 1 \in 1..Len(ss)
    BY <2>1
  <2>3. s \in Seq(Seq(T)) /\ Len(s) = m /\ t \in Seq(Seq(T)) /\ Len(t) = m + 1
    BY <1>1, <2>2
  <2>4. (\A i \in 1..m : t[i] = s[i]) /\ t[m + 1] = ss[m + 1]
    OBVIOUS
  <2>5. Packed(FlattenSeq(s), s, size)
    BY <1>3, <2>2
  <2>6. Len(t[m + 1]) = size
    BY <2>2, <2>4
  <2> HIDE DEF s, t
  <2>7. Packed(FlattenSeq(t), t, size)
    BY <2>3, <2>4, <2>5, <2>6, PackedMore
  <2>8. QED
    BY <2>7 DEF t
<1> HIDE DEF S
<1>4. Nat \subseteq S
  BY <1>2, <1>3, SetInduction
<1>5. Packed(FlattenSeq(Firsts(Len(ss))), Firsts(Len(ss)), size)
  <2>1. Len(ss) \in Nat /\ Len(ss) <= Len(ss)
    OBVIOUS
  <2>2. QED
    BY <1>4, <2>1 DEF S
<1>6. Firsts(Len(ss)) = ss
  OBVIOUS
<1>7. QED
  BY <1>5, <1>6

(***************************************************************************)
(* Iterate: the rounds of a loop.                                          *)
(***************************************************************************)
\* The recursion of Iterate, over the first m rounds.
IteratedUpTo(f, step, s, m) == f = [k \in 0..m |-> IF k = 0 THEN s ELSE step[f[k - 1]]]

LEMMA IteratedStep ==
  ASSUME NEW step, NEW s, NEW m \in Nat, NEW f, IteratedUpTo(f, step, s, m)
  PROVE  /\ f[0] = s
         /\ \A k \in Nat : k < m => f[k + 1] = step[f[k]]
<1>1. \A k \in 0..m : f[k] = IF k = 0 THEN s ELSE step[f[k - 1]]
  BY Zenon DEF IteratedUpTo
<1>2. ASSUME NEW k \in Nat, k < m
      PROVE  f[k + 1] = step[f[k]]
  <2>1. k + 1 \in 0..m /\ k + 1 # 0 /\ (k + 1) - 1 = k
    BY <1>2
  <2>2. QED
    BY <1>1, <2>1
<1>3. 0 \in 0..m
  OBVIOUS
<1>4. QED
  BY <1>1, <1>2, <1>3

LEMMA IterationExists ==
  ASSUME NEW step, NEW s
  PROVE  \A m \in Nat : \E f : IteratedUpTo(f, step, s, m)
<1> DEFINE S == {m \in Nat : \E f : IteratedUpTo(f, step, s, m)}
<1>1. 0 \in S
  <2> DEFINE f == [k \in 0..0 |-> s]
  <2>1. IteratedUpTo(f, step, s, 0)
    BY DEF IteratedUpTo
  <2>2. QED
    BY <2>1
<1>2. ASSUME NEW m \in Nat, m \in S
      PROVE  m + 1 \in S
  <2>1. PICK f : IteratedUpTo(f, step, s, m)
    BY <1>2
  <2> DEFINE g == [k \in 0..(m + 1) |-> IF k = m + 1 THEN step[f[m]] ELSE f[k]]
  <2>2. ASSUME NEW k \in 0..(m + 1)
        PROVE  g[k] = IF k = 0 THEN s ELSE step[g[k - 1]]
    <3>1. \A n \in 0..m : g[n] = f[n]
      OBVIOUS
    <3>2. CASE k = m + 1
      <4>1. m \in 0..m /\ k # 0 /\ k - 1 = m
        BY <3>2
      <4>2. QED
        BY <3>1, <3>2, <4>1
    <3>3. CASE k # m + 1
      <4>1. k \in 0..m /\ (k # 0 => k - 1 \in 0..m)
        BY <3>3
      <4>2. f[k] = IF k = 0 THEN s ELSE step[f[k - 1]]
        BY <2>1, <4>1, Zenon DEF IteratedUpTo
      <4>3. QED
        BY <3>1, <4>1, <4>2
    <3>4. QED
      BY <3>2, <3>3
  <2>3. g = [k \in 0..(m + 1) |-> g[k]]
    OBVIOUS
  <2> HIDE DEF g
  <2>4. IteratedUpTo(g, step, s, m + 1)
    BY <2>2, <2>3 DEF IteratedUpTo
  <2>5. QED
    BY <2>4
<1> HIDE DEF S
<1>3. Nat \subseteq S
  BY <1>1, <1>2, SetInduction
<1>4. QED
  BY <1>3 DEF S

LEMMA IterationsAgree ==
  ASSUME NEW step, NEW s, NEW m \in Nat, NEW n \in Nat,
         NEW f, IteratedUpTo(f, step, s, m), NEW g, IteratedUpTo(g, step, s, n)
  PROVE  \A k \in Nat : k <= m /\ k <= n => f[k] = g[k]
<1> DEFINE S == {k \in Nat : k <= m /\ k <= n => f[k] = g[k]}
<1>1. f[0] = s /\ \A k \in Nat : k < m => f[k + 1] = step[f[k]]
  BY ONLY m \in Nat, IteratedUpTo(f, step, s, m), IteratedStep
<1>2. g[0] = s /\ \A k \in Nat : k < n => g[k + 1] = step[g[k]]
  BY ONLY n \in Nat, IteratedUpTo(g, step, s, n), IteratedStep
<1>3. 0 \in S
  BY <1>1, <1>2
<1>4. ASSUME NEW k \in Nat, k \in S
      PROVE  k + 1 \in S
  <2>1. SUFFICES ASSUME k + 1 <= m, k + 1 <= n
                 PROVE  f[k + 1] = g[k + 1]
    OBVIOUS
  <2>2. k < m /\ k < n /\ f[k] = g[k]
    BY <1>4, <2>1
  <2>3. QED
    BY <1>1, <1>2, <2>2
<1> HIDE DEF S
<1>5. Nat \subseteq S
  BY <1>3, <1>4, SetInduction
<1>6. QED
  BY <1>5 DEF S

\* A loop of no round, and one more round of any loop.
LEMMA IterateRounds ==
  ASSUME NEW step, NEW s
  PROVE  /\ Iterate(step, s, 0) = s
         /\ \A n \in Nat : Iterate(step, s, n + 1) = step[Iterate(step, s, n)]
<1>1. ASSUME NEW n \in Nat
      PROVE  \E f : IteratedUpTo(f, step, s, n) /\ Iterate(step, s, n) = f[n]
  <2>1. Iterate(step, s, n) = (CHOOSE f : IteratedUpTo(f, step, s, n))[n]
    BY Zenon DEF Iterate, IteratedUpTo
  <2>2. QED
    BY <2>1, IterationExists, Zenon
<1>2. Iterate(step, s, 0) = s
  <2>1. PICK f : IteratedUpTo(f, step, s, 0) /\ Iterate(step, s, 0) = f[0]
    BY <1>1
  <2>2. QED
    BY ONLY <2>1, IteratedStep, 0 \in Nat
<1>3. ASSUME NEW n \in Nat
      PROVE  Iterate(step, s, n + 1) = step[Iterate(step, s, n)]
  <2>1. PICK f : IteratedUpTo(f, step, s, n) /\ Iterate(step, s, n) = f[n]
    BY <1>1
  <2>2. PICK g : IteratedUpTo(g, step, s, n + 1) /\ Iterate(step, s, n + 1) = g[n + 1]
    BY <1>1
  <2>3. n + 1 \in Nat /\ n < n + 1 /\ n <= n /\ n <= n + 1
    OBVIOUS
  <2>4. f[n] = g[n]
    BY ONLY <2>1, <2>2, <2>3, IterationsAgree, n \in Nat
  <2>5. g[n + 1] = step[g[n]]
    BY ONLY <2>2, <2>3, IteratedStep, n \in Nat
  <2>6. QED
    BY <2>1, <2>2, <2>4, <2>5
<1>4. QED
  BY <1>2, <1>3

LEMMA IterateType ==
  ASSUME NEW S, NEW step, \A x \in S : step[x] \in S, NEW s \in S
  PROVE  \A n \in Nat : Iterate(step, s, n) \in S
<1> DEFINE R == {n \in Nat : Iterate(step, s, n) \in S}
<1>1. 0 \in R
  BY IterateRounds
<1>2. ASSUME NEW n \in Nat, n \in R
      PROVE  n + 1 \in R
  <2>1. Iterate(step, s, n + 1) = step[Iterate(step, s, n)]
    BY IterateRounds
  <2>2. QED
    BY <1>2, <2>1
<1> HIDE DEF R
<1>3. Nat \subseteq R
  BY <1>1, <1>2, SetInduction
<1>4. QED
  BY <1>3 DEF R

\* A loop that has come to rest stays there.
LEMMA IterateRests ==
  ASSUME NEW step, NEW s, NEW n \in Nat,
         step[Iterate(step, s, n)] = Iterate(step, s, n)
  PROVE  \A m \in Nat : n <= m => Iterate(step, s, m) = Iterate(step, s, n)
<1> DEFINE R == {m \in Nat : Iterate(step, s, n + m) = Iterate(step, s, n)}
<1>1. 0 \in R
  OBVIOUS
<1>2. ASSUME NEW m \in Nat, m \in R
      PROVE  m + 1 \in R
  <2>1. n + m \in Nat /\ n + (m + 1) = (n + m) + 1
    OBVIOUS
  <2>2. Iterate(step, s, (n + m) + 1) = step[Iterate(step, s, n + m)]
    BY <2>1, IterateRounds
  <2>3. QED
    BY <1>2, <2>1, <2>2
<1> HIDE DEF R
<1>3. Nat \subseteq R
  BY <1>1, <1>2, SetInduction
<1>4. ASSUME NEW m \in Nat, n <= m
      PROVE  Iterate(step, s, m) = Iterate(step, s, n)
  <2>1. m - n \in Nat /\ n + (m - n) = m
    BY <1>4
  <2>2. m - n \in R
    BY <1>3, <2>1
  <2>3. QED
    BY <2>1, <2>2 DEF R
<1>5. QED
  BY <1>4

\* Two loops whose rounds agree until the first has come to D stay together.
LEMMA IterateAgrees ==
  ASSUME NEW S, NEW D, NEW u, NEW v, NEW s \in S,
         \A x \in S : u[x] \in S,
         \A x \in S : x \in D => u[x] \in D,
         \A x \in S : u[x] \in D \/ v[x] = u[x]
  PROVE  \A k \in Nat : Iterate(u, s, k) \in D \/ Iterate(v, s, k) = Iterate(u, s, k)
<1> DEFINE x(k) == Iterate(u, s, k)
           y(k) == Iterate(v, s, k)
           R == {k \in Nat : x(k) \in D \/ y(k) = x(k)}
<1>1. /\ x(0) = s /\ \A k \in Nat : x(k + 1) = u[x(k)]
      /\ y(0) = s /\ \A k \in Nat : y(k + 1) = v[y(k)]
  BY ONLY IterateRounds
<1>2. \A k \in Nat : x(k) \in S
  BY IterateType
<1> HIDE DEF x, y
<1>3. 0 \in R
  BY <1>1
<1>4. ASSUME NEW k \in Nat, k \in R
      PROVE  k + 1 \in R
  <2>1. x(k) \in S /\ x(k + 1) = u[x(k)] /\ y(k + 1) = v[y(k)] /\ (x(k) \in D \/ y(k) = x(k))
    BY <1>1, <1>2, <1>4
  <2>2. x(k + 1) \in D \/ y(k + 1) = x(k + 1)
    BY <2>1
  <2>3. QED
    BY <2>2
<1> HIDE DEF R
<1>5. Nat \subseteq R
  BY <1>3, <1>4, SetInduction
<1>6. QED
  BY <1>5 DEF R, x, y
=============================================================================
