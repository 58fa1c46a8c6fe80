------------------------------ MODULE CodecProofs ------------------------------
(***************************************************************************)
(* What decode and encode do to a request of any length: which requests    *)
(* are refused, that no value of an accepted one is lost, moved or taken   *)
(* for that of another attribute, and that encode undoes decode; and that  *)
(* the tokens are found again in the octets they are spelled out in.       *)
(*                                                                         *)
(* Decode is a recursive function.  A request grows by one token at a      *)
(* time, so it is enough to know what one token more does.  The octets are *)
(* read by a loop as well, which comes from place to place.                *)
(***************************************************************************)
EXTENDS Framing, ListsProofs

(***************************************************************************)
(* Decode: one token more.                                                 *)
(***************************************************************************)
\* The recursion of Decode, over the first m tokens.
DecodedUpTo(f, w, m) ==
  f = [k \in 0..m |-> IF k = 0 THEN Empty ELSE ReadToken(f[k - 1], w[k])]

LEMMA DecodeStep ==
  ASSUME NEW w, NEW m \in Nat, NEW f, DecodedUpTo(f, w, m)
  PROVE  /\ f[0] = Empty
         /\ \A k \in Nat : k < m => f[k + 1] = ReadToken(f[k], w[k + 1])
<1>1. \A k \in 0..m : f[k] = IF k = 0 THEN Empty ELSE ReadToken(f[k - 1], w[k])
  BY Zenon DEF DecodedUpTo
<1>2. ASSUME NEW k \in Nat, k < m
      PROVE  f[k + 1] = ReadToken(f[k], w[k + 1])
  <2>1. k + 1 \in 0..m /\ k + 1 # 0 /\ (k + 1) - 1 = k
    BY <1>2
  <2>2. QED
    BY <1>1, <2>1
<1>3. 0 \in 0..m
  OBVIOUS
<1>4. QED
  BY <1>1, <1>2, <1>3

LEMMA DecodingExists ==
  ASSUME NEW w
  PROVE  \A m \in Nat : \E f : DecodedUpTo(f, w, m)
<1> DEFINE S == {m \in Nat : \E f : DecodedUpTo(f, w, m)}
<1>1. 0 \in S
  <2> DEFINE f == [k \in 0..0 |-> Empty]
  <2>1. DecodedUpTo(f, w, 0)
    BY DEF DecodedUpTo
  <2>2. QED
    BY <2>1
<1>2. ASSUME NEW m \in Nat, m \in S
      PROVE  m + 1 \in S
  <2>1. PICK f : DecodedUpTo(f, w, m)
    BY <1>2
  <2> DEFINE g == [k \in 0..(m + 1) |-> IF k = m + 1 THEN ReadToken(f[m], w[k]) ELSE f[k]]
  <2>2. ASSUME NEW k \in 0..(m + 1)
        PROVE  g[k] = IF k = 0 THEN Empty ELSE ReadToken(g[k - 1], w[k])
    <3>1. \A n \in 0..m : g[n] = f[n]
      OBVIOUS
    <3>2. CASE k = m + 1
      <4>1. m \in 0..m /\ k # 0 /\ k - 1 = m
        BY <3>2
      <4>2. QED
        BY <3>1, <3>2, <4>1
    <3>3. CASE k # m + 1
      <4>1. k \in 0..m /\ (k # 0 => k - 1 \in 0..m)
        BY <3>3
      <4>2. f[k] = IF k = 0 THEN Empty ELSE ReadToken(f[k - 1], w[k])
        BY <2>1, <4>1, Zenon DEF DecodedUpTo
      <4>3. QED
        BY <3>1, <4>1, <4>2
    <3>4. QED
      BY <3>2, <3>3
  <2>3. g = [k \in 0..(m + 1) |-> g[k]]
    OBVIOUS
  <2> HIDE DEF g
  <2>4. DecodedUpTo(g, w, m + 1)
    BY <2>2, <2>3 DEF DecodedUpTo
  <2>5. QED
    BY <2>4
<1> HIDE DEF S
<1>3. Nat \subseteq S
  BY <1>1, <1>2, SetInduction
<1>4. QED
  BY <1>3 DEF S

LEMMA DecodeIs ==
  ASSUME NEW w, Len(w) \in Nat
  PROVE  \E f : /\ Decode(w) = f[Len(w)]
                /\ f[0] = Empty
                /\ \A k \in Nat : k < Len(w) => f[k + 1] = ReadToken(f[k], w[k + 1])
<1> DEFINE m == Len(w)
<1>1. Decode(w) = (CHOOSE f : DecodedUpTo(f, w, m))[m]
  BY Zenon DEF Decode, DecodedUpTo
<1>2. PICK f : DecodedUpTo(f, w, m) /\ Decode(w) = f[m]
  BY <1>1, DecodingExists, Zenon
<1> HIDE DEF m
<1>3. m \in Nat
  BY DEF m
<1>4. /\ f[0] = Empty
      /\ \A k \in Nat : k < m => f[k + 1] = ReadToken(f[k], w[k + 1])
  <2>1. DecodedUpTo(f, w, m)
    BY <1>2
  <2>2. QED
    BY ONLY <1>3, <2>1, DecodeStep
<1>5. QED
  BY <1>2, <1>4 DEF m

LEMMA DecodeNothing == Decode(<<>>) = Empty
<1>1. Len(<<>>) = 0
  OBVIOUS
<1>2. QED
  BY <1>1, DecodeIs

LEMMA DecodeMore ==
  ASSUME NEW T, NEW w \in Seq(T), NEW t \in T
  PROVE  Decode(Append(w, t)) = ReadToken(Decode(w), t)
<1> DEFINE v == Append(w, t)
           n == Len(w)
<1>1. /\ n \in Nat /\ Len(v) = n + 1 /\ v[n + 1] = t
      /\ \A k \in 1..n : v[k] = w[k]
  OBVIOUS
<1> HIDE DEF v
<1>2. PICK f : /\ Decode(w) = f[n]
               /\ f[0] = Empty
               /\ \A k \in Nat : k < n => f[k + 1] = ReadToken(f[k], w[k + 1])
  BY <1>1, DecodeIs
<1>3. PICK g : /\ Decode(v) = g[n + 1]
               /\ g[0] = Empty
               /\ \A k \in Nat : k < n + 1 => g[k + 1] = ReadToken(g[k], v[k + 1])
  BY <1>1, DecodeIs
<1> HIDE DEF n
<1> DEFINE S == {k \in Nat : k \in 0..n => g[k] = f[k]}
<1>4. 0 \in S
  BY <1>2, <1>3
<1>5. ASSUME NEW k \in Nat, k \in S, k + 1 \in 0..n
      PROVE  g[k + 1] = f[k + 1]
  <2>1. k < n /\ k < n + 1 /\ k \in 0..n /\ k + 1 \in 1..n
    BY <1>1, <1>5
  <2>2. g[k] = f[k] /\ v[k + 1] = w[k + 1]
    BY <1>1, <1>5, <2>1
  <2>3. QED
    BY <1>2, <1>3, <2>1, <2>2
<1>6. Nat \subseteq S
  <2>1. ASSUME NEW k \in Nat, k \in S
        PROVE  k + 1 \in S
    <3>1. k + 1 \in 0..n => g[k + 1] = f[k + 1]
      BY <1>5, <2>1
    <3>2. QED
      BY ONLY <3>1, k \in Nat
  <2> HIDE DEF S
  <2>2. QED
    BY ONLY <1>4, <2>1, SetInduction
<1>7. g[n] = f[n]
  BY <1>1, <1>6
<1>8. Decode(v) = ReadToken(g[n], v[n + 1])
  BY <1>1, <1>3
<1>9. QED
  BY <1>1, <1>2, <1>7, <1>8 DEF v

(***************************************************************************)
(* Types: what the client sends, what decode makes of it, what encode      *)
(* makes of that.                                                          *)
(***************************************************************************)
ValueTokens == {Value(n, s.tag, s.raw) : n \in Names \cup {NoName}, s \in Samples}
Tokens      == {Group(tag) : tag \in GroupTags} \cup ValueTokens \cup {End, Cut, Byte(3)}

TypedValues == {Typed(t) : t \in ValueTokens}
Attributes  == [name: Names, values: Seq(TypedValues) \ {<<>>}]
Groups      == [tag: GroupTags, attributes: Seq(Attributes)]

\* A token as encode writes it.
Written(t) == IF t.type = "value"
              THEN Value(t.name, t.tag, EncodeValue(t.tag, Typed(t).value)) ELSE t
WrittenTokens == {Written(t) : t \in Tokens}

EncodeGroups(groups) == FlattenSeq([k \in DOMAIN groups |-> EncodeGroup(groups[k])])

LEMMA TokenTypes ==
  ASSUME NEW t \in Tokens
  PROVE  /\ t.type \in {"group", "value", "end", "cut", "byte"}
         /\ t.type = "group" => t.tag \in GroupTags /\ t = Group(t.tag)
         /\ t.type = "value" => /\ t \in ValueTokens
                                /\ t = Value(t.name, t.tag, t.raw)
                                /\ t.name \in Names <=> t.name # NoName
         /\ t.type = "end" => t = End
         /\ t.type = "cut" => t = Cut
         /\ t.type = "byte" => t = Byte(3)
BY CodecAssumption DEF Tokens, ValueTokens, Group, Value, End, Cut, Byte, NoName

\* A value keeps its tag, and is written as its typed value says.
LEMMA WrittenValue ==
  ASSUME NEW v \in TypedValues, NEW n \in Names \cup {NoName}
  PROVE  Value(n, v.tag, EncodeValue(v.tag, v.value)) \in WrittenTokens
<1>1. PICK t \in ValueTokens : v = Typed(t)
  BY DEF TypedValues
<1>2. PICK s \in Samples : t.tag = s.tag /\ t.raw = s.raw
  BY <1>1 DEF ValueTokens, Value
<1> DEFINE u == Value(n, s.tag, s.raw)
<1>3. u \in Tokens
  BY DEF Tokens, ValueTokens
<1>4. u.type = "value" /\ u.name = n /\ u.tag = t.tag /\ u.raw = t.raw
  BY <1>2 DEF Value
<1>5. Typed(u) = v /\ v.tag = t.tag
  BY <1>1, <1>4 DEF Typed
<1>6. Written(u) = Value(n, v.tag, EncodeValue(v.tag, v.value))
  BY <1>4, <1>5 DEF Written
<1>7. QED
  BY <1>3, <1>6 DEF WrittenTokens

LEMMA EncodeAttributeType ==
  ASSUME NEW a \in Attributes
  PROVE  /\ EncodeAttribute(a) \in Seq(WrittenTokens)
         /\ Len(EncodeAttribute(a)) = Len(a.values)
<1>1. a.name \in Names /\ a.values \in Seq(TypedValues)
  BY DEF Attributes
<1>2. \A k \in 1..Len(a.values) :
        Value(IF k = 1 THEN a.name ELSE NoName, a.values[k].tag,
              EncodeValue(a.values[k].tag, a.values[k].value)) \in WrittenTokens
  <2>1. \A k \in 1..Len(a.values) : a.values[k] \in TypedValues
    BY <1>1
  <2>2. QED
    BY <1>1, <2>1, WrittenValue
<1>3. DOMAIN a.values = 1..Len(a.values) /\ Len(a.values) \in Nat
  BY <1>1
<1>4. QED
  BY <1>2, <1>3 DEF EncodeAttribute

EncodedAttributes(g) == [k \in DOMAIN g.attributes |-> EncodeAttribute(g.attributes[k])]
ReadValues(g) == [k \in DOMAIN g.attributes |-> g.attributes[k].values]

LEMMA GroupTypes ==
  ASSUME NEW g \in Groups
  PROVE  /\ g.attributes \in Seq(Attributes)
         /\ EncodedAttributes(g) \in Seq(Seq(WrittenTokens))
         /\ Len(EncodedAttributes(g)) = Len(g.attributes)
         /\ ReadValues(g) \in Seq(Seq(TypedValues))
         /\ Len(ReadValues(g)) = Len(g.attributes)
         /\ EncodeGroup(g) = <<Group(g.tag)>> \o FlattenSeq(EncodedAttributes(g))
         /\ FlattenSeq(EncodedAttributes(g)) \in Seq(WrittenTokens)
         /\ <<Group(g.tag)>> \in Seq(WrittenTokens)
         /\ EncodeGroup(g) \in Seq(WrittenTokens)
         /\ ValuesOf(g) = FlattenSeq(ReadValues(g))
         /\ ValuesOf(g) \in Seq(TypedValues)
<1>1. /\ g.attributes \in Seq(Attributes) /\ g.tag \in GroupTags
      /\ DOMAIN g.attributes = 1..Len(g.attributes) /\ Len(g.attributes) \in Nat
  BY DEF Groups
<1>2. \A k \in 1..Len(g.attributes) :
        /\ EncodeAttribute(g.attributes[k]) \in Seq(WrittenTokens)
        /\ g.attributes[k].values \in Seq(TypedValues)
  <2>1. \A k \in 1..Len(g.attributes) : g.attributes[k] \in Attributes
    BY <1>1
  <2>2. QED
    BY <2>1, EncodeAttributeType DEF Attributes
<1>3. /\ EncodedAttributes(g) \in Seq(Seq(WrittenTokens))
      /\ Len(EncodedAttributes(g)) = Len(g.attributes)
  BY <1>1, <1>2 DEF EncodedAttributes
<1>4. /\ ReadValues(g) \in Seq(Seq(TypedValues))
      /\ Len(ReadValues(g)) = Len(g.attributes)
  BY <1>1, <1>2 DEF ReadValues
<1>5. <<Group(g.tag)>> \in Seq(WrittenTokens)
  <2>1. Group(g.tag) \in Tokens /\ Written(Group(g.tag)) = Group(g.tag)
    BY <1>1 DEF Tokens, Written, Group
  <2>2. Group(g.tag) \in WrittenTokens
    BY <2>1 DEF WrittenTokens
  <2>3. QED
    BY <2>2
<1>6. EncodeGroup(g) = <<Group(g.tag)>> \o FlattenSeq(EncodedAttributes(g))
  BY DEF EncodeGroup, EncodedAttributes
<1>7. FlattenSeq(EncodedAttributes(g)) \in Seq(WrittenTokens)
  BY <1>3, FlattenType
<1>8. EncodeGroup(g) \in Seq(WrittenTokens)
  BY <1>5, <1>6, <1>7, ConcatProperties
<1>9. ValuesOf(g) = FlattenSeq(ReadValues(g)) /\ ValuesOf(g) \in Seq(TypedValues)
  BY <1>4, FlattenType DEF ValuesOf, ReadValues
<1>10. QED
  BY <1>1, <1>3, <1>4, <1>5, <1>6, <1>7, <1>8, <1>9

LEMMA GroupsTypes ==
  ASSUME NEW gs \in Seq(Groups)
  PROVE  /\ [k \in DOMAIN gs |-> EncodeGroup(gs[k])] \in Seq(Seq(WrittenTokens))
         /\ Len([k \in DOMAIN gs |-> EncodeGroup(gs[k])]) = Len(gs)
         /\ [k \in DOMAIN gs |-> ValuesOf(gs[k])] \in Seq(Seq(TypedValues))
         /\ Len([k \in DOMAIN gs |-> ValuesOf(gs[k])]) = Len(gs)
         /\ EncodeGroups(gs) \in Seq(WrittenTokens)
         /\ AllValues(gs) \in Seq(TypedValues)
<1>1. DOMAIN gs = 1..Len(gs) /\ Len(gs) \in Nat /\ \A k \in 1..Len(gs) : gs[k] \in Groups
  OBVIOUS
<1>2. \A k \in 1..Len(gs) : /\ EncodeGroup(gs[k]) \in Seq(WrittenTokens)
                             /\ ValuesOf(gs[k]) \in Seq(TypedValues)
  BY <1>1, GroupTypes
<1>3. /\ [k \in DOMAIN gs |-> EncodeGroup(gs[k])] \in Seq(Seq(WrittenTokens))
      /\ Len([k \in DOMAIN gs |-> EncodeGroup(gs[k])]) = Len(gs)
  BY <1>1, <1>2
<1>4. /\ [k \in DOMAIN gs |-> ValuesOf(gs[k])] \in Seq(Seq(TypedValues))
      /\ Len([k \in DOMAIN gs |-> ValuesOf(gs[k])]) = Len(gs)
  BY <1>1, <1>2
<1>5. EncodeGroups(gs) \in Seq(WrittenTokens)
  BY <1>3, FlattenType DEF EncodeGroups
<1>6. AllValues(gs) \in Seq(TypedValues)
  BY <1>4, FlattenType DEF AllValues
<1>7. QED
  BY <1>3, <1>4, <1>5, <1>6

(***************************************************************************)
(* What one token more does to the groups: to what encode writes of them,  *)
(* and to their values.                                                    *)
(***************************************************************************)
LEMMA GroupAdded ==
  ASSUME NEW gs \in Seq(Groups), NEW tag \in GroupTags
  PROVE  LET more == Append(gs, [tag |-> tag, attributes |-> <<>>]) IN
           /\ more \in Seq(Groups)
           /\ more[Len(more)].attributes = <<>>
           /\ EncodeGroups(more) = EncodeGroups(gs) \o <<Group(tag)>>
           /\ AllValues(more) = AllValues(gs)
<1> DEFINE g == [tag |-> tag, attributes |-> <<>>]
           more == Append(gs, g)
<1>1. g \in Groups /\ g.attributes = <<>> /\ g.tag = tag
  BY DEF Groups
<1>2. EncodeGroup(g) = <<Group(tag)>> /\ ValuesOf(g) = <<>>
  <2>1. FlattenSeq(EncodedAttributes(g)) = <<>> /\ FlattenSeq(ReadValues(g)) = <<>>
    BY <1>1, GroupTypes, EmptySeq DEF FlattenSeq
  <2>2. <<Group(tag)>> \o <<>> = <<Group(tag)>>
    OBVIOUS
  <2>3. QED
    BY <1>1, <2>1, <2>2, GroupTypes
<1> HIDE DEF g
<1>3. /\ more \in Seq(Groups) /\ Len(more) = Len(gs) + 1 /\ Len(gs) \in Nat
      /\ DOMAIN gs = 1..Len(gs) /\ DOMAIN more = 1..(Len(gs) + 1)
      /\ \A k \in 1..Len(gs) : more[k] = gs[k]
      /\ more[Len(gs) + 1] = g
  BY <1>1
<1> HIDE DEF more
<1>4. EncodeGroups(more) = EncodeGroups(gs) \o EncodeGroup(g)
  <2> DEFINE ss == [k \in DOMAIN gs |-> EncodeGroup(gs[k])]
             tt == [k \in DOMAIN more |-> EncodeGroup(more[k])]
  <2>1. /\ ss \in Seq(Seq(WrittenTokens)) /\ tt \in Seq(Seq(WrittenTokens))
        /\ Len(ss) = Len(gs) /\ Len(tt) = Len(gs) + 1
    BY <1>3, GroupsTypes
  <2>2. /\ \A k \in 1..Len(gs) : tt[k] = ss[k]
        /\ tt[Len(gs) + 1] = EncodeGroup(g)
    BY <1>3
  <2>3. EncodeGroups(gs) = FlattenSeq(ss) /\ EncodeGroups(more) = FlattenSeq(tt)
    BY DEF EncodeGroups
  <2> HIDE DEF ss, tt
  <2>4. QED
    BY <2>1, <2>2, <2>3, FlattenMore
<1>5. AllValues(more) = AllValues(gs) \o ValuesOf(g)
  <2> DEFINE ss == [k \in DOMAIN gs |-> ValuesOf(gs[k])]
             tt == [k \in DOMAIN more |-> ValuesOf(more[k])]
  <2>1. /\ ss \in Seq(Seq(TypedValues)) /\ tt \in Seq(Seq(TypedValues))
        /\ Len(ss) = Len(gs) /\ Len(tt) = Len(gs) + 1
    BY <1>3, GroupsTypes
  <2>2. /\ \A k \in 1..Len(gs) : tt[k] = ss[k]
        /\ tt[Len(gs) + 1] = ValuesOf(g)
    BY <1>3
  <2>3. AllValues(gs) = FlattenSeq(ss) /\ AllValues(more) = FlattenSeq(tt)
    BY DEF AllValues
  <2> HIDE DEF ss, tt
  <2>4. QED
    BY <2>1, <2>2, <2>3, FlattenMore
<1>6. AllValues(gs) \o <<>> = AllValues(gs)
  BY GroupsTypes, ConcatEmptySeq
<1>7. QED
  BY <1>1, <1>2, <1>3, <1>4, <1>5, <1>6 DEF more, g

LEMMA LastChanged ==
  ASSUME NEW gs \in Seq(Groups), gs # <<>>, NEW h \in Groups,
         NEW x \in Seq(WrittenTokens), NEW y \in Seq(TypedValues),
         EncodeGroup(h) = EncodeGroup(gs[Len(gs)]) \o x,
         ValuesOf(h) = ValuesOf(gs[Len(gs)]) \o y
  PROVE  LET changed == [gs EXCEPT ![Len(gs)] = h] IN
           /\ changed \in Seq(Groups)
           /\ Len(changed) = Len(gs) /\ changed[Len(gs)] = h
           /\ EncodeGroups(changed) = EncodeGroups(gs) \o x
           /\ AllValues(changed) = AllValues(gs) \o y
<1> DEFINE n == Len(gs)
           changed == [gs EXCEPT ![n] = h]
<1>1. /\ changed \in Seq(Groups) /\ Len(changed) = n /\ n \in Nat \ {0}
      /\ DOMAIN gs = 1..n /\ DOMAIN changed = 1..n
      /\ \A k \in 1..(n - 1) : changed[k] = gs[k]
      /\ changed[n] = h
  OBVIOUS
<1> HIDE DEF changed
<1>2. EncodeGroups(changed) = EncodeGroups(gs) \o x
  <2> DEFINE ss == [k \in DOMAIN gs |-> EncodeGroup(gs[k])]
             tt == [k \in DOMAIN changed |-> EncodeGroup(changed[k])]
  <2>1. /\ ss \in Seq(Seq(WrittenTokens)) /\ tt \in Seq(Seq(WrittenTokens))
        /\ Len(ss) = n /\ Len(tt) = n
    BY <1>1, GroupsTypes
  <2>2. \A k \in 1..(n - 1) : tt[k] = ss[k]
    BY <1>1
  <2>6. ss[n] = EncodeGroup(gs[n]) /\ tt[n] = EncodeGroup(h)
    <3>1. n \in DOMAIN gs /\ n \in DOMAIN changed /\ changed[n] = h
      BY <1>1
    <3> HIDE DEF n
    <3>2. QED
      BY <3>1
  <2>3. EncodeGroups(gs) = FlattenSeq(ss) /\ EncodeGroups(changed) = FlattenSeq(tt)
    BY DEF EncodeGroups
  <2>7. /\ Len(tt) = Len(ss) /\ Len(ss) # 0
        /\ \A k \in 1..(Len(ss) - 1) : tt[k] = ss[k]
    BY <1>1, <2>1, <2>2
  <2> HIDE DEF ss, tt
  <2>8. tt[Len(ss)] = ss[Len(ss)] \o x
    BY <2>1, <2>6
  <2>9. ss \in Seq(Seq(WrittenTokens)) /\ tt \in Seq(Seq(WrittenTokens)) /\ x \in Seq(WrittenTokens)
    BY <2>1
  <2>10. FlattenSeq(tt) = FlattenSeq(ss) \o x
    BY ONLY <2>7, <2>8, <2>9, FlattenLast
  <2>11. QED
    BY <2>3, <2>10
<1>3. AllValues(changed) = AllValues(gs) \o y
  <2> DEFINE ss == [k \in DOMAIN gs |-> ValuesOf(gs[k])]
             tt == [k \in DOMAIN changed |-> ValuesOf(changed[k])]
  <2>1. /\ ss \in Seq(Seq(TypedValues)) /\ tt \in Seq(Seq(TypedValues))
        /\ Len(ss) = n /\ Len(tt) = n
    BY <1>1, GroupsTypes
  <2>2. \A k \in 1..(n - 1) : tt[k] = ss[k]
    BY <1>1
  <2>6. ss[n] = ValuesOf(gs[n]) /\ tt[n] = ValuesOf(h)
    <3>1. n \in DOMAIN gs /\ n \in DOMAIN changed /\ changed[n] = h
      BY <1>1
    <3> HIDE DEF n
    <3>2. QED
      BY <3>1
  <2>3. AllValues(gs) = FlattenSeq(ss) /\ AllValues(changed) = FlattenSeq(tt)
    BY DEF AllValues
  <2>7. /\ Len(tt) = Len(ss) /\ Len(ss) # 0
        /\ \A k \in 1..(Len(ss) - 1) : tt[k] = ss[k]
    BY <1>1, <2>1, <2>2
  <2> HIDE DEF ss, tt
  <2>8. tt[Len(ss)] = ss[Len(ss)] \o y
    BY <2>1, <2>6
  <2>9. ss \in Seq(Seq(TypedValues)) /\ tt \in Seq(Seq(TypedValues)) /\ y \in Seq(TypedValues)
    BY <2>1
  <2>10. FlattenSeq(tt) = FlattenSeq(ss) \o y
    BY ONLY <2>7, <2>8, <2>9, FlattenLast
  <2>11. QED
    BY <2>3, <2>10
<1>4. QED
  BY <1>1, <1>2, <1>3 DEF changed

LEMMA AttributeAdded ==
  ASSUME NEW g \in Groups, NEW n \in Names, NEW v \in TypedValues
  PROVE  LET more == [g EXCEPT !.attributes = Append(@, [name |-> n, values |-> <<v>>])] IN
           /\ more \in Groups
           /\ more.attributes # <<>>
           /\ EncodeGroup(more) =
                EncodeGroup(g) \o <<Value(n, v.tag, EncodeValue(v.tag, v.value))>>
           /\ ValuesOf(more) = ValuesOf(g) \o <<v>>
<1> DEFINE a == [name |-> n, values |-> <<v>>]
           more == [g EXCEPT !.attributes = Append(@, a)]
           x == <<Value(n, v.tag, EncodeValue(v.tag, v.value))>>
<1>1. a \in Attributes /\ a.values = <<v>>
  BY DEF Attributes
<1>2. EncodeAttribute(a) = x
  BY DEF EncodeAttribute
<1>3. x \in Seq(WrittenTokens) /\ <<v>> \in Seq(TypedValues)
  BY WrittenValue
<1> HIDE DEF a, x
<1>4. /\ more \in Groups /\ more.tag = g.tag
      /\ more.attributes = Append(g.attributes, a)
  BY <1>1 DEF Groups
<1>5. /\ more.attributes # <<>>
      /\ Len(more.attributes) = Len(g.attributes) + 1 /\ Len(g.attributes) \in Nat
      /\ DOMAIN g.attributes = 1..Len(g.attributes)
      /\ DOMAIN more.attributes = 1..(Len(g.attributes) + 1)
      /\ \A k \in 1..Len(g.attributes) : more.attributes[k] = g.attributes[k]
      /\ more.attributes[Len(g.attributes) + 1] = a
  BY <1>1, <1>4, GroupTypes
<1> HIDE DEF more
<1>6. FlattenSeq(EncodedAttributes(more)) = FlattenSeq(EncodedAttributes(g)) \o x
  <2> DEFINE ss == EncodedAttributes(g)
             tt == EncodedAttributes(more)
  <2>1. /\ ss \in Seq(Seq(WrittenTokens)) /\ tt \in Seq(Seq(WrittenTokens))
        /\ Len(ss) = Len(g.attributes) /\ Len(tt) = Len(g.attributes) + 1
    BY <1>4, <1>5, GroupTypes
  <2>2. /\ \A k \in 1..Len(g.attributes) : tt[k] = ss[k]
        /\ tt[Len(g.attributes) + 1] = x
    BY <1>2, <1>5 DEF EncodedAttributes
  <2> HIDE DEF ss, tt
  <2>3. FlattenSeq(tt) = FlattenSeq(ss) \o x
    BY <2>1, <2>2, FlattenMore
  <2>4. QED
    BY <2>3 DEF ss, tt
<1>7. FlattenSeq(ReadValues(more)) = FlattenSeq(ReadValues(g)) \o <<v>>
  <2> DEFINE ss == ReadValues(g)
             tt == ReadValues(more)
  <2>1. /\ ss \in Seq(Seq(TypedValues)) /\ tt \in Seq(Seq(TypedValues))
        /\ Len(ss) = Len(g.attributes) /\ Len(tt) = Len(g.attributes) + 1
    BY <1>4, <1>5, GroupTypes
  <2>2. /\ \A k \in 1..Len(g.attributes) : tt[k] = ss[k]
        /\ tt[Len(g.attributes) + 1] = <<v>>
    BY <1>1, <1>5 DEF ReadValues
  <2> HIDE DEF ss, tt
  <2>5. /\ Len(tt) = Len(ss) + 1 /\ tt[Len(tt)] = <<v>>
        /\ \A k \in 1..Len(ss) : tt[k] = ss[k]
    BY <2>1, <2>2
  <2>6. FlattenSeq(tt) = FlattenSeq(ss) \o tt[Len(tt)]
    BY ONLY <2>1, <2>5, FlattenMore
  <2>3. FlattenSeq(tt) = FlattenSeq(ss) \o <<v>>
    BY <2>5, <2>6
  <2>4. QED
    BY <2>3 DEF ss, tt
<1>8. EncodeGroup(more) = EncodeGroup(g) \o x
  <2> DEFINE f == FlattenSeq(EncodedAttributes(g))
             d == <<Group(g.tag)>>
  <2>1. f \in Seq(WrittenTokens) /\ d \in Seq(WrittenTokens) /\ EncodeGroup(g) = d \o f
    BY GroupTypes
  <2>2. EncodeGroup(more) = d \o (f \o x)
    BY <1>4, <1>6, GroupTypes
  <2> HIDE DEF f, d
  <2>3. (d \o f) \o x = d \o (f \o x)
    BY <1>3, <2>1, ConcatAssociative
  <2>4. QED
    BY <2>1, <2>2, <2>3
<1>9. ValuesOf(more) = ValuesOf(g) \o <<v>>
  BY <1>4, <1>7, GroupTypes
<1>10. QED
  BY <1>4, <1>5, <1>8, <1>9 DEF more, a, x

LEMMA ValueAdded ==
  ASSUME NEW g \in Groups, g.attributes # <<>>, NEW v \in TypedValues
  PROVE  LET more == [g EXCEPT !.attributes[Len(g.attributes)].values = Append(@, v)] IN
           /\ more \in Groups
           /\ more.attributes # <<>>
           /\ EncodeGroup(more) =
                EncodeGroup(g) \o <<Value(NoName, v.tag, EncodeValue(v.tag, v.value))>>
           /\ ValuesOf(more) = ValuesOf(g) \o <<v>>
<1> DEFINE n == Len(g.attributes)
           a == g.attributes[n]
           b == [a EXCEPT !.values = Append(@, v)]
           more == [g EXCEPT !.attributes = [g.attributes EXCEPT ![n] = b]]
           x == <<Value(NoName, v.tag, EncodeValue(v.tag, v.value))>>
<1>0. [g EXCEPT !.attributes[Len(g.attributes)].values = Append(@, v)] = more
  OBVIOUS
<1>1. /\ n \in Nat \ {0} /\ a \in Attributes
      /\ a.values \in Seq(TypedValues) /\ a.values # <<>>
  <2>1. g.attributes \in Seq(Attributes)
    BY GroupTypes
  <2>2. n \in Nat \ {0}
    BY <2>1
  <2>3. a \in Attributes
    BY <2>1, <2>2
  <2> HIDE DEF a, n
  <2>4. QED
    BY <2>2, <2>3 DEF Attributes
<1>2. /\ b \in Attributes /\ b.name = a.name
      /\ b.values = Append(a.values, v) /\ b.values = a.values \o <<v>>
  <2> HIDE DEF a
  <2>1. a.values \in Seq(TypedValues)
    BY <1>1
  <2>2. Append(a.values, v) \in Seq(TypedValues) \ {<<>>}
    <3>1. Append(a.values, v) \in Seq(TypedValues) /\ Append(a.values, v) # <<>>
      BY <2>1, AppendProperties
    <3>2. QED
      BY <3>1
  <2>3. Append(a.values, v) = a.values \o <<v>>
    BY <2>1
  <2>4. QED
    BY <1>1, <2>2, <2>3 DEF Attributes
<1>3. x \in Seq(WrittenTokens) /\ <<v>> \in Seq(TypedValues)
  BY WrittenValue
<1> HIDE DEF a, b
<1>4. EncodeAttribute(b) = EncodeAttribute(a) \o x
  <2> DEFINE m == Len(a.values)
  <2>1. /\ m \in Nat \ {0} /\ DOMAIN a.values = 1..m /\ DOMAIN b.values = 1..(m + 1)
        /\ \A k \in 1..m : b.values[k] = a.values[k]
        /\ b.values[m + 1] = v
    BY <1>1, <1>2
  <2>2. EncodeAttribute(a) \in Seq(WrittenTokens) /\ Len(EncodeAttribute(a)) = m
    BY <1>1, EncodeAttributeType
  <2>3. \A k \in 1..m : EncodeAttribute(b)[k] = EncodeAttribute(a)[k]
    BY <1>2, <2>1 DEF EncodeAttribute
  <2>4. EncodeAttribute(b)[m + 1] = Value(NoName, v.tag, EncodeValue(v.tag, v.value))
    BY <1>2, <2>1 DEF EncodeAttribute
  <2>5. EncodeAttribute(b) \in Seq(WrittenTokens) /\ Len(EncodeAttribute(b)) = m + 1
    <3>1. Len(b.values) = m + 1
      BY <1>1, <1>2
    <3>2. QED
      BY <1>2, <3>1, EncodeAttributeType
  <2> DEFINE ea == EncodeAttribute(a)
             eb == EncodeAttribute(b)
  <2> HIDE DEF m, ea, eb
  <2>6. ea \o x \in Seq(WrittenTokens) /\ Len(ea \o x) = m + 1
    BY <1>3, <2>1, <2>2 DEF ea
  <2>7. \A k \in 1..(m + 1) : (ea \o x)[k] = eb[k]
    <3>1. x[1] = Value(NoName, v.tag, EncodeValue(v.tag, v.value)) /\ Len(x) = 1
      OBVIOUS
    <3>2. \A k \in 1..m : (ea \o x)[k] = eb[k]
      BY <1>3, <2>1, <2>2, <2>3 DEF ea, eb
    <3>3. (ea \o x)[m + 1] = eb[m + 1]
      BY <1>3, <2>1, <2>2, <2>4, <3>1 DEF ea, eb
    <3>4. \A k \in 1..(m + 1) : k \in 1..m \/ k = m + 1
      BY <2>1
    <3>5. QED
      BY ONLY <3>2, <3>3, <3>4
  <2>8. QED
    BY <2>5, <2>6, <2>7, SeqEqual DEF ea, eb
<1> HIDE DEF a, b, x
<1>5. /\ more \in Groups /\ more.tag = g.tag
      /\ more.attributes = [g.attributes EXCEPT ![n] = b]
  <2>1. g.attributes \in Seq(Attributes) /\ n \in 1..Len(g.attributes)
    <3>1. \A l \in Nat \ {0} : l \in 1..l
      OBVIOUS
    <3>2. QED
      BY <1>1, <3>1, GroupTypes
  <2> HIDE DEF n
  <2>2. [g.attributes EXCEPT ![n] = b] \in Seq(Attributes)
    BY <1>2, <2>1, ExceptSeq
  <2>3. QED
    BY <2>2 DEF Groups
<1>6. /\ more.attributes # <<>> /\ Len(more.attributes) = n
      /\ DOMAIN g.attributes = 1..n /\ DOMAIN more.attributes = 1..n
      /\ n \in 1..n /\ g.attributes[n] = a
      /\ \A k \in 1..(n - 1) : more.attributes[k] = g.attributes[k]
      /\ more.attributes[n] = b
  BY <1>1, <1>2, <1>5, GroupTypes DEF a
<1> HIDE DEF more, n
<1>7. FlattenSeq(EncodedAttributes(more)) = FlattenSeq(EncodedAttributes(g)) \o x
  <2> DEFINE ss == EncodedAttributes(g)
             tt == EncodedAttributes(more)
  <2>1. /\ ss \in Seq(Seq(WrittenTokens)) /\ tt \in Seq(Seq(WrittenTokens))
        /\ Len(ss) = n /\ Len(tt) = n
    BY <1>5, <1>6, GroupTypes DEF n
  <2>2. /\ \A k \in 1..(n - 1) : tt[k] = ss[k]
        /\ tt[n] = ss[n] \o x
    <3>1. \A k \in 1..n : /\ ss[k] = EncodeAttribute(g.attributes[k])
                          /\ tt[k] = EncodeAttribute(more.attributes[k])
      BY <1>6 DEF EncodedAttributes
    <3>2. \A k \in 1..(n - 1) : k \in 1..n
      BY <1>1
    <3> HIDE DEF ss, tt
    <3>3. QED
      BY <1>4, <1>6, <3>1, <3>2
  <2> HIDE DEF ss, tt
  <2>3. /\ Len(tt) = Len(ss) /\ Len(ss) # 0
        /\ \A k \in 1..(Len(ss) - 1) : tt[k] = ss[k]
        /\ tt[Len(ss)] = ss[Len(ss)] \o x
    BY <1>1, <2>1, <2>2
  <2>4. FlattenSeq(tt) = FlattenSeq(ss) \o x
    BY ONLY <1>3, <2>1, <2>3, FlattenLast
  <2>5. QED
    BY <2>4 DEF ss, tt
<1>8. FlattenSeq(ReadValues(more)) = FlattenSeq(ReadValues(g)) \o <<v>>
  <2> DEFINE ss == ReadValues(g)
             tt == ReadValues(more)
             y == <<v>>
  <2>1. /\ ss \in Seq(Seq(TypedValues)) /\ tt \in Seq(Seq(TypedValues))
        /\ Len(ss) = n /\ Len(tt) = n /\ y \in Seq(TypedValues)
    BY <1>3, <1>5, <1>6, GroupTypes DEF n
  <2>2. /\ \A k \in 1..(n - 1) : tt[k] = ss[k]
        /\ tt[n] = ss[n] \o y
    <3>1. \A k \in 1..n : ss[k] = g.attributes[k].values /\ tt[k] = more.attributes[k].values
      BY <1>6 DEF ReadValues
    <3>2. \A k \in 1..(n - 1) : k \in 1..n
      BY <1>1
    <3> HIDE DEF ss, tt, y
    <3>3. b.values = a.values \o y
      BY <1>2 DEF y
    <3>4. QED
      BY <1>6, <3>1, <3>2, <3>3
  <2> HIDE DEF ss, tt, y
  <2>3. /\ Len(tt) = Len(ss) /\ Len(ss) # 0
        /\ \A k \in 1..(Len(ss) - 1) : tt[k] = ss[k]
        /\ tt[Len(ss)] = ss[Len(ss)] \o y
    BY <1>1, <2>1, <2>2
  <2>4. FlattenSeq(tt) = FlattenSeq(ss) \o y
    BY ONLY <2>1, <2>3, FlattenLast
  <2>5. QED
    BY <2>4 DEF ss, tt, y
<1>9. EncodeGroup(more) = EncodeGroup(g) \o x
  <2> DEFINE f == FlattenSeq(EncodedAttributes(g))
             d == <<Group(g.tag)>>
  <2>1. f \in Seq(WrittenTokens) /\ d \in Seq(WrittenTokens) /\ EncodeGroup(g) = d \o f
    BY GroupTypes
  <2>2. EncodeGroup(more) = d \o (f \o x)
    BY <1>5, <1>7, GroupTypes
  <2> HIDE DEF f, d
  <2>3. (d \o f) \o x = d \o (f \o x)
    BY <1>3, <2>1, ConcatAssociative
  <2>4. QED
    BY <2>1, <2>2, <2>3
<1>10. ValuesOf(more) = ValuesOf(g) \o <<v>>
  BY <1>5, <1>8, GroupTypes
<1>11. QED
  BY <1>0, <1>5, <1>6, <1>9, <1>10 DEF more, x, b, a, n

(***************************************************************************)
(* The invariant.  What decode has made of a request says nothing of       *)
(* where its tokens stood; so the invariant relates each decision of       *)
(* decode to the tokens themselves: whether there is a group for a named   *)
(* value, and an attribute for an additional one, and that what encode     *)
(* would write of the groups is what has arrived.                          *)
(***************************************************************************)
HasGroup == \E k \in DOMAIN wire : wire[k].type = "group"
HasAttribute ==
  \E j \in DOMAIN wire : /\ wire[j].type = "value" /\ wire[j].name \in Names
                         /\ \A i \in j..Len(wire) : wire[i].type = "value"
Malformed == \E k \in DOMAIN wire : ~ WellPlaced(k)
WrittenWire == [k \in DOMAIN wire |-> Written(wire[k])]

\* What encode writes after the groups.
AfterGroups(m) == IF m.status = "data" THEN <<End>> \o m.data ELSE <<>>

CTypeOK ==
  /\ wire \in Seq(Tokens)
  /\ Message \in [status: {"reading", "data", "error"}, groups: Seq(Groups), data: Seq({Byte(3)})]
  /\ Message.status = "reading" => Message.data = <<>>

Placed ==
  /\ Message.groups # <<>> <=> HasGroup
  /\ Message.status = "data" <=> Ended
  /\ Message.status = "reading" =>
       (HasAttribute <=> Message.groups # <<>> /\ Last(Message.groups).attributes # <<>>)

Restored == EncodeGroups(Message.groups) \o AfterGroups(Message) = WrittenWire

ValuesInOrder ==
  /\ Len(AllValues(Message.groups)) = Len(SentValues)
  /\ \A k \in 1..Len(SentValues) : AllValues(Message.groups)[k] = Typed(SentValues[k])

CInv ==
  /\ CTypeOK
  /\ Message.status = "error" <=> Malformed
  /\ Message.status # "error" => Placed /\ Restored /\ ValuesInOrder

\* A step appends a token: a byte of data after the end, and only there.
LEMMA StepAppends ==
  ASSUME CInv, Next
  PROVE  \E t \in Tokens : wire' = Append(wire, t) /\ (t.type = "byte" <=> Ended)
<1>1. ASSUME NEW t \in Tokens, Send(t), t.type = "byte" <=> Ended
      PROVE  \E u \in Tokens : wire' = Append(wire, u) /\ (u.type = "byte" <=> Ended)
  BY <1>1 DEF Send
<1>2. CASE SendData
  <2>1. Byte(3) \in Tokens /\ Byte(3).type = "byte"
    BY DEF Tokens, Byte
  <2>2. QED
    BY <1>1, <1>2, <2>1 DEF SendData
<1>3. CASE SendAttributes
  <2>1. ASSUME NEW tag \in GroupTags
        PROVE  Group(tag) \in Tokens /\ Group(tag).type # "byte"
    BY DEF Tokens, Group
  <2>2. ASSUME NEW n \in Names \cup {NoName}, NEW s \in Samples
        PROVE  Value(n, s.tag, s.raw) \in Tokens /\ Value(n, s.tag, s.raw).type # "byte"
    BY DEF Tokens, ValueTokens, Value
  <2>3. End \in Tokens /\ End.type # "byte" /\ Cut \in Tokens /\ Cut.type # "byte"
    BY DEF Tokens, End, Cut
  <2>4. ~ Ended
    BY <1>3 DEF SendAttributes
  <2>5. PICK t \in Tokens : Send(t) /\ t.type # "byte"
    BY <1>3, <2>1, <2>2, <2>3 DEF SendAttributes
  <2>6. QED
    BY <1>1, <2>4, <2>5
<1>4. QED
  BY <1>2, <1>3 DEF Next

LEMMA InitCInv == Init => CInv
<1> SUFFICES ASSUME Init
             PROVE  CInv
  OBVIOUS
<1>1. wire = <<>> /\ Message = Empty
  BY DecodeNothing DEF Init, Message
<1>2. DOMAIN wire = {} /\ wire \in Seq(Tokens)
  BY <1>1
<1>3. ~ Malformed /\ ~ HasGroup /\ ~ HasAttribute /\ ~ Ended
  BY <1>2 DEF Malformed, HasGroup, HasAttribute, Ended
<1>4. Message.status = "reading" /\ Message.groups = <<>> /\ Message.data = <<>>
  BY <1>1 DEF Empty
<1>5. Message \in [status: {"reading", "data", "error"}, groups: Seq(Groups), data: Seq({Byte(3)})]
  BY <1>1 DEF Empty
<1>6. EncodeGroups(<<>>) = <<>> /\ AllValues(<<>>) = <<>> /\ SentValues = <<>>
  <2>1. \A s : s = <<>> => FlattenSeq(s) = <<>>
    BY DEF FlattenSeq
  <2>2. [k \in DOMAIN <<>> |-> EncodeGroup(<<>>[k])] = <<>>
    OBVIOUS
  <2>3. [k \in DOMAIN <<>> |-> ValuesOf(<<>>[k])] = <<>>
    OBVIOUS
  <2>4. [k \in DOMAIN wire |-> IF wire[k].type = "value" THEN <<wire[k]>> ELSE <<>>] = <<>>
    BY <1>1
  <2>5. QED
    BY <2>1, <2>2, <2>3, <2>4 DEF EncodeGroups, AllValues, SentValues
<1>7. WrittenWire = <<>>
  BY <1>1 DEF WrittenWire
<1>8. Restored
  BY <1>4, <1>6, <1>7 DEF Restored, AfterGroups
<1>9. ValuesInOrder
  BY <1>4, <1>6 DEF ValuesInOrder
<1>10. QED
  BY <1>2, <1>3, <1>4, <1>5, <1>8, <1>9 DEF CInv, CTypeOK, Placed

(***************************************************************************)
(* What one token more does to the request.                                *)
(***************************************************************************)
LEMMA WireGrows ==
  ASSUME wire \in Seq(Tokens), NEW t \in Tokens, wire' = Append(wire, t)
  PROVE  /\ wire' \in Seq(Tokens)
         /\ Len(wire') = Len(wire) + 1 /\ Len(wire) \in Nat
         /\ DOMAIN wire = 1..Len(wire) /\ DOMAIN wire' = 1..(Len(wire) + 1)
         /\ \A k \in 1..Len(wire) : wire'[k] = wire[k]
         /\ wire'[Len(wire) + 1] = t
         /\ \A k \in 1..Len(wire) : k \in 1..(Len(wire) + 1)
         /\ \A k \in 1..(Len(wire) + 1) : k \in 1..Len(wire) \/ k = Len(wire) + 1
OBVIOUS

LEMMA KindsGrow ==
  ASSUME wire \in Seq(Tokens), NEW t \in Tokens, wire' = Append(wire, t)
  PROVE  /\ HasGroup' <=> HasGroup \/ t.type = "group"
         /\ Ended' <=> Ended \/ t.type = "end"
         /\ HasAttribute' <=> t.type = "value" /\ (t.name \in Names \/ HasAttribute)
<1> DEFINE n == Len(wire)
<1>1. /\ n \in Nat /\ Len(wire') = n + 1
      /\ DOMAIN wire = 1..n /\ DOMAIN wire' = 1..(n + 1)
      /\ \A k \in 1..n : wire'[k] = wire[k]
      /\ wire'[n + 1] = t
  BY WireGrows
<1>2. HasGroup' <=> HasGroup \/ t.type = "group"
  BY WireGrows DEF HasGroup
<1>3. Ended' <=> Ended \/ t.type = "end"
  BY WireGrows DEF Ended
<1>4. ASSUME HasAttribute'
      PROVE  t.type = "value" /\ (t.name \in Names \/ HasAttribute)
  <2>1. PICK j \in 1..(n + 1) :
               /\ wire'[j].type = "value" /\ wire'[j].name \in Names
               /\ \A i \in j..(n + 1) : wire'[i].type = "value"
    BY <1>1, <1>4 DEF HasAttribute
  <2>2. n + 1 \in j..(n + 1)
    BY <1>1
  <2>3. t.type = "value"
    BY <1>1, <2>1, <2>2
  <2>4. CASE j = n + 1
    BY <1>1, <2>1, <2>3, <2>4
  <2>5. CASE j # n + 1
    <3>1. j \in 1..n /\ \A i \in j..n : i \in j..(n + 1) /\ i \in 1..n
      BY <1>1, <2>5
    <3>2. HasAttribute
      BY <1>1, <2>1, <3>1 DEF HasAttribute
    <3>3. QED
      BY <2>3, <3>2
  <2>6. QED
    BY <2>4, <2>5
<1>5. ASSUME t.type = "value", t.name \in Names
      PROVE  HasAttribute'
  <2>1. n + 1 \in 1..(n + 1) /\ \A i \in (n + 1)..(n + 1) : i = n + 1
    BY <1>1
  <2>2. QED
    BY <1>1, <1>5, <2>1 DEF HasAttribute
<1>6. ASSUME t.type = "value", HasAttribute
      PROVE  HasAttribute'
  <2>1. PICK j \in 1..n : /\ wire[j].type = "value" /\ wire[j].name \in Names
                          /\ \A i \in j..n : wire[i].type = "value"
    BY <1>1, <1>6 DEF HasAttribute
  <2>2. j \in 1..(n + 1) /\ \A i \in j..(n + 1) : i = n + 1 \/ (i \in j..n /\ i \in 1..n)
    BY <1>1
  <2>3. \A i \in j..(n + 1) : wire'[i].type = "value"
    BY <1>1, <1>6, <2>1, <2>2
  <2>4. QED
    BY <1>1, <2>1, <2>2, <2>3 DEF HasAttribute
<1>7. QED
  BY <1>2, <1>3, <1>4, <1>5, <1>6

\* What a token needs before it, when it is the last.
LEMMA LastPlaced ==
  ASSUME wire \in Seq(Tokens), NEW t \in Tokens, wire' = Append(wire, t),
         NEW k \in Nat, k = Len(wire) + 1
  PROVE  /\ t.type = "cut" => ~ WellPlaced(k)'
         /\ t.type \in {"group", "end", "byte"} => WellPlaced(k)'
         /\ t.type = "value" =>
              (WellPlaced(k)' <=> IF t.name \in Names THEN HasGroup ELSE HasAttribute)
<1> DEFINE n == Len(wire)
<1>1. /\ n \in Nat /\ DOMAIN wire = 1..n /\ wire'[k] = t
      /\ \A j \in 1..n : wire'[j] = wire[j]
      /\ k - 1 = n
  BY WireGrows
<1>2. /\ t.type = "cut" => ~ WellPlaced(k)'
      /\ t.type \in {"group", "end", "byte"} => WellPlaced(k)'
  BY <1>1 DEF WellPlaced
<1>3. ASSUME t.type = "value", NEW j \in 1..n
      PROVE  (\A i \in j..k : wire'[i].type = "value") <=> (\A i \in j..n : wire[i].type = "value")
  <2>1. \A i \in j..k : (i \in j..n /\ i \in 1..n) \/ i = k
    BY <1>1
  <2>2. \A i \in j..n : i \in j..k /\ i \in 1..n
    BY <1>1
  <2>3. QED
    BY <1>1, <1>3, <2>1, <2>2
<1>4. ASSUME t.type = "value"
      PROVE  WellPlaced(k)' <=> IF t.name \in Names THEN HasGroup ELSE HasAttribute
  <2>1. WellPlaced(k)' <=>
          \E j \in 1..(k - 1) :
            IF wire'[k].name \in Names THEN wire'[j].type = "group"
            ELSE /\ wire'[j].type = "value" /\ wire'[j].name \in Names
                 /\ \A i \in j..k : wire'[i].type = "value"
    BY <1>1, <1>4 DEF WellPlaced
  <2>2. CASE t.name \in Names
    BY <1>1, <2>1, <2>2 DEF HasGroup
  <2>3. CASE t.name \notin Names
    BY <1>1, <1>3, <1>4, <2>1, <2>3 DEF HasAttribute
  <2>4. QED
    BY <2>2, <2>3
<1>5. QED
  BY <1>2, <1>4

LEMMA MalformedGrows ==
  ASSUME wire \in Seq(Tokens), NEW t \in Tokens, wire' = Append(wire, t),
         NEW k \in Nat, k = Len(wire) + 1
  PROVE  Malformed' <=> Malformed \/ ~ WellPlaced(k)'
<1>1. /\ DOMAIN wire = 1..(k - 1) /\ DOMAIN wire' = 1..k
      /\ \A i \in 1..(k - 1) : wire'[i] = wire[i]
  BY WireGrows
<1>2. ASSUME NEW i \in 1..(k - 1)
      PROVE  WellPlaced(i)' <=> WellPlaced(i)
  <2>1. wire'[i] = wire[i] /\ \A j \in 1..(i - 1) : wire'[j] = wire[j]
    BY <1>1
  <2>2. \A j \in 1..(i - 1) : \A n \in j..i : wire'[n] = wire[n]
    BY <1>1
  <2>3. QED
    BY <2>1, <2>2 DEF WellPlaced
<1>3. k \in 1..k /\ \A i \in 1..k : i \in 1..(k - 1) \/ i = k
  BY WireGrows
<1>4. \A i \in 1..(k - 1) : i \in 1..k
  OBVIOUS
<1>5. Malformed' <=> \E i \in 1..k : ~ WellPlaced(i)'
  BY <1>1 DEF Malformed
<1>6. Malformed <=> \E i \in 1..(k - 1) : ~ WellPlaced(i)
  BY <1>1 DEF Malformed
<1>7. QED
  BY <1>2, <1>3, <1>4, <1>5, <1>6

LEMMA WrittenGrows ==
  ASSUME wire \in Seq(Tokens), NEW t \in Tokens, wire' = Append(wire, t)
  PROVE  /\ WrittenWire \in Seq(WrittenTokens)
         /\ <<Written(t)>> \in Seq(WrittenTokens)
         /\ WrittenWire' = WrittenWire \o <<Written(t)>>
<1> DEFINE n == Len(wire)
<1>1. /\ n \in Nat /\ DOMAIN wire = 1..n /\ DOMAIN wire' = 1..(n + 1)
      /\ \A k \in 1..n : wire'[k] = wire[k] /\ wire[k] \in Tokens
      /\ wire'[n + 1] = t
  BY WireGrows
<1>2. WrittenWire \in Seq(WrittenTokens) /\ Len(WrittenWire) = n
  BY <1>1 DEF WrittenWire, WrittenTokens
<1>3. Written(t) \in WrittenTokens
  BY DEF WrittenTokens
<1>4. \A k \in 1..n : WrittenWire[k] = Written(wire[k])
  BY <1>1 DEF WrittenWire
<1>5. WrittenWire' = [k \in 1..(n + 1) |-> Written(wire'[k])]
  BY <1>1 DEF WrittenWire
<1> DEFINE u == WrittenWire \o <<Written(t)>>
<1>6. u \in Seq(WrittenTokens) /\ Len(u) = n + 1
  BY <1>2, <1>3, ConcatProperties
<1>7. \A k \in 1..n : u[k] = Written(wire'[k])
  BY <1>1, <1>2, <1>3, <1>4
<1>8. u[n + 1] = Written(wire'[n + 1])
  BY <1>1, <1>2, <1>3
<1>9. \A k \in 1..(n + 1) : k \in 1..n \/ k = n + 1
  BY <1>1
<1> HIDE DEF u
<1>10. u = [k \in 1..(n + 1) |-> Written(wire'[k])]
  BY <1>6, <1>7, <1>8, <1>9
<1>11. <<Written(t)>> \in Seq(WrittenTokens)
  BY <1>3
<1>12. QED
  BY <1>2, <1>5, <1>10, <1>11 DEF u

LEMMA SentGrows ==
  ASSUME wire \in Seq(Tokens), NEW t \in Tokens, wire' = Append(wire, t)
  PROVE  /\ SentValues \in Seq(Tokens)
         /\ SentValues' = SentValues \o IF t.type = "value" THEN <<t>> ELSE <<>>
<1> DEFINE n == Len(wire)
           ss == [k \in DOMAIN wire |-> IF wire[k].type = "value" THEN <<wire[k]>> ELSE <<>>]
           tt == [k \in DOMAIN wire' |-> IF wire'[k].type = "value" THEN <<wire'[k]>> ELSE <<>>]
<1>1. /\ n \in Nat /\ DOMAIN wire = 1..n /\ DOMAIN wire' = 1..(n + 1)
      /\ \A k \in 1..n : wire'[k] = wire[k] /\ k \in 1..(n + 1)
      /\ wire'[n + 1] = t /\ n + 1 \in 1..(n + 1)
  BY WireGrows
<1>2. /\ \A k \in 1..n : wire[k] \in Tokens
      /\ \A k \in 1..(n + 1) : wire'[k] \in Tokens
  BY WireGrows
<1>3. ss \in Seq(Seq(Tokens)) /\ Len(ss) = n
  BY <1>1, <1>2
<1>4. tt \in Seq(Seq(Tokens)) /\ Len(tt) = n + 1
  BY <1>1, <1>2
<1>5. /\ \A k \in 1..n : tt[k] = ss[k]
      /\ tt[n + 1] = IF t.type = "value" THEN <<t>> ELSE <<>>
  BY <1>1
<1>6. SentValues = FlattenSeq(ss) /\ SentValues' = FlattenSeq(tt)
  BY DEF SentValues
<1> HIDE DEF ss, tt, n
<1>7. /\ Len(tt) = Len(ss) + 1
      /\ \A k \in 1..Len(ss) : tt[k] = ss[k]
      /\ tt[Len(tt)] = IF t.type = "value" THEN <<t>> ELSE <<>>
  BY <1>3, <1>4, <1>5
<1>8. FlattenSeq(tt) = FlattenSeq(ss) \o tt[Len(tt)]
  BY ONLY <1>3, <1>4, <1>7, FlattenMore
<1>9. FlattenSeq(ss) \in Seq(Tokens)
  BY <1>3, FlattenType
<1>10. QED
  BY <1>6, <1>7, <1>8, <1>9

(***************************************************************************)
(* What one token more does to the invariant.                              *)
(***************************************************************************)
\* Values stay in their order when each token that is one adds one.
LEMMA OrderKept ==
  ASSUME wire \in Seq(Tokens), NEW t \in Tokens, wire' = Append(wire, t), ValuesInOrder,
         AllValues(Message.groups) \in Seq(TypedValues),
         AllValues(Message'.groups) =
           AllValues(Message.groups) \o IF t.type = "value" THEN <<Typed(t)>> ELSE <<>>
  PROVE  ValuesInOrder'
<1> DEFINE a == AllValues(Message.groups)
           b == AllValues(Message'.groups)
<1>1. /\ SentValues \in Seq(Tokens)
      /\ SentValues' = SentValues \o IF t.type = "value" THEN <<t>> ELSE <<>>
  BY SentGrows
<1>2. /\ a \in Seq(TypedValues) /\ Len(a) = Len(SentValues)
      /\ \A k \in 1..Len(SentValues) : a[k] = Typed(SentValues[k])
  BY DEF ValuesInOrder
<1>3. b = a \o IF t.type = "value" THEN <<Typed(t)>> ELSE <<>>
  OBVIOUS
<1>4. ValuesInOrder' <=> /\ Len(b) = Len(SentValues')
                   /\ \A k \in 1..Len(SentValues') : b[k] = Typed(SentValues'[k])
  BY DEF ValuesInOrder
<1>5. t.type = "value" => Typed(t) \in TypedValues
  BY TokenTypes DEF TypedValues
<1> HIDE DEF a, b
<1>6. CASE t.type = "value"
  <2> DEFINE n == Len(SentValues)
             x == Typed(t)
  <2>1. b = a \o <<x>> /\ SentValues' = SentValues \o <<t>> /\ x \in TypedValues
    BY <1>1, <1>3, <1>5, <1>6
  <2>2. n \in Nat /\ Len(b) = n + 1 /\ Len(SentValues') = n + 1
    BY <1>1, <1>2, <2>1
  <2>3. b[n + 1] = Typed(SentValues'[n + 1])
    <3>1. SentValues \in Seq(Tokens) /\ a \in Seq(TypedValues) /\ Len(a) = n
      BY <1>1, <1>2
    <3> HIDE DEF x
    <3>2. b[Len(a) + 1] = x
      BY ONLY <2>1, <3>1, OneMore
    <3>3. SentValues'[n + 1] = t
      BY ONLY <2>1, <3>1, t \in Tokens, OneMore
    <3>4. QED
      BY <3>1, <3>2, <3>3 DEF x
  <2> HIDE DEF x
  <2>4. \A k \in 1..n : b[k] = a[k] /\ SentValues'[k] = SentValues[k]
    BY <1>1, <1>2, <2>1, <2>2
  <2>5. \A k \in 1..n : b[k] = Typed(SentValues'[k])
    BY <1>2, <2>4
  <2>6. \A k \in 1..(n + 1) : k \in 1..n \/ k = n + 1
    BY <2>2
  <2>7. QED
    BY <1>4, <2>2, <2>3, <2>5, <2>6
<1>7. CASE t.type # "value"
  <2>1. b = a /\ SentValues' = SentValues
    BY <1>1, <1>2, <1>3, <1>7, ConcatEmptySeq
  <2>2. QED
    BY <1>2, <1>4, <2>1
<1>8. QED
  BY <1>6, <1>7

\* Written tokens are kept when encode writes one more.
LEMMA RestoredKept ==
  ASSUME wire \in Seq(Tokens), NEW t \in Tokens, wire' = Append(wire, t), Restored,
         Message.status = "reading", Message'.status = "reading",
         EncodeGroups(Message.groups) \in Seq(WrittenTokens),
         EncodeGroups(Message'.groups) = EncodeGroups(Message.groups) \o <<Written(t)>>
  PROVE  Restored'
<1> DEFINE e == EncodeGroups(Message.groups)
           f == EncodeGroups(Message'.groups)
<1>1. e \in Seq(WrittenTokens) /\ f = e \o <<Written(t)>> /\ <<Written(t)>> \in Seq(WrittenTokens)
  BY WrittenGrows
<1>2. e \o <<>> = WrittenWire
  BY DEF Restored, AfterGroups
<1>3. Restored' <=> f \o <<>> = WrittenWire'
  BY DEF Restored, AfterGroups
<1>4. WrittenWire' = WrittenWire \o <<Written(t)>>
  BY WrittenGrows
<1> HIDE DEF e, f
<1>5. e \o <<>> = e /\ f \o <<>> = f
  BY <1>1, ConcatEmptySeq, ConcatProperties
<1>6. QED
  BY <1>1, <1>2, <1>3, <1>4, <1>5

LEMMA RefusedStays ==
  ASSUME CInv, NEW t \in Tokens, wire' = Append(wire, t), Message.status = "error"
  PROVE  CInv'
<1>1. Message' = Message
  BY DecodeMore DEF CInv, CTypeOK, Message, ReadToken
<1>2. wire' \in Seq(Tokens)
  BY WireGrows DEF CInv, CTypeOK
<1>3. Malformed'
  <2>1. PICK k \in Nat : k = Len(wire) + 1
    BY WireGrows DEF CInv, CTypeOK
  <2>2. QED
    BY <2>1, MalformedGrows DEF CInv, CTypeOK
<1>4. QED
  BY <1>1, <1>2, <1>3 DEF CInv, CTypeOK

LEMMA DataRead ==
  ASSUME CInv, NEW t \in Tokens, wire' = Append(wire, t), t.type = "byte" <=> Ended,
         Message.status = "data"
  PROVE  CInv'
<1>0. /\ wire \in Seq(Tokens) /\ Ended /\ Placed /\ Restored /\ ValuesInOrder /\ ~ Malformed
      /\ Message \in [status: {"reading", "data", "error"}, groups: Seq(Groups), data: Seq({Byte(3)})]
  BY DEF CInv, CTypeOK, Placed
<1>1. t = Byte(3) /\ t.type = "byte"
  BY <1>0, TokenTypes
<1>2. Message' = [Message EXCEPT !.data = Append(@, t)]
  BY <1>0, DecodeMore DEF Message, ReadToken
<1>3. /\ Message' \in [status: {"reading", "data", "error"}, groups: Seq(Groups), data: Seq({Byte(3)})]
      /\ Message'.status = "data" /\ Message'.groups = Message.groups
      /\ Message'.data = Append(Message.data, t)
  <2> DEFINE B == {Byte(3)}
  <2>1. t \in B
    BY <1>1
  <2> HIDE DEF B
  <2>2. Message \in [status: {"reading", "data", "error"}, groups: Seq(Groups), data: Seq(B)]
    BY <1>0 DEF B
  <2>3. Append(Message.data, t) \in Seq(B)
    BY <2>1, <2>2
  <2>4. QED
    BY <1>2, <2>2, <2>3 DEF B
<1>4. wire' \in Seq(Tokens)
  BY <1>0, WireGrows
<1>5. ~ Malformed'
  <2>1. PICK k \in Nat : k = Len(wire) + 1
    BY <1>0, WireGrows
  <2>2. WellPlaced(k)'
    BY <1>0, <1>1, <2>1, LastPlaced
  <2>3. QED
    BY <1>0, <2>1, <2>2, MalformedGrows
<1>6. Placed'
  <2>1. (HasGroup' <=> HasGroup) /\ Ended'
    BY <1>0, <1>1, KindsGrow
  <2>2. QED
    BY <1>0, <1>3, <2>1 DEF Placed
<1>7. ValuesInOrder'
  <2>1. AllValues(Message.groups) \in Seq(TypedValues)
    BY <1>0, GroupsTypes
  <2>2. AllValues(Message.groups) \o <<>> = AllValues(Message.groups)
    BY <2>1, ConcatEmptySeq
  <2>3. QED
    BY <1>0, <1>1, <1>3, <2>1, <2>2, OrderKept
<1>8. Restored'
  <2> DEFINE e == EncodeGroups(Message.groups)
             d == <<End>> \o Message.data
             c == <<End>> \o Append(Message.data, t)
  <2>1. Written(t) = t /\ Written(End) = End /\ End \in Tokens
    BY <1>1 DEF Written, End, Tokens
  <2>2. t \in WrittenTokens /\ End \in WrittenTokens
    BY <2>1 DEF WrittenTokens
  <2>3. Message.data \in Seq(WrittenTokens)
    BY <1>0, <1>1, <2>2
  <2>4. e \in Seq(WrittenTokens) /\ d \in Seq(WrittenTokens) /\ <<t>> \in Seq(WrittenTokens)
    <3>1. e \in Seq(WrittenTokens)
      BY <1>0, GroupsTypes
    <3>2. <<End>> \in Seq(WrittenTokens) /\ <<t>> \in Seq(WrittenTokens)
      BY <2>2
    <3>3. QED
      BY <2>3, <3>1, <3>2, ConcatProperties
  <2>5. c = d \o <<t>>
    <3>1. Append(Message.data, t) = Message.data \o <<t>>
      BY <2>2, <2>3
    <3> DEFINE x == <<End>>
               y == Message.data
               z == <<t>>
    <3>2. x \in Seq(WrittenTokens) /\ y \in Seq(WrittenTokens) /\ z \in Seq(WrittenTokens)
      BY <2>2, <2>3
    <3> HIDE DEF x, y, z
    <3>3. (x \o y) \o z = x \o (y \o z)
      BY <3>2, ConcatAssociative
    <3>4. QED
      BY <3>1, <3>3 DEF x, y, z
  <2>6. e \o d = WrittenWire
    BY <1>0 DEF Restored, AfterGroups
  <2>7. Restored' <=> e \o c = WrittenWire'
    BY <1>3 DEF Restored, AfterGroups
  <2>8. WrittenWire' = WrittenWire \o <<t>>
    BY <1>0, <2>1, WrittenGrows
  <2> HIDE DEF e, d, c
  <2>9. (e \o d) \o <<t>> = e \o (d \o <<t>>)
    BY <2>4, ConcatAssociative
  <2>10. QED
    BY <2>5, <2>6, <2>7, <2>8, <2>9
<1>9. QED
  BY <1>3, <1>4, <1>5, <1>6, <1>7, <1>8 DEF CInv, CTypeOK

\* What the cases of a request being read have in common.
LEMMA ReadingFacts ==
  ASSUME CInv, NEW t \in Tokens, wire' = Append(wire, t), t.type = "byte" <=> Ended,
         Message.status = "reading"
  PROVE  /\ wire \in Seq(Tokens) /\ wire' \in Seq(Tokens)
         /\ ~ Ended /\ t.type # "byte" /\ ~ Malformed
         /\ Placed /\ Restored /\ ValuesInOrder
         /\ Message.groups \in Seq(Groups) /\ Message.data = <<>> /\ <<>> \in Seq({Byte(3)})
         /\ Message = [status |-> "reading", groups |-> Message.groups, data |-> <<>>]
         /\ EncodeGroups(Message.groups) \in Seq(WrittenTokens)
         /\ AllValues(Message.groups) \in Seq(TypedValues)
         /\ Message' = ReadToken(Message, t)
<1>1. /\ wire \in Seq(Tokens) /\ Placed /\ Restored /\ ValuesInOrder /\ ~ Malformed
      /\ Message \in [status: {"reading", "data", "error"}, groups: Seq(Groups), data: Seq({Byte(3)})]
      /\ Message.data = <<>>
  BY DEF CInv, CTypeOK
<1>2. Message' = ReadToken(Message, t)
  BY <1>1, DecodeMore DEF Message
<1>3. ~ Ended
  BY <1>1 DEF Placed
<1>4. wire' \in Seq(Tokens)
  BY <1>1, WireGrows
<1>5. /\ Message.groups \in Seq(Groups)
      /\ Message = [status |-> "reading", groups |-> Message.groups, data |-> <<>>]
  BY <1>1
<1>6. EncodeGroups(Message.groups) \in Seq(WrittenTokens) /\ AllValues(Message.groups) \in Seq(TypedValues)
  BY <1>5, GroupsTypes
<1>7. QED
  BY <1>1, <1>2, <1>3, <1>4, <1>5, <1>6

LEMMA GroupRead ==
  ASSUME CInv, NEW t \in Tokens, wire' = Append(wire, t), t.type = "byte" <=> Ended,
         Message.status = "reading", t.type = "group"
  PROVE  CInv'
<1> DEFINE gs   == Message.groups
           more == Append(gs, [tag |-> t.tag, attributes |-> <<>>])
<1>1. t.tag \in GroupTags /\ t = Group(t.tag) /\ Written(t) = t
  BY TokenTypes DEF Written
<1>2. Message' = [Message EXCEPT !.groups = more]
  BY ReadingFacts DEF ReadToken, ReadGroup
<1>3. /\ more \in Seq(Groups) /\ more # <<>>
      /\ Last(more).attributes = <<>>
      /\ EncodeGroups(more) = EncodeGroups(gs) \o <<Written(t)>>
      /\ AllValues(more) = AllValues(gs)
  <2>1. /\ more \in Seq(Groups) /\ more[Len(more)].attributes = <<>>
        /\ EncodeGroups(more) = EncodeGroups(gs) \o <<Group(t.tag)>>
        /\ AllValues(more) = AllValues(gs)
    BY <1>1, ReadingFacts, GroupAdded
  <2>2. more # <<>>
    <3>1. [tag |-> t.tag, attributes |-> <<>>] \in Groups
      BY <1>1 DEF Groups
    <3>2. QED
      BY <3>1, ReadingFacts, AppendProperties
  <2> HIDE DEF more
  <2>3. QED
    BY <1>1, <2>1, <2>2 DEF Last
<1> HIDE DEF more
<1>4. /\ Message'.status = "reading" /\ Message'.groups = more /\ Message'.data = <<>>
      /\ Message' \in [status: {"reading", "data", "error"}, groups: Seq(Groups), data: Seq({Byte(3)})]
  <2>1. Message' = [status |-> "reading", groups |-> more, data |-> <<>>]
    BY <1>2, ReadingFacts
  <2>2. QED
    BY <1>3, <2>1
<1>5. ~ Malformed'
  <2>1. PICK k \in Nat : k = Len(wire) + 1
    BY ReadingFacts, WireGrows
  <2>2. WellPlaced(k)'
    BY <2>1, LastPlaced, ReadingFacts
  <2>3. QED
    BY <2>1, <2>2, MalformedGrows, ReadingFacts
<1>6. Placed'
  <2>1. HasGroup' /\ ~ HasAttribute' /\ ~ Ended'
    BY KindsGrow, ReadingFacts
  <2>2. QED
    BY <1>3, <1>4, <2>1 DEF Placed
<1>7. Restored'
  BY <1>3, <1>4, RestoredKept, ReadingFacts
<1>8. ValuesInOrder'
  <2>1. AllValues(gs) \o <<>> = AllValues(gs)
    BY ReadingFacts, ConcatEmptySeq
  <2>2. QED
    BY <1>3, <1>4, <2>1, OrderKept, ReadingFacts
<1>9. QED
  BY <1>4, <1>5, <1>6, <1>7, <1>8, ReadingFacts DEF CInv, CTypeOK

LEMMA EndRead ==
  ASSUME CInv, NEW t \in Tokens, wire' = Append(wire, t), t.type = "byte" <=> Ended,
         Message.status = "reading", t.type = "end"
  PROVE  CInv'
<1>1. t = End /\ Written(t) = t
  BY TokenTypes DEF Written
<1>2. Message' = [status |-> "data", groups |-> Message.groups, data |-> <<>>]
  BY ReadingFacts DEF ReadToken
<1>3. ~ Malformed'
  <2>1. PICK k \in Nat : k = Len(wire) + 1
    BY ReadingFacts, WireGrows
  <2>2. WellPlaced(k)'
    BY <2>1, LastPlaced, ReadingFacts
  <2>3. QED
    BY <2>1, <2>2, MalformedGrows, ReadingFacts
<1>4. Placed'
  <2>1. (HasGroup' <=> HasGroup) /\ Ended'
    BY KindsGrow, ReadingFacts
  <2>2. QED
    BY <1>2, <2>1, ReadingFacts DEF Placed
<1>5. ValuesInOrder'
  <2>1. AllValues(Message.groups) \o <<>> = AllValues(Message.groups)
    BY ReadingFacts, ConcatEmptySeq
  <2>2. QED
    BY <1>2, <2>1, OrderKept, ReadingFacts
<1>6. Restored'
  <2> DEFINE e == EncodeGroups(Message.groups)
  <2>1. e \o <<>> = e /\ e \o <<>> = WrittenWire
    BY ReadingFacts, ConcatEmptySeq DEF Restored, AfterGroups
  <2>2. <<End>> \o <<>> = <<End>>
    OBVIOUS
  <2>3. Restored' <=> e \o (<<End>> \o <<>>) = WrittenWire'
    BY <1>2 DEF Restored, AfterGroups
  <2>4. WrittenWire' = WrittenWire \o <<End>>
    BY <1>1, WrittenGrows, ReadingFacts
  <2> HIDE DEF e
  <2>5. QED
    BY <2>1, <2>2, <2>3, <2>4
<1>7. Message' \in [status: {"reading", "data", "error"}, groups: Seq(Groups), data: Seq({Byte(3)})]
  BY <1>2, ReadingFacts
<1>8. QED
  BY <1>2, <1>3, <1>4, <1>5, <1>6, <1>7, ReadingFacts DEF CInv, CTypeOK

\* A request is refused for its last token.
LEMMA Refused ==
  ASSUME CInv, NEW t \in Tokens, wire' = Append(wire, t), t.type = "byte" <=> Ended,
         Message.status = "reading", Message' = [Message EXCEPT !.status = "error"],
         NEW k \in Nat, k = Len(wire) + 1, ~ WellPlaced(k)'
  PROVE  CInv'
<1>1. Malformed'
  BY MalformedGrows, ReadingFacts
<1>2. Message' = [status |-> "error", groups |-> Message.groups, data |-> <<>>]
  BY ReadingFacts
<1>3. Message' \in [status: {"reading", "data", "error"}, groups: Seq(Groups), data: Seq({Byte(3)})]
  BY <1>2, ReadingFacts
<1>4. QED
  BY <1>1, <1>2, <1>3, ReadingFacts DEF CInv, CTypeOK

\* A value is read into the last group.
LEMMA ValueRead ==
  ASSUME CInv, NEW t \in Tokens, wire' = Append(wire, t), t.type = "byte" <=> Ended,
         Message.status = "reading", t.type = "value",
         NEW k \in Nat, k = Len(wire) + 1, WellPlaced(k)', Message.groups # <<>>,
         NEW h \in Groups, h.attributes # <<>>,
         EncodeGroup(h) = EncodeGroup(Last(Message.groups)) \o <<Written(t)>>,
         ValuesOf(h) = ValuesOf(Last(Message.groups)) \o <<Typed(t)>>,
         Message' = [Message EXCEPT !.groups = [@ EXCEPT ![Len(@)] = h]],
         t.name \in Names \/ HasAttribute
  PROVE  CInv'
<1> DEFINE gs   == Message.groups
           more == [gs EXCEPT ![Len(gs)] = h]
<1>1. /\ gs \in Seq(Groups) /\ gs # <<>>
      /\ <<Written(t)>> \in Seq(WrittenTokens) /\ <<Typed(t)>> \in Seq(TypedValues)
  <2>1. Typed(t) \in TypedValues
    BY TokenTypes DEF TypedValues
  <2>2. <<Typed(t)>> \in Seq(TypedValues)
    BY <2>1
  <2>3. QED
    BY <2>2, ReadingFacts, WrittenGrows
<1>2. /\ more \in Seq(Groups) /\ Len(more) = Len(gs) /\ more[Len(gs)] = h
      /\ EncodeGroups(more) = EncodeGroups(gs) \o <<Written(t)>>
      /\ AllValues(more) = AllValues(gs) \o <<Typed(t)>>
  <2> DEFINE x == <<Written(t)>>
             y == <<Typed(t)>>
  <2>1. /\ x \in Seq(WrittenTokens) /\ y \in Seq(TypedValues)
        /\ EncodeGroup(h) = EncodeGroup(gs[Len(gs)]) \o x
        /\ ValuesOf(h) = ValuesOf(gs[Len(gs)]) \o y
    BY <1>1 DEF Last
  <2> HIDE DEF x, y, gs
  <2>2. /\ more \in Seq(Groups) /\ Len(more) = Len(gs) /\ more[Len(gs)] = h
        /\ EncodeGroups(more) = EncodeGroups(gs) \o x
        /\ AllValues(more) = AllValues(gs) \o y
    <3>1. gs \in Seq(Groups) /\ gs # <<>> /\ h \in Groups
      BY <1>1
    <3>2. QED
      BY ONLY <2>1, <3>1, LastChanged
  <2>3. QED
    BY <2>2 DEF x, y
<1>3. more # <<>> /\ Last(more).attributes # <<>>
  BY <1>1, <1>2 DEF Last
<1>4. Message' = [Message EXCEPT !.groups = more]
  OBVIOUS
<1> HIDE DEF more
<1>5. /\ Message'.status = "reading" /\ Message'.groups = more /\ Message'.data = <<>>
      /\ Message' \in [status: {"reading", "data", "error"}, groups: Seq(Groups), data: Seq({Byte(3)})]
  <2>1. Message' = [status |-> "reading", groups |-> more, data |-> <<>>]
    BY <1>4, ReadingFacts
  <2>2. more \in Seq(Groups)
    BY <1>2
  <2>3. QED
    BY ONLY <2>1, <2>2
<1>6. ~ Malformed'
  BY MalformedGrows, ReadingFacts
<1>7. Placed'
  <2>1. (HasGroup' <=> HasGroup) /\ HasAttribute' /\ ~ Ended'
    BY KindsGrow, ReadingFacts
  <2>2. HasGroup
    BY <1>1, ReadingFacts DEF Placed
  <2>3. QED
    BY <1>3, <1>5, <2>1, <2>2 DEF Placed
<1>8. Restored'
  BY <1>2, <1>5, RestoredKept, ReadingFacts
<1>9. ValuesInOrder'
  BY <1>2, <1>5, OrderKept, ReadingFacts
<1>10. QED
  BY <1>5, <1>6, <1>7, <1>8, <1>9, ReadingFacts DEF CInv, CTypeOK

LEMMA NamedRead ==
  ASSUME CInv, NEW t \in Tokens, wire' = Append(wire, t), t.type = "byte" <=> Ended,
         Message.status = "reading", t.type = "value", t.name \in Names
  PROVE  CInv'
<1>1. PICK k \in Nat : k = Len(wire) + 1
  BY ReadingFacts, WireGrows
<1>2. WellPlaced(k)' <=> HasGroup
  BY <1>1, LastPlaced, ReadingFacts
<1>3. HasGroup <=> Message.groups # <<>>
  BY ReadingFacts DEF Placed
<1>4. Message' = ReadNamed(Message, t)
  BY ReadingFacts, CodecAssumption DEF ReadToken, NoName
<1>5. CASE Message.groups = <<>>
  <2>1. Message' = [Message EXCEPT !.status = "error"]
    BY <1>4, <1>5 DEF ReadNamed
  <2>2. QED
    BY <1>1, <1>2, <1>3, <1>5, <2>1, Refused
<1>6. CASE Message.groups # <<>>
  <2> DEFINE g == Last(Message.groups)
             v == Typed(t)
             h == [g EXCEPT !.attributes = Append(@, [name |-> t.name, values |-> <<v>>])]
  <2>1. g \in Groups
    BY <1>6, ReadingFacts DEF Last
  <2>2. v \in TypedValues /\ v.tag = t.tag
    BY TokenTypes DEF TypedValues, Typed
  <2>3. Written(t) = Value(t.name, v.tag, EncodeValue(v.tag, v.value))
    BY <2>2 DEF Written
  <2>4. Message' = [Message EXCEPT !.groups = [@ EXCEPT ![Len(@)] = h]]
    <3>1. Message' = [Message EXCEPT !.groups[Len(Message.groups)].attributes =
                        Append(@, [name |-> t.name, values |-> <<Typed(t)>>])]
      BY <1>4, <1>6 DEF ReadNamed
    <3>2. QED
      BY <3>1 DEF Last
  <2> HIDE DEF g, v
  <2>5. /\ h \in Groups /\ h.attributes # <<>>
        /\ EncodeGroup(h) = EncodeGroup(g) \o <<Written(t)>>
        /\ ValuesOf(h) = ValuesOf(g) \o <<v>>
    BY <2>1, <2>2, <2>3, AttributeAdded
  <2> HIDE DEF h
  <2>6. QED
    BY <1>1, <1>2, <1>3, <1>6, <2>4, <2>5, ValueRead DEF g, v
<1>7. QED
  BY <1>5, <1>6

LEMMA AdditionalRead ==
  ASSUME CInv, NEW t \in Tokens, wire' = Append(wire, t), t.type = "byte" <=> Ended,
         Message.status = "reading", t.type = "value", t.name \notin Names
  PROVE  CInv'
<1>1. PICK k \in Nat : k = Len(wire) + 1
  BY ReadingFacts, WireGrows
<1>2. WellPlaced(k)' <=> HasAttribute
  BY <1>1, LastPlaced, ReadingFacts
<1>3. HasAttribute <=> Message.groups # <<>> /\ Last(Message.groups).attributes # <<>>
  BY ReadingFacts DEF Placed
<1>4. t.name = NoName /\ Message' = ReadAdditional(Message, t)
  BY ReadingFacts, TokenTypes DEF ReadToken
<1>5. CASE ~ HasAttribute
  <2>1. Message' = [Message EXCEPT !.status = "error"]
    BY <1>3, <1>4, <1>5 DEF ReadAdditional
  <2>2. QED
    BY <1>1, <1>2, <1>5, <2>1, Refused
<1>6. CASE HasAttribute
  <2> DEFINE g == Last(Message.groups)
             v == Typed(t)
             h == [g EXCEPT !.attributes[Len(g.attributes)].values = Append(@, v)]
  <2>1. g \in Groups /\ g.attributes # <<>>
    BY <1>3, <1>6, ReadingFacts DEF Last
  <2>2. v \in TypedValues /\ v.tag = t.tag
    BY TokenTypes DEF TypedValues, Typed
  <2>3. Written(t) = Value(NoName, v.tag, EncodeValue(v.tag, v.value))
    BY <1>4, <2>2 DEF Written
  <2>4. Message' = [Message EXCEPT !.groups = [@ EXCEPT ![Len(@)] = h]]
    <3>1. Message' = [Message EXCEPT
              !.groups[Len(Message.groups)].attributes[Len(Last(Message.groups).attributes)].values =
                Append(@, Typed(t))]
      BY <1>3, <1>4, <1>6 DEF ReadAdditional
    <3>2. QED
      BY <3>1 DEF Last
  <2> HIDE DEF g, v
  <2>5. /\ h \in Groups /\ h.attributes # <<>>
        /\ EncodeGroup(h) = EncodeGroup(g) \o <<Written(t)>>
        /\ ValuesOf(h) = ValuesOf(g) \o <<v>>
    BY <2>1, <2>2, <2>3, ValueAdded
  <2> HIDE DEF h
  <2>6. QED
    BY <1>1, <1>2, <1>3, <1>6, <2>4, <2>5, ValueRead DEF g, v
<1>7. QED
  BY <1>5, <1>6

LEMMA NextCInv == CInv /\ [Next]_wire => CInv'
<1> SUFFICES ASSUME CInv, [Next]_wire
             PROVE  CInv'
  OBVIOUS
<1>1. CASE UNCHANGED wire
  <2>1. wire' = wire /\ Message' = Message
    BY <1>1 DEF Message
  <2>2. /\ HasGroup' <=> HasGroup
        /\ HasAttribute' <=> HasAttribute
        /\ Ended' <=> Ended
    BY <1>1 DEF HasGroup, HasAttribute, Ended
  <2>3. Malformed' <=> Malformed
    BY <1>1 DEF Malformed, WellPlaced
  <2>4. WrittenWire' = WrittenWire /\ SentValues' = SentValues
    BY <1>1 DEF WrittenWire, SentValues
  <2>5. QED
    BY <2>1, <2>2, <2>3, <2>4 DEF CInv, CTypeOK, Placed, Restored, ValuesInOrder
<1>2. CASE Next
  <2>1. PICK t \in Tokens : wire' = Append(wire, t) /\ (t.type = "byte" <=> Ended)
    BY <1>2, StepAppends
  <2>2. CASE Message.status = "error"
    BY <2>1, <2>2, RefusedStays
  <2>3. CASE Message.status = "data"
    BY <2>1, <2>3, DataRead
  <2>4. CASE Message.status = "reading"
    <3>1. t.type \in {"group", "value", "end", "cut", "byte"}
      BY TokenTypes
    <3>2. CASE t.type = "group"
      BY <2>1, <2>4, <3>2, GroupRead
    <3>3. CASE t.type = "value"
      BY <2>1, <2>4, <3>3, NamedRead, AdditionalRead
    <3>4. CASE t.type = "end"
      BY <2>1, <2>4, <3>4, EndRead
    <3>5. CASE t.type = "cut"
      <4>1. Message' = [Message EXCEPT !.status = "error"]
        BY <2>1, <2>4, <3>5, ReadingFacts DEF ReadToken
      <4>2. PICK k \in Nat : k = Len(wire) + 1
        BY <2>1, <2>4, ReadingFacts, WireGrows
      <4>3. ~ WellPlaced(k)'
        BY <2>1, <2>4, <3>5, <4>2, LastPlaced, ReadingFacts
      <4>4. QED
        BY <2>1, <2>4, <4>1, <4>2, <4>3, Refused
    <3>6. CASE t.type = "byte"
      BY <2>1, <2>4, <3>6, ReadingFacts
    <3>7. QED
      BY <3>1, <3>2, <3>3, <3>4, <3>5, <3>6
  <2>5. QED
    BY <2>2, <2>3, <2>4 DEF CInv, CTypeOK
<1>3. QED
  BY <1>1, <1>2

LEMMA InvariantHolds == Spec => []CInv
BY InitCInv, NextCInv, PTL DEF Spec

(***************************************************************************)
(* The theorems about tokens.                                              *)
(***************************************************************************)
\* A request of any length is refused exactly if one of its values belongs to
\* nothing or it breaks off inside a token: what decode remembers, the groups
\* it has made, is enough to tell.
THEOREM MalformedAreRefused == Spec => []RefusesExactlyTheMalformed
<1>1. CInv => RefusesExactlyTheMalformed
  BY DEF CInv, RefusesExactlyTheMalformed, Malformed
<1>2. QED
  BY <1>1, InvariantHolds, PTL

\* The samples have the meanings that the code of decodeValue gives them; what
\* an instance assumes of its samples, TLC checks there.
SamplesMean == \A s \in Samples : DecodeValue(s.tag, s.raw) = s.means

LEMMA CInvMeans ==
  ASSUME CInv, SamplesMean
  PROVE  ReadsWhatWasMeant
<1> SUFFICES ASSUME Message.status # "error"
             PROVE  LET values == AllValues(Message.groups) IN
                      /\ Len(values) = Len(SentValues)
                      /\ \A k \in DOMAIN values : \A s \in SamplesOf(SentValues[k]) :
                           values[k].value = s.means
  BY DEF ReadsWhatWasMeant
<1> DEFINE values == AllValues(Message.groups)
<1>1. values \in Seq(TypedValues) /\ ValuesInOrder
  BY GroupsTypes DEF CInv, CTypeOK
<1>2. /\ Len(values) = Len(SentValues)
      /\ \A k \in 1..Len(SentValues) : values[k] = Typed(SentValues[k])
  BY <1>1 DEF ValuesInOrder
<1>3. DOMAIN values = 1..Len(SentValues)
  BY <1>1, <1>2
<1> HIDE DEF values
<1>4. ASSUME NEW k \in 1..Len(SentValues), NEW s \in SamplesOf(SentValues[k])
      PROVE  values[k].value = s.means
  <2>1. values[k].value = DecodeValue(SentValues[k].tag, SentValues[k].raw)
    <3>1. values[k] = Typed(SentValues[k])
      BY <1>2
    <3>2. Typed(SentValues[k]).value = DecodeValue(SentValues[k].tag, SentValues[k].raw)
      BY DEF Typed
    <3>3. QED
      BY <3>1, <3>2
  <2>2. s \in Samples /\ s.tag = SentValues[k].tag /\ s.raw = SentValues[k].raw
    BY DEF SamplesOf
  <2>3. QED
    BY <2>1, <2>2 DEF SamplesMean
<1>5. QED
  BY <1>2, <1>3, <1>4 DEF values

\* Every value of an accepted request arrives, in its place and with the
\* meaning it has by itself, whatever stands around it.
THEOREM ValuesArrive == SamplesMean => (Spec => []ReadsWhatWasMeant)
<1> SUFFICES ASSUME SamplesMean
             PROVE  Spec => []ReadsWhatWasMeant
  OBVIOUS
<1>1. CInv => ReadsWhatWasMeant
  BY CInvMeans
<1>2. QED
  BY <1>1, InvariantHolds, PTL

LEMMA CInvRestores == CInv => EncodeRestores
<1> SUFFICES ASSUME CInv, Message.status = "data",
                    \A k \in DOMAIN wire : wire[k].type = "value" =>
                      EncodeValue(wire[k].tag, Typed(wire[k]).value) = wire[k].raw
             PROVE  Encode(Message) = wire
  BY DEF EncodeRestores
<1>1. wire \in Seq(Tokens) /\ Restored /\ Message.data \in Seq({Byte(3)})
      /\ Message.groups \in Seq(Groups)
  BY DEF CInv, CTypeOK
<1>2. ASSUME NEW k \in DOMAIN wire
      PROVE  Written(wire[k]) = wire[k]
  <2>1. wire[k] \in Tokens
    BY <1>1
  <2>2. CASE wire[k].type = "value"
    <3>1. wire[k] = Value(wire[k].name, wire[k].tag, wire[k].raw)
      BY <2>1, <2>2, TokenTypes
    <3>2. QED
      BY <2>2, <3>1 DEF Written
  <2>3. CASE wire[k].type # "value"
    BY <2>3 DEF Written
  <2>4. QED
    BY <2>2, <2>3
<1>3. WrittenWire = wire
  <2>1. wire = [k \in DOMAIN wire |-> wire[k]]
    BY <1>1
  <2>2. QED
    BY <1>2, <2>1 DEF WrittenWire
<1>4. EncodeGroups(Message.groups) \o (<<End>> \o Message.data) = wire
  BY <1>1, <1>3 DEF Restored, AfterGroups
<1>5. (EncodeGroups(Message.groups) \o <<End>>) \o Message.data
        = EncodeGroups(Message.groups) \o (<<End>> \o Message.data)
  <2> DEFINE x == EncodeGroups(Message.groups)
             y == <<End>>
             z == Message.data
             T == WrittenTokens \cup {End, Byte(3)}
  <2>1. x \in Seq(WrittenTokens)
    BY <1>1, GroupsTypes
  <2>2. x \in Seq(T) /\ y \in Seq(T) /\ z \in Seq(T)
    <3>1. WrittenTokens \subseteq T /\ {Byte(3)} \subseteq T /\ End \in T
      OBVIOUS
    <3> HIDE DEF x, z, T
    <3>2. x \in Seq(T)
      BY <2>1, <3>1, SeqMonotonic
    <3>3. z \in Seq(T)
      BY <1>1, <3>1, SeqMonotonic DEF z
    <3>4. QED
      BY <3>1, <3>2, <3>3
  <2> HIDE DEF x, y, z, T
  <2>3. (x \o y) \o z = x \o (y \o z)
    BY <2>2, ConcatAssociative
  <2>4. QED
    BY <2>3 DEF x, y, z
<1>6. QED
  BY <1>4, <1>5 DEF Encode, EncodeGroups

\* encode undoes decode: the groups, attributes and sets of values of a
\* complete request of any length are kept apart as they were sent.
THEOREM RequestsAreRestored == Spec => []EncodeRestores
BY InvariantHolds, CInvRestores, PTL

(***************************************************************************)
(* Octets.  A reader is followed by the place it has come to: y is what    *)
(* arrived, the octets up to p have been read.                             *)
(***************************************************************************)
From(y, p) == SubSeq(y, p + 1, Len(y))
ReaderAt(y, p, read) == [left |-> From(y, p), read |-> read, failed |-> FALSE]
Readers == [left: Seq(Octet), read: Seq(Octet), failed: BOOLEAN]

LEMMA FromIs ==
  ASSUME NEW T, NEW y \in Seq(T), NEW p \in 0..Len(y)
  PROVE  /\ From(y, p) \in Seq(T)
         /\ Len(From(y, p)) = Len(y) - p
         /\ \A i \in 1..(Len(y) - p) : From(y, p)[i] = y[p + i]
BY DEF From

LEMMA SliceIs ==
  ASSUME NEW T, NEW y \in Seq(T), NEW p \in 0..Len(y), NEW n \in Nat, p + n <= Len(y)
  PROVE  /\ SubSeq(y, p + 1, p + n) \in Seq(T)
         /\ Len(SubSeq(y, p + 1, p + n)) = n
         /\ \A i \in 1..n : SubSeq(y, p + 1, p + n)[i] = y[p + i]
OBVIOUS

LEMMA OctetsAreNumbers == Octet \subseteq Nat
BY DEF Octet

LEMMA TakeIs ==
  ASSUME NEW r \in Readers, ~ r.failed, NEW n \in Nat
  PROVE  /\ n > Len(r.left) => Take(r, n) = [r EXCEPT !.failed = TRUE]
         /\ n <= Len(r.left) =>
              Take(r, n) = [left |-> SubSeq(r.left, n + 1, Len(r.left)),
                            read |-> SubSeq(r.left, 1, n), failed |-> FALSE]
<1>1. Len(r.left) \in Nat
  BY DEF Readers
<1>2. ASSUME n > Len(r.left)
      PROVE  Take(r, n) = [r EXCEPT !.failed = TRUE]
  BY <1>2, Zenon DEF Take
<1>3. ASSUME n <= Len(r.left)
      PROVE  Take(r, n) = [left |-> SubSeq(r.left, n + 1, Len(r.left)),
                           read |-> SubSeq(r.left, 1, n), failed |-> FALSE]
  <2>1. ~ (n > Len(r.left))
    BY <1>1, <1>3
  <2>2. QED
    BY <2>1, Zenon DEF Take
<1>4. QED
  BY <1>2, <1>3

LEMMA TakeAt ==
  ASSUME NEW y \in Seq(Octet), NEW p \in 0..Len(y), NEW read \in Seq(Octet), NEW n \in Nat
  PROVE  /\ p + n > Len(y) => Take(ReaderAt(y, p, read), n) = [ReaderAt(y, p, read) EXCEPT !.failed = TRUE]
         /\ p + n <= Len(y) => Take(ReaderAt(y, p, read), n) = ReaderAt(y, p + n, SubSeq(y, p + 1, p + n))
<1> DEFINE x == From(y, p)
           r == ReaderAt(y, p, read)
<1>1. /\ x \in Seq(Octet) /\ Len(x) = Len(y) - p
      /\ \A i \in 1..(Len(y) - p) : x[i] = y[p + i]
  BY FromIs
<1>2. r \in Readers /\ r.left = x /\ ~ r.failed
  BY <1>1 DEF ReaderAt, Readers
<1>3. CASE p + n > Len(y)
  <2> HIDE DEF x, r
  <2>1. n > Len(r.left)
    BY <1>1, <1>2, <1>3
  <2>2. Take(r, n) = [r EXCEPT !.failed = TRUE]
    BY <1>2, <2>1, TakeIs
  <2>3. QED
    BY <1>3, <2>2 DEF r
<1>4. CASE p + n <= Len(y)
  <2>1. Take(r, n) = [left |-> SubSeq(x, n + 1, Len(x)), read |-> SubSeq(x, 1, n), failed |-> FALSE]
    <3> HIDE DEF x, r
    <3>1. n <= Len(r.left)
      BY <1>1, <1>2, <1>4
    <3>2. QED
      BY <1>2, <3>1, TakeIs
  <2>2. SubSeq(x, 1, n) = SubSeq(y, p + 1, p + n)
    BY <1>1, <1>4
  <2>3. SubSeq(x, n + 1, Len(x)) = SubSeq(y, (p + n) + 1, Len(y))
    BY <1>1, <1>4
  <2>4. ReaderAt(y, p + n, SubSeq(y, p + 1, p + n))
          = [left |-> SubSeq(x, n + 1, Len(x)), read |-> SubSeq(x, 1, n), failed |-> FALSE]
    BY <2>2, <2>3, Zenon DEF ReaderAt, From
  <2>5. Take(r, n) = ReaderAt(y, p + n, SubSeq(y, p + 1, p + n))
    BY <2>1, <2>4, Zenon
  <2>6. QED
    BY <1>4, <2>5
<1>5. QED
  BY <1>3, <1>4

\* The length that stands at p.
LengthAt(y, p) == LengthBase * y[p + 1] + y[p + 2]

LEMMA FieldAt ==
  ASSUME NEW y \in Seq(Octet), NEW p \in 0..Len(y), NEW read \in Seq(Octet)
  PROVE  /\ p + 2 <= Len(y) => LengthAt(y, p) \in Nat
         /\ p + 2 > Len(y) \/ p + 2 + LengthAt(y, p) > Len(y)
              => TakeField(ReaderAt(y, p, read)) \in Readers /\ TakeField(ReaderAt(y, p, read)).failed
         /\ p + 2 <= Len(y) /\ p + 2 + LengthAt(y, p) <= Len(y)
              => TakeField(ReaderAt(y, p, read))
                   = ReaderAt(y, p + 2 + LengthAt(y, p),
                              SubSeq(y, p + 3, p + 2 + LengthAt(y, p)))
<1> DEFINE r == ReaderAt(y, p, read)
           n == LengthAt(y, p)
<1>1. r \in Readers /\ ~ r.failed
  BY FromIs DEF ReaderAt, Readers
<1>2. CASE p + 2 > Len(y)
  <2>1. Take(r, 2) = [r EXCEPT !.failed = TRUE]
    BY <1>2, TakeAt
  <2> HIDE DEF r
  <2>2. [r EXCEPT !.failed = TRUE] \in Readers /\ [r EXCEPT !.failed = TRUE].failed
    BY <1>1 DEF Readers
  <2>3. TakeField(r) = [r EXCEPT !.failed = TRUE]
    BY <2>1, <2>2, Zenon DEF TakeField
  <2>4. QED
    BY <1>2, <2>2, <2>3 DEF r
<1>3. CASE p + 2 <= Len(y)
  <2> DEFINE two == SubSeq(y, p + 1, p + 2)
             q == p + 2
             l == ReaderAt(y, q, two)
  <2>1. Take(r, 2) = l
    BY <1>3, TakeAt
  <2>2. /\ two \in Seq(Octet) /\ two[1] = y[p + 1] /\ two[2] = y[p + 2]
    <3>1. 1 \in 1..2 /\ 2 \in 1..2 /\ 2 \in Nat
      OBVIOUS
    <3>2. QED
      BY ONLY <1>3, <3>1, SliceIs, y \in Seq(Octet), p \in 0..Len(y)
  <2>3. n \in Nat /\ n = LengthBase * two[1] + two[2]
    <3>1. y[p + 1] \in Octet /\ y[p + 2] \in Octet
      BY <1>3
    <3>2. n = LengthBase * two[1] + two[2]
      BY <2>2 DEF LengthAt
    <3>3. LengthBase \in Nat /\ two[1] \in Nat /\ two[2] \in Nat
      <4> HIDE DEF n, two
      <4>1. LengthBase \in Nat
        BY FramingAssumption
      <4>2. y[p + 1] \in Nat /\ y[p + 2] \in Nat
        BY <3>1, OctetsAreNumbers
      <4>3. QED
        BY ONLY <2>2, <4>1, <4>2
    <3> HIDE DEF n, two
    <3>4. QED
      BY ONLY <3>2, <3>3
  <2>4. TakeField(r) = Take(l, n)
    <3>1. ~ l.failed /\ l.read = two
      BY DEF ReaderAt
    <3> HIDE DEF l, r, two, n
    <3>2. QED
      BY <2>1, <2>3, <3>1 DEF TakeField
  <2>5. q \in 0..Len(y)
    BY <1>3
  <2> HIDE DEF two, n, q
  <2>6. /\ q + n > Len(y) => Take(l, n) = [l EXCEPT !.failed = TRUE]
        /\ q + n <= Len(y) => Take(l, n) = ReaderAt(y, q + n, SubSeq(y, q + 1, q + n))
    <3>1. two \in Seq(Octet) /\ n \in Nat /\ q \in 0..Len(y) /\ y \in Seq(Octet)
      BY <2>2, <2>3, <2>5
    <3>2. q + n > Len(y) => Take(ReaderAt(y, q, two), n) = [ReaderAt(y, q, two) EXCEPT !.failed = TRUE]
      BY ONLY <3>1, TakeAt
    <3>3. q + n <= Len(y) => Take(ReaderAt(y, q, two), n) = ReaderAt(y, q + n, SubSeq(y, q + 1, q + n))
      BY ONLY <3>1, TakeAt
    <3>4. QED
      BY <3>2, <3>3
  <2>7. l \in Readers
    BY <2>2, <2>5, FromIs DEF ReaderAt, Readers
  <2> HIDE DEF l, r
  <2>8. [l EXCEPT !.failed = TRUE] \in Readers /\ [l EXCEPT !.failed = TRUE].failed
    BY <2>7 DEF Readers
  <2>9. q = p + 2 /\ q + 1 = p + 3
    BY <2>5 DEF q
  <2>10. /\ q + n > Len(y) => TakeField(r) \in Readers /\ TakeField(r).failed
         /\ q + n <= Len(y) => TakeField(r) = ReaderAt(y, q + n, SubSeq(y, q + 1, q + n))
    BY ONLY <2>4, <2>6, <2>8
  <2>11. QED
    BY <1>3, <2>3, <2>9, <2>10 DEF n, r, q
<1>4. QED
  BY <1>2, <1>3

LEMMA FailedFieldStays ==
  ASSUME NEW r \in Readers, r.failed
  PROVE  TakeField(r).failed
<1>1. Take(r, 2) = [r EXCEPT !.failed = TRUE] /\ [r EXCEPT !.failed = TRUE].failed
  BY DEF Take, Readers
<1>2. QED
  BY <1>1 DEF TakeField

(***************************************************************************)
(* Lengths.                                                                *)
(***************************************************************************)
LEMMA WrittenLength ==
  ASSUME NEW n \in Nat
  PROVE  LET high == WriteLength(n)[1]
             low  == WriteLength(n)[2]
         IN  /\ WriteLength(n) = <<high, low>> /\ high \in Octet /\ low \in Octet
             /\ LengthBase * high + low \in Nat /\ Limit \in Nat
             /\ LengthBase * high + low < Limit
             /\ n < Limit => LengthBase * high + low = n
<1> DEFINE q == n \div LengthBase
           high == q % LengthBase
           low == n % LengthBase
<1>0. LengthBase \in Nat \ {0} /\ LengthBase <= 256
  BY FramingAssumption
<1>1. /\ q \in Nat /\ low \in 0..(LengthBase - 1)
      /\ q * LengthBase \in Nat /\ n = q * LengthBase + low
  BY <1>0, DivMod
<1>2. WriteLength(n) = <<high, low>>
  BY DEF WriteLength
<1> HIDE DEF q, low
<1>3. high \in 0..(LengthBase - 1)
  BY <1>0, <1>1
<1>4. /\ high * LengthBase \in Nat
      /\ high * LengthBase <= (LengthBase - 1) * LengthBase
      /\ (LengthBase - 1) * LengthBase = Limit - LengthBase
      /\ LengthBase * high = high * LengthBase
      /\ Limit \in Nat
  <2>1. LengthBase - 1 \in Nat /\ high \in Nat /\ high <= LengthBase - 1
    BY <1>0, <1>3
  <2>2. high * LengthBase \in Nat /\ high * LengthBase <= (LengthBase - 1) * LengthBase
    <3> HIDE DEF high
    <3>1. QED
      BY <1>0, <2>1, Times
  <2>3. (LengthBase - 1) * LengthBase = Limit - LengthBase /\ Limit \in Nat
    BY <1>0 DEF Limit
  <2>4. LengthBase * high = high * LengthBase
    BY <1>0, <2>1
  <2>5. QED
    BY <2>2, <2>3, <2>4
<1>5. ASSUME n < Limit
      PROVE  high = q
  <2>1. ASSUME q >= LengthBase PROVE FALSE
    <3>1. LengthBase * LengthBase <= q * LengthBase
      BY <1>0, <1>1, <2>1, Times
    <3>2. QED
      BY <1>0, <1>1, <1>4, <1>5, <3>1 DEF Limit
  <2>2. q \in 0..(LengthBase - 1)
    BY <1>0, <1>1, <2>1
  <2>3. QED
    BY <1>0, <2>2
<1> HIDE DEF high
<1>6. WriteLength(n)[1] = high /\ WriteLength(n)[2] = low
  BY <1>2
<1>7. high \in Octet /\ low \in Octet
  BY <1>0, <1>1, <1>3 DEF Octet
<1>8. LengthBase * high + low \in Nat /\ LengthBase * high + low < Limit
  <2> DEFINE a == LengthBase * high
  <2>1. a \in Nat /\ a <= Limit - LengthBase
    BY <1>4
  <2> HIDE DEF a
  <2>2. a + low \in Nat /\ a + low < Limit
    BY <1>0, <1>1, <1>4, <2>1
  <2>3. QED
    BY <2>2 DEF a
<1>9. n < Limit => LengthBase * high + low = n
  BY <1>1, <1>4, <1>5
<1>10. QED
  BY <1>2, <1>4, <1>6, <1>7, <1>8, <1>9

(***************************************************************************)
(* One round of the loop of decode at a place.                             *)
(***************************************************************************)
ReadingAt(y, p, tokens) == [left |-> From(y, p), tokens |-> tokens]
BrokenOff(tokens) == [left |-> <<>>, tokens |-> Append(tokens, Cut)]

LEMMA HeadAt ==
  ASSUME NEW y \in Seq(Octet), NEW p \in 0..Len(y)
  PROVE  /\ p = Len(y) => From(y, p) = <<>>
         /\ p < Len(y) => /\ From(y, p) # <<>> /\ Head(From(y, p)) = y[p + 1]
                          /\ Tail(From(y, p)) = From(y, p + 1) /\ p + 1 \in 0..Len(y)
<1>1. p = Len(y) => From(y, p) = <<>>
  BY DEF From
<1>2. ASSUME p < Len(y)
      PROVE  /\ From(y, p) # <<>> /\ Head(From(y, p)) = y[p + 1]
             /\ Tail(From(y, p)) = From(y, p + 1) /\ p + 1 \in 0..Len(y)
  <2> DEFINE x == From(y, p)
             z == From(y, p + 1)
  <2>1. /\ x \in Seq(Octet) /\ Len(x) = Len(y) - p
        /\ \A i \in 1..(Len(y) - p) : x[i] = y[p + i]
    BY FromIs
  <2>2. p + 1 \in 0..Len(y)
    BY <1>2
  <2>3. /\ z \in Seq(Octet) /\ Len(z) = Len(y) - (p + 1)
        /\ \A i \in 1..(Len(y) - (p + 1)) : z[i] = y[(p + 1) + i]
    <3> DEFINE q == p + 1
    <3> HIDE DEF q
    <3>1. q \in 0..Len(y)
      BY <2>2 DEF q
    <3>2. /\ From(y, q) \in Seq(Octet) /\ Len(From(y, q)) = Len(y) - q
          /\ \A i \in 1..(Len(y) - q) : From(y, q)[i] = y[q + i]
      BY <3>1, FromIs
    <3>3. QED
      BY <3>2 DEF q
  <2> HIDE DEF x, z
  <2>4. x # <<>> /\ Head(x) = y[p + 1]
    BY <1>2, <2>1
  <2>5. Tail(x) = z
    <3>1. Tail(x) \in Seq(Octet) /\ Len(Tail(x)) = Len(z)
          /\ \A i \in 1..Len(z) : Tail(x)[i] = x[i + 1]
      BY <1>2, <2>1, <2>3
    <3>2. \A i \in 1..Len(z) : x[i + 1] = z[i]
      BY <1>2, <2>1, <2>3
    <3>3. QED
      BY <2>3, <3>1, <3>2, SeqEqual
  <2>6. QED
    BY <2>2, <2>4, <2>5 DEF x, z
<1>3. QED
  BY <1>1, <1>2

LEMMA NothingReadAtEnd ==
  ASSUME NEW s, s.left = <<>>
  PROVE  ReadNext(s) = s
BY DEF ReadNext

LEMMA DelimiterReadAt ==
  ASSUME NEW y \in Seq(Octet), NEW p \in 0..Len(y), p < Len(y), NEW ts,
         y[p + 1] \in DelimiterTags \ {EndTag}
  PROVE  ReadNext(ReadingAt(y, p, ts)) = ReadingAt(y, p + 1, Append(ts, Group(y[p + 1])))
<1> DEFINE s == ReadingAt(y, p, ts)
<1>1. s.left = From(y, p) /\ s.tokens = ts
  BY DEF ReadingAt
<1>2. s.left # <<>> /\ Head(s.left) = y[p + 1] /\ Tail(s.left) = From(y, p + 1)
  BY <1>1, HeadAt
<1>3. Head(s.left) # EndTag /\ Head(s.left) \in DelimiterTags
  BY <1>2
<1> HIDE DEF s
<1>4. ReadNext(s) = [left |-> Tail(s.left), tokens |-> Append(s.tokens, Group(Head(s.left)))]
  BY <1>2, <1>3, Zenon DEF ReadNext, ReadDelimiter
<1>5. QED
  BY <1>1, <1>2, <1>4, Zenon DEF s, ReadingAt

LEMMA EndReadAt ==
  ASSUME NEW y \in Seq(Octet), NEW p \in 0..Len(y), p < Len(y), NEW ts, y[p + 1] = EndTag
  PROVE  ReadNext(ReadingAt(y, p, ts)) =
           [left |-> <<>>,
            tokens |-> (ts \o <<End>>) \o
                       [k \in 1..Len(From(y, p + 1)) |-> Byte(From(y, p + 1)[k])]]
<1> DEFINE s == ReadingAt(y, p, ts)
<1>1. s.left = From(y, p) /\ s.tokens = ts
  BY DEF ReadingAt
<1>2. s.left # <<>> /\ Head(s.left) = EndTag /\ Tail(s.left) = From(y, p + 1)
  BY <1>1, HeadAt
<1> HIDE DEF s
<1>3. ReadNext(s) = ReadData(s)
  BY <1>2, Zenon DEF ReadNext
<1>4. QED
  BY <1>1, <1>2, <1>3, Zenon DEF s, ReadData

\* Where the name of a value begins that is read at p, where it ends, and where
\* the value ends.
NamePlace(p)  == p + 1
NameEnd(y, p)  == NamePlace(p) + 2 + LengthAt(y, NamePlace(p))
ValueEnd(y, p) == NameEnd(y, p) + 2 + LengthAt(y, NameEnd(y, p))
WholeAt(y, p) ==
  /\ NamePlace(p) + 2 <= Len(y) /\ NameEnd(y, p) <= Len(y)
  /\ NameEnd(y, p) + 2 <= Len(y) /\ ValueEnd(y, p) <= Len(y)

LEMMA ValueReadAt ==
  ASSUME NEW y \in Seq(Octet), NEW p \in 0..Len(y), p < Len(y), NEW ts,
         y[p + 1] \notin DelimiterTags
  PROVE  /\ ~ WholeAt(y, p) => ReadNext(ReadingAt(y, p, ts)) = BrokenOff(ts)
         /\ WholeAt(y, p) =>
              /\ NameEnd(y, p) \in 0..Len(y) /\ ValueEnd(y, p) \in 0..Len(y)
              /\ LengthAt(y, NamePlace(p)) \in Nat /\ LengthAt(y, NameEnd(y, p)) \in Nat
              /\ ReadNext(ReadingAt(y, p, ts)) =
                ReadingAt(y, ValueEnd(y, p),
                  Append(ts, Value(SubSeq(y, NamePlace(p) + 3, NameEnd(y, p)), TagOf(y[p + 1]),
                                   SubSeq(y, NameEnd(y, p) + 3, ValueEnd(y, p)))))
<1> DEFINE s == ReadingAt(y, p, ts)
           a == NamePlace(p)
           b == NameEnd(y, p)
           e == ValueEnd(y, p)
           name == TakeField(Reader(Tail(s.left)))
           value == TakeField(name)
<1>1. s.left = From(y, p) /\ s.tokens = ts
  BY DEF ReadingAt
<1>2. s.left # <<>> /\ Head(s.left) = y[p + 1] /\ Tail(s.left) = From(y, p + 1) /\ p + 1 \in 0..Len(y)
  BY <1>1, HeadAt
<1>3. Head(s.left) # EndTag /\ Head(s.left) \notin DelimiterTags
  BY <1>2 DEF DelimiterTags, EndTag
<1>4. Reader(Tail(s.left)) = ReaderAt(y, a, <<>>) /\ a \in 0..Len(y)
  BY <1>2, Zenon DEF Reader, ReaderAt, NamePlace
<1>5. <<>> \in Seq(Octet)
  OBVIOUS
<1> HIDE DEF s, a
<1>6. /\ a + 2 <= Len(y) => LengthAt(y, a) \in Nat
      /\ a + 2 > Len(y) \/ a + 2 + LengthAt(y, a) > Len(y) => name \in Readers /\ name.failed
      /\ a + 2 <= Len(y) /\ a + 2 + LengthAt(y, a) <= Len(y)
           => name = ReaderAt(y, a + 2 + LengthAt(y, a), SubSeq(y, a + 3, a + 2 + LengthAt(y, a)))
  <2>1. name = TakeField(ReaderAt(y, a, <<>>))
    BY <1>4
  <2> HIDE DEF name
  <2>2. QED
    BY ONLY <1>4, <1>5, <2>1, FieldAt, y \in Seq(Octet), Zenon
<1>7. b = a + 2 + LengthAt(y, a) /\ e = b + 2 + LengthAt(y, b)
  BY Zenon DEF NameEnd, ValueEnd, a
<1> HIDE DEF b, e, name
<1>8. ReadNext(s) = IF value.failed THEN BrokenOff(ts)
                    ELSE [left |-> value.left,
                          tokens |-> Append(ts, Value(name.read, TagOf(y[p + 1]), value.read))]
  BY <1>1, <1>2, <1>3, Zenon DEF ReadNext, ReadValue, BrokenOff, name
<1>9. ASSUME a + 2 > Len(y) \/ (a + 2 <= Len(y) /\ b > Len(y))
      PROVE  ReadNext(s) = BrokenOff(ts)
  <2>1. name \in Readers /\ name.failed
    BY <1>6, <1>7, <1>9
  <2>2. value.failed
    BY <2>1, FailedFieldStays
  <2>3. QED
    BY <1>8, <2>2
<1>10. ASSUME a + 2 <= Len(y), b <= Len(y)
       PROVE  /\ b \in 0..Len(y) /\ LengthAt(y, a) \in Nat
              /\ ~ (b + 2 <= Len(y) /\ e <= Len(y)) => ReadNext(s) = BrokenOff(ts)
              /\ b + 2 <= Len(y) /\ e <= Len(y) =>
                   /\ e \in 0..Len(y) /\ LengthAt(y, b) \in Nat
                   /\ ReadNext(s) =
                        ReadingAt(y, e, Append(ts, Value(SubSeq(y, a + 3, b), TagOf(y[p + 1]),
                                                         SubSeq(y, b + 3, e))))
  <2> DEFINE n == SubSeq(y, a + 3, b)
  <2>1. name = ReaderAt(y, b, n) /\ LengthAt(y, a) \in Nat
    BY <1>6, <1>7, <1>10
  <2>2. b \in 0..Len(y)
    BY <1>4, <1>7, <1>10, <2>1
  <2>3. n \in Seq(Octet)
    <3> DEFINE q == a + 2
    <3>1. q \in 0..Len(y) /\ q + 1 = a + 3 /\ q + LengthAt(y, a) = b
      BY <1>4, <1>7, <1>10, <2>1
    <3> HIDE DEF q
    <3>2. SubSeq(y, q + 1, q + LengthAt(y, a)) \in Seq(Octet)
      BY <1>10, <2>1, <3>1, SliceIs
    <3>3. QED
      BY <3>1, <3>2
  <2> HIDE DEF n
  <2>4. /\ b + 2 <= Len(y) => LengthAt(y, b) \in Nat
        /\ b + 2 > Len(y) \/ b + 2 + LengthAt(y, b) > Len(y) => value.failed
        /\ b + 2 <= Len(y) /\ b + 2 + LengthAt(y, b) <= Len(y)
             => value = ReaderAt(y, b + 2 + LengthAt(y, b), SubSeq(y, b + 3, b + 2 + LengthAt(y, b)))
    BY ONLY <2>1, <2>2, <2>3, FieldAt, y \in Seq(Octet), Zenon
  <2> HIDE DEF value
  <2>5. CASE ~ (b + 2 <= Len(y) /\ e <= Len(y))
    <3>1. b + 2 > Len(y) \/ b + 2 + LengthAt(y, b) > Len(y)
      <4>1. CASE b + 2 <= Len(y)
        <5>1. LengthAt(y, b) \in Nat
          BY <2>4, <4>1
        <5>2. QED
          BY <1>7, <2>2, <2>5, <4>1, <5>1
      <4>2. CASE ~ (b + 2 <= Len(y))
        BY <2>2, <4>2
      <4>3. QED
        BY <4>1, <4>2
    <3>2. value.failed
      BY <2>4, <3>1
    <3>3. ReadNext(s) = BrokenOff(ts)
      BY <1>8, <3>2 DEF value
    <3>4. QED
      BY <2>1, <2>2, <2>5, <3>3
  <2>6. CASE b + 2 <= Len(y) /\ e <= Len(y)
    <3>1. LengthAt(y, b) \in Nat /\ value = ReaderAt(y, e, SubSeq(y, b + 3, e))
      BY <1>7, <2>4, <2>6
    <3>2. ~ value.failed /\ value.left = From(y, e) /\ value.read = SubSeq(y, b + 3, e) /\ name.read = n
      BY <2>1, <3>1 DEF ReaderAt
    <3>3. e \in 0..Len(y)
      BY <1>7, <2>2, <2>6, <3>1
    <3>4. ReadNext(s) = [left |-> value.left,
                         tokens |-> Append(ts, Value(name.read, TagOf(y[p + 1]), value.read))]
      BY <1>8, <3>2 DEF value
    <3>5. ReadNext(s) = ReadingAt(y, e, Append(ts, Value(SubSeq(y, a + 3, b), TagOf(y[p + 1]), SubSeq(y, b + 3, e))))
      BY <3>2, <3>4, Zenon DEF ReadingAt, n
    <3>6. QED
      BY <2>1, <2>2, <2>6, <3>1, <3>3, <3>5
  <2>7. QED
    BY <2>5, <2>6
<1>11. CASE ~ WholeAt(y, p)
  <2>1. ReadNext(s) = BrokenOff(ts)
    <3>1. ~ (a + 2 <= Len(y) /\ b <= Len(y) /\ b + 2 <= Len(y) /\ e <= Len(y))
      BY <1>11, Zenon DEF WholeAt, a, b, e
    <3>2. CASE a + 2 <= Len(y) /\ b <= Len(y)
      BY <1>10, <3>1, <3>2
    <3>3. CASE ~ (a + 2 <= Len(y) /\ b <= Len(y))
      <4>1. a + 2 > Len(y) \/ (a + 2 <= Len(y) /\ b > Len(y))
        <5>1. CASE a + 2 <= Len(y)
          <6>1. b \in Nat
            BY <1>4, <1>6, <1>7, <5>1
          <6>2. QED
            BY <3>3, <5>1, <6>1
        <5>2. CASE ~ (a + 2 <= Len(y))
          BY <1>4, <5>2
        <5>3. QED
          BY <5>1, <5>2
      <4>2. QED
        BY <1>9, <4>1
    <3>4. QED
      BY <3>2, <3>3
  <2>2. QED
    BY <1>11, <2>1 DEF s
<1>12. CASE WholeAt(y, p)
  <2>1. a + 2 <= Len(y) /\ b <= Len(y) /\ b + 2 <= Len(y) /\ e <= Len(y)
    BY <1>12, Zenon DEF WholeAt, a, b, e
  <2>2. /\ b \in 0..Len(y) /\ e \in 0..Len(y) /\ LengthAt(y, a) \in Nat /\ LengthAt(y, b) \in Nat
        /\ ReadNext(s) =
             ReadingAt(y, e, Append(ts, Value(SubSeq(y, a + 3, b), TagOf(y[p + 1]), SubSeq(y, b + 3, e))))
    BY <1>10, <2>1
  <2>3. QED
    BY <1>12, <2>2, Zenon DEF s, a, b, e
<1>13. QED
  BY <1>11, <1>12

(***************************************************************************)
(* Tokens in octets.                                                       *)
(***************************************************************************)
Texts == Seq(Octet \cup {Replacement})
PlainValues == {Value(n, tag, raw) : n \in Seq(Octet), tag \in DOMAIN ValueTags, raw \in Texts}
PlainTokens == {Group(tag) : tag \in DelimiterTags \ {EndTag}} \cup PlainValues
                 \cup {End} \cup {Byte(b) : b \in Octet}

InOctet(t) == IF t.type = "value" THEN [t EXCEPT !.raw = Utf8(@)] ELSE t

\* The fields of a value fit into their lengths.
Fits(t) == t.type = "value" => Len(t.name) < Limit /\ Len(Utf8(t.raw)) < Limit

LEMMA PlainTypes ==
  ASSUME NEW t \in PlainTokens
  PROVE  /\ t.type \in {"group", "value", "end", "byte"}
         /\ t.type = "group" => t = Group(t.tag) /\ t.tag \in DelimiterTags \ {EndTag}
         /\ t.type = "value" => /\ t = Value(t.name, t.tag, t.raw)
                                /\ t.name \in Seq(Octet) /\ t.tag \in DOMAIN ValueTags /\ t.raw \in Texts
         /\ t.type = "end" => t = End
         /\ t.type = "byte" => t = Byte(t.byte) /\ t.byte \in Octet
<1>1. CASE t \in {Group(tag) : tag \in DelimiterTags \ {EndTag}}
  BY <1>1 DEF Group
<1>2. CASE t \in PlainValues
  BY <1>2 DEF PlainValues, Value
<1>3. CASE t = End
  BY <1>3 DEF End
<1>4. CASE t \in {Byte(b) : b \in Octet}
  BY <1>4 DEF Byte
<1>5. QED
  BY <1>1, <1>2, <1>3, <1>4 DEF PlainTokens

LEMMA Utf8Type ==
  ASSUME NEW raw \in Texts
  PROVE  Utf8(raw) \in Seq(Octet) /\ Len(Utf8(raw)) \in Nat
<1> DEFINE ss == [k \in DOMAIN raw |-> IF raw[k] = Replacement THEN <<239, 191, 189>> ELSE <<raw[k]>>]
<1>1. DOMAIN raw = 1..Len(raw) /\ Len(raw) \in Nat
      /\ \A k \in 1..Len(raw) : raw[k] \in Octet \cup {Replacement}
  BY DEF Texts
<1>2. <<239, 191, 189>> \in Seq(Octet)
  BY DEF Octet
<1>3. \A k \in 1..Len(raw) : ss[k] \in Seq(Octet)
  BY <1>1, <1>2
<1>4. ss \in Seq(Seq(Octet))
  BY <1>1, <1>3
<1>5. Utf8(raw) = FlattenSeq(ss)
  BY DEF Utf8
<1> HIDE DEF ss
<1>6. Utf8(raw) \in Seq(Octet)
  BY <1>4, <1>5, FlattenType
<1>7. QED
  BY <1>6

\* Octets are text as they are.
LEMMA Utf8OfOctets ==
  ASSUME NEW raw \in Seq(Octet)
  PROVE  Utf8(raw) = raw /\ raw \in Texts
<1> DEFINE ss == [k \in DOMAIN raw |-> IF raw[k] = Replacement THEN <<239, 191, 189>> ELSE <<raw[k]>>]
           flat == FlattenSeq(ss)
           n == Len(raw)
<1>1. DOMAIN raw = 1..n /\ n \in Nat /\ \A k \in 1..n : raw[k] \in Octet
  OBVIOUS
<1>2. \A k \in 1..n : raw[k] # Replacement
  <2>1. Replacement \notin Octet
    BY DEF Octet, Replacement
  <2>2. QED
    BY <1>1, <2>1
<1>3. /\ ss \in Seq(Seq(Octet)) /\ Len(ss) = n
      /\ \A k \in 1..n : Len(ss[k]) = 1 /\ ss[k][1] = raw[k]
  <2>1. ss = [k \in 1..n |-> <<raw[k]>>]
    BY <1>1, <1>2
  <2> HIDE DEF ss
  <2>2. QED
    BY <1>1, <2>1
<1>4. Utf8(raw) = flat
  BY DEF Utf8
<1>5. raw \in Texts
  <2>1. Octet \subseteq Octet \cup {Replacement}
    OBVIOUS
  <2>2. QED
    BY <2>1, SeqMonotonic DEF Texts
<1> HIDE DEF ss, n
<1>6. Packed(flat, ss, 1)
  BY <1>3, FlattenPacked
<1>7. flat \in Seq(Octet)
  BY <1>3, FlattenType
<1> HIDE DEF flat
<1>8. Len(flat) = n /\ \A k \in 1..n : flat[k] = raw[k]
  <2>1. Len(flat) = 1 * Len(ss) /\ \A k \in 1..Len(ss) : \A b \in 1..1 : flat[1 * (k - 1) + b] = ss[k][b]
    BY <1>6 DEF Packed
  <2>2. ASSUME NEW k \in 1..n
        PROVE  flat[k] = raw[k]
    <3>1. k \in 1..Len(ss) /\ 1 \in 1..1 /\ 1 * (k - 1) + 1 = k
      BY <1>1, <1>3
    <3>2. flat[1 * (k - 1) + 1] = ss[k][1]
      BY <2>1, <3>1
    <3>3. QED
      BY <1>3, <3>1, <3>2
  <2>3. QED
    BY <1>1, <1>3, <2>1, <2>2
<1>9. flat = raw
  <2>1. Len(flat) = Len(raw) /\ \A k \in 1..Len(flat) : flat[k] = raw[k]
    BY <1>8 DEF n
  <2>2. QED
    BY <1>7, <2>1, SeqEqual
<1>10. QED
  BY <1>4, <1>5, <1>9

Joins(w, T, a, b) ==
  /\ w \in Seq(T) /\ Len(w) = Len(a) + Len(b)
  /\ \A i \in 1..Len(a) : w[i] = a[i]
  /\ \A i \in 1..Len(b) : w[Len(a) + i] = b[i]

LEMMA Joined ==
  ASSUME NEW T, NEW a \in Seq(T), NEW b \in Seq(T)
  PROVE  Joins(a \o b, T, a, b)
BY DEF Joins

\* How a value is laid out.
LaidOut(w, tag, name, bytes) ==
  /\ w \in Seq(Octet) /\ Len(w) = 5 + Len(name) + Len(bytes)
  /\ w[1] = tag
  /\ w[2] = WriteLength(Len(name))[1] /\ w[3] = WriteLength(Len(name))[2]
  /\ \A i \in 1..Len(name) : w[3 + i] = name[i]
  /\ w[4 + Len(name)] = WriteLength(Len(bytes))[1]
  /\ w[5 + Len(name)] = WriteLength(Len(bytes))[2]
  /\ \A i \in 1..Len(bytes) : w[5 + Len(name) + i] = bytes[i]

LEMMA LayOut ==
  ASSUME NEW tag \in Octet, NEW name \in Seq(Octet), NEW bytes \in Seq(Octet)
  PROVE  LaidOut(<<tag>> \o WriteLength(Len(name)) \o name \o WriteLength(Len(bytes)) \o bytes,
                 tag, name, bytes)
<1> DEFINE a == WriteLength(Len(name))
           b == WriteLength(Len(bytes))
           n == Len(name)
           m == Len(bytes)
           w1 == <<tag>> \o a
           w2 == w1 \o name
           w3 == w2 \o b
           w4 == w3 \o bytes
<1>1. n \in Nat /\ m \in Nat
  OBVIOUS
<1>2. /\ a \in Seq(Octet) /\ Len(a) = 2 /\ b \in Seq(Octet) /\ Len(b) = 2
  <2>1. /\ a = <<a[1], a[2]>> /\ a[1] \in Octet /\ a[2] \in Octet
        /\ b = <<b[1], b[2]>> /\ b[1] \in Octet /\ b[2] \in Octet
    BY <1>1, WrittenLength
  <2>2. PICK c \in Octet, d \in Octet : a = <<c, d>>
    BY <2>1, Zenon
  <2>3. PICK e \in Octet, f \in Octet : b = <<e, f>>
    BY <2>1, Zenon
  <2> HIDE DEF a, b
  <2>4. QED
    BY ONLY <2>2, <2>3
<1> HIDE DEF a, b
<1>3. /\ w1 \in Seq(Octet) /\ Len(w1) = 3 /\ w1[1] = tag
      /\ w1[2] = a[1] /\ w1[3] = a[2]
  <2> DEFINE first == <<tag>>
  <2>1. first \in Seq(Octet) /\ Len(first) = 1 /\ first[1] = tag /\ w1 = first \o a
    OBVIOUS
  <2> HIDE DEF first, w1
  <2>2. Joins(w1, Octet, first, a)
    BY ONLY <1>2, <2>1, Joined, Zenon
  <2>3. QED
    BY ONLY <1>2, <2>1, <2>2 DEF Joins
<1> HIDE DEF w1
<1>4. /\ w2 \in Seq(Octet) /\ Len(w2) = 3 + n
      /\ \A i \in 1..3 : w2[i] = w1[i]
      /\ \A i \in 1..n : w2[3 + i] = name[i]
  <2>1. w2 = w1 \o name
    OBVIOUS
  <2> HIDE DEF w2, n
  <2>2. Joins(w2, Octet, w1, name)
    BY ONLY <1>3, <2>1, name \in Seq(Octet), Joined, Zenon
  <2>3. n = Len(name)
    BY DEF n
  <2>4. QED
    BY ONLY <1>1, <1>3, <2>2, <2>3 DEF Joins
<1> HIDE DEF w2
<1>5. /\ w3 \in Seq(Octet) /\ Len(w3) = 5 + n
      /\ \A i \in 1..(3 + n) : w3[i] = w2[i]
      /\ \A i \in 1..2 : w3[3 + n + i] = b[i]
  <2>1. w3 = w2 \o b
    OBVIOUS
  <2> HIDE DEF w3, n
  <2>2. Joins(w3, Octet, w2, b)
    BY ONLY <1>2, <1>4, <2>1, Joined, Zenon
  <2>3. QED
    BY ONLY <1>1, <1>2, <1>4, <2>2 DEF Joins
<1> HIDE DEF w3
<1>6. /\ w4 \in Seq(Octet) /\ Len(w4) = 5 + n + m
      /\ \A i \in 1..(5 + n) : w4[i] = w3[i]
      /\ \A i \in 1..m : w4[5 + n + i] = bytes[i]
  <2>1. w4 = w3 \o bytes
    OBVIOUS
  <2> HIDE DEF w4, n, m
  <2>2. Joins(w4, Octet, w3, bytes)
    BY ONLY <1>5, <2>1, bytes \in Seq(Octet), Joined, Zenon
  <2>3. m = Len(bytes)
    BY DEF m
  <2>4. QED
    BY ONLY <1>1, <1>5, <2>2, <2>3 DEF Joins
<1> HIDE DEF w4
<1>7. \A i \in 1..(3 + n) : w4[i] = w2[i]
  BY <1>1, <1>5, <1>6
<1>8. /\ w4[1] = tag /\ w4[2] = a[1] /\ w4[3] = a[2]
      /\ \A i \in 1..n : w4[3 + i] = name[i]
  <2>1. 1 \in 1..(3 + n) /\ 2 \in 1..(3 + n) /\ 3 \in 1..(3 + n) /\ 1 \in 1..3 /\ 2 \in 1..3 /\ 3 \in 1..3
    BY <1>1
  <2>2. \A i \in 1..n : 3 + i \in 1..(3 + n)
    BY <1>1
  <2> HIDE DEF n
  <2>3. QED
    BY <1>3, <1>4, <1>7, <2>1, <2>2
<1>9. w4[4 + n] = b[1] /\ w4[5 + n] = b[2]
  <2>1. 4 + n \in 1..(5 + n) /\ 5 + n \in 1..(5 + n) /\ 1 \in 1..2 /\ 2 \in 1..2
        /\ 3 + n + 1 = 4 + n /\ 3 + n + 2 = 5 + n
    BY <1>1
  <2> HIDE DEF n
  <2>2. w3[3 + n + 1] = b[1] /\ w3[3 + n + 2] = b[2]
    BY <1>5, <2>1
  <2>3. QED
    BY <1>6, <2>1, <2>2
<1>10. LaidOut(w4, tag, name, bytes)
  BY <1>6, <1>8, <1>9, Zenon DEF LaidOut, n, m, a, b
<1>11. QED
  BY <1>10, Zenon DEF w4, w3, w2, w1, a, b

LEMMA ValueTagsAre ==
  ASSUME NEW tag \in DOMAIN ValueTags
  PROVE  /\ ValueTags[tag] \in Octet /\ ValueTags[tag] \notin DelimiterTags
         /\ TagOf(ValueTags[tag]) = tag
<1>1. tag \in {"noValue", "integer", "boolean", "octets", "range", "text"}
  BY DEF ValueTags
<1>2. \A u \in DOMAIN ValueTags : ValueTags[u] = ValueTags[tag] => u = tag
  BY <1>1 DEF ValueTags
<1>3. TagOf(ValueTags[tag]) = tag
  <2> DEFINE o == ValueTags[tag]
  <2>1. \E u \in DOMAIN ValueTags : ValueTags[u] = o
    OBVIOUS
  <2>2. TagOf(o) = CHOOSE u \in DOMAIN ValueTags : ValueTags[u] = o
    BY <2>1, Zenon DEF TagOf
  <2>3. QED
    BY <1>2, <2>1, <2>2, Zenon
<1>4. ValueTags[tag] \in Octet /\ ValueTags[tag] \notin DelimiterTags
  BY <1>1 DEF ValueTags, Octet, DelimiterTags
<1>5. QED
  BY <1>3, <1>4

\* The octets of a token.
LEMMA OctetsOf ==
  ASSUME NEW t \in PlainTokens
  PROVE  /\ Octets(t) \in Seq(Octet) /\ Len(Octets(t)) \in Nat \ {0}
         /\ t.type = "group" => Octets(t) = <<t.tag>>
         /\ t.type = "end" => Octets(t) = <<EndTag>>
         /\ t.type = "byte" => Octets(t) = <<t.byte>>
         /\ t.type = "value" => LaidOut(Octets(t), ValueTags[t.tag], t.name, Utf8(t.raw))
<1>1. CASE t.type = "group"
  <2>1. DelimiterTags \subseteq Octet
    BY DEF DelimiterTags, Octet
  <2>2. Octets(t) = <<t.tag>>
    BY <1>1, Zenon DEF Octets
  <2>3. t.tag \in Octet
    BY <1>1, <2>1, PlainTypes
  <2>4. QED
    BY <1>1, <2>2, <2>3
<1>2. CASE t.type = "end"
  <2>1. Octets(t) = <<EndTag>> /\ EndTag \in Octet
    BY <1>2 DEF Octets, EndTag, Octet
  <2>2. QED
    BY <1>2, <2>1
<1>3. CASE t.type = "byte"
  <2>1. Octets(t) = <<t.byte>> /\ t.byte \in Octet
    BY <1>3, PlainTypes DEF Octets
  <2>2. QED
    BY <1>3, <2>1
<1>4. CASE t.type = "value"
  <2> DEFINE bytes == Utf8(t.raw)
             name == t.name
             tag == ValueTags[t.tag]
  <2>1. name \in Seq(Octet) /\ bytes \in Seq(Octet) /\ tag \in Octet
    BY <1>4, PlainTypes, Utf8Type, ValueTagsAre
  <2>2. Octets(t) = <<tag>> \o WriteLength(Len(name)) \o name \o WriteLength(Len(bytes)) \o bytes
    BY <1>4, Zenon DEF Octets
  <2> HIDE DEF bytes, name, tag
  <2>3. LaidOut(Octets(t), tag, name, bytes)
    BY <2>1, <2>2, LayOut
  <2>4. Octets(t) \in Seq(Octet) /\ Len(Octets(t)) = 5 + Len(name) + Len(bytes)
    BY <2>3, Zenon DEF LaidOut
  <2>5. Len(name) \in Nat /\ Len(bytes) \in Nat
    BY <2>1
  <2>6. Len(Octets(t)) \in Nat \ {0}
    BY <2>4, <2>5
  <2>7. QED
    BY <1>4, <2>3, <2>4, <2>6 DEF bytes, name, tag
<1>5. QED
  BY <1>1, <1>2, <1>3, <1>4, PlainTypes

\* What stands in y at p is w, as far as y goes.
Agrees(y, p, w) == \A i \in 1..Len(w) : p + i <= Len(y) => y[p + i] = w[i]

\* Numbers that a length stands for when it is read.
Shown(n) == LengthBase * WriteLength(n)[1] + WriteLength(n)[2]

LEMMA ShownIs ==
  ASSUME NEW n \in Nat
  PROVE  Shown(n) \in Nat /\ Limit \in Nat /\ Shown(n) < Limit /\ (n < Limit => Shown(n) = n)
BY WrittenLength DEF Shown

\* A field that stands in y.
LEMMA FieldStands ==
  ASSUME NEW y \in Seq(Octet), NEW q \in 0..Len(y), NEW s \in Seq(Octet),
         q + Len(s) <= Len(y), \A i \in 1..Len(s) : y[q + i] = s[i]
  PROVE  SubSeq(y, q + 1, q + Len(s)) = s
<1> DEFINE n == Len(s)
           x == SubSeq(y, q + 1, q + n)
<1>1. n \in Nat /\ q + n <= Len(y)
  OBVIOUS
<1> HIDE DEF n
<1>2. x \in Seq(Octet) /\ Len(x) = n /\ \A i \in 1..n : x[i] = y[q + i]
  BY <1>1, SliceIs
<1> HIDE DEF x
<1>3. Len(x) = Len(s) /\ \A i \in 1..Len(x) : x[i] = s[i]
  BY <1>2 DEF n
<1>4. x = s
  BY <1>2, <1>3, SeqEqual
<1>5. QED
  BY <1>4 DEF x, n

\* What a value token of octets w says, when it is read at p.
LEMMA LengthsStand ==
  ASSUME NEW y \in Seq(Octet), NEW p \in 0..Len(y), p < Len(y),
         NEW tag, NEW name \in Seq(Octet), NEW bytes \in Seq(Octet),
         NEW w, LaidOut(w, tag, name, bytes), Agrees(y, p, w)
  PROVE  /\ y[p + 1] = tag
         /\ p + 3 <= Len(y) => LengthAt(y, p + 1) = Shown(Len(name))
         /\ p + 5 + Len(name) <= Len(y) => LengthAt(y, p + 3 + Len(name)) = Shown(Len(bytes))
<1> DEFINE n == Len(name)
           m == Len(bytes)
<1>1. n \in Nat /\ m \in Nat
  OBVIOUS
<1>2. /\ Len(w) = 5 + n + m /\ w[1] = tag
      /\ w[2] = WriteLength(n)[1] /\ w[3] = WriteLength(n)[2]
      /\ w[4 + n] = WriteLength(m)[1] /\ w[5 + n] = WriteLength(m)[2]
  BY Zenon DEF LaidOut, n, m
<1> HIDE DEF n, m
<1>3. 1 \in 1..Len(w) /\ 2 \in 1..Len(w) /\ 3 \in 1..Len(w) /\ 4 + n \in 1..Len(w) /\ 5 + n \in 1..Len(w)
  BY <1>1, <1>2
<1>4. y[p + 1] = tag
  <2>1. p + 1 <= Len(y)
    OBVIOUS
  <2>2. QED
    BY <1>2, <1>3, <2>1 DEF Agrees
<1>5. ASSUME p + 3 <= Len(y)
      PROVE  LengthAt(y, p + 1) = Shown(n)
  <2>1. p + 2 <= Len(y)
    BY <1>5
  <2>2. y[p + 2] = w[2] /\ y[p + 3] = w[3]
    BY <1>3, <1>5, <2>1 DEF Agrees
  <2>3. (p + 1) + 1 = p + 2 /\ (p + 1) + 2 = p + 3
    OBVIOUS
  <2>4. QED
    BY <1>2, <2>2, <2>3, Zenon DEF LengthAt, Shown
<1>6. ASSUME p + 5 + n <= Len(y)
      PROVE  LengthAt(y, p + 3 + n) = Shown(m)
  <2>1. p + (4 + n) <= Len(y) /\ p + (5 + n) <= Len(y)
    BY <1>1, <1>6
  <2>2. y[p + (4 + n)] = w[4 + n] /\ y[p + (5 + n)] = w[5 + n]
    BY <1>3, <2>1 DEF Agrees
  <2>3. (p + 3 + n) + 1 = p + (4 + n) /\ (p + 3 + n) + 2 = p + (5 + n)
    BY <1>1
  <2>4. QED
    BY <1>2, <2>2, <2>3, Zenon DEF LengthAt, Shown
<1>7. QED
  BY <1>4, <1>5, <1>6 DEF n, m

\* The value read at p, with what it was sent as.
NameAt(y, p)  == SubSeq(y, NamePlace(p) + 3, NameEnd(y, p))
BytesAt(y, p) == SubSeq(y, NameEnd(y, p) + 3, ValueEnd(y, p))

LEMMA ValueStands ==
  ASSUME NEW y \in Seq(Octet), NEW p \in 0..Len(y), p < Len(y),
         NEW tag, NEW name \in Seq(Octet), NEW bytes \in Seq(Octet),
         NEW w, LaidOut(w, tag, name, bytes), Agrees(y, p, w)
  PROVE  /\ Len(name) < Limit /\ Len(bytes) < Limit /\ p + Len(w) <= Len(y) =>
              /\ WholeAt(y, p) /\ ValueEnd(y, p) = p + Len(w)
              /\ NameAt(y, p) = name /\ BytesAt(y, p) = bytes
         /\ Len(name) < Limit /\ Len(bytes) < Limit /\ p + Len(w) > Len(y) => ~ WholeAt(y, p)
         /\ ~ (Len(name) < Limit /\ Len(bytes) < Limit) /\ WholeAt(y, p) =>
              NameAt(y, p) # name \/ BytesAt(y, p) # bytes
<1> DEFINE n == Len(name)
           m == Len(bytes)
           a == NamePlace(p)
           b == NameEnd(y, p)
           e == ValueEnd(y, p)
<1>1. n \in Nat /\ m \in Nat
  OBVIOUS
<1>2. /\ Len(w) = 5 + n + m
      /\ \A i \in 1..n : w[3 + i] = name[i]
      /\ \A i \in 1..m : w[5 + n + i] = bytes[i]
  BY Zenon DEF LaidOut, n, m
<1> HIDE DEF n, m
<1>3. /\ p + 3 <= Len(y) => LengthAt(y, a) = Shown(n)
      /\ p + 5 + n <= Len(y) => LengthAt(y, p + 3 + n) = Shown(m)
  BY LengthsStand DEF n, m, NamePlace
<1>4. /\ Shown(n) \in Nat /\ Shown(m) \in Nat /\ Limit \in Nat
      /\ Shown(n) < Limit /\ (n < Limit => Shown(n) = n)
      /\ Shown(m) < Limit /\ (m < Limit => Shown(m) = m)
  BY <1>1, ShownIs
<1>5. a = p + 1 /\ b = a + 2 + LengthAt(y, a) /\ e = b + 2 + LengthAt(y, b)
  BY Zenon DEF NamePlace, NameEnd, ValueEnd
<1>6. WholeAt(y, p) <=> a + 2 <= Len(y) /\ b <= Len(y) /\ b + 2 <= Len(y) /\ e <= Len(y)
  BY Zenon DEF WholeAt
<1> HIDE DEF a, b, e
<1>7. p \in Nat /\ Len(y) \in Nat
  OBVIOUS
<1>8. ASSUME p + 3 <= Len(y), n < Limit
      PROVE  b = p + 3 + n
  BY <1>1, <1>3, <1>4, <1>5, <1>7, <1>8
<1>9. ASSUME p + 5 + n <= Len(y), n < Limit
      PROVE  b = p + 3 + n /\ e = p + 5 + n + Shown(m)
  <2>1. b = p + 3 + n
    BY <1>1, <1>7, <1>8, <1>9
  <2>2. LengthAt(y, b) = Shown(m)
    BY <1>3, <1>9, <2>1
  <2>3. e = b + 2 + Shown(m)
    BY <1>5, <2>2, Zenon
  <2>4. QED
    BY ONLY <1>1, <1>4, <1>7, <2>1, <2>3
<1>10. ASSUME n < Limit, m < Limit, p + Len(w) <= Len(y)
       PROVE  WholeAt(y, p) /\ e = p + Len(w) /\ NameAt(y, p) = name /\ BytesAt(y, p) = bytes
  <2>1. p + 5 + n <= Len(y) /\ p + 5 + n + m <= Len(y) /\ p + 3 <= Len(y)
    BY <1>1, <1>2, <1>7, <1>10
  <2>2. b = p + 3 + n /\ e = p + 5 + n + m
    BY <1>4, <1>9, <1>10, <2>1
  <2>3. WholeAt(y, p) /\ e = p + Len(w)
    <3>1. a + 2 <= Len(y) /\ b <= Len(y) /\ b + 2 <= Len(y) /\ e <= Len(y) /\ e = p + Len(w)
      <4>1. a = p + 1
        BY <1>5
      <4>2. QED
        BY ONLY <1>1, <1>2, <1>7, <2>1, <2>2, <4>1
    <3>2. QED
      BY <1>6, <3>1
  <2>4. NameAt(y, p) = name
    <3> DEFINE q == p + 3
    <3>1. q \in 0..Len(y) /\ q + Len(name) <= Len(y) /\ q + Len(name) = b /\ q + 1 = a + 3
      BY <1>1, <1>5, <1>7, <2>1, <2>2 DEF n
    <3>2. ASSUME NEW i \in 1..n
          PROVE  y[q + i] = name[i]
      <4>1. 3 + i \in 1..Len(w) /\ p + (3 + i) <= Len(y) /\ p + (3 + i) = q + i
        BY <1>1, <1>2, <1>7, <2>1
      <4>2. y[p + (3 + i)] = w[3 + i]
        BY <4>1 DEF Agrees
      <4>3. QED
        BY <1>2, <4>1, <4>2
    <3> HIDE DEF q
    <3>3. SubSeq(y, q + 1, q + Len(name)) = name
      BY <3>1, <3>2, FieldStands DEF n
    <3>4. QED
      BY <3>1, <3>3, Zenon DEF NameAt, a, b
  <2>5. BytesAt(y, p) = bytes
    <3> DEFINE q == p + 5 + n
    <3>1. q \in 0..Len(y) /\ q + Len(bytes) <= Len(y) /\ q + Len(bytes) = e /\ q + 1 = b + 3
      <4>1. Len(bytes) = m
        BY DEF m
      <4>2. QED
        BY ONLY <1>1, <1>7, <2>1, <2>2, <4>1
    <3>2. ASSUME NEW i \in 1..m
          PROVE  y[q + i] = bytes[i]
      <4>1. 5 + n + i \in 1..Len(w) /\ p + (5 + n + i) <= Len(y) /\ p + (5 + n + i) = q + i
        BY <1>1, <1>2, <1>7, <2>1
      <4>2. y[p + (5 + n + i)] = w[5 + n + i]
        BY <4>1 DEF Agrees
      <4>3. QED
        BY <1>2, <4>1, <4>2
    <3> HIDE DEF q
    <3>3. SubSeq(y, q + 1, q + Len(bytes)) = bytes
      BY <3>1, <3>2, FieldStands DEF m
    <3>4. QED
      BY <3>1, <3>3, Zenon DEF BytesAt, e, b
  <2>6. QED
    BY <2>3, <2>4, <2>5
<1>11. ASSUME n < Limit, m < Limit, p + Len(w) > Len(y), WholeAt(y, p)
       PROVE  FALSE
  <2>1. p + 3 <= Len(y) /\ b + 2 <= Len(y) /\ e <= Len(y)
    BY <1>5, <1>6, <1>7, <1>11
  <2>2. b = p + 3 + n
    BY <1>8, <1>11, <2>1
  <2>3. p + 5 + n <= Len(y)
    BY <1>1, <1>7, <2>1, <2>2
  <2>4. e = p + 5 + n + m
    BY <1>4, <1>9, <1>11, <2>3
  <2>5. QED
    BY <1>1, <1>2, <1>7, <1>11, <2>1, <2>4
<1>12. ASSUME ~ (n < Limit /\ m < Limit), WholeAt(y, p), NameAt(y, p) = name, BytesAt(y, p) = bytes
       PROVE  FALSE
  <2>1. p + 3 <= Len(y) /\ b <= Len(y) /\ b + 2 <= Len(y) /\ e <= Len(y)
    BY <1>5, <1>6, <1>7, <1>12
  <2>2. Len(NameAt(y, p)) = Shown(n)
    <3> DEFINE q == p + 3
    <3>1. q \in 0..Len(y) /\ q + Shown(n) <= Len(y) /\ q + 1 = a + 3 /\ q + Shown(n) = b
      BY <1>3, <1>4, <1>5, <1>7, <2>1
    <3> HIDE DEF q
    <3>2. Len(SubSeq(y, q + 1, q + Shown(n))) = Shown(n)
      BY <1>4, <3>1, SliceIs
    <3>3. QED
      BY <3>1, <3>2, Zenon DEF NameAt, a, b
  <2>3. n < Limit
    BY <1>4, <1>12, <2>2 DEF n
  <2>4. b = p + 3 + n
    BY <1>8, <2>1, <2>3
  <2>5. p + 5 + n <= Len(y)
    BY <1>1, <1>7, <2>1, <2>4
  <2>6. e = p + 5 + n + Shown(m)
    BY <1>9, <2>3, <2>5
  <2>7. Len(BytesAt(y, p)) = Shown(m)
    <3> DEFINE q == p + 5 + n
    <3>1. q \in 0..Len(y) /\ q + Shown(m) <= Len(y) /\ q + 1 = b + 3 /\ q + Shown(m) = e
      BY <1>1, <1>4, <1>7, <2>1, <2>4, <2>5, <2>6
    <3> HIDE DEF q
    <3>2. Len(SubSeq(y, q + 1, q + Shown(m))) = Shown(m)
      BY <1>4, <3>1, SliceIs
    <3>3. QED
      BY <3>1, <3>2, Zenon DEF BytesAt, e, b
  <2>8. m < Limit
    BY <1>4, <1>12, <2>7 DEF m
  <2>9. QED
    BY <1>12, <2>3, <2>8
<1>13. QED
  BY <1>10, <1>11, <1>12 DEF n, m, e

LEMMA InOctetIs ==
  ASSUME NEW t \in PlainTokens
  PROVE  /\ t.type = "value" => InOctet(t) = Value(t.name, t.tag, Utf8(t.raw))
         /\ t.type # "value" => InOctet(t) = t
<1>1. ASSUME t.type = "value"
      PROVE  InOctet(t) = Value(t.name, t.tag, Utf8(t.raw))
  <2>1. PICK n, g, r : t = Value(n, g, r)
    BY <1>1, PlainTypes
  <2>2. t.name = n /\ t.tag = g /\ t.raw = r
    BY <2>1 DEF Value
  <2> DEFINE u == Utf8(r)
  <2> HIDE DEF u
  <2>3. [Value(n, g, r) EXCEPT !.raw = u] = Value(n, g, u)
    BY DEF Value
  <2>4. InOctet(t) = [t EXCEPT !.raw = Utf8(t.raw)]
    BY <1>1, Zenon DEF InOctet
  <2>5. QED
    BY <2>1, <2>2, <2>3, <2>4, Zenon DEF u
<1>2. QED
  BY <1>1 DEF InOctet

\* A token before the end of the attributes, read where it stands.
LEMMA TokenRead ==
  ASSUME NEW y \in Seq(Octet), NEW p \in 0..Len(y), p < Len(y), NEW ts,
         NEW t \in PlainTokens, t.type \in {"group", "value"}, Agrees(y, p, Octets(t))
  PROVE  LET q == p + Len(Octets(t))
             s == ReadNext(ReadingAt(y, p, ts))
         IN  /\ Fits(t) /\ q <= Len(y) => s = ReadingAt(y, q, Append(ts, InOctet(t)))
             /\ Fits(t) /\ q > Len(y) => s = BrokenOff(ts)
             /\ ~ Fits(t) => \E u : s.tokens = Append(ts, u) /\ u # InOctet(t)
<1> DEFINE w == Octets(t)
           q == p + Len(w)
           s == ReadNext(ReadingAt(y, p, ts))
<1>1. CASE t.type = "group"
  <2>1. w = <<t.tag>> /\ t = Group(t.tag) /\ t.tag \in DelimiterTags \ {EndTag}
    BY <1>1, OctetsOf, PlainTypes
  <2>2. Len(w) = 1 /\ w[1] = t.tag
    BY <2>1
  <2>3. p + 1 <= Len(y) /\ 1 \in 1..Len(w)
    BY <2>2
  <2>4. y[p + 1] = t.tag
    BY <2>2, <2>3 DEF Agrees
  <2> HIDE DEF w
  <2>5. s = ReadingAt(y, p + 1, Append(ts, Group(y[p + 1])))
    BY <2>1, <2>4, DelimiterReadAt
  <2>6. InOctet(t) = t /\ Fits(t)
    BY <1>1 DEF InOctet, Fits
  <2>7. s = ReadingAt(y, p + 1, Append(ts, InOctet(t)))
    BY <2>1, <2>4, <2>5, <2>6, Zenon
  <2> HIDE DEF s
  <2>8. QED
    BY <2>2, <2>3, <2>6, <2>7 DEF w, s
<1>2. CASE t.type = "value"
  <2> DEFINE tag == ValueTags[t.tag]
             name == t.name
             bytes == Utf8(t.raw)
  <2>1. name \in Seq(Octet) /\ bytes \in Seq(Octet) /\ t.tag \in DOMAIN ValueTags
    BY <1>2, PlainTypes, Utf8Type
  <2>2. LaidOut(w, tag, name, bytes)
    BY <1>2, OctetsOf
  <2>3. TagOf(tag) = t.tag /\ tag \notin DelimiterTags
    BY <2>1, ValueTagsAre
  <2>4. InOctet(t) = Value(name, t.tag, bytes)
    BY <1>2, InOctetIs
  <2>5. Fits(t) <=> Len(name) < Limit /\ Len(bytes) < Limit
    BY <1>2 DEF Fits
  <2> HIDE DEF tag, name, bytes, w
  <2>6. /\ Len(name) < Limit /\ Len(bytes) < Limit /\ p + Len(w) <= Len(y) =>
              /\ WholeAt(y, p) /\ ValueEnd(y, p) = p + Len(w)
              /\ NameAt(y, p) = name /\ BytesAt(y, p) = bytes
        /\ Len(name) < Limit /\ Len(bytes) < Limit /\ p + Len(w) > Len(y) => ~ WholeAt(y, p)
        /\ ~ (Len(name) < Limit /\ Len(bytes) < Limit) /\ WholeAt(y, p) =>
              NameAt(y, p) # name \/ BytesAt(y, p) # bytes
    <3>1. Agrees(y, p, w)
      BY DEF w
    <3>2. QED
      BY ONLY <2>1, <2>2, <3>1, ValueStands, y \in Seq(Octet), p \in 0..Len(y), p < Len(y), Zenon
  <2>7. y[p + 1] = tag
    <3>1. Agrees(y, p, w)
      BY DEF w
    <3>2. QED
      BY ONLY <2>1, <2>2, <3>1, LengthsStand, y \in Seq(Octet), p \in 0..Len(y), p < Len(y), Zenon
  <2>8. /\ ~ WholeAt(y, p) => s = BrokenOff(ts)
        /\ WholeAt(y, p) =>
             s = ReadingAt(y, ValueEnd(y, p), Append(ts, Value(NameAt(y, p), t.tag, BytesAt(y, p))))
    <3>1. y[p + 1] \notin DelimiterTags /\ TagOf(y[p + 1]) = t.tag
      BY <2>3, <2>7
    <3>2. /\ ~ WholeAt(y, p) => s = BrokenOff(ts)
          /\ WholeAt(y, p) =>
               s = ReadingAt(y, ValueEnd(y, p),
                     Append(ts, Value(SubSeq(y, NamePlace(p) + 3, NameEnd(y, p)), TagOf(y[p + 1]),
                                      SubSeq(y, NameEnd(y, p) + 3, ValueEnd(y, p)))))
      BY ONLY <3>1, ValueReadAt, y \in Seq(Octet), p \in 0..Len(y), p < Len(y), Zenon
    <3>3. QED
      BY <3>1, <3>2, Zenon DEF NameAt, BytesAt
  <2> HIDE DEF s
  <2>9. ASSUME Fits(t), q <= Len(y)
        PROVE  s = ReadingAt(y, q, Append(ts, InOctet(t)))
    BY <2>4, <2>5, <2>6, <2>8, <2>9, Zenon
  <2>10. ASSUME Fits(t), q > Len(y)
         PROVE  s = BrokenOff(ts)
    BY <2>5, <2>6, <2>8, <2>10, Zenon
  <2>11. ASSUME ~ Fits(t)
         PROVE  \E u : s.tokens = Append(ts, u) /\ u # InOctet(t)
    <3>1. CASE WholeAt(y, p)
      <4> DEFINE u == Value(NameAt(y, p), t.tag, BytesAt(y, p))
      <4>1. s.tokens = Append(ts, u)
        BY <2>8, <3>1 DEF ReadingAt
      <4>2. u.name = NameAt(y, p) /\ u.raw = BytesAt(y, p)
        BY DEF Value
      <4>3. InOctet(t).name = name /\ InOctet(t).raw = bytes
        BY <2>4 DEF Value
      <4>4. NameAt(y, p) # name \/ BytesAt(y, p) # bytes
        BY <2>5, <2>6, <2>11, <3>1
      <4> HIDE DEF u
      <4>5. u # InOctet(t)
        BY <4>2, <4>3, <4>4
      <4>6. QED
        BY <4>1, <4>5
    <3>2. CASE ~ WholeAt(y, p)
      <4>1. s.tokens = Append(ts, Cut)
        BY <2>8, <3>2 DEF BrokenOff
      <4>2. InOctet(t).type = "value" /\ Cut.type = "cut"
        BY <2>4 DEF Value, Cut
      <4>3. Cut # InOctet(t)
        BY <4>2
      <4>4. QED
        BY <4>1, <4>3
    <3>3. QED
      BY <3>1, <3>2
  <2>12. QED
    BY <2>9, <2>10, <2>11 DEF w, s
<1>3. QED
  BY <1>1, <1>2

(***************************************************************************)
(* The body of a message: where its tokens stand.                          *)
(***************************************************************************)
Spelled(v)  == [k \in DOMAIN v |-> Octets(v[k])]
Body(v)     == FlattenSeq(Spelled(v))
First(v, k) == SubSeq(v, 1, k)
Place(v, k) == Len(Body(First(v, k)))

LEMMA FirstIs ==
  ASSUME NEW T, NEW v \in Seq(T), NEW k \in 0..Len(v)
  PROVE  /\ First(v, k) \in Seq(T) /\ Len(First(v, k)) = k
         /\ \A i \in 1..k : First(v, k)[i] = v[i]
         /\ First(v, Len(v)) = v
         /\ First(v, 0) = <<>>
         /\ k < Len(v) => First(v, k + 1) = Append(First(v, k), v[k + 1])
<1>1. /\ First(v, k) \in Seq(T) /\ Len(First(v, k)) = k
      /\ \A i \in 1..k : First(v, k)[i] = v[i]
  BY DEF First
<1>2. First(v, Len(v)) = v /\ First(v, 0) = <<>>
  BY DEF First
<1>3. ASSUME k < Len(v)
      PROVE  First(v, k + 1) = Append(First(v, k), v[k + 1])
  BY <1>3 DEF First
<1>4. QED
  BY <1>1, <1>2, <1>3

LEMMA SpelledType ==
  ASSUME NEW v \in Seq(PlainTokens)
  PROVE  /\ Spelled(v) \in Seq(Seq(Octet)) /\ Len(Spelled(v)) = Len(v)
         /\ \A k \in 1..Len(v) : Spelled(v)[k] = Octets(v[k])
         /\ Body(v) \in Seq(Octet) /\ Len(Body(v)) \in Nat
<1>1. DOMAIN v = 1..Len(v) /\ Len(v) \in Nat /\ \A k \in 1..Len(v) : v[k] \in PlainTokens
  OBVIOUS
<1>2. \A k \in 1..Len(v) : Octets(v[k]) \in Seq(Octet)
  BY <1>1, OctetsOf
<1>3. /\ Spelled(v) \in Seq(Seq(Octet)) /\ Len(Spelled(v)) = Len(v)
      /\ \A k \in 1..Len(v) : Spelled(v)[k] = Octets(v[k])
  BY <1>1, <1>2 DEF Spelled
<1>4. Body(v) \in Seq(Octet)
  BY <1>3, FlattenType DEF Body
<1>5. QED
  BY <1>3, <1>4

LEMMA BodyMore ==
  ASSUME NEW v \in Seq(PlainTokens), NEW t \in PlainTokens
  PROVE  Body(Append(v, t)) = Body(v) \o Octets(t)
<1> DEFINE x == Append(v, t)
           ss == Spelled(v)
           tt == Spelled(x)
<1>1. x \in Seq(PlainTokens) /\ Len(x) = Len(v) + 1 /\ x[Len(v) + 1] = t
      /\ (\A i \in 1..Len(v) : x[i] = v[i]) /\ Len(v) \in Nat
  OBVIOUS
<1> HIDE DEF x
<1>2. /\ ss \in Seq(Seq(Octet)) /\ Len(ss) = Len(v)
      /\ \A k \in 1..Len(v) : ss[k] = Octets(v[k])
  BY SpelledType
<1>3. /\ tt \in Seq(Seq(Octet)) /\ Len(tt) = Len(x)
      /\ \A k \in 1..Len(x) : tt[k] = Octets(x[k])
  BY <1>1, SpelledType
<1> HIDE DEF ss, tt
<1>4. Len(tt) = Len(ss) + 1 /\ (\A i \in 1..Len(ss) : tt[i] = ss[i]) /\ tt[Len(tt)] = Octets(t)
  BY <1>1, <1>2, <1>3
<1>5. FlattenSeq(tt) = FlattenSeq(ss) \o tt[Len(tt)]
  BY <1>2, <1>3, <1>4, FlattenMore
<1>6. QED
  BY <1>4, <1>5 DEF Body, ss, tt, x

\* x begins with z.
StartsWith(x, z) == Len(z) <= Len(x) /\ \A i \in 1..Len(z) : x[i] = z[i]

LEMMA PlaceMore ==
  ASSUME NEW v \in Seq(PlainTokens), NEW k \in 0..Len(v)
  PROVE  /\ Place(v, k) \in Nat /\ Place(v, 0) = 0 /\ Place(v, Len(v)) = Len(Body(v))
         /\ Body(First(v, k)) \in Seq(Octet)
         /\ k < Len(v) => /\ Place(v, k + 1) = Place(v, k) + Len(Octets(v[k + 1]))
                          /\ StartsWith(Body(First(v, k + 1)), Body(First(v, k)))
                          /\ \A i \in 1..Len(Octets(v[k + 1])) :
                               Body(First(v, k + 1))[Place(v, k) + i] = Octets(v[k + 1])[i]
<1>1. First(v, k) \in Seq(PlainTokens) /\ First(v, Len(v)) = v /\ First(v, 0) = <<>>
      /\ (k < Len(v) => First(v, k + 1) = Append(First(v, k), v[k + 1]))
  BY FirstIs
<1>2. Body(First(v, k)) \in Seq(Octet) /\ Place(v, k) \in Nat
  BY <1>1, SpelledType DEF Place
<1>3. Place(v, 0) = 0 /\ Place(v, Len(v)) = Len(Body(v))
  <2>1. Body(<<>>) = <<>>
    <3>1. Spelled(<<>>) = <<>>
      BY DEF Spelled
    <3>2. FlattenSeq(<<>>) = <<>>
      BY EmptySeq DEF FlattenSeq
    <3>3. QED
      BY <3>1, <3>2 DEF Body
  <2>2. QED
    BY <1>1, <2>1 DEF Place
<1>4. ASSUME k < Len(v)
      PROVE  /\ Place(v, k + 1) = Place(v, k) + Len(Octets(v[k + 1]))
             /\ StartsWith(Body(First(v, k + 1)), Body(First(v, k)))
             /\ \A i \in 1..Len(Octets(v[k + 1])) :
                  Body(First(v, k + 1))[Place(v, k) + i] = Octets(v[k + 1])[i]
  <2> DEFINE a == Body(First(v, k))
             b == Octets(v[k + 1])
             w == Body(First(v, k + 1))
  <2>1. v[k + 1] \in PlainTokens
    BY <1>4
  <2>2. w = a \o b /\ b \in Seq(Octet) /\ a \in Seq(Octet)
    BY <1>1, <1>2, <1>4, <2>1, BodyMore, OctetsOf
  <2>3. Place(v, k) = Len(a) /\ Place(v, k + 1) = Len(w)
    BY DEF Place
  <2> HIDE DEF a, b, w
  <2>4. Joins(w, Octet, a, b)
    BY ONLY <2>2, Joined, Zenon
  <2>5. /\ Len(w) = Len(a) + Len(b) /\ Len(a) <= Len(w)
        /\ \A i \in 1..Len(a) : w[i] = a[i]
        /\ \A i \in 1..Len(b) : w[Len(a) + i] = b[i]
    BY ONLY <2>2, <2>4 DEF Joins
  <2>6. StartsWith(w, a)
    BY <2>5, Zenon DEF StartsWith
  <2>7. /\ Place(v, k + 1) = Place(v, k) + Len(b)
        /\ \A i \in 1..Len(b) : w[Place(v, k) + i] = b[i]
    BY <2>3, <2>5, Zenon
  <2>8. QED
    BY <2>6, <2>7, Zenon DEF a, b, w
<1>5. QED
  BY <1>1, <1>2, <1>3, <1>4

LEMMA BodyStarts ==
  ASSUME NEW v \in Seq(PlainTokens), NEW j \in 0..Len(v)
  PROVE  \A k \in Nat : j <= k /\ k <= Len(v) =>
           /\ StartsWith(Body(First(v, k)), Body(First(v, j)))
           /\ Place(v, j) + (k - j) <= Place(v, k)
<1> DEFINE Ahead(k) == /\ StartsWith(Body(First(v, k)), Body(First(v, j)))
                       /\ Place(v, j) + (k - j) <= Place(v, k)
           S == {k \in Nat : j <= k /\ k <= Len(v) => Ahead(k)}
<1>1. Ahead(j)
  <2>1. Body(First(v, j)) \in Seq(Octet) /\ Place(v, j) \in Nat
    BY PlaceMore
  <2>2. Place(v, j) + (j - j) <= Place(v, j)
    BY <2>1
  <2>3. StartsWith(Body(First(v, j)), Body(First(v, j)))
    BY <2>1 DEF StartsWith
  <2>4. QED
    BY <2>2, <2>3
<1>2. ASSUME NEW k \in Nat, j <= k, k + 1 <= Len(v), Ahead(k)
      PROVE  Ahead(k + 1)
  <2> DEFINE a == Body(First(v, j))
             b == Body(First(v, k))
             d == Body(First(v, k + 1))
  <2>1. k \in 0..Len(v) /\ k < Len(v) /\ v[k + 1] \in PlainTokens
    BY <1>2
  <2>2. StartsWith(d, b) /\ Place(v, k + 1) = Place(v, k) + Len(Octets(v[k + 1]))
    BY <2>1, PlaceMore
  <2>3. Len(Octets(v[k + 1])) \in Nat \ {0}
    BY <2>1, OctetsOf
  <2>4. a \in Seq(Octet) /\ b \in Seq(Octet) /\ Place(v, j) \in Nat /\ Place(v, k) \in Nat
        /\ Place(v, k) = Len(b) /\ Place(v, k + 1) = Len(d)
    BY <2>1, PlaceMore DEF Place
  <2>5. StartsWith(b, a) /\ Place(v, j) + (k - j) <= Place(v, k)
    BY <1>2
  <2>6. Place(v, j) + ((k + 1) - j) <= Place(v, k + 1)
    <3> DEFINE l == Len(Octets(v[k + 1]))
               pj == Place(v, j)
               pk == Place(v, k)
    <3>1. l \in Nat \ {0} /\ pj \in Nat /\ pk \in Nat /\ pj + (k - j) <= pk
          /\ Place(v, k + 1) = pk + l
      BY <2>2, <2>3, <2>4, <2>5
    <3> HIDE DEF l, pj, pk
    <3>2. pj + ((k + 1) - j) <= pk + l
      BY <3>1
    <3>3. QED
      BY <3>1, <3>2 DEF pj
  <2> HIDE DEF a, b, d
  <2>7. StartsWith(d, a)
    <3>1. Len(a) \in Nat /\ Len(b) \in Nat /\ Len(d) \in Nat
      BY <2>2, <2>3, <2>4
    <3>2. Len(a) <= Len(d) /\ \A i \in 1..Len(a) : i \in 1..Len(b)
      BY <2>2, <2>5, <3>1 DEF StartsWith
    <3>3. QED
      BY <2>2, <2>5, <3>2 DEF StartsWith
  <2>8. QED
    BY <2>6, <2>7 DEF a, d
<1> HIDE DEF Ahead
<1>3. 0 \in S
  <2>1. 0 \in Nat /\ (j <= 0 => j = 0)
    OBVIOUS
  <2>2. QED
    BY <1>1, <2>1
<1>4. \A k \in Nat : k \in S => k + 1 \in S
  <2>1. SUFFICES ASSUME NEW k \in Nat, k \in S, j <= k + 1, k + 1 <= Len(v)
                 PROVE  Ahead(k + 1)
    OBVIOUS
  <2>2. CASE j = k + 1
    BY <1>1, <2>2
  <2>3. CASE j # k + 1
    <3>1. j <= k /\ k <= Len(v)
      BY <2>1, <2>3
    <3>2. Ahead(k)
      BY <2>1, <3>1
    <3>3. QED
      BY <1>2, <2>1, <3>1, <3>2
  <2>4. QED
    BY <2>2, <2>3
<1> HIDE DEF S
<1>5. Nat \subseteq S
  BY <1>3, <1>4, SetInduction
<1>6. QED
  BY <1>5 DEF S, Ahead

\* A body that breaks off after c octets.
Cutoff(v, c) == SubSeq(Body(v), 1, c)

LEMMA CutoffIs ==
  ASSUME NEW v \in Seq(PlainTokens), NEW c \in 0..Len(Body(v))
  PROVE  /\ Cutoff(v, c) \in Seq(Octet) /\ Len(Cutoff(v, c)) = c
         /\ \A i \in 1..c : Cutoff(v, c)[i] = Body(v)[i]
         /\ Cutoff(v, Len(Body(v))) = Body(v)
BY SpelledType DEF Cutoff

\* The tokens stand at their places in the body, as far as it goes.
LEMMA TokenStands ==
  ASSUME NEW v \in Seq(PlainTokens), NEW c \in 0..Len(Body(v)),
         NEW k \in 0..Len(v), k < Len(v)
  PROVE  Agrees(Cutoff(v, c), Place(v, k), Octets(v[k + 1]))
<1> DEFINE y == Cutoff(v, c)
           w == Octets(v[k + 1])
           d == Body(First(v, k + 1))
           p == Place(v, k)
<1>1. /\ Len(y) = c /\ \A i \in 1..c : y[i] = Body(v)[i]
  BY CutoffIs
<1>2. v[k + 1] \in PlainTokens /\ k + 1 \in 0..Len(v) /\ Len(v) \in 0..Len(v) /\ Len(v) \in Nat
      /\ k + 1 <= Len(v)
  OBVIOUS
<1>3. w \in Seq(Octet) /\ Len(w) \in Nat
  BY <1>2, OctetsOf
<1>4. p \in Nat /\ Len(d) = p + Len(w) /\ \A i \in 1..Len(w) : d[p + i] = w[i]
  BY PlaceMore DEF Place
<1>5. StartsWith(Body(v), d)
  <2>1. StartsWith(Body(First(v, Len(v))), d)
    <3> DEFINE j == k + 1
               n == Len(v)
    <3> HIDE DEF j, n
    <3>1. j \in 0..Len(v) /\ n \in Nat /\ j <= n /\ n <= Len(v)
      BY <1>2 DEF j, n
    <3>2. StartsWith(Body(First(v, n)), Body(First(v, j)))
      BY ONLY <3>1, BodyStarts, v \in Seq(PlainTokens)
    <3>3. QED
      BY <3>2 DEF j, n
  <2>2. First(v, Len(v)) = v
    BY <1>2, FirstIs
  <2>3. QED
    BY <2>1, <2>2
<1> HIDE DEF y, w, d, p
<1>6. ASSUME NEW i \in 1..Len(w), p + i <= Len(y)
      PROVE  y[p + i] = w[i]
  <2>1. p + i \in 1..c /\ p + i \in 1..Len(d)
    BY <1>1, <1>3, <1>4, <1>6
  <2>2. QED
    BY <1>1, <1>4, <1>5, <2>1 DEF StartsWith
<1>7. QED
  BY <1>6 DEF Agrees, y, w, p

(***************************************************************************)
(* The loop of decode over octets.                                         *)
(***************************************************************************)
ReadUpTo(f, y, m) ==
  f = [k \in 0..m |-> IF k = 0 THEN [left |-> y, tokens |-> <<>>] ELSE ReadNext(f[k - 1])]

LEMMA ReadStep ==
  ASSUME NEW y, NEW m \in Nat, NEW f, ReadUpTo(f, y, m)
  PROVE  /\ f[0] = [left |-> y, tokens |-> <<>>]
         /\ \A k \in Nat : k < m => f[k + 1] = ReadNext(f[k])
<1>1. \A k \in 0..m : f[k] = IF k = 0 THEN [left |-> y, tokens |-> <<>>] ELSE ReadNext(f[k - 1])
  BY Zenon DEF ReadUpTo
<1>2. ASSUME NEW k \in Nat, k < m
      PROVE  f[k + 1] = ReadNext(f[k])
  <2>1. k + 1 \in 0..m /\ k + 1 # 0 /\ (k + 1) - 1 = k
    BY <1>2
  <2>2. QED
    BY <1>1, <2>1
<1>3. 0 \in 0..m
  OBVIOUS
<1>4. QED
  BY <1>1, <1>2, <1>3

LEMMA ReadingExists ==
  ASSUME NEW y
  PROVE  \A m \in Nat : \E f : ReadUpTo(f, y, m)
<1> DEFINE S == {m \in Nat : \E f : ReadUpTo(f, y, m)}
           start == [left |-> y, tokens |-> <<>>]
<1>1. 0 \in S
  <2> DEFINE f == [k \in 0..0 |-> start]
  <2>1. ReadUpTo(f, y, 0)
    BY DEF ReadUpTo
  <2>2. QED
    BY <2>1
<1>2. ASSUME NEW m \in Nat, m \in S
      PROVE  m + 1 \in S
  <2>1. PICK f : ReadUpTo(f, y, m)
    BY <1>2
  <2> DEFINE g == [k \in 0..(m + 1) |-> IF k = m + 1 THEN ReadNext(f[m]) ELSE f[k]]
  <2>2. ASSUME NEW k \in 0..(m + 1)
        PROVE  g[k] = IF k = 0 THEN start ELSE ReadNext(g[k - 1])
    <3>1. \A n \in 0..m : g[n] = f[n]
      OBVIOUS
    <3>2. CASE k = m + 1
      <4>1. m \in 0..m /\ k # 0 /\ k - 1 = m
        BY <3>2
      <4>2. QED
        BY <3>1, <3>2, <4>1
    <3>3. CASE k # m + 1
      <4>1. k \in 0..m /\ (k # 0 => k - 1 \in 0..m)
        BY <3>3
      <4>2. f[k] = IF k = 0 THEN start ELSE ReadNext(f[k - 1])
        BY <2>1, <4>1, Zenon DEF ReadUpTo
      <4>3. QED
        BY <3>1, <4>1, <4>2
    <3>4. QED
      BY <3>2, <3>3
  <2>3. g = [k \in 0..(m + 1) |-> g[k]]
    OBVIOUS
  <2> HIDE DEF g
  <2>4. ReadUpTo(g, y, m + 1)
    BY <2>2, <2>3 DEF ReadUpTo
  <2>5. QED
    BY <2>4
<1> HIDE DEF S
<1>3. Nat \subseteq S
  BY <1>1, <1>2, SetInduction
<1>4. QED
  BY <1>3 DEF S

\* f are the states of the loop over y.
Loop(f, y) ==
  /\ f[0] = ReadingAt(y, 0, <<>>)
  /\ \A k \in Nat : k < Len(y) => f[k + 1] = ReadNext(f[k])

LEMMA ReadTokensIs ==
  ASSUME NEW y \in Seq(Octet)
  PROVE  \E f : Loop(f, y) /\ ReadTokens(y) = f[Len(y)].tokens
<1> DEFINE m == Len(y)
<1>1. ReadTokens(y) = (CHOOSE f : ReadUpTo(f, y, m))[m].tokens
  BY Zenon DEF ReadTokens, ReadUpTo
<1>2. m \in Nat
  OBVIOUS
<1>3. PICK f : ReadUpTo(f, y, m) /\ ReadTokens(y) = f[m].tokens
  BY <1>1, <1>2, ReadingExists, Zenon
<1>4. From(y, 0) = y
  BY DEF From
<1>5. ReadingAt(y, 0, <<>>) = [left |-> y, tokens |-> <<>>]
  BY <1>4 DEF ReadingAt
<1> HIDE DEF m
<1>6. /\ f[0] = [left |-> y, tokens |-> <<>>]
      /\ \A k \in Nat : k < m => f[k + 1] = ReadNext(f[k])
  <2>1. ReadUpTo(f, y, m)
    BY <1>3
  <2>2. QED
    BY ONLY <1>2, <2>1, ReadStep
<1>7. Loop(f, y)
  BY <1>5, <1>6 DEF Loop, m
<1>8. QED
  BY <1>3, <1>7 DEF m

\* With nothing left to read the loop has ended.
LEMMA LoopRests ==
  ASSUME NEW y \in Seq(Octet), NEW f, Loop(f, y), NEW j \in 0..Len(y), f[j].left = <<>>
  PROVE  f[Len(y)] = f[j]
<1> DEFINE S == {k \in Nat : j <= k /\ k <= Len(y) => f[k] = f[j]}
<1>1. 0 \in S
  OBVIOUS
<1>2. \A k \in Nat : k \in S => k + 1 \in S
  <2>1. SUFFICES ASSUME NEW k \in Nat, k \in S, j <= k + 1, k + 1 <= Len(y)
                 PROVE  f[k + 1] = f[j]
    OBVIOUS
  <2>2. CASE j = k + 1
    BY <2>2
  <2>3. CASE j # k + 1
    <3>1. j <= k /\ k < Len(y) /\ k <= Len(y)
      BY <2>1, <2>3
    <3>2. f[k] = f[j]
      BY <2>1, <3>1
    <3>3. f[k + 1] = ReadNext(f[k])
      BY <3>1 DEF Loop
    <3>4. QED
      BY <3>2, <3>3, NothingReadAtEnd
  <2>4. QED
    BY <2>2, <2>3
<1> HIDE DEF S
<1>3. Nat \subseteq S
  BY <1>1, <1>2, SetInduction
<1>4. Len(y) \in Nat /\ j <= Len(y) /\ Len(y) <= Len(y)
  OBVIOUS
<1>5. QED
  BY <1>3, <1>4 DEF S

\* Before the end of the attributes; all fields fit; the tokens as they are read.
BeforeEnd(v, k) == \A i \in 1..k : v[i].type \in {"group", "value"}
AllFit(v, k)    == \A i \in 1..k : Fits(v[i])
Arrived(v, k)   == InOctets(First(v, k))

OctetTokens == {InOctet(t) : t \in PlainTokens}

LEMMA InOctetsIs ==
  ASSUME NEW v \in Seq(PlainTokens)
  PROVE  /\ InOctets(v) \in Seq(OctetTokens) /\ Len(InOctets(v)) = Len(v)
         /\ \A k \in 1..Len(v) : InOctets(v)[k] = InOctet(v[k])
<1>1. DOMAIN v = 1..Len(v) /\ Len(v) \in Nat /\ \A k \in 1..Len(v) : v[k] \in PlainTokens
  OBVIOUS
<1>2. InOctets(v) = [k \in 1..Len(v) |-> InOctet(v[k])]
  BY <1>1, Zenon DEF InOctets, InOctet
<1>3. \A k \in 1..Len(v) : InOctet(v[k]) \in OctetTokens
  BY <1>1 DEF OctetTokens
<1>4. QED
  BY <1>1, <1>2, <1>3

LEMMA ArrivedIs ==
  ASSUME NEW v \in Seq(PlainTokens), NEW k \in 0..Len(v)
  PROVE  /\ Arrived(v, k) \in Seq(OctetTokens) /\ Len(Arrived(v, k)) = k
         /\ \A i \in 1..k : Arrived(v, k)[i] = InOctet(v[i])
         /\ Arrived(v, 0) = <<>>
         /\ Arrived(v, Len(v)) = InOctets(v)
<1>1. /\ First(v, k) \in Seq(PlainTokens) /\ Len(First(v, k)) = k
      /\ \A i \in 1..k : First(v, k)[i] = v[i]
      /\ First(v, Len(v)) = v /\ First(v, 0) = <<>>
  BY FirstIs
<1>2. /\ Arrived(v, k) \in Seq(OctetTokens) /\ Len(Arrived(v, k)) = k
      /\ \A i \in 1..k : Arrived(v, k)[i] = InOctet(v[i])
  BY <1>1, InOctetsIs DEF Arrived
<1>3. InOctets(<<>>) = <<>>
  BY DEF InOctets
<1>4. QED
  BY <1>1, <1>2, <1>3 DEF Arrived

LEMMA ArrivedMore ==
  ASSUME NEW v \in Seq(PlainTokens), NEW k \in 0..Len(v), k < Len(v)
  PROVE  Arrived(v, k + 1) = Append(Arrived(v, k), InOctet(v[k + 1]))
<1> DEFINE j == k + 1
           t == InOctet(v[k + 1])
           a == Arrived(v, k)
           b == Arrived(v, j)
<1>1. j \in 0..Len(v) /\ j \in 1..j /\ k \in Nat /\ v[k + 1] \in PlainTokens
  OBVIOUS
<1>2. t \in OctetTokens
  BY <1>1 DEF OctetTokens
<1>3. a \in Seq(OctetTokens) /\ Len(a) = k /\ \A i \in 1..k : a[i] = InOctet(v[i])
  BY ArrivedIs
<1>j. j = k + 1 /\ t = InOctet(v[j])
  OBVIOUS
<1> HIDE DEF j, a, t
<1>4. b \in Seq(OctetTokens) /\ Len(b) = j /\ \A i \in 1..j : b[i] = InOctet(v[i])
  BY ONLY <1>1, ArrivedIs, v \in Seq(PlainTokens)
<1> HIDE DEF b
<1>5. Append(a, t) \in Seq(OctetTokens) /\ Len(Append(a, t)) = k + 1
      /\ (\A i \in 1..k : Append(a, t)[i] = a[i]) /\ Append(a, t)[k + 1] = t
  BY <1>2, <1>3
<1>6. ASSUME NEW i \in 1..j
      PROVE  b[i] = Append(a, t)[i]
  <2>1. CASE i = k + 1
    BY <1>1, <1>4, <1>5, <1>j, <2>1
  <2>2. CASE i # k + 1
    <3>1. i \in 1..k
      BY <1>1, <1>j, <2>2
    <3>2. QED
      BY <1>3, <1>4, <1>5, <3>1
  <2>3. QED
    BY <2>1, <2>2
<1>7. b = Append(a, t)
  BY <1>4, <1>5, <1>6, <1>j, SeqEqual
<1>8. QED
  BY <1>7 DEF b, a, t, j

\* A body that breaks off after c octets, with the loop over it.
CutLoop(v, c, y, f) ==
  /\ v \in Seq(PlainTokens) /\ c \in 0..Len(Body(v))
  /\ y = Cutoff(v, c) /\ Loop(f, y)

LEMMA CutLoopFacts ==
  ASSUME NEW v, NEW c, NEW y, NEW f, CutLoop(v, c, y, f)
  PROVE  /\ v \in Seq(PlainTokens) /\ Len(v) \in Nat /\ c \in Nat
         /\ y \in Seq(Octet) /\ Len(y) = c
         /\ f[0] = ReadingAt(y, 0, <<>>)
         /\ \A k \in Nat : k < c => f[k + 1] = ReadNext(f[k])
         /\ \A k \in 0..Len(v) :
              /\ k < Len(v) => Agrees(y, Place(v, k), Octets(v[k + 1]))
              /\ Place(v, k) \in Nat /\ k <= Place(v, k)
<1>1. v \in Seq(PlainTokens) /\ Len(v) \in Nat /\ c \in 0..Len(Body(v)) /\ Len(Body(v)) \in Nat
  BY SpelledType DEF CutLoop
<1>2. c \in Nat /\ y \in Seq(Octet) /\ Len(y) = c
  BY <1>1, CutoffIs DEF CutLoop
<1>3. f[0] = ReadingAt(y, 0, <<>>) /\ \A k \in Nat : k < c => f[k + 1] = ReadNext(f[k])
  BY <1>2 DEF CutLoop, Loop
<1>4. ASSUME NEW k \in 0..Len(v)
      PROVE  /\ k < Len(v) => Agrees(y, Place(v, k), Octets(v[k + 1]))
             /\ Place(v, k) \in Nat /\ k <= Place(v, k)
  <2>1. k < Len(v) => Agrees(y, Place(v, k), Octets(v[k + 1]))
    BY <1>1, TokenStands DEF CutLoop
  <2>2. Place(v, k) \in Nat /\ Place(v, 0) = 0
    BY <1>1, PlaceMore
  <2>3. 0 \in 0..Len(v) /\ k \in Nat /\ 0 <= k /\ k <= Len(v)
    BY <1>1
  <2>4. Place(v, 0) + (k - 0) <= Place(v, k)
    BY ONLY <1>1, <2>3, BodyStarts
  <2>5. k <= Place(v, k)
    BY <2>2, <2>3, <2>4
  <2>6. QED
    BY <2>1, <2>2, <2>5
<1>5. QED
  BY <1>1, <1>2, <1>3, <1>4

LEMMA ReadBeforeEnd ==
  ASSUME NEW v, NEW c, NEW y, NEW f, CutLoop(v, c, y, f)
  PROVE  \A k \in Nat :
           k <= Len(v) /\ BeforeEnd(v, k) /\ AllFit(v, k) /\ Place(v, k) <= c
             => f[k] = ReadingAt(y, Place(v, k), Arrived(v, k))
<1> DEFINE Come(k) == k <= Len(v) /\ BeforeEnd(v, k) /\ AllFit(v, k) /\ Place(v, k) <= c
           S == {k \in Nat : Come(k) => f[k] = ReadingAt(y, Place(v, k), Arrived(v, k))}
<1>1. 0 \in S
  <2>1. v \in Seq(PlainTokens) /\ f[0] = ReadingAt(y, 0, <<>>) /\ 0 \in 0..Len(v)
    BY CutLoopFacts
  <2>2. Place(v, 0) = 0 /\ Arrived(v, 0) = <<>>
    BY <2>1, PlaceMore, ArrivedIs
  <2>3. QED
    BY <2>1, <2>2
<1>2. ASSUME NEW k \in Nat, k \in S
      PROVE  k + 1 \in S
  <2>1. SUFFICES ASSUME Come(k + 1)
                 PROVE  f[k + 1] = ReadingAt(y, Place(v, k + 1), Arrived(v, k + 1))
    OBVIOUS
  <2> DEFINE t == v[k + 1]
             p == Place(v, k)
             q == Place(v, k + 1)
             ts == Arrived(v, k)
  <2>2. v \in Seq(PlainTokens) /\ Len(v) \in Nat /\ c \in Nat /\ y \in Seq(Octet) /\ Len(y) = c
    BY CutLoopFacts
  <2>3. /\ k \in 0..Len(v) /\ k < Len(v) /\ k <= Len(v) /\ t \in PlainTokens /\ q <= c
    BY <2>1, <2>2
  <2>4. t.type \in {"group", "value"} /\ Fits(t) /\ BeforeEnd(v, k) /\ AllFit(v, k)
    <3>1. k + 1 \in 1..(k + 1) /\ \A i \in 1..k : i \in 1..(k + 1)
      OBVIOUS
    <3>2. QED
      BY <2>1, <3>1 DEF BeforeEnd, AllFit
  <2>5. Octets(t) \in Seq(Octet) /\ Len(Octets(t)) \in Nat \ {0}
    BY <2>3, OctetsOf
  <2>6. p \in Nat /\ q = p + Len(Octets(t))
    BY <2>2, <2>3, PlaceMore
  <2>7. k <= p /\ Agrees(y, p, Octets(t))
    BY <2>3, CutLoopFacts
  <2>8. k < c => f[k + 1] = ReadNext(f[k])
    BY CutLoopFacts
  <2>9. Arrived(v, k + 1) = Append(ts, InOctet(t))
    BY <2>2, <2>3, ArrivedMore
  <2>10. p <= c /\ p < c /\ p \in 0..Len(y) /\ k < c
    <3> DEFINE l == Len(Octets(t))
    <3> HIDE DEF p, q, l
    <3>1. l \in Nat \ {0} /\ q = p + l
      BY <2>5, <2>6 DEF l
    <3>2. QED
      BY ONLY <2>2, <2>3, <2>6, <2>7, <3>1, k \in Nat
  <2>11. f[k] = ReadingAt(y, p, ts)
    BY <1>2, <2>3, <2>4, <2>10
  <2>12. f[k + 1] = ReadNext(ReadingAt(y, p, ts))
    BY <2>8, <2>10, <2>11
  <2> HIDE DEF p, q, t, ts, S
  <2>13. ReadNext(ReadingAt(y, p, ts)) = ReadingAt(y, p + Len(Octets(t)), Append(ts, InOctet(t)))
    <3>1. p + Len(Octets(t)) <= Len(y) /\ p < Len(y)
      BY <2>2, <2>3, <2>6, <2>10
    <3>2. QED
      BY ONLY <2>2, <2>3, <2>4, <2>7, <2>10, <3>1, TokenRead, Zenon
  <2>14. f[k + 1] = ReadingAt(y, q, Append(ts, InOctet(t)))
    BY <2>6, <2>12, <2>13
  <2>15. QED
    BY <2>9, <2>14 DEF q, t, ts
<1> HIDE DEF S
<1>3. Nat \subseteq S
  BY <1>1, <1>2, SetInduction
<1>4. QED
  BY <1>3 DEF S

\* The end of the attributes comes before all data, and nothing else after it.
DataFollowsEnd(v) ==
  \A k \in 1..Len(v) : v[k].type = "byte" <=> \E j \in 1..(k - 1) : v[j].type = "end"

\* The tokens that lie whole in the first c octets.
WholeIn(v, c, k) ==
  /\ k \in 0..Len(v) /\ Place(v, k) <= c
  /\ k < Len(v) => Place(v, k + 1) > c

LEMMA CutBeforeEnd ==
  ASSUME NEW v, NEW c, NEW y, NEW f, CutLoop(v, c, y, f),
         NEW k, WholeIn(v, c, k), BeforeEnd(v, k), AllFit(v, Len(v)), DataFollowsEnd(v)
  PROVE  f[c].tokens = IF Place(v, k) = c THEN Arrived(v, k) ELSE Append(Arrived(v, k), Cut)
<1> DEFINE p == Place(v, k)
           ts == Arrived(v, k)
           t == v[k + 1]
<1>1. /\ v \in Seq(PlainTokens) /\ Len(v) \in Nat /\ c \in Nat /\ y \in Seq(Octet) /\ Len(y) = c
      /\ \A i \in Nat : i < c => f[i + 1] = ReadNext(f[i])
      /\ Loop(f, y)
  BY CutLoopFacts DEF CutLoop
<1>2. k \in 0..Len(v) /\ k \in Nat /\ k <= Len(v) /\ p <= c
  BY <1>1 DEF WholeIn
<1>3. /\ k < Len(v) => Agrees(y, p, Octets(t))
      /\ p \in Nat /\ k <= p
  BY <1>2, CutLoopFacts
<1>4. f[k] = ReadingAt(y, p, ts)
  <2>1. AllFit(v, k)
    BY <1>1, <1>2 DEF AllFit
  <2>2. QED
    BY ONLY <1>2, <2>1, ReadBeforeEnd, CutLoop(v, c, y, f), BeforeEnd(v, k)
<1>5. CASE p = c
  <2>1. From(y, p) = <<>>
    <3> HIDE DEF p
    <3>1. p \in 0..Len(y) /\ p = Len(y)
      BY <1>1, <1>3, <1>5
    <3>2. QED
      BY ONLY <1>1, <3>1, HeadAt
  <2>2. f[k].left = <<>> /\ f[k].tokens = ts
    BY <1>4, <2>1 DEF ReadingAt
  <2>3. k \in 0..Len(y)
    BY <1>1, <1>2, <1>3, <1>5
  <2>4. f[Len(y)] = f[k]
    BY ONLY <1>1, <2>2, <2>3, LoopRests
  <2>5. QED
    BY <1>1, <1>5, <2>2, <2>4
<1>6. CASE p # c
  <2> DEFINE l == Len(Octets(t))
  <2>1. k < Len(v)
    <3>1. Place(v, Len(v)) = Len(Body(v)) /\ c <= Len(Body(v)) /\ Len(Body(v)) \in Nat
      <4>1. Len(v) \in 0..Len(v) /\ c \in 0..Len(Body(v))
        BY <1>1 DEF CutLoop
      <4>2. QED
        BY <1>1, <4>1, PlaceMore, SpelledType
    <3>2. k = Len(v) => p = Len(Body(v))
      BY <3>1
    <3> HIDE DEF p
    <3>3. QED
      BY <1>1, <1>2, <1>3, <1>6, <3>1, <3>2
  <2>2. t \in PlainTokens /\ k + 1 \in 1..Len(v)
    BY <1>1, <1>2, <2>1
  <2>3. l \in Nat \ {0}
    BY <2>2, OctetsOf
  <2>4. p + l > c
    <3>1. Place(v, k + 1) = p + l
      BY <1>1, <1>2, <2>1, PlaceMore
    <3>2. QED
      BY <2>1, <3>1 DEF WholeIn
  <2>5. t.type = "value"
    <3>1. ASSUME t.type # "value"
          PROVE  FALSE
      <4>1. t.type \in {"group", "end", "byte"}
        BY <2>2, <3>1, PlainTypes
      <4>2. l = 1
        BY <2>2, <4>1, OctetsOf
      <4> HIDE DEF p, l
      <4>3. QED
        BY <1>1, <1>2, <1>3, <1>6, <2>4, <4>2
    <3>2. QED
      BY <3>1
  <2>6. Fits(t)
    BY <2>2 DEF AllFit
  <2>7. k < c /\ p < Len(y) /\ p \in 0..Len(y) /\ p + l > Len(y)
    <3> HIDE DEF p, l
    <3>1. QED
      BY <1>1, <1>2, <1>3, <1>6, <2>4
  <2>8. f[k + 1] = ReadNext(ReadingAt(y, p, ts))
    BY <1>1, <1>2, <1>4, <2>7
  <2>9. Agrees(y, p, Octets(t)) /\ t.type \in {"group", "value"}
    BY <1>3, <2>1, <2>5
  <2>10. ReadNext(ReadingAt(y, p, ts)) = BrokenOff(ts)
    <3>1. y \in Seq(Octet) /\ p + Len(Octets(t)) > Len(y)
      BY <1>1, <2>7
    <3> HIDE DEF p, ts, t, l
    <3>2. QED
      BY ONLY <2>2, <2>6, <2>7, <2>9, <3>1, TokenRead, Zenon
  <2>11. f[k + 1].left = <<>> /\ f[k + 1].tokens = Append(ts, Cut)
    BY <2>8, <2>10 DEF BrokenOff
  <2> DEFINE j == k + 1
  <2>12. j \in 0..Len(y) /\ f[j].left = <<>> /\ f[j].tokens = Append(ts, Cut)
    BY <1>1, <1>2, <2>7, <2>11
  <2> HIDE DEF j, ts, p
  <2>13. f[Len(y)] = f[j]
    BY ONLY <1>1, <2>12, LoopRests
  <2>14. QED
    BY <1>1, <1>6, <2>12, <2>13 DEF p, ts
<1>7. QED
  BY <1>5, <1>6

\* What follows the end of the attributes takes an octet each.
LEMMA DataPlaces ==
  ASSUME NEW v \in Seq(PlainTokens), DataFollowsEnd(v),
         NEW e \in 1..Len(v), v[e].type = "end"
  PROVE  \A k \in Nat : e <= k /\ k <= Len(v) => Place(v, k) = Place(v, e) + (k - e)
<1> DEFINE S == {k \in Nat : e <= k /\ k <= Len(v) => Place(v, k) = Place(v, e) + (k - e)}
<1>1. 0 \in S
  OBVIOUS
<1>2. ASSUME NEW k \in Nat, k \in S
      PROVE  k + 1 \in S
  <2>1. SUFFICES ASSUME e <= k + 1, k + 1 <= Len(v)
                 PROVE  Place(v, k + 1) = Place(v, e) + ((k + 1) - e)
    OBVIOUS
  <2>2. e \in 0..Len(v) /\ Len(v) \in Nat
    OBVIOUS
  <2>3. Place(v, e) \in Nat
    BY <2>2, PlaceMore
  <2>4. CASE e = k + 1
    <3> DEFINE p == Place(v, e)
    <3>1. p \in Nat /\ (k + 1) - e = 0 /\ Place(v, k + 1) = p
      BY <2>3, <2>4
    <3> HIDE DEF p
    <3>2. p = p + 0
      BY <3>1
    <3>3. QED
      BY <3>1, <3>2 DEF p
  <2>5. CASE e # k + 1
    <3>1. /\ k \in 0..Len(v) /\ k < Len(v) /\ e <= k /\ k <= Len(v)
          /\ k + 1 \in 1..Len(v) /\ e \in 1..((k + 1) - 1) /\ v[k + 1] \in PlainTokens
      BY <2>1, <2>5
    <3>2. v[k + 1].type = "byte"
      BY <3>1 DEF DataFollowsEnd
    <3>3. Len(Octets(v[k + 1])) = 1
      BY <3>1, <3>2, OctetsOf
    <3>4. Place(v, k + 1) = Place(v, k) + 1
      BY <3>1, <3>3, PlaceMore
    <3>5. Place(v, k) = Place(v, e) + (k - e)
      BY <1>2, <3>1
    <3> DEFINE p == Place(v, e)
    <3>6. Place(v, k + 1) = (p + (k - e)) + 1
      BY <3>4, <3>5
    <3> HIDE DEF p
    <3>7. (p + (k - e)) + 1 = p + ((k + 1) - e)
      BY <2>3, <3>1 DEF p
    <3>8. QED
      BY <3>6, <3>7 DEF p
  <2>6. QED
    BY <2>4, <2>5
<1> HIDE DEF S
<1>3. Nat \subseteq S
  BY <1>1, <1>2, SetInduction
<1>4. QED
  BY <1>3 DEF S

\* The first token that is neither a group nor a value ends the attributes.
FirstEnd(v, e) == e \in 1..Len(v) /\ v[e].type = "end" /\ BeforeEnd(v, e - 1)

LEMMA EndComesFirst ==
  ASSUME NEW v \in Seq(PlainTokens), DataFollowsEnd(v), NEW k \in 0..Len(v), ~ BeforeEnd(v, k)
  PROVE  \E e \in 1..k : FirstEnd(v, e)
<1> DEFINE S == {m \in Nat : m <= k => BeforeEnd(v, m) \/ \E e \in 1..k : FirstEnd(v, e)}
<1>1. 0 \in S
  BY DEF BeforeEnd
<1>2. ASSUME NEW m \in Nat, m \in S
      PROVE  m + 1 \in S
  <2>1. SUFFICES ASSUME m + 1 <= k, ~ \E e \in 1..k : FirstEnd(v, e)
                 PROVE  BeforeEnd(v, m + 1)
    OBVIOUS
  <2>2. BeforeEnd(v, m)
    BY <1>2, <2>1
  <2>3. m + 1 \in 1..k /\ m + 1 \in 1..Len(v) /\ (m + 1) - 1 = m /\ v[m + 1] \in PlainTokens
    BY <2>1
  <2>4. v[m + 1].type # "byte"
    BY <2>2, <2>3 DEF DataFollowsEnd, BeforeEnd
  <2>5. v[m + 1].type # "end"
    <3>1. ~ FirstEnd(v, m + 1)
      BY <2>1, <2>3
    <3>2. QED
      BY <2>2, <2>3, <3>1 DEF FirstEnd
  <2>6. v[m + 1].type \in {"group", "value"}
    BY <2>3, <2>4, <2>5, PlainTypes
  <2>7. ASSUME NEW i \in 1..(m + 1)
        PROVE  v[i].type \in {"group", "value"}
    <3>1. i = m + 1 \/ i \in 1..m
      OBVIOUS
    <3>2. QED
      BY <2>2, <2>6, <3>1 DEF BeforeEnd
  <2>8. QED
    BY <2>7 DEF BeforeEnd
<1> HIDE DEF S
<1>3. Nat \subseteq S
  BY <1>1, <1>2, SetInduction
<1>4. k \in Nat /\ k <= k
  OBVIOUS
<1>5. QED
  BY <1>3, <1>4 DEF S

LEMMA CutAfterEnd ==
  ASSUME NEW v, NEW c, NEW y, NEW f, CutLoop(v, c, y, f),
         NEW k, WholeIn(v, c, k), AllFit(v, Len(v)), DataFollowsEnd(v),
         NEW e \in 1..k, FirstEnd(v, e)
  PROVE  Place(v, k) = c /\ f[c].tokens = Arrived(v, k)
<1> DEFINE b == e - 1
           p == Place(v, b)
           q == Place(v, e)
           ts == Arrived(v, b)
<1>1. /\ v \in Seq(PlainTokens) /\ Len(v) \in Nat /\ c \in Nat /\ y \in Seq(Octet) /\ Len(y) = c
      /\ \A i \in Nat : i < c => f[i + 1] = ReadNext(f[i])
      /\ Loop(f, y)
  BY CutLoopFacts DEF CutLoop
<1>2. k \in 0..Len(v) /\ k \in Nat /\ k <= Len(v) /\ Place(v, k) <= c
  BY <1>1 DEF WholeIn
<1>3. /\ e \in 1..Len(v) /\ e \in Nat /\ e <= k /\ b \in 0..Len(v) /\ b \in Nat /\ b < Len(v) /\ b + 1 = e
      /\ e <= Len(v) /\ b <= Len(v)
  BY <1>1, <1>2
<1>4. v[e].type = "end" /\ BeforeEnd(v, b)
  BY DEF FirstEnd
<1>5. v[e] \in PlainTokens /\ v[e] = End /\ Octets(v[e]) = <<EndTag>>
  <2>1. v[e] \in PlainTokens
    BY <1>1, <1>3
  <2>2. QED
    BY <1>4, <2>1, PlainTypes, OctetsOf
<1>6. q = p + 1 /\ p \in Nat
  <2>1. b + 1 = e /\ Place(v, b + 1) = p + Len(Octets(v[b + 1])) /\ p \in Nat
    BY <1>1, <1>3, PlaceMore
  <2>2. Len(Octets(v[e])) = 1
    BY <1>5
  <2>3. Place(v, b + 1) = p + Len(Octets(v[b + 1])) /\ b + 1 = e
    BY <2>1
  <2> HIDE DEF b, p, q
  <2>4. QED
    BY <1>3, <2>1, <2>2, <2>3 DEF q
<1>7. \A m \in Nat : e <= m /\ m <= Len(v) => Place(v, m) = q + (m - e)
  BY <1>1, <1>3, <1>4, DataPlaces
<1>8. Place(v, k) = c /\ c = q + (k - e)
  <2>1. Place(v, k) = q + (k - e)
    BY <1>2, <1>3, <1>7
  <2>2. CASE k < Len(v)
    <3>1. Place(v, k + 1) > c /\ Place(v, k + 1) = q + ((k + 1) - e)
      BY <1>2, <1>3, <1>7, <2>2 DEF WholeIn
    <3> HIDE DEF p, q, b
    <3>2. QED
      BY <1>1, <1>2, <1>3, <1>6, <2>1, <3>1
  <2>3. CASE k = Len(v)
    <3>1. c \in 0..Len(Body(v)) /\ Len(Body(v)) \in Nat
      BY <1>1, SpelledType DEF CutLoop
    <3>2. Place(v, Len(v)) = Len(Body(v))
      BY <1>1, <1>2, <2>3, PlaceMore
    <3>3. QED
      BY <1>2, <2>1, <2>3, <3>1, <3>2
  <2>4. QED
    BY <1>2, <2>2, <2>3
<1>9. Agrees(y, p, Octets(v[e])) /\ b <= p
  BY <1>3, CutLoopFacts
<1>10. b < c /\ p < c /\ p \in 0..Len(y) /\ p < Len(y) /\ p + 1 \in 0..Len(y) /\ p <= c
  <2> HIDE DEF p, q, b
  <2>1. QED
    BY <1>1, <1>2, <1>3, <1>6, <1>8, <1>9
<1>11. f[b] = ReadingAt(y, p, ts)
  <2>1. AllFit(v, b)
    BY <1>1, <1>3 DEF AllFit
  <2>2. QED
    BY ONLY <1>3, <1>4, <1>10, <2>1, ReadBeforeEnd, CutLoop(v, c, y, f)
<1>12. f[e] = ReadNext(ReadingAt(y, p, ts))
  <2>1. f[b + 1] = ReadNext(f[b])
    BY <1>1, <1>3, <1>10
  <2>2. QED
    BY <1>3, <1>11, <2>1
<1>13. y[p + 1] = EndTag
  <2>1. Len(Octets(v[e])) = 1 /\ Octets(v[e])[1] = EndTag /\ 1 \in 1..1
    BY <1>5
  <2>2. p + 1 <= Len(y)
    BY <1>10
  <2>3. QED
    BY <1>9, <2>1, <2>2 DEF Agrees
<1> DEFINE rest == From(y, p + 1)
           data == [i \in 1..Len(rest) |-> Byte(rest[i])]
<1>14. /\ f[e].left = <<>>
       /\ f[e].tokens = (ts \o <<End>>) \o data
  <2>1. ReadNext(ReadingAt(y, p, ts)) = [left |-> <<>>, tokens |-> (ts \o <<End>>) \o data]
    <3>1. y \in Seq(Octet)
      BY <1>1
    <3> HIDE DEF p, ts
    <3>2. QED
      BY ONLY <1>10, <1>13, <3>1, EndReadAt
  <2> HIDE DEF ts, data, p
  <2>2. QED
    BY <1>12, <2>1
<1>15. rest \in Seq(Octet) /\ Len(rest) = k - e /\ \A i \in 1..(k - e) : rest[i] = y[q + i]
  <2> HIDE DEF p
  <2> DEFINE x == p + 1
  <2> HIDE DEF x
  <2>1. x \in 0..Len(y) /\ x = q
    BY <1>6, <1>10 DEF x
  <2>2. /\ From(y, x) \in Seq(Octet) /\ Len(From(y, x)) = Len(y) - x
        /\ \A i \in 1..(Len(y) - x) : From(y, x)[i] = y[x + i]
    <3>1. y \in Seq(Octet) /\ x \in 0..Len(y)
      BY <1>1, <2>1
    <3>2. QED
      BY ONLY <3>1, FromIs
  <2>3. q \in Nat /\ Len(y) - x = k - e
    <3> HIDE DEF q
    <3>1. QED
      BY <1>1, <1>2, <1>3, <1>6, <1>8, <2>1
  <2>4. QED
    BY <2>1, <2>2, <2>3 DEF x
<1>16. ASSUME NEW i \in 1..(k - e)
       PROVE  Byte(rest[i]) = v[e + i]
  <2> DEFINE j == (e + i) - 1
  <2>1. /\ e + i \in 1..Len(v) /\ j \in 0..Len(v) /\ j < Len(v) /\ j + 1 = e + i /\ e <= j /\ j \in Nat
        /\ j <= Len(v) /\ e \in 1..((e + i) - 1) /\ j - e = i - 1
    BY <1>1, <1>2, <1>3
  <2>2. v[e + i].type = "byte" /\ v[e + i] \in PlainTokens
    <3>1. \E m \in 1..((e + i) - 1) : v[m].type = "end"
      BY <1>4, <2>1
    <3>2. v[e + i].type = "byte"
      BY <2>1, <3>1 DEF DataFollowsEnd
    <3>3. QED
      BY <1>1, <2>1, <3>2
  <2>3. v[e + i] = Byte(v[e + i].byte) /\ Octets(v[e + i]) = <<v[e + i].byte>>
    BY <2>2, PlainTypes, OctetsOf
  <2>4. Place(v, j) = q + (j - e)
    BY <1>7, <2>1
  <2>5. Agrees(y, Place(v, j), Octets(v[j + 1]))
    BY <2>1, CutLoopFacts
  <2>6. Place(v, j) + 1 = q + i /\ q + i <= Len(y)
    <3> HIDE DEF q, j
    <3>1. q \in Nat
      <4>1. p \in Nat /\ q = p + 1
        BY <1>6
      <4> HIDE DEF p
      <4>2. QED
        BY <4>1
    <3>2. QED
      BY <1>1, <1>2, <1>3, <1>8, <2>1, <2>4, <3>1
  <2>7. y[q + i] = v[e + i].byte
    <3> DEFINE w == Octets(v[e + i])
    <3>1. Len(w) = 1 /\ w[1] = v[e + i].byte /\ 1 \in 1..Len(w)
      BY <2>3
    <3>2. Agrees(y, Place(v, j), w)
      BY <2>1, <2>5
    <3> HIDE DEF w, q, j
    <3>3. QED
      BY <2>6, <3>1, <3>2 DEF Agrees
  <2>8. QED
    BY <1>15, <2>3, <2>7
<1>17. (ts \o <<End>>) \o data = Arrived(v, k)
  <2> DEFINE a == Arrived(v, k)
             T == OctetTokens \cup {End}
  <2>1. ts \in Seq(OctetTokens) /\ Len(ts) = b /\ \A i \in 1..b : ts[i] = InOctet(v[i])
    <3> HIDE DEF b
    <3>1. QED
      BY <1>1, <1>3, ArrivedIs
  <2>2. a \in Seq(OctetTokens) /\ Len(a) = k /\ \A i \in 1..k : a[i] = InOctet(v[i])
    BY <1>1, <1>2, ArrivedIs
  <2>3. \A i \in 1..(k - e) : e + i \in 1..Len(v) /\ v[e + i] \in PlainTokens
                              /\ InOctet(v[e + i]) = v[e + i]
    <3>1. SUFFICES ASSUME NEW i \in 1..(k - e)
                   PROVE  e + i \in 1..Len(v) /\ v[e + i] \in PlainTokens
                          /\ InOctet(v[e + i]) = v[e + i]
      OBVIOUS
    <3>2. e + i \in 1..Len(v) /\ v[e + i] \in PlainTokens /\ e \in 1..((e + i) - 1)
      BY <1>1, <1>2, <1>3
    <3>3. v[e + i].type = "byte"
      BY <1>4, <3>2 DEF DataFollowsEnd
    <3>4. QED
      BY <3>2, <3>3, InOctetIs
  <2>4. \A i \in 1..(k - e) : Byte(rest[i]) \in OctetTokens
    <3>1. SUFFICES ASSUME NEW i \in 1..(k - e)
                   PROVE  Byte(rest[i]) \in OctetTokens
      OBVIOUS
    <3>2. Byte(rest[i]) = InOctet(v[e + i]) /\ v[e + i] \in PlainTokens
      BY <1>16, <2>3
    <3>3. QED
      BY <3>2 DEF OctetTokens
  <2>5. /\ data \in Seq(T) /\ Len(data) = k - e /\ \A i \in 1..(k - e) : data[i] = Byte(rest[i])
        /\ ts \in Seq(T) /\ <<End>> \in Seq(T)
    <3> DEFINE d == k - e
    <3>1. d \in Nat
      BY <1>2, <1>3
    <3>2. Len(rest) = d
      BY <1>15
    <3>3. \A i \in 1..d : Byte(rest[i]) \in T
      BY <2>4
    <3> HIDE DEF rest, ts, d
    <3>4. data \in Seq(T) /\ Len(data) = d /\ \A i \in 1..d : data[i] = Byte(rest[i])
      BY <3>1, <3>2, <3>3
    <3>5. ts \in Seq(T) /\ <<End>> \in Seq(T)
      BY <2>1
    <3>6. QED
      BY <3>4, <3>5 DEF d
  <2> DEFINE one == ts \o <<End>>
             w == one \o data
  <2> HIDE DEF ts, data, rest, T, a
  <2>6. one \in Seq(T) /\ Len(one) = e /\ one[e] = End /\ \A i \in 1..b : one[i] = ts[i]
    BY <1>3, <2>1, <2>5
  <2> HIDE DEF one
  <2>7. /\ w \in Seq(T) /\ Len(w) = k
        /\ \A i \in 1..e : w[i] = one[i]
        /\ \A i \in 1..(k - e) : w[e + i] = data[i]
    <3> DEFINE d == k - e
    <3>1. d \in Nat /\ e + d = k
      BY <1>2, <1>3
    <3>2. Len(data) = d
      BY <2>5
    <3> HIDE DEF d
    <3>3. w \in Seq(T) /\ Len(w) = e + d /\ (\A i \in 1..e : w[i] = one[i])
          /\ \A i \in 1..d : w[e + i] = data[i]
      <4>1. Joins(w, T, one, data)
        BY ONLY <2>5, <2>6, Joined, Zenon
      <4>2. QED
        BY ONLY <2>6, <3>2, <4>1 DEF Joins
    <3>4. QED
      BY <3>1, <3>3 DEF d
  <2>8. InOctet(v[e]) = End
    BY <1>4, <1>5, InOctetIs
  <2> HIDE DEF w
  <2>9. ASSUME NEW i \in 1..k
        PROVE  w[i] = a[i]
    <3>1. CASE i < e
      <4>1. i \in 1..b /\ i \in 1..e /\ i \in 1..k
        BY <1>3, <3>1
      <4>2. QED
        BY <2>1, <2>2, <2>6, <2>7, <4>1
    <3>2. CASE i = e
      <4>1. w[e] = End
        BY <1>3, <2>6, <2>7
      <4>2. a[e] = End
        BY <2>2, <2>8, <3>2
      <4>3. QED
        BY <3>2, <4>1, <4>2
    <3>3. CASE i > e
      <4> DEFINE d == i - e
      <4>1. d \in 1..(k - e) /\ e + d = i
        BY <1>2, <1>3, <3>3
      <4> HIDE DEF d
      <4>2. w[i] = v[i] /\ InOctet(v[i]) = v[i]
        BY <1>16, <2>3, <2>5, <2>7, <4>1
      <4>3. QED
        BY <2>2, <4>2
    <3>4. QED
      BY <1>3, <3>1, <3>2, <3>3
  <2>10. w = a
    BY <1>2, <2>2, <2>7, <2>9, SeqEqual
  <2>11. QED
    BY <2>10 DEF w, one, a
<1>18. f[Len(y)] = f[e]
  <2>1. e \in 0..Len(y)
    BY <1>1, <1>3, <1>10
  <2>2. QED
    BY ONLY <1>1, <1>14, <2>1, LoopRests
<1>19. QED
  BY <1>1, <1>8, <1>14, <1>17, <1>18

\* What a body that breaks off after c octets is read as.
LEMMA CutBody ==
  ASSUME NEW v \in Seq(PlainTokens), NEW c \in 0..Len(Body(v)),
         NEW k, WholeIn(v, c, k), AllFit(v, Len(v)), DataFollowsEnd(v)
  PROVE  ReadTokens(Cutoff(v, c)) =
           IF Place(v, k) = c THEN Arrived(v, k) ELSE Append(Arrived(v, k), Cut)
<1> DEFINE y == Cutoff(v, c)
<1>1. y \in Seq(Octet) /\ Len(y) = c
  BY CutoffIs
<1>2. PICK f : Loop(f, y) /\ ReadTokens(y) = f[Len(y)].tokens
  BY <1>1, ReadTokensIs
<1>3. CutLoop(v, c, y, f)
  BY <1>2 DEF CutLoop
<1>4. k \in 0..Len(v)
  BY DEF WholeIn
<1> HIDE DEF y
<1>5. CASE BeforeEnd(v, k)
  BY <1>1, <1>2, <1>3, <1>5, CutBeforeEnd DEF y
<1>6. CASE ~ BeforeEnd(v, k)
  <2>1. PICK e \in 1..k : FirstEnd(v, e)
    BY <1>4, <1>6, EndComesFirst
  <2>2. Place(v, k) = c /\ f[c].tokens = Arrived(v, k)
    BY <1>3, <2>1, CutAfterEnd
  <2>3. QED
    BY <1>1, <1>2, <2>2 DEF y
<1>7. QED
  BY <1>5, <1>6

\* A state of the loop that has kept the tokens ts.
Keeps(s, ts) ==
  \E z \in Seq(Octet) : \E us : \E T :
    us \in Seq(T) /\ s = ReadingAt(z, 0, us) /\ StartsWith(us, ts)

LEMMA StartsAppend ==
  ASSUME NEW T, NEW us \in Seq(T), NEW w, NEW ts \in Seq(w), StartsWith(us, ts), NEW x
  PROVE  \E U : Append(us, x) \in Seq(U) /\ StartsWith(Append(us, x), ts)
<1> DEFINE U == T \cup {x}
           l == Append(us, x)
<1>1. us \in Seq(U) /\ x \in U /\ Len(us) \in Nat /\ Len(ts) \in Nat
  OBVIOUS
<1> HIDE DEF U
<1>2. l \in Seq(U) /\ Len(l) = Len(us) + 1 /\ \A i \in 1..Len(us) : l[i] = us[i]
  BY <1>1
<1>3. StartsWith(l, ts)
  BY <1>1, <1>2 DEF StartsWith
<1>4. QED
  BY <1>2, <1>3

LEMMA StartsMore ==
  ASSUME NEW T, NEW us \in Seq(T), NEW d \in Seq(T), NEW w, NEW ts \in Seq(w), StartsWith(us, ts)
  PROVE  us \o d \in Seq(T) /\ StartsWith(us \o d, ts)
<1> DEFINE l == us \o d
<1>1. Len(us) \in Nat /\ Len(ts) \in Nat /\ Len(d) \in Nat
  OBVIOUS
<1>2. Joins(l, T, us, d)
  BY Joined
<1> HIDE DEF l
<1>3. l \in Seq(T) /\ StartsWith(l, ts)
  BY <1>1, <1>2 DEF Joins, StartsWith
<1>4. QED
  BY <1>3 DEF l

LEMMA NothingAt == From(<<>>, 0) = <<>>
BY DEF From

LEMMA PlaceAsStart ==
  ASSUME NEW y \in Seq(Octet), NEW p \in 0..Len(y), NEW us
  PROVE  From(y, p) \in Seq(Octet) /\ ReadingAt(y, p, us) = ReadingAt(From(y, p), 0, us)
<1> DEFINE z == From(y, p)
<1>1. z \in Seq(Octet)
  BY FromIs
<1> HIDE DEF z
<1>2. From(z, 0) = z
  BY <1>1 DEF From
<1>3. QED
  BY <1>1, <1>2 DEF ReadingAt, z

LEMMA NextKeeps ==
  ASSUME NEW s, NEW W, NEW ts \in Seq(W), Keeps(s, ts)
  PROVE  Keeps(ReadNext(s), ts)
<1>0. PICK y \in Seq(Octet) :
        \E us : \E T : us \in Seq(T) /\ s = ReadingAt(y, 0, us) /\ StartsWith(us, ts)
  BY DEF Keeps
<1>1. PICK us, T : us \in Seq(T) /\ s = ReadingAt(y, 0, us) /\ StartsWith(us, ts)
  BY <1>0
<1> DEFINE r == ReadNext(s)
<1>2. 0 \in 0..Len(y) /\ Len(y) \in Nat /\ 0 + 1 = 1
  OBVIOUS
<1>3. CASE Len(y) = 0
  <2>1. From(y, 0) = <<>>
    BY <1>2, <1>3, HeadAt
  <2>2. s.left = <<>>
    BY <1>1, <2>1 DEF ReadingAt
  <2>3. r = s
    BY <2>2, NothingReadAtEnd
  <2>4. QED
    BY <2>3
<1>4. CASE Len(y) # 0
  <2>1. 0 < Len(y) /\ 1 \in 0..Len(y)
    BY <1>2, <1>4
  <2>2. ASSUME NEW q \in 0..Len(y), NEW x, r = ReadingAt(y, q, Append(us, x))
        PROVE  Keeps(r, ts)
    <3>1. PICK U : Append(us, x) \in Seq(U) /\ StartsWith(Append(us, x), ts)
      BY <1>1, StartsAppend
    <3>2. From(y, q) \in Seq(Octet) /\ r = ReadingAt(From(y, q), 0, Append(us, x))
      BY <2>2, PlaceAsStart
    <3> HIDE DEF r
    <3>3. QED
      BY <3>1, <3>2, Zenon DEF Keeps
  <2>3. CASE y[1] \in DelimiterTags \ {EndTag}
    <3>1. y[0 + 1] \in DelimiterTags \ {EndTag}
      BY <1>2, <2>3
    <3>2. r = ReadingAt(y, 0 + 1, Append(us, Group(y[0 + 1])))
      BY ONLY <1>1, <1>2, <2>1, <3>1, DelimiterReadAt
    <3>3. r = ReadingAt(y, 1, Append(us, Group(y[1])))
      BY <1>2, <3>2
    <3> HIDE DEF r
    <3>4. Keeps(r, ts)
      BY <2>1, <2>2, <3>3
    <3>5. QED
      BY <3>4 DEF r
  <2>4. CASE y[1] = EndTag
    <3> DEFINE rest == From(y, 0 + 1)
               data == [i \in 1..Len(rest) |-> Byte(rest[i])]
               U == T \cup {End} \cup {Byte(b) : b \in Octet}
               one == us \o <<End>>
               all == one \o data
    <3>1. r = [left |-> <<>>, tokens |-> all]
      <4>1. y[0 + 1] = EndTag
        BY <1>2, <2>4
      <4>2. QED
        BY ONLY <1>1, <1>2, <2>1, <4>1, EndReadAt
    <3>2. rest \in Seq(Octet)
      BY <1>2, <2>1, FromIs
    <3>3. data \in Seq(U) /\ us \in Seq(U) /\ <<End>> \in Seq(U)
      <4> HIDE DEF rest
      <4>1. Len(rest) \in Nat /\ \A i \in 1..Len(rest) : rest[i] \in Octet
        BY <3>2
      <4>2. data \in Seq(U)
        BY <4>1
      <4>3. us \in Seq(U)
        BY <1>1
      <4>4. <<End>> \in Seq(U)
        OBVIOUS
      <4>5. QED
        BY <4>2, <4>3, <4>4
    <3> HIDE DEF data, U, rest
    <3>4. one \in Seq(U) /\ StartsWith(one, ts)
      BY ONLY <1>1, <3>3, StartsMore, ts \in Seq(W)
    <3> HIDE DEF one
    <3>5. all \in Seq(U) /\ StartsWith(all, ts)
      BY ONLY <3>3, <3>4, StartsMore, ts \in Seq(W)
    <3> HIDE DEF all
    <3>6. r = ReadingAt(<<>>, 0, all) /\ <<>> \in Seq(Octet)
      BY <3>1, NothingAt DEF ReadingAt
    <3> HIDE DEF r
    <3>7. Keeps(r, ts)
      BY <3>5, <3>6, Zenon DEF Keeps
    <3>8. QED
      BY <3>7 DEF r
  <2>5. CASE y[1] \notin DelimiterTags
    <3>1. y[0 + 1] \notin DelimiterTags
      BY <1>2, <2>5
    <3>2. CASE WholeAt(y, 0)
      <4>1. /\ ValueEnd(y, 0) \in 0..Len(y)
            /\ r = ReadingAt(y, ValueEnd(y, 0),
                     Append(us, Value(SubSeq(y, NamePlace(0) + 3, NameEnd(y, 0)), TagOf(y[0 + 1]),
                                      SubSeq(y, NameEnd(y, 0) + 3, ValueEnd(y, 0)))))
        BY ONLY <1>1, <1>2, <2>1, <3>1, <3>2, ValueReadAt, Zenon
      <4> HIDE DEF r
      <4>2. Keeps(r, ts)
        BY <2>2, <4>1
      <4>3. QED
        BY <4>2 DEF r
    <3>3. CASE ~ WholeAt(y, 0)
      <4>1. r = BrokenOff(us)
        BY ONLY <1>1, <1>2, <2>1, <3>1, <3>3, ValueReadAt, Zenon
      <4>2. r = ReadingAt(<<>>, 0, Append(us, Cut)) /\ <<>> \in Seq(Octet)
        <5>1. BrokenOff(us) = ReadingAt(<<>>, 0, Append(us, Cut))
          BY NothingAt, Zenon DEF BrokenOff, ReadingAt
        <5> HIDE DEF r
        <5>2. QED
          BY <4>1, <5>1
      <4>3. PICK U : Append(us, Cut) \in Seq(U) /\ StartsWith(Append(us, Cut), ts)
        BY <1>1, StartsAppend
      <4> HIDE DEF r
      <4>4. Keeps(r, ts)
        BY <4>2, <4>3, Zenon DEF Keeps
      <4>5. QED
        BY <4>4 DEF r
    <3>4. QED
      BY <3>2, <3>3
  <2>6. QED
    BY <2>3, <2>4, <2>5
<1>5. QED
  BY <1>3, <1>4

\* What has been read is never taken back.
LEMMA LoopKeeps ==
  ASSUME NEW y \in Seq(Octet), NEW f, Loop(f, y), NEW j \in 0..Len(y),
         NEW W, NEW ts \in Seq(W), Keeps(f[j], ts)
  PROVE  Keeps(f[Len(y)], ts)
<1> DEFINE S == {k \in Nat : j <= k /\ k <= Len(y) => Keeps(f[k], ts)}
<1>1. 0 \in S
  OBVIOUS
<1>2. \A k \in Nat : k \in S => k + 1 \in S
  <2>1. SUFFICES ASSUME NEW k \in Nat, k \in S, j <= k + 1, k + 1 <= Len(y)
                 PROVE  Keeps(f[k + 1], ts)
    OBVIOUS
  <2>2. CASE j = k + 1
    BY <2>2
  <2>3. CASE j # k + 1
    <3>1. j <= k /\ k < Len(y) /\ k <= Len(y)
      BY <2>1, <2>3
    <3>2. Keeps(f[k], ts)
      BY <2>1, <3>1
    <3>3. f[k + 1] = ReadNext(f[k])
      BY <3>1 DEF Loop
    <3>4. QED
      BY <3>2, <3>3, NextKeeps
  <2>4. QED
    BY <2>2, <2>3
<1> HIDE DEF S
<1>3. Nat \subseteq S
  BY <1>1, <1>2, SetInduction
<1>4. Len(y) \in Nat /\ j <= Len(y) /\ Len(y) <= Len(y)
  OBVIOUS
<1>5. QED
  BY <1>3, <1>4 DEF S

LEMMA FirstUnfit ==
  ASSUME NEW v, Len(v) \in Nat, ~ AllFit(v, Len(v))
  PROVE  \E n \in Nat : n + 1 <= Len(v) /\ AllFit(v, n) /\ ~ Fits(v[n + 1])
<1> DEFINE S == {m \in Nat : m <= Len(v) => AllFit(v, m)}
<1>1. SUFFICES ASSUME \A n \in Nat : n + 1 <= Len(v) /\ AllFit(v, n) => Fits(v[n + 1])
               PROVE  FALSE
  OBVIOUS
<1>2. 0 \in S
  BY DEF AllFit
<1>3. ASSUME NEW m \in Nat, m \in S
      PROVE  m + 1 \in S
  <2>1. SUFFICES ASSUME m + 1 <= Len(v)
                 PROVE  AllFit(v, m + 1)
    OBVIOUS
  <2>2. AllFit(v, m) /\ Fits(v[m + 1])
    BY <1>1, <1>3, <2>1
  <2>3. ASSUME NEW i \in 1..(m + 1)
        PROVE  Fits(v[i])
    <3>1. i = m + 1 \/ i \in 1..m
      OBVIOUS
    <3>2. QED
      BY <2>2, <3>1 DEF AllFit
  <2>4. QED
    BY <2>3 DEF AllFit
<1> HIDE DEF S
<1>4. Nat \subseteq S
  BY <1>2, <1>3, SetInduction
<1>5. QED
  BY <1>4 DEF S

\* A value that outgrew its length spoils the message.
LEMMA UnfitSpoils ==
  ASSUME NEW v \in Seq(PlainTokens), DataFollowsEnd(v), ~ AllFit(v, Len(v))
  PROVE  ReadTokens(Body(v)) # InOctets(v)
<1> DEFINE c == Len(Body(v))
           y == Cutoff(v, c)
<1>1. c \in Nat /\ c \in 0..c /\ Len(v) \in Nat
  BY SpelledType
<1>2. y = Body(v) /\ y \in Seq(Octet) /\ Len(y) = c
  BY <1>1, CutoffIs
<1>3. PICK f : Loop(f, y) /\ ReadTokens(y) = f[Len(y)].tokens
  BY <1>2, ReadTokensIs
<1>4. CutLoop(v, c, y, f)
  BY <1>1, <1>3 DEF CutLoop
<1>5. PICK n \in Nat : n + 1 <= Len(v) /\ AllFit(v, n) /\ ~ Fits(v[n + 1])
  BY <1>1, FirstUnfit
<1> DEFINE t == v[n + 1]
           p == Place(v, n)
           ts == Arrived(v, n)
<1>6. /\ n \in 0..Len(v) /\ n < Len(v) /\ n <= Len(v) /\ n + 1 \in 0..Len(v) /\ n + 1 \in 1..Len(v)
      /\ t \in PlainTokens /\ Len(v) \in 0..Len(v)
  BY <1>1, <1>5
<1>7. t.type = "value"
  BY <1>5 DEF Fits
<1>8. BeforeEnd(v, n)
  <2>1. ASSUME ~ BeforeEnd(v, n)
        PROVE  FALSE
    <3>1. PICK e \in 1..n : FirstEnd(v, e)
      BY <1>6, <2>1, EndComesFirst
    <3>2. e \in 1..((n + 1) - 1) /\ v[e].type = "end"
      BY <3>1 DEF FirstEnd
    <3>3. t.type = "byte"
      <4>1. \E j \in 1..((n + 1) - 1) : v[j].type = "end"
        BY <3>2
      <4>2. QED
        BY <1>6, <4>1 DEF DataFollowsEnd
    <3>4. QED
      BY <1>7, <3>3
  <2>2. QED
    BY <2>1
<1>9. p \in Nat /\ n <= p /\ Agrees(y, p, Octets(t))
  BY <1>4, <1>6, CutLoopFacts
<1>10. p + 1 <= c
  <2> DEFINE l == Len(Octets(t))
             m == n + 1
  <2>1. l \in Nat \ {0} /\ Place(v, n + 1) = p + l
    BY <1>6, OctetsOf, PlaceMore
  <2>2. m \in 0..Len(v) /\ Len(v) \in Nat /\ m <= Len(v) /\ Len(v) <= Len(v) /\ m = n + 1
    BY <1>1, <1>6
  <2>3. Place(v, Len(v)) = c
    BY <1>6, PlaceMore
  <2> HIDE DEF m
  <2>4. Place(v, m) + (Len(v) - m) <= Place(v, Len(v))
    BY ONLY <2>2, BodyStarts, v \in Seq(PlainTokens)
  <2>5. Place(v, m) = p + l
    BY <2>1, <2>2
  <2> HIDE DEF p, l, c
  <2>6. QED
    BY <1>9, <1>1, <2>1, <2>2, <2>3, <2>4, <2>5
<1>11. p \in 0..Len(y) /\ p < Len(y) /\ p <= c /\ n < c /\ n + 1 \in 0..Len(y)
  <2> HIDE DEF p, c, y
  <2>1. QED
    BY <1>1, <1>2, <1>9, <1>10
<1>12. f[n] = ReadingAt(y, p, ts)
  <2> HIDE DEF y, c
  <2>1. QED
    BY ONLY <1>4, <1>5, <1>6, <1>8, <1>11, ReadBeforeEnd
<1>13. f[n + 1] = ReadNext(ReadingAt(y, p, ts))
  <2>1. f[n + 1] = ReadNext(f[n])
    BY <1>4, <1>11, CutLoopFacts
  <2>2. QED
    BY <1>12, <2>1
<1>14. PICK x : f[n + 1].tokens = Append(ts, x) /\ x # InOctet(t)
  <2>1. ~ Fits(t) /\ t.type \in {"group", "value"}
    BY <1>5, <1>7
  <2>2. \E x : ReadNext(ReadingAt(y, p, ts)).tokens = Append(ts, x) /\ x # InOctet(t)
    <3> HIDE DEF y, c, p, ts, t
    <3>1. QED
      BY ONLY <1>2, <1>6, <1>9, <1>11, <2>1, TokenRead, Zenon
  <2>3. QED
    BY <1>13, <2>2
<1>15. ts \in Seq(OctetTokens) /\ Len(ts) = n
  BY <1>6, ArrivedIs
<1> DEFINE us == Append(ts, x)
           T == OctetTokens \cup {x}
<1>16. us \in Seq(T) /\ Len(us) = n + 1 /\ us[n + 1] = x
  <2> HIDE DEF ts
  <2>1. QED
    BY <1>15
<1> HIDE DEF us, T
<1>17. Keeps(f[n + 1], us)
  <2>1. Keeps(f[n], ts)
    <3>1. From(y, p) \in Seq(Octet) /\ f[n] = ReadingAt(From(y, p), 0, ts)
      <4> HIDE DEF y, p, ts, c
      <4>1. QED
        BY <1>2, <1>11, <1>12, PlaceAsStart
    <3>2. StartsWith(ts, ts)
      BY <1>15 DEF StartsWith
    <3> HIDE DEF y, p, ts, c
    <3>3. QED
      BY <1>15, <3>1, <3>2, Zenon DEF Keeps
  <2>2. Keeps(f[n + 1], ts)
    <3>1. f[n + 1] = ReadNext(f[n])
      BY <1>12, <1>13
    <3> HIDE DEF ts
    <3>2. QED
      BY <1>15, <2>1, <3>1, NextKeeps
  <2>3. PICK z, r, U : z \in Seq(Octet) /\ r \in Seq(U) /\ f[n + 1] = ReadingAt(z, 0, r)
    BY <2>2 DEF Keeps
  <2>4. r = us
    BY <1>14, <2>3 DEF ReadingAt, us
  <2>5. StartsWith(us, us)
    BY <1>16 DEF StartsWith
  <2>6. QED
    BY <2>3, <2>4, <2>5, Zenon DEF Keeps
<1>18. Keeps(f[Len(y)], us)
  <2> DEFINE j == n + 1
  <2>1. j \in 0..Len(y) /\ Keeps(f[j], us)
    BY <1>11, <1>17
  <2> HIDE DEF j, y
  <2>2. QED
    BY ONLY <1>2, <1>3, <1>16, <2>1, LoopKeeps
<1>19. PICK z, r, U : /\ z \in Seq(Octet) /\ r \in Seq(U) /\ f[Len(y)] = ReadingAt(z, 0, r)
                      /\ StartsWith(r, us)
  BY <1>18 DEF Keeps
<1>20. ReadTokens(y) = r
  BY <1>3, <1>19 DEF ReadingAt
<1>21. r[n + 1] = x
  <2>1. n + 1 \in 1..Len(us)
    BY <1>16
  <2>2. QED
    BY <1>16, <1>19, <2>1 DEF StartsWith
<1>22. InOctets(v)[n + 1] = InOctet(t)
  BY <1>6, InOctetsIs
<1>23. QED
  BY <1>2, <1>14, <1>20, <1>21, <1>22

(***************************************************************************)
(* The header, and what arrives of a message that breaks off.              *)
(***************************************************************************)
LEMMA HeaderIs == Header \in Seq(Octet) /\ Len(Header) = 8
BY DEF Header, Octet

LEMMA SpellIs ==
  ASSUME NEW v \in Seq(PlainTokens)
  PROVE  /\ Spell(v) \in Seq(Octet) /\ Len(Spell(v)) = 8 + Len(Body(v))
         /\ \A i \in 1..Len(Body(v)) : Spell(v)[8 + i] = Body(v)[i]
<1>1. Spell(v) = Header \o Body(v)
  BY Zenon DEF Spell, Body, Spelled
<1>2. Body(v) \in Seq(Octet)
  BY SpelledType
<1>3. Joins(Spell(v), Octet, Header, Body(v))
  BY <1>1, <1>2, HeaderIs, Joined
<1>4. QED
  BY <1>3, HeaderIs DEF Joins

LEMMA UnspellCut ==
  ASSUME NEW v \in Seq(PlainTokens), NEW n \in 0..Len(Spell(v))
  PROVE  /\ n < 8 => Unspell(SubSeq(Spell(v), 1, n)) = <<Cut>>
         /\ n >= 8 => /\ n - 8 \in 0..Len(Body(v))
                      /\ Unspell(SubSeq(Spell(v), 1, n)) = ReadTokens(Cutoff(v, n - 8))
<1> DEFINE w == Spell(v)
           b == Body(v)
           y == SubSeq(w, 1, n)
           r == Reader(y)
<1>1. w \in Seq(Octet) /\ Len(w) = 8 + Len(b) /\ \A i \in 1..Len(b) : w[8 + i] = b[i]
  BY SpellIs
<1>2. b \in Seq(Octet) /\ Len(b) \in Nat
  BY SpelledType
<1>3. y \in Seq(Octet) /\ Len(y) = n /\ \A i \in 1..n : y[i] = w[i]
  <2> HIDE DEF w
  <2>1. n \in 0..Len(w)
    BY DEF w
  <2>2. QED
    BY <1>1, <2>1
<1>4. Unspell(y) = IF Take(r, 8).failed THEN <<Cut>> ELSE ReadTokens(Take(r, 8).left)
  <2> HIDE DEF y
  <2>1. QED
    BY HeaderIs DEF Unspell
<1>5. r \in Readers /\ r.left = y /\ ~ r.failed
  <2> HIDE DEF y
  <2>1. QED
    BY <1>3 DEF Reader, Readers
<1> HIDE DEF w, b, y, r
<1>6. CASE n < 8
  <2>1. 8 > Len(r.left)
    BY <1>3, <1>5, <1>6
  <2>2. Take(r, 8) = [r EXCEPT !.failed = TRUE]
    BY <1>5, <2>1, TakeIs
  <2>3. [r EXCEPT !.failed = TRUE].failed
    BY <1>5 DEF Readers
  <2>4. Unspell(y) = <<Cut>>
    BY <1>4, <2>2, <2>3
  <2>5. QED
    BY <1>6, <2>4 DEF y, w
<1>7. CASE n >= 8
  <2>1. 8 <= Len(r.left) /\ 8 \in Nat
    BY <1>3, <1>5, <1>7
  <2>2. Take(r, 8) = [left |-> SubSeq(r.left, 8 + 1, Len(r.left)),
                      read |-> SubSeq(r.left, 1, 8), failed |-> FALSE]
    BY <1>5, <2>1, TakeIs
  <2>3. Unspell(y) = ReadTokens(SubSeq(y, 8 + 1, n))
    <3> DEFINE body == Take(r, 8)
    <3>1. ~ body.failed /\ body.left = SubSeq(r.left, 8 + 1, Len(r.left))
      BY <2>2
    <3> HIDE DEF body
    <3>2. Unspell(y) = ReadTokens(body.left)
      BY <1>4, <3>1 DEF body
    <3>3. body.left = SubSeq(y, 8 + 1, n)
      BY <1>3, <1>5, <3>1
    <3>4. QED
      BY <3>2, <3>3
  <2>4. n - 8 \in 0..Len(b)
    BY <1>1, <1>2, <1>7 DEF w
  <2>5. SubSeq(y, 8 + 1, n) = SubSeq(b, 1, n - 8)
    <3> DEFINE p == SubSeq(y, 8 + 1, n)
               q == SubSeq(b, 1, n - 8)
    <3>1. p \in Seq(Octet) /\ Len(p) = n - 8 /\ \A i \in 1..(n - 8) : p[i] = y[8 + i]
      BY <1>3, <1>7
    <3>2. q \in Seq(Octet) /\ Len(q) = n - 8 /\ \A i \in 1..(n - 8) : q[i] = b[i]
      BY <1>2, <2>4
    <3>3. ASSUME NEW i \in 1..(n - 8)
          PROVE  p[i] = q[i]
      <4>1. 8 + i \in 1..n /\ i \in 1..Len(b)
        BY <2>4, <1>2
      <4>2. QED
        BY <1>1, <1>3, <3>1, <3>2, <4>1
    <3> HIDE DEF p, q
    <3>4. p = q
      BY <3>1, <3>2, <3>3, SeqEqual
    <3>5. QED
      BY <3>4 DEF p, q
  <2>6. Unspell(y) = ReadTokens(Cutoff(v, n - 8))
    BY <2>3, <2>5 DEF Cutoff, b
  <2>7. QED
    BY <1>7, <2>4, <2>6 DEF y, w, b
<1>8. QED
  BY <1>6, <1>7

\* Some tokens lie whole in any number of octets, and those are all.
LEMMA WholeFound ==
  ASSUME NEW v \in Seq(PlainTokens), NEW c \in Nat
  PROVE  /\ \E k : WholeIn(v, c, k)
         /\ \A k, j : WholeIn(v, c, k) /\ j \in 0..Len(v) /\ Place(v, j) <= c => j <= k
<1>1. ASSUME \A k : ~ WholeIn(v, c, k)
      PROVE  FALSE
  <2> DEFINE S == {m \in Nat : m <= Len(v) => Place(v, m) <= c}
  <2>1. 0 \in 0..Len(v) /\ Len(v) \in Nat
    OBVIOUS
  <2>2. 0 \in S
    <3>1. Place(v, 0) = 0
      BY <2>1, PlaceMore
    <3>2. QED
      BY <3>1
  <2>3. ASSUME NEW m \in Nat, m \in S
        PROVE  m + 1 \in S
    <3>1. SUFFICES ASSUME m + 1 <= Len(v)
                   PROVE  Place(v, m + 1) <= c
      OBVIOUS
    <3>2. Place(v, m) <= c /\ m \in 0..Len(v) /\ m < Len(v) /\ m + 1 \in 0..Len(v)
      BY <2>1, <2>3, <3>1
    <3>3. ~ WholeIn(v, c, m)
      BY <1>1
    <3>4. ~ (Place(v, m + 1) > c)
      BY <3>2, <3>3 DEF WholeIn
    <3>5. Place(v, m + 1) \in Nat
      <4> DEFINE j == m + 1
      <4>1. j \in 0..Len(v)
        BY <3>2
      <4> HIDE DEF j
      <4>2. Place(v, j) \in Nat
        BY <4>1, PlaceMore
      <4>3. QED
        BY <4>2 DEF j
    <3>6. QED
      BY <3>4, <3>5
  <2> HIDE DEF S
  <2>4. Nat \subseteq S
    BY <2>2, <2>3, SetInduction
  <2>5. Place(v, Len(v)) <= c
    BY <2>1, <2>4 DEF S
  <2>6. WholeIn(v, c, Len(v))
    BY <2>1, <2>5 DEF WholeIn
  <2>7. QED
    BY <1>1, <2>6
<1>2. ASSUME NEW k, NEW j, WholeIn(v, c, k), j \in 0..Len(v), Place(v, j) <= c
      PROVE  j <= k
  <2> DEFINE m == k + 1
  <2>1. k \in 0..Len(v) /\ Len(v) \in Nat
    BY <1>2 DEF WholeIn
  <2>2. SUFFICES ASSUME j > k
                 PROVE  FALSE
    BY <1>2, <2>1
  <2>3. k < Len(v) /\ m \in 0..Len(v) /\ m <= j /\ j <= Len(v) /\ j \in Nat /\ m = k + 1
    BY <1>2, <2>1, <2>2
  <2>4. Place(v, k + 1) > c
    BY <1>2, <2>3 DEF WholeIn
  <2> HIDE DEF m
  <2>5. Place(v, m) + (j - m) <= Place(v, j)
    BY ONLY <2>3, BodyStarts, v \in Seq(PlainTokens)
  <2>6. Place(v, m) \in Nat /\ Place(v, j) \in Nat
    BY <1>2, <2>3, PlaceMore
  <2>7. Place(v, m) > c
    BY <2>3, <2>4
  <2> DEFINE a == Place(v, m)
             b == Place(v, j)
  <2>8. a \in Nat /\ b \in Nat /\ a > c /\ b <= c /\ a + (j - m) <= b /\ j \in Nat /\ m \in Nat /\ m <= j
    BY <1>2, <2>3, <2>5, <2>6, <2>7
  <2> HIDE DEF a, b
  <2>9. QED
    BY ONLY <2>8, c \in Nat
<1>3. QED
  BY <1>1, <1>2

LEMMA GreatestIs ==
  ASSUME NEW S, S \subseteq Int, NEW k \in S, \A j \in S : k >= j
  PROVE  Max(S) = k
<1>1. \E x \in S : \A j \in S : x >= j
  OBVIOUS
<1>2. Max(S) \in S /\ \A j \in S : Max(S) >= j
  BY <1>1, Zenon DEF Max
<1>3. Max(S) >= k /\ k >= Max(S) /\ Max(S) \in Int /\ k \in Int
  BY <1>2
<1>4. QED
  BY ONLY <1>3

LEMMA WholeIs ==
  ASSUME wire \in Seq(PlainTokens), NEW n \in Nat
  PROVE  /\ n < 8 => Whole(n) = -1
         /\ n >= 8 => WholeIn(wire, n - 8, Whole(n))
         /\ \A k \in 0..Len(wire) : Len(Spell(First(wire, k))) = 8 + Place(wire, k)
<1> DEFINE A == {k \in 0..Len(wire) : Len(Spell(First(wire, k))) <= n}
<1>1. Whole(n) = Max({-1} \cup A)
  BY Zenon DEF Whole, First
<1>2. ASSUME NEW k \in 0..Len(wire)
      PROVE  Len(Spell(First(wire, k))) = 8 + Place(wire, k) /\ Place(wire, k) \in Nat
  <2>1. First(wire, k) \in Seq(PlainTokens)
    BY FirstIs
  <2>2. Len(Spell(First(wire, k))) = 8 + Len(Body(First(wire, k)))
    BY <2>1, SpellIs
  <2>3. Place(wire, k) \in Nat
    BY PlaceMore
  <2>4. QED
    BY <2>2, <2>3 DEF Place
<1>3. CASE n < 8
  <2>1. A = {}
    <3>1. SUFFICES ASSUME NEW k \in A
                   PROVE  FALSE
      OBVIOUS
    <3>2. k \in 0..Len(wire) /\ Len(Spell(First(wire, k))) <= n
      OBVIOUS
    <3>3. Len(Spell(First(wire, k))) = 8 + Place(wire, k) /\ Place(wire, k) \in Nat
      BY <1>2, <3>2
    <3> DEFINE l == Place(wire, k)
    <3> HIDE DEF l
    <3>4. l \in Nat /\ 8 + l <= n
      BY <3>2, <3>3 DEF l
    <3>5. QED
      BY <1>3, <3>4
  <2>2. Max({-1}) = -1
    <3>1. {-1} \subseteq Int /\ -1 \in {-1} /\ \A j \in {-1} : -1 >= j
      OBVIOUS
    <3>2. QED
      BY ONLY <3>1, GreatestIs
  <2>3. {-1} \cup A = {-1}
    BY <2>1
  <2> HIDE DEF A
  <2>4. Whole(n) = -1
    BY <1>1, <2>2, <2>3
  <2>5. ~ (n >= 8)
    BY <1>3
  <2>6. QED
    BY <1>2, <2>4, <2>5
<1>4. CASE n >= 8
  <2> DEFINE c == n - 8
  <2>1. c \in Nat /\ n = 8 + c
    BY <1>4
  <2>2. PICK k : WholeIn(wire, c, k)
    BY <2>1, WholeFound
  <2>3. \A j \in 0..Len(wire) : Place(wire, j) <= c => j <= k
    BY <2>1, <2>2, WholeFound
  <2>4. k \in 0..Len(wire) /\ Place(wire, k) <= c
    BY <2>2 DEF WholeIn
  <2>5. \A j \in 0..Len(wire) : j \in A <=> Place(wire, j) <= c
    <3>1. SUFFICES ASSUME NEW j \in 0..Len(wire)
                   PROVE  j \in A <=> Place(wire, j) <= c
      OBVIOUS
    <3>2. Len(Spell(First(wire, j))) = 8 + Place(wire, j) /\ Place(wire, j) \in Nat
      BY <1>2
    <3>3. j \in A <=> Len(Spell(First(wire, j))) <= n
      OBVIOUS
    <3> DEFINE l == Place(wire, j)
               s == Len(Spell(First(wire, j)))
    <3> HIDE DEF l, s, c, A
    <3>4. l \in Nat /\ s = 8 + l
      BY <3>2 DEF l, s
    <3>5. s <= n <=> l <= c
      BY ONLY <2>1, <3>4
    <3>6. QED
      BY <3>3, <3>5 DEF l, s
  <2>6. A \subseteq 0..Len(wire)
    OBVIOUS
  <2> HIDE DEF A, c
  <2> DEFINE B == {-1} \cup A
  <2>7. k \in B /\ B \subseteq Int /\ \A j \in B : k >= j
    <3>1. k \in A
      BY <2>4, <2>5
    <3>2. ASSUME NEW j \in B
          PROVE  k >= j /\ j \in Int
      <4>1. CASE j = -1
        BY <2>4, <4>1
      <4>2. CASE j \in A
        BY <2>3, <2>4, <2>5, <2>6, <4>2
      <4>3. QED
        BY <4>1, <4>2
    <3>3. QED
      BY <3>1, <3>2
  <2> HIDE DEF B
  <2>8. Max(B) = k
    BY ONLY <2>7, GreatestIs
  <2>9. Whole(n) = k
    BY <1>1, <2>8 DEF B
  <2>10. QED
    BY <1>2, <1>4, <2>2, <2>9 DEF c
<1>5. QED
  BY <1>2, <1>3, <1>4

\* What the client sends can be spelled out, but for a cut.
LEMMA SentArePlain ==
  ASSUME NEW t \in Tokens, t # Cut
  PROVE  t \in PlainTokens /\ InOctet(t) = t
<1>1. CASE t.type = "group"
  <2>1. t = Group(t.tag) /\ t.tag \in DelimiterTags \ {EndTag}
    BY <1>1, TokenTypes, FramingAssumption
  <2>2. QED
    BY <1>1, <2>1 DEF PlainTokens, InOctet
<1>2. CASE t.type = "value"
  <2>1. PICK n \in Names \cup {NoName}, s \in Samples : t = Value(n, s.tag, s.raw)
    BY <1>2, TokenTypes DEF ValueTokens
  <2>2. n \in Seq(Octet) /\ s.raw \in Seq(Octet)
        /\ s.tag \in {"integer", "range", "boolean", "text", "noValue", "octets"}
    <3>1. n \in Names => n \in Seq(Octet)
      BY CodecAssumption
    <3>2. NoName \in Seq(Octet)
      BY DEF NoName
    <3>3. QED
      BY <3>1, <3>2, CodecAssumption
  <2>3. s.tag \in DOMAIN ValueTags
    BY <2>2 DEF ValueTags
  <2>4. Utf8(s.raw) = s.raw /\ s.raw \in Texts
    BY <2>2, Utf8OfOctets
  <2>5. t \in PlainValues
    BY <2>1, <2>2, <2>3, <2>4 DEF PlainValues
  <2>6. t \in PlainTokens
    BY <2>5 DEF PlainTokens
  <2>7. t.name = n /\ t.tag = s.tag /\ t.raw = s.raw
    BY <2>1 DEF Value
  <2>8. InOctet(t) = Value(t.name, t.tag, Utf8(t.raw))
    BY <1>2, <2>6, InOctetIs
  <2>9. QED
    BY <2>1, <2>4, <2>6, <2>7, <2>8, Zenon
<1>3. CASE t.type = "end"
  <2>1. t = End
    BY <1>3, TokenTypes
  <2>2. QED
    BY <1>3, <2>1 DEF PlainTokens, InOctet
<1>4. CASE t.type = "byte"
  <2>1. t = Byte(3) /\ 3 \in Octet
    BY <1>4, TokenTypes DEF Octet
  <2>2. QED
    BY <1>4, <2>1 DEF PlainTokens, InOctet
<1>5. t.type # "cut"
  BY TokenTypes
<1>6. QED
  BY <1>1, <1>2, <1>3, <1>4, <1>5, TokenTypes

\* The client sends data after the end of the attributes, and only data.
DataSentLast == CInv /\ DataFollowsEnd(wire)

LEMMA InitDataSentLast == Init => DataSentLast
<1>1. ASSUME Init
      PROVE  DataFollowsEnd(wire)
  BY <1>1 DEF Init, DataFollowsEnd
<1>2. QED
  BY <1>1, InitCInv DEF DataSentLast

LEMMA NextDataSentLast == DataSentLast /\ [Next]_wire => DataSentLast'
<1> SUFFICES ASSUME DataSentLast, [Next]_wire
             PROVE  DataSentLast'
  OBVIOUS
<1>1. CInv /\ CInv' /\ DataFollowsEnd(wire) /\ wire \in Seq(Tokens)
  BY NextCInv DEF DataSentLast, CInv, CTypeOK
<1>2. CASE UNCHANGED wire
  <2>1. DataFollowsEnd(wire)'
    BY <1>1, <1>2 DEF DataFollowsEnd
  <2>2. QED
    BY <1>1, <2>1 DEF DataSentLast
<1>3. CASE Next
  <2>1. PICK t \in Tokens : wire' = Append(wire, t) /\ (t.type = "byte" <=> Ended)
    BY <1>1, <1>3, StepAppends
  <2> DEFINE m == Len(wire) + 1
  <2>2. /\ Len(wire') = m /\ m - 1 = Len(wire) /\ Len(wire) \in Nat /\ wire'[m] = t
        /\ DOMAIN wire = 1..Len(wire)
        /\ \A k \in 1..Len(wire) : wire'[k] = wire[k]
    BY <1>1, <2>1
  <2>3. Ended <=> \E j \in 1..(m - 1) : wire[j].type = "end"
    BY <2>2 DEF Ended
  <2>4. ASSUME NEW k \in 1..m
        PROVE  wire'[k].type = "byte" <=> \E j \in 1..(k - 1) : wire'[j].type = "end"
    <3>0. \A j \in 1..(k - 1) : wire'[j] = wire[j]
      BY <2>2
    <3>1. CASE k = m
      BY <2>1, <2>2, <2>3, <3>0, <3>1
    <3>2. CASE k # m
      <4>1. k \in 1..Len(wire) /\ wire'[k] = wire[k]
        BY <2>2, <3>2
      <4>2. wire[k].type = "byte" <=> \E j \in 1..(k - 1) : wire[j].type = "end"
        BY <1>1, <4>1 DEF DataFollowsEnd
      <4>3. QED
        BY <3>0, <4>1, <4>2
    <3>3. QED
      BY <3>1, <3>2
  <2> HIDE DEF m
  <2>5. DataFollowsEnd(wire)'
    BY <2>2, <2>4 DEF DataFollowsEnd
  <2>6. QED
    BY <1>1, <2>5 DEF DataSentLast
<1>4. QED
  BY <1>2, <1>3

LEMMA DataIsSentLast == Spec => []DataSentLast
BY InitDataSentLast, NextDataSentLast, PTL DEF Spec

LEMMA FramedIsPlain ==
  ASSUME DataSentLast, Framed
  PROVE  wire \in Seq(PlainTokens) /\ \A k \in 1..Len(wire) : InOctet(wire[k]) = wire[k]
<1>1. wire \in Seq(Tokens)
  BY DEF DataSentLast, CInv, CTypeOK
<1>2. ASSUME NEW k \in 1..Len(wire)
      PROVE  wire[k] \in PlainTokens /\ InOctet(wire[k]) = wire[k]
  <2>1. wire[k] \in Tokens
    BY <1>1
  <2>2. wire[k] # Cut
    <3>1. wire[k] \in ToSet(wire)
      BY <1>1 DEF ToSet
    <3>2. QED
      BY <3>1 DEF Framed
  <2>3. QED
    BY <2>1, <2>2, SentArePlain
<1>3. wire \in Seq(PlainTokens)
  BY <1>1, <1>2
<1>4. QED
  BY <1>2, <1>3

LEMMA FitsAll ==
  ASSUME NEW v \in Seq(PlainTokens)
  PROVE  Fit(v) <=> AllFit(v, Len(v))
<1>1. DOMAIN v = 1..Len(v)
  OBVIOUS
<1>2. QED
  BY <1>1 DEF Fit, AllFit, Fits

LEMMA TruncationNoticed ==
  ASSUME DataSentLast
  PROVE  TruncationIsNoticed
<1> SUFFICES ASSUME Framed, Fit(wire), NEW n \in 0..Len(Spell(wire))
             PROVE  Unspell(SubSeq(Spell(wire), 1, n)) =
                      IF n >= Len(Header) /\ Len(Spell(SubSeq(wire, 1, Whole(n)))) = n
                      THEN SubSeq(wire, 1, Whole(n)) ELSE Append(SubSeq(wire, 1, Whole(n)), Cut)
  BY DEF TruncationIsNoticed
<1> DEFINE k == Whole(n)
           c == n - 8
           x == Unspell(SubSeq(Spell(wire), 1, n))
<1>1. wire \in Seq(PlainTokens) /\ \A i \in 1..Len(wire) : InOctet(wire[i]) = wire[i]
  BY FramedIsPlain
<1>2. AllFit(wire, Len(wire)) /\ DataFollowsEnd(wire)
  BY <1>1, FitsAll DEF DataSentLast
<1>3. n \in Nat
  OBVIOUS
<1>4. CASE n < 8
  <2>1. x = <<Cut>>
    BY <1>1, <1>4, UnspellCut
  <2>2. k = -1
    BY <1>1, <1>3, <1>4, WholeIs
  <2>3. SubSeq(wire, 1, -1) = <<>>
    BY <1>1
  <2>4. ~ (n >= Len(Header))
    BY <1>4, HeaderIs
  <2>5. Append(SubSeq(wire, 1, k), Cut) = <<Cut>>
    <3> HIDE DEF k
    <3>1. SubSeq(wire, 1, k) = <<>>
      BY <2>2, <2>3
    <3>2. Append(<<>>, Cut) = <<Cut>>
      OBVIOUS
    <3>3. QED
      BY <3>1, <3>2
  <2> HIDE DEF x, k
  <2>6. QED
    BY <2>1, <2>4, <2>5 DEF x, k
<1>5. CASE n >= 8
  <2> DEFINE a == First(wire, k)
             y == Cutoff(wire, c)
  <2>1. WholeIn(wire, c, k)
    BY <1>1, <1>3, <1>5, WholeIs
  <2>2. k \in 0..Len(wire)
    BY <2>1 DEF WholeIn
  <2>3. c \in 0..Len(Body(wire)) /\ x = ReadTokens(y)
    BY <1>1, <1>5, UnspellCut
  <2>4. ReadTokens(y) = IF Place(wire, k) = c THEN Arrived(wire, k) ELSE Append(Arrived(wire, k), Cut)
    <3> HIDE DEF k, c
    <3>1. QED
      BY <1>1, <1>2, <2>1, <2>3, CutBody
  <2>5. a = Arrived(wire, k)
    <3> DEFINE b == Arrived(wire, k)
    <3>1. a \in Seq(PlainTokens) /\ Len(a) = k /\ \A i \in 1..k : a[i] = wire[i]
      BY <1>1, <2>2, FirstIs
    <3>2. b \in Seq(OctetTokens) /\ Len(b) = k /\ \A i \in 1..k : b[i] = InOctet(wire[i])
      BY <1>1, <2>2, ArrivedIs
    <3> HIDE DEF k, a, b
    <3>3. \A i \in 1..k : a[i] = b[i]
      BY <1>1, <2>2, <3>1, <3>2
    <3>4. a = b
      BY <2>2, <3>1, <3>2, <3>3, SeqEqual
    <3>5. QED
      BY <3>4 DEF b
  <2>6. Len(Spell(a)) = n <=> Place(wire, k) = c
    <3>1. Len(Spell(a)) = 8 + Place(wire, k) /\ Place(wire, k) \in Nat
      BY <1>1, <1>3, <2>2, WholeIs, PlaceMore
    <3> DEFINE l == Place(wire, k)
               d == Len(Spell(a))
    <3> HIDE DEF l, d
    <3>2. d = 8 + l /\ l \in Nat
      BY <3>1 DEF l, d
    <3>3. d = n <=> l = c
      BY <1>3, <3>2
    <3>4. QED
      BY <3>3 DEF l, d
  <2>7. n >= Len(Header)
    BY <1>5, HeaderIs
  <2> HIDE DEF x, y, c, k
  <2>8. x = IF n >= Len(Header) /\ Len(Spell(a)) = n THEN a ELSE Append(a, Cut)
    BY <2>3, <2>4, <2>5, <2>6, <2>7, Zenon
  <2>9. QED
    BY <2>8 DEF x, k, First
<1>6. QED
  BY <1>3, <1>4, <1>5

\* A message of any length that breaks off after any octet leaves the tokens
\* that arrived whole and one cut: the lengths, modulo their range, lead from
\* field to field without an octet being taken for one of another token.
THEOREM BreaksAreNoticed == Spec => []TruncationIsNoticed
BY DataIsSentLast, TruncationNoticed, PTL

(***************************************************************************)
(* Values: what encode writes of a value is read as that value.            *)
(***************************************************************************)
\* The recursions of ReadInt and WriteInt, over the first m octets.
IntReadUpTo(f, raw, from, m) ==
  f = [k \in 0..m |-> IF k = 0 THEN (IF raw[from + 1] >= 128 THEN -1 ELSE 0)
                      ELSE 256 * f[k - 1] + raw[from + k]]
IntWrittenUpTo(g, n, m) == g = [k \in 0..m |-> IF k = 0 THEN n ELSE g[k - 1] \div 256]

LEMMA IntReadingExists ==
  ASSUME NEW raw, NEW from
  PROVE  \A m \in Nat : \E f : IntReadUpTo(f, raw, from, m)
<1> DEFINE S == {m \in Nat : \E f : IntReadUpTo(f, raw, from, m)}
           start == IF raw[from + 1] >= 128 THEN -1 ELSE 0
           More(x, k) == 256 * x + raw[from + k]
<1>1. 0 \in S
  <2> DEFINE f == [k \in 0..0 |-> start]
  <2>1. IntReadUpTo(f, raw, from, 0)
    BY DEF IntReadUpTo
  <2>2. QED
    BY <2>1
<1>2. ASSUME NEW m \in Nat, m \in S
      PROVE  m + 1 \in S
  <2>1. PICK f : IntReadUpTo(f, raw, from, m)
    BY <1>2
  <2>1a. \A k \in 0..m : f[k] = IF k = 0 THEN start ELSE More(f[k - 1], k)
    BY <2>1, Zenon DEF IntReadUpTo
  <2> HIDE DEF More, start
  <2> DEFINE g == [k \in 0..(m + 1) |-> IF k = m + 1 THEN More(f[m], k) ELSE f[k]]
  <2>2. ASSUME NEW k \in 0..(m + 1)
        PROVE  g[k] = IF k = 0 THEN start ELSE More(g[k - 1], k)
    <3>1. \A n \in 0..m : g[n] = f[n]
      OBVIOUS
    <3>2. CASE k = m + 1
      <4>1. m \in 0..m /\ k # 0 /\ k - 1 = m
        BY <3>2
      <4>2. QED
        BY <3>1, <3>2, <4>1
    <3>3. CASE k # m + 1
      <4>1. k \in 0..m /\ (k # 0 => k - 1 \in 0..m)
        BY <3>3
      <4>2. QED
        BY <2>1a, <3>1, <4>1
    <3>4. QED
      BY <3>2, <3>3
  <2>3. g = [k \in 0..(m + 1) |-> g[k]]
    OBVIOUS
  <2> HIDE DEF g
  <2>4. g = [k \in 0..(m + 1) |-> IF k = 0 THEN start ELSE More(g[k - 1], k)]
    BY <2>2, <2>3
  <2>5. IntReadUpTo(g, raw, from, m + 1)
    BY <2>4, Zenon DEF IntReadUpTo, start, More
  <2>6. QED
    BY <2>5
<1> HIDE DEF S
<1>3. Nat \subseteq S
  BY <1>1, <1>2, SetInduction
<1>4. QED
  BY <1>3 DEF S

LEMMA IntWritingExists ==
  ASSUME NEW n
  PROVE  \A m \in Nat : \E g : IntWrittenUpTo(g, n, m)
<1> DEFINE S == {m \in Nat : \E g : IntWrittenUpTo(g, n, m)}
           More(x) == x \div 256
<1>1. 0 \in S
  <2> DEFINE f == [k \in 0..0 |-> n]
  <2>1. IntWrittenUpTo(f, n, 0)
    BY DEF IntWrittenUpTo
  <2>2. QED
    BY <2>1
<1>2. ASSUME NEW m \in Nat, m \in S
      PROVE  m + 1 \in S
  <2>1. PICK f : IntWrittenUpTo(f, n, m)
    BY <1>2
  <2>1a. \A k \in 0..m : f[k] = IF k = 0 THEN n ELSE More(f[k - 1])
    BY <2>1, Zenon DEF IntWrittenUpTo
  <2> HIDE DEF More
  <2> DEFINE g == [k \in 0..(m + 1) |-> IF k = m + 1 THEN More(f[m]) ELSE f[k]]
  <2>2. ASSUME NEW k \in 0..(m + 1)
        PROVE  g[k] = IF k = 0 THEN n ELSE More(g[k - 1])
    <3>1. \A i \in 0..m : g[i] = f[i]
      OBVIOUS
    <3>2. CASE k = m + 1
      <4>1. m \in 0..m /\ k # 0 /\ k - 1 = m
        BY <3>2
      <4>2. QED
        BY <3>1, <3>2, <4>1
    <3>3. CASE k # m + 1
      <4>1. k \in 0..m /\ (k # 0 => k - 1 \in 0..m)
        BY <3>3
      <4>2. QED
        BY <2>1a, <3>1, <4>1
    <3>4. QED
      BY <3>2, <3>3
  <2>3. g = [k \in 0..(m + 1) |-> g[k]]
    OBVIOUS
  <2> HIDE DEF g
  <2>4. g = [k \in 0..(m + 1) |-> IF k = 0 THEN n ELSE More(g[k - 1])]
    BY <2>2, <2>3
  <2>5. IntWrittenUpTo(g, n, m + 1)
    BY <2>4, Zenon DEF IntWrittenUpTo, More
  <2>6. QED
    BY <2>5
<1> HIDE DEF S
<1>3. Nat \subseteq S
  BY <1>1, <1>2, SetInduction
<1>4. QED
  BY <1>3 DEF S

\* The values of an integer as its octets are read.
IntRead(f, raw, from) ==
  /\ f[0] = IF raw[from + 1] >= 128 THEN -1 ELSE 0
  /\ \A k \in Nat : k < WordLen => f[k + 1] = 256 * f[k] + raw[from + (k + 1)]

LEMMA ReadIntIs ==
  ASSUME NEW raw, NEW from
  PROVE  \E f : IntRead(f, raw, from) /\ ReadInt(raw, from) = f[WordLen]
<1>1. WordLen \in Nat
  BY CodecAssumption
<1>2. ReadInt(raw, from) = (CHOOSE f : IntReadUpTo(f, raw, from, WordLen))[WordLen]
  BY Zenon DEF ReadInt, IntReadUpTo
<1>3. PICK f : IntReadUpTo(f, raw, from, WordLen) /\ ReadInt(raw, from) = f[WordLen]
  BY <1>1, <1>2, IntReadingExists, Zenon
<1> DEFINE start == IF raw[from + 1] >= 128 THEN -1 ELSE 0
           More(x, k) == 256 * x + raw[from + k]
<1>4. \A k \in 0..WordLen : f[k] = IF k = 0 THEN start ELSE More(f[k - 1], k)
  BY <1>3, Zenon DEF IntReadUpTo
<1> HIDE DEF start, More
<1>5. f[0] = start
  BY <1>1, <1>4
<1>6. ASSUME NEW k \in Nat, k < WordLen
      PROVE  f[k + 1] = More(f[k], k + 1)
  <2>1. k + 1 \in 0..WordLen /\ k + 1 # 0 /\ (k + 1) - 1 = k
    BY <1>1, <1>6
  <2>2. QED
    BY <1>4, <2>1
<1>7. IntRead(f, raw, from)
  BY <1>5, <1>6, Zenon DEF IntRead, start, More
<1>8. QED
  BY <1>3, <1>7

\* What is left of an integer as its octets are written, from the last.
IntLeft(g, n) == g[0] = n /\ \A k \in Nat : k < WordLen => g[k + 1] = g[k] \div 256

LEMMA WriteIntIs ==
  ASSUME NEW n
  PROVE  \E g : IntLeft(g, n) /\ WriteInt(n) = [k \in 1..WordLen |-> g[WordLen - k] % 256]
<1>1. WordLen \in Nat
  BY CodecAssumption
<1>2. WriteInt(n) = LET g == CHOOSE g : IntWrittenUpTo(g, n, WordLen)
                    IN  [k \in 1..WordLen |-> g[WordLen - k] % 256]
  BY Zenon DEF WriteInt, IntWrittenUpTo
<1>3. PICK g : IntWrittenUpTo(g, n, WordLen) /\ WriteInt(n) = [k \in 1..WordLen |-> g[WordLen - k] % 256]
  BY <1>1, <1>2, IntWritingExists, Zenon
<1> DEFINE More(x) == x \div 256
<1>4. \A k \in 0..WordLen : g[k] = IF k = 0 THEN n ELSE More(g[k - 1])
  BY <1>3, Zenon DEF IntWrittenUpTo
<1> HIDE DEF More
<1>5. g[0] = n
  BY <1>1, <1>4
<1>6. ASSUME NEW k \in Nat, k < WordLen
      PROVE  g[k + 1] = More(g[k])
  <2>1. k + 1 \in 0..WordLen /\ k + 1 # 0 /\ (k + 1) - 1 = k
    BY <1>1, <1>6
  <2>2. QED
    BY <1>4, <2>1
<1>7. IntLeft(g, n)
  BY <1>5, <1>6, Zenon DEF IntLeft, More
<1>8. QED
  BY <1>3, <1>7

LEMMA IntReadType ==
  ASSUME NEW raw, NEW from, NEW f, IntRead(f, raw, from),
         \A i \in 1..WordLen : raw[from + i] \in Octet
  PROVE  \A k \in 0..WordLen : f[k] \in Int
<1> DEFINE S == {k \in Nat : k <= WordLen => f[k] \in Int}
<1>1. WordLen \in Nat
  BY CodecAssumption
<1>2. 0 \in S
  BY DEF IntRead
<1>3. ASSUME NEW k \in Nat, k \in S
      PROVE  k + 1 \in S
  <2>1. SUFFICES ASSUME k + 1 <= WordLen
                 PROVE  f[k + 1] \in Int
    OBVIOUS
  <2>2. k < WordLen /\ k <= WordLen /\ k + 1 \in 1..WordLen
    BY <1>1, <2>1
  <2>3. f[k] \in Int /\ f[k + 1] = 256 * f[k] + raw[from + (k + 1)]
    BY <1>3, <2>2 DEF IntRead
  <2>4. raw[from + (k + 1)] \in Nat
    BY <2>2, OctetsAreNumbers
  <2>5. QED
    BY <2>3, <2>4
<1> HIDE DEF S
<1>4. Nat \subseteq S
  BY <1>2, <1>3, SetInduction
<1>5. QED
  BY <1>1, <1>4 DEF S

\* Reading depends on the octets of the integer alone.
LEMMA ReadIntSame ==
  ASSUME NEW raw, NEW from, NEW other, NEW there,
         \A i \in 1..WordLen : other[there + i] = raw[from + i]
  PROVE  ReadInt(other, there) = ReadInt(raw, from)
<1>1. WordLen \in Nat \ {0}
  BY CodecAssumption
<1>2. PICK f : IntRead(f, raw, from) /\ ReadInt(raw, from) = f[WordLen]
  BY ReadIntIs
<1>3. PICK g : IntRead(g, other, there) /\ ReadInt(other, there) = g[WordLen]
  BY ReadIntIs
<1> DEFINE S == {k \in Nat : k <= WordLen => g[k] = f[k]}
<1>4. 0 \in S
  <2>1. other[there + 1] = raw[from + 1]
    BY <1>1
  <2>2. QED
    BY <1>2, <1>3, <2>1 DEF IntRead
<1>5. ASSUME NEW k \in Nat, k \in S
      PROVE  k + 1 \in S
  <2>1. SUFFICES ASSUME k + 1 <= WordLen
                 PROVE  g[k + 1] = f[k + 1]
    OBVIOUS
  <2>2. k < WordLen /\ k <= WordLen /\ k + 1 \in 1..WordLen
    BY <1>1, <2>1
  <2>3. g[k] = f[k] /\ other[there + (k + 1)] = raw[from + (k + 1)]
    BY <1>5, <2>2
  <2>4. QED
    BY <1>2, <1>3, <2>2, <2>3 DEF IntRead
<1> HIDE DEF S
<1>6. Nat \subseteq S
  BY <1>4, <1>5, SetInduction
<1>7. QED
  BY <1>1, <1>2, <1>3, <1>6 DEF S

LEMMA WriteIntType ==
  ASSUME NEW n \in Int
  PROVE  WriteInt(n) \in Seq(Octet) /\ Len(WriteInt(n)) = WordLen
<1>1. WordLen \in Nat
  BY CodecAssumption
<1>2. PICK g : IntLeft(g, n) /\ WriteInt(n) = [k \in 1..WordLen |-> g[WordLen - k] % 256]
  BY WriteIntIs
<1> DEFINE S == {k \in Nat : k <= WordLen => g[k] \in Int}
<1>3. 0 \in S
  BY <1>2 DEF IntLeft
<1>4. ASSUME NEW k \in Nat, k \in S
      PROVE  k + 1 \in S
  <2>1. SUFFICES ASSUME k + 1 <= WordLen
                 PROVE  g[k + 1] \in Int
    OBVIOUS
  <2>2. k < WordLen /\ k <= WordLen
    BY <1>1, <2>1
  <2>3. QED
    BY <1>2, <1>4, <2>2 DEF IntLeft
<1> HIDE DEF S
<1>5. Nat \subseteq S
  BY <1>3, <1>4, SetInduction
<1>6. ASSUME NEW k \in 1..WordLen
      PROVE  g[WordLen - k] % 256 \in Octet
  <2>1. g[WordLen - k] \in Int
    BY <1>1, <1>5 DEF S
  <2>2. QED
    BY <2>1 DEF Octet
<1>7. QED
  BY <1>1, <1>2, <1>6

\* Big-endian, two's complement: writing undoes reading.
LEMMA IntReturns ==
  ASSUME NEW raw, NEW from, \A i \in 1..WordLen : raw[from + i] \in Octet
  PROVE  /\ ReadInt(raw, from) \in Int
         /\ \A k \in 1..WordLen : WriteInt(ReadInt(raw, from))[k] = raw[from + k]
<1>1. WordLen \in Nat
  BY CodecAssumption
<1>2. PICK f : IntRead(f, raw, from) /\ ReadInt(raw, from) = f[WordLen]
  BY ReadIntIs
<1>3. \A k \in 0..WordLen : f[k] \in Int
  BY <1>2, IntReadType
<1>4. PICK g : /\ IntLeft(g, f[WordLen])
               /\ WriteInt(f[WordLen]) = [k \in 1..WordLen |-> g[WordLen - k] % 256]
  BY ONLY WriteIntIs, Zenon
<1>5. ASSUME NEW k \in Nat, k < WordLen
      PROVE  /\ f[k] \in Int /\ raw[from + (k + 1)] \in 0..255
             /\ f[k + 1] = 256 * f[k] + raw[from + (k + 1)]
             /\ f[k + 1] \div 256 = f[k] /\ f[k + 1] % 256 = raw[from + (k + 1)]
  <2>1. k \in 0..WordLen /\ k + 1 \in 1..WordLen
    BY <1>1, <1>5
  <2>2. f[k] \in Int
    BY <1>3, <2>1
  <2>3. raw[from + (k + 1)] \in 0..255
    BY <2>1 DEF Octet
  <2>4. f[k + 1] = 256 * f[k] + raw[from + (k + 1)]
    BY <1>2, <1>5 DEF IntRead
  <2> DEFINE x == f[k]
             y == f[k + 1]
             r == raw[from + (k + 1)]
  <2> HIDE DEF x, y, r
  <2>6. x \in Int /\ y \in Int /\ r \in 0..255 /\ y = 256 * x + r
    BY <2>2, <2>3, <2>4 DEF x, y, r
  <2>7. y \div 256 = x /\ y % 256 = r
    BY ONLY <2>6
  <2>8. QED
    BY <2>6, <2>7 DEF x, y, r
<1> DEFINE S == {j \in Nat : j <= WordLen => g[j] = f[WordLen - j]}
<1>6. 0 \in S
  <2>1. WordLen - 0 = WordLen
    BY <1>1
  <2>2. QED
    BY <1>4, <2>1 DEF IntLeft
<1>7. ASSUME NEW j \in Nat, j \in S
      PROVE  j + 1 \in S
  <2>1. SUFFICES ASSUME j + 1 <= WordLen
                 PROVE  g[j + 1] = f[WordLen - (j + 1)]
    OBVIOUS
  <2> DEFINE i == WordLen - (j + 1)
  <2>2. j < WordLen /\ j <= WordLen /\ i \in Nat /\ i < WordLen /\ i + 1 = WordLen - j
    BY <1>1, <2>1
  <2>3. g[j] = f[WordLen - j] /\ g[j + 1] = g[j] \div 256
    BY <1>4, <1>7, <2>2 DEF IntLeft
  <2> HIDE DEF i
  <2>4. f[i + 1] \div 256 = f[i]
    BY <1>5, <2>2
  <2>5. g[j + 1] = f[i]
    BY <2>2, <2>3, <2>4
  <2>6. QED
    BY <2>5 DEF i
<1> HIDE DEF S
<1>8. Nat \subseteq S
  BY <1>6, <1>7, SetInduction
<1>9. ASSUME NEW k \in 1..WordLen
      PROVE  g[WordLen - k] % 256 = raw[from + k]
  <2> DEFINE i == k - 1
             j == WordLen - k
  <2>1. i \in Nat /\ i < WordLen /\ i + 1 = k /\ j \in Nat /\ j <= WordLen /\ WordLen - j = k
    BY <1>1
  <2> HIDE DEF i, j
  <2>2. g[j] = f[k]
    BY <1>8, <2>1 DEF S
  <2>3. f[i + 1] % 256 = raw[from + (i + 1)]
    BY <1>5, <2>1
  <2>4. g[j] % 256 = raw[from + k]
    BY <2>1, <2>2, <2>3
  <2>5. QED
    BY <2>4 DEF j
<1>10. WordLen \in 0..WordLen
  BY <1>1
<1>11. QED
  BY <1>2, <1>3, <1>4, <1>9, <1>10

\* The integer 0 is all zeros.
LEMMA IntZero ==
  /\ \A k \in 1..WordLen : WriteInt(0)[k] = 0
  /\ \A raw, from : (\A i \in 1..WordLen : raw[from + i] = 0) => ReadInt(raw, from) = 0
<1>1. WordLen \in Nat \ {0}
  BY CodecAssumption
<1>2. ASSUME NEW raw, NEW from, \A i \in 1..WordLen : raw[from + i] = 0
      PROVE  ReadInt(raw, from) = 0
  <2>1. PICK f : IntRead(f, raw, from) /\ ReadInt(raw, from) = f[WordLen]
    BY ReadIntIs
  <2> DEFINE S == {k \in Nat : k <= WordLen => f[k] = 0}
  <2>2. 0 \in S
    <3>1. raw[from + 1] = 0
      BY <1>1, <1>2
    <3>2. QED
      BY <2>1, <3>1 DEF IntRead
  <2>3. ASSUME NEW k \in Nat, k \in S
        PROVE  k + 1 \in S
    <3>1. SUFFICES ASSUME k + 1 <= WordLen
                   PROVE  f[k + 1] = 0
      OBVIOUS
    <3>2. k < WordLen /\ k <= WordLen /\ k + 1 \in 1..WordLen
      BY <1>1, <3>1
    <3>3. f[k] = 0 /\ raw[from + (k + 1)] = 0 /\ f[k + 1] = 256 * f[k] + raw[from + (k + 1)]
      BY <1>2, <2>1, <2>3, <3>2 DEF IntRead
    <3>4. QED
      BY <3>3
  <2> HIDE DEF S
  <2>4. Nat \subseteq S
    BY <2>2, <2>3, SetInduction
  <2>5. QED
    BY <1>1, <2>1, <2>4 DEF S
<1>3. ASSUME NEW k \in 1..WordLen
      PROVE  WriteInt(0)[k] = 0
  <2> DEFINE zeros == [i \in 1..WordLen |-> 0]
  <2>1. \A i \in 1..WordLen : zeros[0 + i] = 0 /\ zeros[0 + i] \in Octet
    BY DEF Octet
  <2> HIDE DEF zeros
  <2>2. ReadInt(zeros, 0) = 0
    BY <1>2, <2>1
  <2>3. WriteInt(ReadInt(zeros, 0))[k] = zeros[0 + k]
    BY <2>1, IntReturns
  <2>4. QED
    BY <2>1, <2>2, <2>3
<1>4. QED
  BY <1>2, <1>3

\* What is written of an integer is read as that integer, wherever it stands.
LEMMA IntKept ==
  ASSUME NEW raw \in Seq(Octet), NEW from \in Nat, NEW other, NEW there,
         \A i \in 1..WordLen : other[there + i] = WriteInt(IntOrZero(raw, from))[i]
  PROVE  IntOrZero(raw, from) \in Int /\ ReadInt(other, there) = IntOrZero(raw, from)
<1>1. WordLen \in Nat \ {0}
  BY CodecAssumption
<1>2. CASE Len(raw) >= from + WordLen
  <2>1. IntOrZero(raw, from) = ReadInt(raw, from)
    BY <1>2 DEF IntOrZero
  <2>2. \A i \in 1..WordLen : raw[from + i] \in Octet
    <3>1. ASSUME NEW i \in 1..WordLen
          PROVE  from + i \in 1..Len(raw)
      BY <1>1, <1>2
    <3>2. QED
      BY <3>1
  <2>3. /\ ReadInt(raw, from) \in Int
        /\ \A i \in 1..WordLen : other[there + i] = raw[from + i]
    BY <2>1, <2>2, IntReturns
  <2>4. ReadInt(other, there) = ReadInt(raw, from)
    BY <2>3, ReadIntSame
  <2>5. QED
    BY <2>1, <2>3, <2>4
<1>3. CASE ~ (Len(raw) >= from + WordLen)
  <2>1. IntOrZero(raw, from) = 0
    BY <1>3 DEF IntOrZero
  <2>2. \A i \in 1..WordLen : other[there + i] = 0
    BY <2>1, IntZero
  <2>3. ReadInt(other, there) = 0
    BY <2>2, IntZero
  <2>4. QED
    BY <2>1, <2>3
<1>4. QED
  BY <1>2, <1>3

LEMMA OctetsAreTexts == Seq(Octet) \subseteq Texts
<1>1. Octet \subseteq Octet \cup {Replacement}
  OBVIOUS
<1>2. \A raw \in Seq(Octet) : raw \in Seq(Octet \cup {Replacement})
  BY <1>1, SeqMonotonic
<1>3. QED
  BY <1>2 DEF Texts

LEMMA IntegerKept ==
  ASSUME NEW raw \in Seq(Octet)
  PROVE  LET out == WriteInt(IntOrZero(raw, 0))
         IN  out \in Seq(Octet) /\ IntOrZero(out, 0) = IntOrZero(raw, 0)
<1> DEFINE n == IntOrZero(raw, 0)
           out == WriteInt(n)
<1>1. WordLen \in Nat /\ 0 \in Nat
  BY CodecAssumption
<1>2. \A i \in 1..WordLen : out[0 + i] = out[i]
  <2> HIDE DEF out
  <2>1. QED
    BY <1>1
<1>3. n \in Int /\ ReadInt(out, 0) = n
  <2>1. \A i \in 1..WordLen : out[0 + i] = WriteInt(IntOrZero(raw, 0))[i]
    BY <1>2
  <2> HIDE DEF out
  <2>2. QED
    BY <1>1, <2>1, IntKept
<1> HIDE DEF n
<1>4. out \in Seq(Octet) /\ Len(out) = WordLen
  BY <1>3, WriteIntType
<1> HIDE DEF out
<1>5. IntOrZero(out, 0) = n
  BY <1>1, <1>3, <1>4 DEF IntOrZero
<1>6. QED
  BY <1>4, <1>5 DEF out, n

LEMMA RangeKept ==
  ASSUME NEW raw \in Seq(Octet)
  PROVE  LET a == IntOrZero(raw, 0)
             b == IntOrZero(raw, WordLen)
             out == WriteInt(a) \o WriteInt(b)
         IN  out \in Seq(Octet) /\ IntOrZero(out, 0) = a /\ IntOrZero(out, WordLen) = b
<1> DEFINE a == IntOrZero(raw, 0)
           b == IntOrZero(raw, WordLen)
           x == WriteInt(a)
           y == WriteInt(b)
           out == x \o y
<1>1. WordLen \in Nat /\ 0 \in Nat
  BY CodecAssumption
<1>2. a \in Int /\ b \in Int
  <2>1. \A i \in 1..WordLen : x[0 + i] = WriteInt(IntOrZero(raw, 0))[i]
    <3> DEFINE z == WriteInt(IntOrZero(raw, 0))
    <3> HIDE DEF z
    <3>1. \A i \in 1..WordLen : z[0 + i] = z[i]
      BY <1>1
    <3>2. QED
      BY <3>1 DEF z
  <2>2. \A i \in 1..WordLen : y[0 + i] = WriteInt(IntOrZero(raw, WordLen))[i]
    <3> DEFINE z == WriteInt(IntOrZero(raw, WordLen))
    <3> HIDE DEF z
    <3>1. \A i \in 1..WordLen : z[0 + i] = z[i]
      BY <1>1
    <3>2. QED
      BY <3>1 DEF z
  <2> HIDE DEF x, y
  <2>3. a \in Int /\ ReadInt(x, 0) = a
    BY <1>1, <2>1, IntKept
  <2>4. b \in Int /\ ReadInt(y, 0) = b
    BY <1>1, <2>2, IntKept
  <2>5. QED
    BY <2>3, <2>4
<1>3. x \in Seq(Octet) /\ Len(x) = WordLen /\ y \in Seq(Octet) /\ Len(y) = WordLen
  <2> HIDE DEF a, b
  <2>1. QED
    BY <1>2, WriteIntType
<1> HIDE DEF x, y
<1>4. Joins(out, Octet, x, y)
  BY <1>3, Joined
<1> HIDE DEF out
<1>5. /\ out \in Seq(Octet) /\ Len(out) = WordLen + WordLen
      /\ \A i \in 1..WordLen : out[i] = x[i]
      /\ \A i \in 1..WordLen : out[WordLen + i] = y[i]
  BY <1>3, <1>4 DEF Joins
<1>6. ReadInt(out, 0) = a
  <2>1. \A i \in 1..WordLen : out[0 + i] = x[i]
    BY <1>1, <1>5
  <2>2. \A i \in 1..WordLen : out[0 + i] = WriteInt(IntOrZero(raw, 0))[i]
    BY <2>1 DEF x
  <2>3. QED
    BY <1>1, <2>2, IntKept
<1>7. ReadInt(out, WordLen) = b
  <2>1. \A i \in 1..WordLen : out[WordLen + i] = WriteInt(IntOrZero(raw, WordLen))[i]
    BY <1>5 DEF y
  <2>2. QED
    BY <1>1, <2>1, IntKept
<1> HIDE DEF a, b
<1>8. IntOrZero(out, 0) = a
  <2>1. Len(out) >= 0 + WordLen
    BY <1>1, <1>5
  <2>2. QED
    BY <1>6, <2>1 DEF IntOrZero
<1>9. IntOrZero(out, WordLen) = b
  <2>1. Len(out) >= WordLen + WordLen
    BY <1>1, <1>5
  <2>2. QED
    BY <1>7, <2>1 DEF IntOrZero
<1>10. QED
  BY <1>5, <1>8, <1>9 DEF out, x, y, a, b

\* A value keeps its meaning when it is written as it was read, and what is
\* written of it is the same again.
LEMMA ValueKept ==
  ASSUME NEW tag \in {"integer", "range", "boolean", "text", "noValue", "octets"},
         NEW raw \in Seq(Octet)
  PROVE  LET value == DecodeValue(tag, raw)
             out == EncodeValue(tag, value)
         IN  out \in Texts /\ DecodeValue(tag, out) = value
<1> DEFINE value == DecodeValue(tag, raw)
           out == EncodeValue(tag, value)
<1>1. CASE tag = "integer"
  <2> DEFINE n == IntOrZero(raw, 0)
             w == WriteInt(n)
  <2>1. w \in Seq(Octet) /\ IntOrZero(w, 0) = n
    BY IntegerKept
  <2> HIDE DEF n
  <2>2. value = <<n>> /\ value[1] = n
    BY <1>1 DEF DecodeValue, n
  <2> HIDE DEF value
  <2>3. out = w
    BY <1>1, <2>2 DEF EncodeValue
  <2> HIDE DEF out, w
  <2>4. DecodeValue(tag, out) = <<n>>
    BY <1>1, <2>1, <2>3 DEF DecodeValue
  <2>5. out \in Texts
    BY <2>1, <2>3, OctetsAreTexts
  <2>6. DecodeValue(tag, out) = value
    BY <2>2, <2>4
  <2>7. QED
    BY <2>5, <2>6 DEF out, value
<1>2. CASE tag = "range"
  <2> DEFINE a == IntOrZero(raw, 0)
             b == IntOrZero(raw, WordLen)
             w == WriteInt(a) \o WriteInt(b)
  <2>1. w \in Seq(Octet) /\ IntOrZero(w, 0) = a /\ IntOrZero(w, WordLen) = b
    BY RangeKept
  <2> HIDE DEF a, b
  <2>2. value = <<a, b>> /\ value[1] = a /\ value[2] = b
    BY <1>2 DEF DecodeValue, a, b
  <2> HIDE DEF value
  <2>3. out = w
    BY <1>2, <2>2 DEF EncodeValue
  <2> HIDE DEF out, w
  <2>4. DecodeValue(tag, out) = <<a, b>>
    BY <1>2, <2>1, <2>3 DEF DecodeValue
  <2>5. out \in Texts
    BY <2>1, <2>3, OctetsAreTexts
  <2>6. DecodeValue(tag, out) = value
    BY <2>2, <2>4
  <2>7. QED
    BY <2>5, <2>6 DEF out, value
<1>3. CASE tag = "boolean"
  <2>1. PICK b \in {0, 1} : value = <<b>>
    BY <1>3 DEF DecodeValue
  <2> HIDE DEF value
  <2>2. out = <<b>>
    BY <1>3, <2>1 DEF EncodeValue
  <2> HIDE DEF out
  <2>3. out # <<>> /\ out[1] = b
    BY <2>2
  <2>4. DecodeValue(tag, out) = <<b>>
    BY <1>3, <2>3 DEF DecodeValue
  <2>5. out \in Seq(Octet)
    BY <2>2 DEF Octet
  <2>6. out \in Texts /\ DecodeValue(tag, out) = value
    BY <2>1, <2>4, <2>5, OctetsAreTexts
  <2>7. QED
    BY <2>6 DEF out, value
<1>4. CASE tag = "text"
  <2>1. value = [k \in DOMAIN raw |-> IF raw[k] \in Invalid THEN Replacement ELSE raw[k]]
    BY <1>4 DEF DecodeValue
  <2> HIDE DEF value
  <2>2. out = value
    BY <1>4 DEF EncodeValue
  <2> HIDE DEF out
  <2>3. DOMAIN raw = 1..Len(raw) /\ Len(raw) \in Nat /\ \A k \in 1..Len(raw) : raw[k] \in Octet
    OBVIOUS
  <2>4. out \in Texts
    <3>1. \A k \in 1..Len(raw) : (IF raw[k] \in Invalid THEN Replacement ELSE raw[k]) \in Octet \cup {Replacement}
      BY <2>3
    <3>2. QED
      BY <2>1, <2>2, <2>3, <3>1 DEF Texts
  <2>5. ASSUME NEW k \in DOMAIN raw
        PROVE  (IF out[k] \in Invalid THEN Replacement ELSE out[k]) = out[k]
    <3>1. out[k] = IF raw[k] \in Invalid THEN Replacement ELSE raw[k]
      BY <2>1, <2>2
    <3>2. Replacement \notin Invalid
      BY DEF Replacement, Invalid
    <3>3. QED
      BY <3>1, <3>2
  <2>6. DOMAIN out = DOMAIN raw
    BY <2>1, <2>2
  <2>7. DecodeValue(tag, out) = [k \in DOMAIN out |-> IF out[k] \in Invalid THEN Replacement ELSE out[k]]
    BY <1>4 DEF DecodeValue
  <2>8. DecodeValue(tag, out) = [k \in DOMAIN raw |-> out[k]]
    BY <2>5, <2>6, <2>7
  <2>9. out = [k \in DOMAIN raw |-> out[k]]
    BY <2>1, <2>2
  <2>10. QED
    BY <2>2, <2>4, <2>8, <2>9 DEF out, value
<1>5. CASE tag = "noValue"
  <2>1. value = <<>> /\ out = <<>> /\ DecodeValue(tag, out) = <<>>
    BY <1>5 DEF DecodeValue, EncodeValue
  <2>2. <<>> \in Seq(Octet)
    OBVIOUS
  <2>3. QED
    BY <2>1, <2>2, OctetsAreTexts
<1>6. CASE tag = "octets"
  <2>1. value = raw /\ out = raw
    BY <1>6 DEF DecodeValue, EncodeValue
  <2>2. QED
    BY <2>1, OctetsAreTexts
<1>7. QED
  BY <1>1, <1>2, <1>3, <1>4, <1>5, <1>6

\* A token as it is written is read as it was, and can be spelled out.
LEMMA WrittenIsKept ==
  ASSUME NEW t \in Tokens
  PROVE  /\ t.type # "value" => Written(t) = t
         /\ t.type = "value" => /\ Written(t).type = "value" /\ Written(t).name = t.name
                                /\ Typed(Written(t)) = Typed(t)
         /\ t # Cut => Written(t) \in PlainTokens
<1>1. CASE t.type # "value"
  BY <1>1, SentArePlain DEF Written
<1>2. CASE t.type = "value"
  <2>1. PICK n \in Names \cup {NoName}, s \in Samples : t = Value(n, s.tag, s.raw)
    BY <1>2, TokenTypes DEF ValueTokens
  <2> DEFINE value == DecodeValue(s.tag, s.raw)
             out == EncodeValue(s.tag, value)
             w == Value(n, s.tag, out)
  <2>2. /\ n \in Seq(Octet) /\ s.raw \in Seq(Octet)
        /\ s.tag \in {"integer", "range", "boolean", "text", "noValue", "octets"}
    <3>1. n \in Names => n \in Seq(Octet)
      BY CodecAssumption
    <3>2. NoName \in Seq(Octet)
      BY DEF NoName
    <3>3. QED
      BY <3>1, <3>2, CodecAssumption
  <2>3. out \in Texts /\ DecodeValue(s.tag, out) = value
    BY <2>2, ValueKept
  <2> HIDE DEF value, out
  <2>4. t.name = n /\ t.tag = s.tag /\ t.raw = s.raw
    BY <2>1 DEF Value
  <2>5. Typed(t) = [tag |-> s.tag, value |-> value]
    BY <2>4, Zenon DEF Typed, value
  <2>6. Written(t) = w
    <3>1. Typed(t).value = value
      BY <2>5
    <3>2. Written(t) = Value(t.name, t.tag, EncodeValue(t.tag, Typed(t).value))
      BY <1>2, Zenon DEF Written
    <3>3. QED
      BY <2>4, <3>1, <3>2, Zenon DEF out
  <2>7. w.type = "value" /\ w.name = n /\ w.tag = s.tag /\ w.raw = out
    BY DEF Value
  <2>8. s.tag \in DOMAIN ValueTags
    BY <2>2 DEF ValueTags
  <2>9. w \in PlainTokens
    BY <2>2, <2>3, <2>8 DEF PlainTokens, PlainValues
  <2> HIDE DEF w
  <2>10. Typed(w) = [tag |-> s.tag, value |-> value]
    BY <2>3, <2>7, Zenon DEF Typed
  <2>11. QED
    BY <1>2, <2>4, <2>5, <2>6, <2>7, <2>9, <2>10
<1>3. QED
  BY <1>1, <1>2

\* A message that arrives whole is read as it was spelled exactly if its fields
\* fit their lengths.
LEMMA WholeMessage ==
  ASSUME NEW v \in Seq(PlainTokens), DataFollowsEnd(v)
  PROVE  Unspell(Spell(v)) = InOctets(v) <=> Fit(v)
<1> DEFINE n == Len(Spell(v))
           c == n - 8
           k == Len(v)
<1>1. Spell(v) \in Seq(Octet) /\ n = 8 + Len(Body(v)) /\ Len(Body(v)) \in Nat /\ k \in Nat
  BY SpellIs, SpelledType
<1>2. n \in 0..Len(Spell(v)) /\ n >= 8 /\ c = Len(Body(v)) /\ c \in 0..Len(Body(v)) /\ k \in 0..Len(v)
  <2> DEFINE b == Len(Body(v))
  <2>1. n = 8 + b /\ b \in Nat
    BY <1>1
  <2>2. n \in 0..n /\ n >= 8 /\ n - 8 = b /\ b \in 0..b
    <3> HIDE DEF n, b
    <3>1. QED
      BY <2>1
  <2>3. k \in 0..Len(v)
    BY <1>1
  <2>4. QED
    BY <2>2, <2>3
<1>3. Unspell(Spell(v)) = ReadTokens(Body(v))
  <2>1. SubSeq(Spell(v), 1, n) = Spell(v)
    <3> DEFINE w == Spell(v)
    <3>1. w \in Seq(Octet)
      BY <1>1
    <3> HIDE DEF w
    <3>2. SubSeq(w, 1, Len(w)) = w
      BY <3>1
    <3>3. QED
      BY <3>2 DEF w
  <2>2. Unspell(SubSeq(Spell(v), 1, n)) = ReadTokens(Cutoff(v, c))
    <3> HIDE DEF n
    <3>1. QED
      BY <1>2, UnspellCut
  <2>3. Cutoff(v, c) = Body(v)
    <3>1. Cutoff(v, Len(Body(v))) = Body(v)
      BY <1>2, CutoffIs
    <3>2. QED
      BY <1>2, <3>1
  <2>4. QED
    BY <2>1, <2>2, <2>3
<1>4. CASE AllFit(v, Len(v))
  <2>1. Place(v, k) = Len(Body(v))
    BY <1>2, PlaceMore
  <2> DEFINE d == Len(Body(v))
  <2>2. WholeIn(v, d, k)
    BY <1>1, <1>2, <2>1 DEF WholeIn
  <2>3. d \in 0..Len(Body(v)) /\ d \in Nat
    BY <1>2
  <2>4. Cutoff(v, d) = Body(v)
    BY <2>3, CutoffIs
  <2>5. ReadTokens(Cutoff(v, d)) = IF Place(v, k) = d THEN Arrived(v, k) ELSE Append(Arrived(v, k), Cut)
    <3> HIDE DEF d, k
    <3>1. QED
      BY <1>4, <2>2, <2>3, CutBody
  <2>6. Arrived(v, k) = InOctets(v)
    BY <1>2, ArrivedIs
  <2>7. ReadTokens(Body(v)) = InOctets(v)
    BY <2>1, <2>4, <2>5, <2>6
  <2>8. QED
    BY <1>3, <1>4, <2>7, FitsAll
<1>5. CASE ~ AllFit(v, Len(v))
  BY <1>3, <1>5, UnfitSpoils, FitsAll
<1>6. QED
  BY <1>4, <1>5

\* What is written of the request so far is read as the request was.
Echoed == DataSentLast /\ Decode(WrittenWire) = Message

LEMMA InitEchoed == Init => Echoed
<1> SUFFICES ASSUME Init
             PROVE  Echoed
  OBVIOUS
<1>1. wire = <<>>
  BY DEF Init
<1>2. WrittenWire = <<>>
  BY <1>1 DEF WrittenWire
<1>3. QED
  BY <1>1, <1>2, InitDataSentLast DEF Echoed, Message

LEMMA ReadAsWritten ==
  ASSUME CInv, NEW t \in Tokens, t.type = "byte" <=> Ended
  PROVE  ReadToken(Message, Written(t)) = ReadToken(Message, t)
<1> DEFINE w == Written(t)
           m == Message
<1>1. m.status \in {"reading", "data", "error"}
  BY DEF CInv, CTypeOK
<1>2. CASE t.type # "value"
  BY <1>2, WrittenIsKept
<1>3. CASE t.type = "value"
  <2>1. w.type = "value" /\ w.name = t.name /\ Typed(w) = Typed(t)
    BY <1>3, WrittenIsKept
  <2>2. m.status # "data"
    <3>1. ASSUME m.status = "data"
          PROVE  FALSE
      <4>1. Ended
        BY <3>1 DEF CInv, Placed
      <4>2. QED
        BY <1>3, <4>1
    <3>2. QED
      BY <3>1
  <2> HIDE DEF w, m
  <2>3. CASE m.status = "error"
    BY <2>3, Zenon DEF ReadToken, w, m
  <2>4. CASE m.status = "reading"
    <3>1. ReadToken(m, w) = IF w.name = NoName THEN ReadAdditional(m, w) ELSE ReadNamed(m, w)
      BY <2>1, <2>4 DEF ReadToken
    <3>2. ReadToken(m, t) = IF t.name = NoName THEN ReadAdditional(m, t) ELSE ReadNamed(m, t)
      BY <1>3, <2>4 DEF ReadToken
    <3>3. ReadAdditional(m, w) = ReadAdditional(m, t)
      BY <2>1, Zenon DEF ReadAdditional
    <3>4. ReadNamed(m, w) = ReadNamed(m, t)
      BY <2>1, Zenon DEF ReadNamed
    <3>5. ReadToken(m, w) = ReadToken(m, t)
      BY <2>1, <3>1, <3>2, <3>3, <3>4
    <3>6. QED
      BY <3>5 DEF w, m
  <2>5. QED
    BY <1>1, <2>2, <2>3, <2>4 DEF m
<1>4. QED
  BY <1>2, <1>3

LEMMA NextEchoed == Echoed /\ [Next]_wire => Echoed'
<1> SUFFICES ASSUME Echoed, [Next]_wire
             PROVE  Echoed'
  OBVIOUS
<1>1. DataSentLast /\ DataSentLast' /\ CInv /\ wire \in Seq(Tokens) /\ Decode(WrittenWire) = Message
  BY NextDataSentLast DEF Echoed, DataSentLast, CInv, CTypeOK
<1>2. CASE UNCHANGED wire
  <2>1. Message' = Message /\ WrittenWire' = WrittenWire
    BY <1>2 DEF Message, WrittenWire
  <2>2. QED
    BY <1>1, <2>1 DEF Echoed
<1>3. CASE Next
  <2>1. PICK t \in Tokens : wire' = Append(wire, t) /\ (t.type = "byte" <=> Ended)
    BY <1>1, <1>3, StepAppends
  <2>2. /\ WrittenWire \in Seq(WrittenTokens) /\ <<Written(t)>> \in Seq(WrittenTokens)
        /\ WrittenWire' = WrittenWire \o <<Written(t)>>
    BY <1>1, <2>1, WrittenGrows
  <2> DEFINE u == Written(t)
             w == WrittenWire
  <2>3. u \in WrittenTokens
    BY DEF WrittenTokens
  <2>4. w \in Seq(WrittenTokens) /\ WrittenWire' = Append(w, u)
    <3> HIDE DEF u, w
    <3>1. w \in Seq(WrittenTokens) /\ WrittenWire' = w \o <<u>>
      BY <2>2 DEF u, w
    <3>2. w \o <<u>> = Append(w, u)
      BY <2>3, <3>1
    <3>3. QED
      BY <3>1, <3>2
  <2> HIDE DEF u, w
  <2>5. Decode(Append(w, u)) = ReadToken(Decode(w), u)
    BY <2>3, <2>4, DecodeMore
  <2>6. Decode(Append(wire, t)) = ReadToken(Decode(wire), t)
    BY <1>1, DecodeMore
  <2>7. Decode(w) = Message /\ Decode(wire) = Message
    BY <1>1 DEF w, Message
  <2>8. ReadToken(Message, u) = ReadToken(Message, t)
    BY <1>1, <2>1, ReadAsWritten DEF u
  <2>9. Decode(WrittenWire') = Decode(wire')
    BY <2>1, <2>4, <2>5, <2>6, <2>7, <2>8, Zenon
  <2>10. (Decode(WrittenWire))' = Message'
    BY <2>9, Zenon DEF Message
  <2>11. QED
    BY <1>1, <2>10 DEF Echoed
<1>4. QED
  BY <1>2, <1>3

LEMMA EchoesHold == Spec => []Echoed
BY InitEchoed, NextEchoed, PTL DEF Spec

\* The answer that echoes the request.
LEMMA AnswerIs ==
  ASSUME CInv, Message.status # "error"
  PROVE  /\ Message.status = "data" => Encode(Message) = WrittenWire
         /\ Message.status = "reading" => Encode(Message) = Append(WrittenWire, End)
<1> DEFINE x == EncodeGroups(Message.groups)
           y == <<End>>
           z == Message.data
           T == WrittenTokens \cup {End, Byte(3)}
<1>1. wire \in Seq(Tokens) /\ Restored /\ Message.data \in Seq({Byte(3)})
      /\ Message.groups \in Seq(Groups) /\ (Message.status = "reading" => Message.data = <<>>)
  BY DEF CInv, CTypeOK
<1>2. Encode(Message) = (x \o y) \o z
  BY Zenon DEF Encode, EncodeGroups
<1>3. x \in Seq(T) /\ y \in Seq(T) /\ z \in Seq(T)
  <2>1. WrittenTokens \subseteq T /\ {Byte(3)} \subseteq T /\ End \in T
    OBVIOUS
  <2>2. x \in Seq(WrittenTokens)
    BY <1>1, GroupsTypes
  <2> HIDE DEF x, z, T
  <2>3. x \in Seq(T)
    BY <2>1, <2>2, SeqMonotonic
  <2>4. z \in Seq(T)
    BY <1>1, <2>1, SeqMonotonic DEF z
  <2>5. QED
    BY <2>1, <2>3, <2>4
<1>4. (Message.status = "data" => x \o (y \o z) = WrittenWire)
      /\ (Message.status # "data" => x \o <<>> = WrittenWire)
  BY <1>1, Zenon DEF Restored, AfterGroups
<1>5. Message.status = "reading" => z = <<>>
  BY <1>1
<1> HIDE DEF x, y, z, T
<1>6. (x \o y) \o z = x \o (y \o z)
  BY <1>3, ConcatAssociative
<1>7. ASSUME Message.status = "reading"
      PROVE  Encode(Message) = Append(WrittenWire, End)
  <2>1. x = WrittenWire
    <3>1. x \o <<>> = x
      BY <1>3
    <3>2. Message.status # "data"
      BY <1>7
    <3>3. QED
      BY <1>4, <3>1, <3>2
  <2>2. (x \o y) \o z = Append(x, End)
    <3>1. y = <<End>> /\ z = <<>>
      BY <1>5, <1>7 DEF y
    <3>2. End \in T
      BY DEF T
    <3>3. x \o <<End>> = Append(x, End) /\ Append(x, End) \o <<>> = Append(x, End)
      BY <1>3, <3>2
    <3>4. QED
      BY <3>1, <3>3
  <2>3. QED
    BY <1>2, <2>1, <2>2
<1>8. ASSUME Message.status = "data"
      PROVE  Encode(Message) = WrittenWire
  BY <1>2, <1>4, <1>6, <1>8
<1>9. QED
  BY <1>7, <1>8

LEMMA WrittenWireIs ==
  ASSUME wire \in Seq(Tokens)
  PROVE  /\ WrittenWire \in Seq(WrittenTokens) /\ Len(WrittenWire) = Len(wire) /\ Len(wire) \in Nat
         /\ \A k \in 1..Len(wire) : WrittenWire[k] = Written(wire[k]) /\ WrittenWire[k].type = wire[k].type
<1>1. DOMAIN wire = 1..Len(wire) /\ Len(wire) \in Nat /\ \A k \in 1..Len(wire) : wire[k] \in Tokens
  OBVIOUS
<1>2. \A k \in 1..Len(wire) : Written(wire[k]) \in WrittenTokens
  BY <1>1 DEF WrittenTokens
<1>3. WrittenWire = [k \in 1..Len(wire) |-> Written(wire[k])]
  BY <1>1, Zenon DEF WrittenWire
<1>4. WrittenWire \in Seq(WrittenTokens) /\ Len(WrittenWire) = Len(wire)
      /\ \A k \in 1..Len(wire) : WrittenWire[k] = Written(wire[k])
  BY <1>1, <1>2, <1>3
<1>5. ASSUME NEW k \in 1..Len(wire)
      PROVE  Written(wire[k]).type = wire[k].type
  BY <1>1, WrittenIsKept
<1>6. QED
  BY <1>1, <1>4, <1>5

LEMMA AnswerReadAgain ==
  ASSUME Echoed, Message.status # "error"
  PROVE  Decode(Encode(Message)) = [Message EXCEPT !.status = "data"]
<1>1. /\ CInv /\ wire \in Seq(Tokens) /\ Decode(WrittenWire) = Message
      /\ Message \in [status: {"reading", "data", "error"}, groups: Seq(Groups), data: Seq({Byte(3)})]
  BY DEF Echoed, DataSentLast, CInv, CTypeOK
<1> DEFINE m == Message
           w == WrittenWire
<1>2. CASE m.status = "data"
  <2>1. Encode(m) = w
    BY <1>1, <1>2, AnswerIs
  <2>2. [m EXCEPT !.status = "data"] = m
    <3> HIDE DEF m
    <3>1. m \in [status: {"reading", "data", "error"}, groups: Seq(Groups), data: Seq({Byte(3)})]
      BY <1>1 DEF m
    <3>2. QED
      BY <1>2, <3>1
  <2>3. QED
    BY <1>1, <2>1, <2>2
<1>3. CASE m.status = "reading"
  <2>1. Encode(m) = Append(w, End)
    BY <1>1, <1>3, AnswerIs
  <2> DEFINE T == WrittenTokens \cup {End}
  <2>2. w \in Seq(T) /\ End \in T
    <3>1. WrittenTokens \subseteq T
      OBVIOUS
    <3>2. w \in Seq(WrittenTokens)
      BY <1>1, WrittenWireIs
    <3> HIDE DEF w
    <3>3. w \in Seq(T)
      BY <3>1, <3>2, SeqMonotonic
    <3>4. QED
      BY <3>3
  <2> HIDE DEF T, w, m
  <2>3. Decode(Append(w, End)) = ReadToken(Decode(w), End)
    BY <2>2, DecodeMore
  <2>4. Decode(w) = m
    BY <1>1 DEF w, m
  <2>5. ReadToken(m, End) = [m EXCEPT !.status = "data"]
    BY <1>3 DEF ReadToken, End
  <2>6. QED
    BY <2>1, <2>3, <2>4, <2>5 DEF m
<1>4. QED
  BY <1>1, <1>2, <1>3

LEMMA AnswerIsPlain ==
  ASSUME Echoed, Message.status # "error", Framed
  PROVE  Encode(Message) \in Seq(PlainTokens) /\ DataFollowsEnd(Encode(Message))
<1>1. /\ CInv /\ wire \in Seq(Tokens) /\ DataFollowsEnd(wire) /\ Placed
      /\ Message.status \in {"reading", "data", "error"}
  BY DEF Echoed, DataSentLast, CInv, CTypeOK
<1> DEFINE w == WrittenWire
           n == Len(wire)
<1>2. /\ w \in Seq(WrittenTokens) /\ Len(w) = n /\ n \in Nat /\ DOMAIN wire = 1..n
      /\ \A k \in 1..n : w[k] = Written(wire[k]) /\ w[k].type = wire[k].type
  BY <1>1, WrittenWireIs
<1>3. \A k \in 1..n : w[k] \in PlainTokens
  <2>1. SUFFICES ASSUME NEW k \in 1..n
                 PROVE  w[k] \in PlainTokens
    OBVIOUS
  <2>2. wire[k] \in Tokens
    BY <1>1
  <2>3. wire[k] # Cut
    <3>1. wire[k] \in ToSet(wire)
      BY <1>1 DEF ToSet
    <3>2. QED
      BY <3>1 DEF Framed
  <2>4. QED
    BY <1>2, <2>2, <2>3, WrittenIsKept
<1> HIDE DEF w, n
<1>4. w \in Seq(PlainTokens)
  BY <1>2, <1>3
<1>5. ASSUME NEW k \in 1..n
      PROVE  w[k].type = "byte" <=> \E j \in 1..(k - 1) : w[j].type = "end"
  <2>1. wire[k].type = "byte" <=> \E j \in 1..(k - 1) : wire[j].type = "end"
    BY <1>1 DEF DataFollowsEnd, n
  <2>2. \A j \in 1..(k - 1) : w[j].type = wire[j].type
    BY <1>2
  <2>3. QED
    BY <1>2, <2>1, <2>2
<1>6. DataFollowsEnd(w)
  BY <1>2, <1>5 DEF DataFollowsEnd
<1>7. CASE Message.status = "data"
  <2>1. Encode(Message) = w
    BY <1>1, <1>7, AnswerIs DEF w
  <2>2. QED
    BY <1>4, <1>6, <2>1
<1>8. CASE Message.status = "reading"
  <2> DEFINE a == Append(w, End)
  <2>1. Encode(Message) = a
    BY <1>1, <1>8, AnswerIs DEF w
  <2>2. End \in PlainTokens /\ End.type = "end"
    BY DEF PlainTokens, End
  <2>3. /\ a \in Seq(PlainTokens) /\ Len(a) = n + 1 /\ a[n + 1] = End
        /\ \A k \in 1..n : a[k] = w[k]
    BY <1>2, <1>4, <2>2
  <2>4. \A k \in 1..n : w[k].type # "end"
    <3>1. ~ Ended
      BY <1>1, <1>8 DEF Placed
    <3>2. QED
      BY <1>2, <3>1 DEF Ended
  <2> HIDE DEF a
  <2>5. ASSUME NEW k \in 1..(n + 1)
        PROVE  a[k].type = "byte" <=> \E j \in 1..(k - 1) : a[j].type = "end"
    <3>1. \A j \in 1..(k - 1) : j \in 1..n /\ a[j].type # "end"
      BY <1>2, <2>3, <2>4
    <3>2. a[k].type # "byte"
      <4>1. CASE k = n + 1
        BY <2>2, <2>3, <4>1
      <4>2. CASE k # n + 1
        <5>1. k \in 1..n /\ \A j \in 1..(k - 1) : j \in 1..n
          BY <1>2, <4>2
        <5>2. w[k].type # "byte"
          BY <1>5, <2>4, <5>1
        <5>3. QED
          BY <2>3, <5>1, <5>2
      <4>3. QED
        BY <4>1, <4>2
    <3>3. QED
      BY <3>1, <3>2
  <2>6. DataFollowsEnd(a)
    BY <2>3, <2>5 DEF DataFollowsEnd
  <2>7. QED
    BY <2>1, <2>3, <2>6
<1>9. QED
  BY <1>1, <1>7, <1>8

\* Any answer that echoes a request is read as the request was, and spelled out
\* in octets it is exactly if no value grew beyond its length while it was
\* mended: from the first that did, what is read is another message.
THEOREM GrownValuesSpoil == Spec => []OnlyOutgrownValuesSpoil
<1>1. ASSUME Echoed
      PROVE  OnlyOutgrownValuesSpoil
  <2> SUFFICES ASSUME Message.status # "error"
               PROVE  /\ Decode(Encode(Message)) = [Message EXCEPT !.status = "data"]
                      /\ Framed => (Unspell(Spell(Encode(Message))) = InOctets(Encode(Message))
                                      <=> Fit(Encode(Message)))
    BY Zenon DEF OnlyOutgrownValuesSpoil
  <2>1. Decode(Encode(Message)) = [Message EXCEPT !.status = "data"]
    BY <1>1, AnswerReadAgain
  <2> DEFINE answer == Encode(Message)
  <2>2. ASSUME Framed
        PROVE  answer \in Seq(PlainTokens) /\ DataFollowsEnd(answer)
    BY <1>1, <2>2, AnswerIsPlain
  <2> HIDE DEF answer
  <2>3. Framed => (Unspell(Spell(answer)) = InOctets(answer) <=> Fit(answer))
    BY <2>2, WholeMessage
  <2>4. QED
    BY <2>1, <2>3 DEF answer
<1>2. QED
  BY <1>1, EchoesHold, PTL

=============================================================================
