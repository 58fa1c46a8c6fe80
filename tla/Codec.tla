--------------------------------- MODULE Codec ---------------------------------
(***************************************************************************)
(* The IPP codec: decode (src/ipp/decoder.ts) turns the bytes of a request *)
(* into groups of attributes, encode (src/ipp/encoder.ts) turns a response *)
(* into bytes.                                                             *)
(*                                                                         *)
(* The wire is a sequence of tokens: a delimiter, a value with its name    *)
(* and its raw bytes, the end of the attributes, a byte of document data.  *)
(* A request may break off inside a token, where BufferReader throws: the  *)
(* token "cut".  Values keep their bytes; a raw text is a sequence of      *)
(* bytes and of Replacement, which stands for the three bytes of U+FFFD.   *)
(* Names are well-formed text.  Module Framing lays the tokens out in      *)
(* octets.                                                                 *)
(***************************************************************************)
EXTENDS Integers, SequencesExt

CONSTANTS
  GroupTags,  \* delimiter tags
  Names,      \* attribute names, sequences of octets
  Samples,    \* the values clients send: their tag, raw bytes and meaning
  WordLen,    \* bytes of an integer, 4 in the code
  MaxTokens   \* bound on the length of a message

Octet == 0..255

ASSUME CodecAssumption ==
  /\ WordLen \in Nat \ {0} /\ MaxTokens \in Nat
  /\ \A n \in Names : n \in Seq(Octet) /\ n # <<>>
  /\ \A s \in Samples : /\ s.tag \in {"integer", "range", "boolean", "text", "noValue", "octets"}
                       /\ s.raw \in Seq(Octet)

NoName == <<>>  \* name-length 0

VARIABLE wire  \* the request as far as it has arrived

(***************************************************************************)
(* Values.  A typed value is a sequence of numbers: the integer, the two   *)
(* bounds of a range, 0 or 1, the characters of a text, the octets.        *)
(***************************************************************************)
Replacement == 65533
Invalid == 128..255  \* bytes that are no UTF-8 character by themselves

\* readInt32BE at offset "from": big-endian, two's complement, so that the
\* highest bit stands for the sign of all that are above it.
ReadInt(raw, from) ==
  LET upTo[k \in 0..WordLen] ==
        IF k = 0 THEN (IF raw[from + 1] >= 128 THEN -1 ELSE 0)
        ELSE 256 * upTo[k - 1] + raw[from + k]
  IN  upTo[WordLen]

WriteInt(n) ==
  LET shifted[k \in 0..WordLen] == IF k = 0 THEN n ELSE shifted[k - 1] \div 256
  IN  [k \in 1..WordLen |-> shifted[WordLen - k] % 256]

\* A buffer too short for an integer reads as 0.
IntOrZero(raw, from) == IF Len(raw) >= from + WordLen THEN ReadInt(raw, from) ELSE 0

\* Fault: only 1 is TRUE.
FaultyDecodeValue(tag, raw) ==
  CASE tag = "integer" -> <<IntOrZero(raw, 0)>>
    [] tag = "range"   -> <<IntOrZero(raw, 0), IntOrZero(raw, WordLen)>>
    [] tag = "boolean" -> <<IF raw # <<>> /\ raw[1] = 1 THEN 1 ELSE 0>>
    [] OTHER           -> raw

DecodeValue(tag, raw) ==
  CASE tag = "integer" -> <<IntOrZero(raw, 0)>>
    [] tag = "range"   -> <<IntOrZero(raw, 0), IntOrZero(raw, WordLen)>>
    [] tag = "boolean" -> <<IF raw # <<>> /\ raw[1] # 0 THEN 1 ELSE 0>>
    [] tag = "text"    -> [k \in DOMAIN raw |-> IF raw[k] \in Invalid THEN Replacement ELSE raw[k]]
    [] tag = "noValue" -> <<>>
    [] tag = "octets"  -> raw

EncodeValue(tag, value) ==
  CASE tag = "integer" -> WriteInt(value[1])
    [] tag = "range"   -> WriteInt(value[1]) \o WriteInt(value[2])
    [] tag = "noValue" -> <<>>
    [] OTHER           -> value

(***************************************************************************)
(* decode.  "reading" is the loop over the tokens, "data" what follows the *)
(* end of the attributes, "error" a thrown IppDecodeError or               *)
(* BufferReadError.                                                        *)
(***************************************************************************)
Empty == [status |-> "reading", groups |-> <<>>, data |-> <<>>]

Group(tag)        == [type |-> "group", tag |-> tag]
Value(n, tag, raw) == [type |-> "value", name |-> n, tag |-> tag, raw |-> raw]
End == [type |-> "end"]
Cut == [type |-> "cut"]
Byte(b) == [type |-> "byte", byte |-> b]

Typed(t) == [tag |-> t.tag, value |-> DecodeValue(t.tag, t.raw)]

ReadGroup(m, t) ==
  [m EXCEPT !.groups = Append(@, [tag |-> t.tag, attributes |-> <<>>])]

ReadNamed(m, t) ==
  IF m.groups = <<>> THEN [m EXCEPT !.status = "error"]
  ELSE [m EXCEPT !.groups[Len(m.groups)].attributes =
          Append(@, [name |-> t.name, values |-> <<Typed(t)>>])]

\* Fault: the last attribute is not forgotten when a group begins.
FaultyReadAdditional(m, t) ==
  LET nonempty == {g \in DOMAIN m.groups : m.groups[g].attributes # <<>>}
      g == Max(nonempty \cup {0})
  IN  IF g = 0 THEN [m EXCEPT !.status = "error"]
      ELSE [m EXCEPT !.groups[g].attributes[Len(m.groups[g].attributes)].values =
              Append(@, Typed(t))]

\* lastAttribute is the last of the current group, undefined in a new one.
ReadAdditional(m, t) ==
  IF m.groups = <<>> \/ Last(m.groups).attributes = <<>> THEN [m EXCEPT !.status = "error"]
  ELSE [m EXCEPT !.groups[Len(m.groups)].attributes[Len(Last(m.groups).attributes)].values =
          Append(@, Typed(t))]

ReadToken(m, t) ==
  CASE m.status = "error"   -> m
    [] m.status = "data"    -> [m EXCEPT !.data = Append(@, t)]
    [] m.status = "reading" ->
         CASE t.type = "group" -> ReadGroup(m, t)
           [] t.type = "value" -> IF t.name = NoName THEN ReadAdditional(m, t) ELSE ReadNamed(m, t)
           [] t.type = "end"   -> [m EXCEPT !.status = "data"]
           [] t.type = "cut"   -> [m EXCEPT !.status = "error"]

Decode(tokens) ==
  LET decoded[k \in 0..Len(tokens)] ==
        IF k = 0 THEN Empty ELSE ReadToken(decoded[k - 1], tokens[k])
  IN  decoded[Len(tokens)]

(***************************************************************************)
(* encode.                                                                 *)
(***************************************************************************)
\* Fault: every value carries the name.
FaultyEncodeAttribute(a) ==
  [k \in DOMAIN a.values |->
     Value(a.name, a.values[k].tag, EncodeValue(a.values[k].tag, a.values[k].value))]

EncodeAttribute(a) ==
  [k \in DOMAIN a.values |->
     Value(IF k = 1 THEN a.name ELSE NoName, a.values[k].tag,
           EncodeValue(a.values[k].tag, a.values[k].value))]

EncodeGroup(g) ==
  <<Group(g.tag)>> \o FlattenSeq([k \in DOMAIN g.attributes |-> EncodeAttribute(g.attributes[k])])

Encode(m) ==
  FlattenSeq([k \in DOMAIN m.groups |-> EncodeGroup(m.groups[k])]) \o <<End>> \o m.data

(***************************************************************************)
(* The client: it may send tokens in any order, and break off anywhere.    *)
(***************************************************************************)
Ended == \E k \in DOMAIN wire : wire[k].type = "end"

Send(t) ==
  /\ Len(wire) < MaxTokens
  /\ Cut \notin ToSet(wire)
  /\ wire' = Append(wire, t)

SendAttributes ==
  /\ ~ Ended
  /\ \/ \E tag \in GroupTags : Send(Group(tag))
     \/ \E n \in Names \cup {NoName}, s \in Samples : Send(Value(n, s.tag, s.raw))
     \/ Send(End)
     \/ Send(Cut)

SendData == Ended /\ Send(Byte(3))

Init == wire = <<>>
Next == SendAttributes \/ SendData
Spec == Init /\ [][Next]_wire

(***************************************************************************)
(* Properties.                                                             *)
(***************************************************************************)
Message == Decode(wire)

\* A named value needs a group before it, an additional value a named one in
\* the same group.
WellPlaced(k) ==
  CASE wire[k].type = "cut"   -> FALSE
    [] wire[k].type = "value" ->
         \E j \in 1..(k - 1) :
           IF wire[k].name \in Names THEN wire[j].type = "group"
           ELSE /\ wire[j].type = "value" /\ wire[j].name \in Names
                /\ \A i \in j..k : wire[i].type = "value"
    [] OTHER -> TRUE

\* decode refuses a request exactly if one of its values belongs to nothing or
\* it breaks off inside a token; then it is answered client-error-bad-request.
RefusesExactlyTheMalformed ==
  Message.status = "error" <=> \E k \in DOMAIN wire : ~ WellPlaced(k)

SamplesOf(t) == {s \in Samples : s.tag = t.tag /\ s.raw = t.raw}

\* The values of a request, of its groups as they were read, and of one group.
SentValues == FlattenSeq([k \in DOMAIN wire |-> IF wire[k].type = "value" THEN <<wire[k]>> ELSE <<>>])
ValuesOf(g) == FlattenSeq([k \in DOMAIN g.attributes |-> g.attributes[k].values])
AllValues(groups) == FlattenSeq([k \in DOMAIN groups |-> ValuesOf(groups[k])])

\* Every value of an accepted request arrives, in order, with the meaning it
\* has: signed integers, any octet but 0 for TRUE, missing bounds as 0, bytes
\* that are no text as U+FFFD.
ReadsWhatWasMeant ==
  Message.status # "error" =>
    LET values == AllValues(Message.groups) IN
    /\ Len(values) = Len(SentValues)
    /\ \A k \in DOMAIN values : \A s \in SamplesOf(SentValues[k]) : values[k].value = s.means

\* The groups, attributes and sets of values of a request are kept apart as
\* they were sent: encoding a request that is complete and whose values are in
\* the form the encoder writes restores it, document data included.
EncodeRestores ==
  (Message.status = "data" /\ \A k \in DOMAIN wire : wire[k].type = "value" =>
      EncodeValue(wire[k].tag, Typed(wire[k]).value) = wire[k].raw)
    => Encode(Message) = wire
=============================================================================
