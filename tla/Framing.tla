-------------------------------- MODULE Framing --------------------------------
(***************************************************************************)
(* The octets under the tokens of Codec: BufferWriter and BufferReader     *)
(* (src/utils), and how encode and decode lay a message out with them.  A  *)
(* name and a value carry their lengths in two octets, modulo their range. *)
(*                                                                         *)
(* A length octet has LengthBase values instead of 256, so that a short    *)
(* value is at the limit.  The header is eight octets nobody interprets.   *)
(***************************************************************************)
EXTENDS Codec

CONSTANTS
  LengthBase,   \* values of one octet of a length, 256 in the code
  FramedTokens  \* bound on the messages that are spelled out

DelimiterTags == 1..7
EndTag == 3

ASSUME FramingAssumption ==
  /\ LengthBase \in 2..256 /\ FramedTokens \in Nat
  /\ GroupTags \subseteq DelimiterTags \ {EndTag}

ValueTags == [noValue |-> 19, integer |-> 33, boolean |-> 34,
              octets |-> 48, range |-> 51, text |-> 65]
Header == <<2, 0, 0, 11, 0, 0, 0, 1>>

(***************************************************************************)
(* Writing.                                                                *)
(***************************************************************************)
\* Text leaves as UTF-8: a replacement character takes three octets.
Utf8(raw) ==
  FlattenSeq([k \in DOMAIN raw |-> IF raw[k] = Replacement THEN <<239, 191, 189>> ELSE <<raw[k]>>])

\* Fault: a length is one octet.
FaultyWriteLength(n) == <<0, n % LengthBase>>

\* writeUInt16BE masks what two octets cannot hold.
WriteLength(n) == <<(n \div LengthBase) % LengthBase, n % LengthBase>>

Octets(t) ==
  CASE t.type = "group" -> <<t.tag>>
    [] t.type = "end"   -> <<EndTag>>
    [] t.type = "byte"  -> <<t.byte>>
    [] t.type = "value" ->
         LET bytes == Utf8(t.raw)
         IN  <<ValueTags[t.tag]>> \o WriteLength(Len(t.name)) \o t.name
               \o WriteLength(Len(bytes)) \o bytes

Spell(tokens) == Header \o FlattenSeq([k \in DOMAIN tokens |-> Octets(tokens[k])])

(***************************************************************************)
(* Reading.  A reader is the octets left and those just read, or fails for *)
(* good where ensure() throws.                                             *)
(***************************************************************************)
Reader(octets) == [left |-> octets, read |-> <<>>, failed |-> FALSE]

\* readBytes, after ensure.
Take(r, n) ==
  IF r.failed \/ n > Len(r.left) THEN [r EXCEPT !.failed = TRUE]
  ELSE [left |-> SubSeq(r.left, n + 1, Len(r.left)), read |-> SubSeq(r.left, 1, n), failed |-> FALSE]

\* Fault: the field is sliced without ensure(), and subarray clamps.
FaultyTakeField(r) ==
  LET length == Take(r, 2)
      n == Min({LengthBase * length.read[1] + length.read[2], Len(length.left)})
  IN  IF length.failed THEN length
      ELSE [length EXCEPT !.read = SubSeq(length.left, 1, n),
                          !.left = SubSeq(length.left, n + 1, Len(length.left))]

\* A field behind its length, the latter read by readUInt16BE.
TakeField(r) ==
  LET length == Take(r, 2)
  IN  IF length.failed THEN length
      ELSE Take(length, LengthBase * length.read[1] + length.read[2])

\* A tag that no switch names is read as octets.
TagOf(octet) ==
  IF \E tag \in DOMAIN ValueTags : ValueTags[tag] = octet
  THEN CHOOSE tag \in DOMAIN ValueTags : ValueTags[tag] = octet ELSE "octets"

\* The loop of decode is left with nothing more to read at its end: after the
\* end of the attributes all that is left is data.
ReadData(s) ==
  [left |-> <<>>, tokens |-> (s.tokens \o <<End>>) \o [k \in 1..Len(Tail(s.left)) |-> Byte(Tail(s.left)[k])]]

ReadDelimiter(s) ==
  [left |-> Tail(s.left), tokens |-> Append(s.tokens, Group(Head(s.left)))]

ReadValue(s) ==
  LET name  == TakeField(Reader(Tail(s.left)))
      value == TakeField(name)
  IN  IF value.failed THEN [left |-> <<>>, tokens |-> Append(s.tokens, Cut)]
      ELSE [left |-> value.left,
            tokens |-> Append(s.tokens, Value(name.read, TagOf(Head(s.left)), value.read))]

\* One round of the loop.
ReadNext(s) ==
  IF s.left = <<>> THEN s
  ELSE IF Head(s.left) = EndTag THEN ReadData(s)
  ELSE IF Head(s.left) \in DelimiterTags THEN ReadDelimiter(s)
  ELSE ReadValue(s)

\* Every round reads an octet at least.
ReadTokens(octets) ==
  LET after[k \in 0..Len(octets)] ==
        IF k = 0 THEN [left |-> octets, tokens |-> <<>>] ELSE ReadNext(after[k - 1])
  IN  after[Len(octets)].tokens

Unspell(octets) ==
  LET body == Take(Reader(octets), Len(Header))
  IN  IF body.failed THEN <<Cut>> ELSE ReadTokens(body.left)

(***************************************************************************)
(* Properties.                                                             *)
(***************************************************************************)
\* The tokens with their values as octets.
InOctets(tokens) ==
  [k \in DOMAIN tokens |->
     IF tokens[k].type = "value" THEN [tokens[k] EXCEPT !.raw = Utf8(@)] ELSE tokens[k]]

Limit == LengthBase * LengthBase  \* the first length that two octets cannot hold

Fit(tokens) == \A k \in DOMAIN tokens :
  tokens[k].type = "value" => Len(tokens[k].name) < Limit /\ Len(Utf8(tokens[k].raw)) < Limit

\* The requests spelled out: those with no cut of their own.
Framed == Len(wire) <= FramedTokens /\ Cut \notin ToSet(wire)

\* How many tokens arrive whole in the first n octets.
Whole(n) == Max({-1} \cup {k \in 0..Len(wire) : Len(Spell(SubSeq(wire, 1, k))) <= n})

\* A connection that breaks off after any octet, in a length, a name or the
\* header, leaves the tokens that arrived whole and one cut, or no cut exactly
\* between two tokens: no octet is taken for one of another token, and what is
\* missing is never filled in.
TruncationIsNoticed ==
  Framed /\ Fit(wire) =>
    LET octets == Spell(wire) IN
    \A n \in 0..Len(octets) :
      LET k == Whole(n)
          arrived == SubSeq(wire, 1, k)
      IN  Unspell(SubSeq(octets, 1, n)) =
            IF n >= Len(Header) /\ Len(Spell(arrived)) = n THEN arrived ELSE Append(arrived, Cut)

\* An answer that echoes a request is read by the next reader as the request
\* was read here, mended values included, exactly if no value grew beyond the
\* length field while it was mended: the length is the only thing the writer
\* does not check, and one value that outgrew it spoils the message.
OnlyOutgrownValuesSpoil ==
  Message.status # "error" =>
    LET answer == Encode(Message) IN
    /\ Decode(answer) = [Message EXCEPT !.status = "data"]
    /\ Framed => (Unspell(Spell(answer)) = InOctets(answer) <=> Fit(answer))
=============================================================================
