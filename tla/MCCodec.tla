------------------------------- MODULE MCCodec -------------------------------
(***************************************************************************)
(* Instances of Codec and Framing: integers of one byte; negative, short,  *)
(* overlong and damaged values; lengths of up to three octets.             *)
(***************************************************************************)
EXTENDS Framing

Sample(tag, raw, means) == [tag |-> tag, raw |-> raw, means |-> means]

MCNames == {<<110>>}

MCSamples == {
  Sample("integer", <<255>>, <<-1>>),
  Sample("boolean", <<255>>, <<1>>),
  Sample("range", <<2, 128>>, <<2, -128>>),
  Sample("range", <<2>>, <<2, 0>>),
  Sample("text", <<97, 255>>, <<97, 65533>>),
  Sample("noValue", <<7>>, <<>>),
  Sample("octets", <<0, 255>>, <<0, 255>>)}
=============================================================================
