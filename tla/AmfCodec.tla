------------------------------ MODULE AmfCodec ------------------------------
(* AmfDocument::Encode and Decode: the AMF0 encoding of commands and metadata.  *)
(*                                                                             *)
(* A byte with a meaning of its own is <<value>>; byte i of the text s is      *)
(* <<s, i>>, byte i of the number n <<"number", n, i>>.  Names are shorter     *)
(* than the 128 bytes a decoded pair has for its name.                         *)
EXTENDS AmfDocument

-----------------------------------------------------------------------------
(* AmfTypeMarker.                                                              *)
Marker == [Number |-> 0, Boolean |-> 1, String |-> 2, Object |-> 3, Null |-> 5,
           Undefined |-> 6, Array |-> 8]
ObjectEnd == 9

Byte(v) == <<v>>

(* The WriteInt functions, most significant byte first.                        *)
WriteInt(size, number) == [i \in 1..size |-> Byte((number \div 256^(size - i)) % 256)]

Text(s) == [i \in 1..Len(s) |-> <<s, i>>]

-----------------------------------------------------------------------------
(* Encode.                                                                     *)

EncodeNumber(n) == WriteInt(1, Marker.Number) \o [i \in 1..8 |-> <<"number", n, i>>]
EncodeBoolean(b) == WriteInt(1, Marker.Boolean) \o WriteInt(1, IF b THEN 1 ELSE 0)
EncodeString(s) == WriteInt(1, Marker.String) \o WriteInt(2, Len(s)) \o Text(s)

(* An object without pairs is not written at all.                              *)
EncodeObjectArray(type, pairs, values) ==
  IF pairs = <<>> THEN <<>>
  ELSE WriteInt(1, Marker[type])
       \o (IF type = "Array" THEN WriteInt(4, 0) ELSE <<>>)
       \o FlattenSeq([i \in 1..Len(pairs) |->
                        WriteInt(2, Len(pairs[i][1])) \o Text(pairs[i][1]) \o values[i]])
       \o WriteInt(2, 0) \o WriteInt(1, ObjectEnd)

RECURSIVE EncodeProperty(_)
EncodeProperty(property) ==
  LET type == GetType(property)
      value == property[type]
  IN  CASE type \in {"Null", "Undefined"} -> WriteInt(1, Marker[type])
        [] type = "Number" -> EncodeNumber(value)
        [] type = "Boolean" -> EncodeBoolean(value)
        [] type = "String" -> EncodeString(value)
        [] type \in {"Array", "Object"} ->
             EncodeObjectArray(type, value, [i \in 1..Len(value) |-> EncodeProperty(value[i][2])])

Encode(document) == FlattenSeq([i \in 1..Len(document) |-> EncodeProperty(document[i])])

-----------------------------------------------------------------------------
(* Decode, from byte p on.                                                     *)

ReadInt16(data, p) == data[p][1] * 256 + data[p + 1][1]

(* What is read where no text, or no number, begins.                           *)
Garbled == "garbled"

ReadText(data, p, length) ==
  IF length = 0 THEN ""
  ELSE IF \A i \in 1..length : p + i - 1 <= Len(data) /\ data[p + i - 1] = <<data[p][1], i>>
       THEN data[p][1] ELSE Garbled

ReadNumber(data, p) ==
  IF \A i \in 1..8 : data[p + i - 1] = <<"number", data[p][2], i>> THEN data[p][2] ELSE 0

Failure == [size |-> 0, property |-> Null]
Decoded(size, property) == [size |-> size, property |-> property]

(* Nothing shorter than this is decoded; a string, when it comes last, has at  *)
(* least one character.                                                        *)
LeastSize == [Number |-> 9, Boolean |-> 2, String |-> 4, Object |-> 1, Null |-> 1,
              Undefined |-> 1, Array |-> 1]

(* A name of length 0 is skipped; a pair that cannot be decoded fails the      *)
(* whole object.                                                               *)
RECURSIVE DecodeProperty(_, _), DecodePairs(_, _, _)
DecodePairs(data, p, pairs) ==
  IF data[p] = Byte(ObjectEnd) THEN [next |-> p + 1, pairs |-> pairs]
  ELSE LET length == ReadInt16(data, p)
           value == DecodeProperty(data, p + 2 + length)
       IN  IF length = 0 THEN DecodePairs(data, p + 2, pairs)
           ELSE IF value.size = 0 THEN [next |-> 0, pairs |-> <<>>]
           ELSE DecodePairs(data, p + 2 + length + value.size,
                            Append(pairs, <<ReadText(data, p + 2, length), value.property>>))

DecodeProperty(data, p) ==
  LET types == {t \in DOMAIN Marker : p <= Len(data) /\ data[p] = Byte(Marker[t])}
      type == CHOOSE t \in types : TRUE
      object == DecodePairs(data, IF type = "Array" THEN p + 5 ELSE p + 1, <<>>)
  IN  IF types = {} \/ Len(data) - p + 1 < LeastSize[type] THEN Failure
      ELSE CASE type \in {"Null", "Undefined"} -> Decoded(1, [t \in {type} |-> 0])
             [] type = "Number" -> Decoded(9, Number(ReadNumber(data, p + 1)))
             [] type = "Boolean" -> Decoded(2, Boolean(data[p + 1] # Byte(0)))
             [] type = "String" -> LET length == ReadInt16(data, p + 1)
                                   IN  Decoded(3 + length, String(ReadText(data, p + 3, length)))
             [] type \in {"Array", "Object"} ->
                  IF object.next = 0 THEN Failure
                  ELSE Decoded(object.next - p, [t \in {type} |-> object.pairs])

(* What comes before the first property that cannot be decoded.                *)
RECURSIVE DecodeFrom(_, _)
DecodeFrom(data, p) ==
  LET first == DecodeProperty(data, p)
  IN  IF p > Len(data) \/ first.size = 0 THEN <<>>
      ELSE <<first.property>> \o DecodeFrom(data, p + first.size)

Decode(data) == DecodeFrom(data, 1)

-----------------------------------------------------------------------------
(* The client writes AMF0 as its specification says.                           *)
RECURSIVE Amf0(_)
Amf0(property) ==
  LET type == GetType(property)
      pairs == property[type]
  IN  IF type \notin {"Array", "Object"} THEN EncodeProperty(property)
      ELSE WriteInt(1, Marker[type])
           \o (IF type = "Array" THEN WriteInt(4, Len(pairs)) ELSE <<>>)
           \o FlattenSeq([i \in 1..Len(pairs) |->
                            WriteInt(2, Len(pairs[i][1])) \o Text(pairs[i][1]) \o Amf0(pairs[i][2])])
           \o WriteInt(3, ObjectEnd)

Payload(document) == FlattenSeq([i \in 1..Len(document) |-> Amf0(document[i])])
=============================================================================
