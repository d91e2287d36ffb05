----------------------------- MODULE AmfDocument -----------------------------
(* AmfDocument and its parts: the values of commands and metadata, and how     *)
(* they are looked up.  AmfCodec has their encoding.                           *)
(*                                                                             *)
(* A property is a record whose only field names its type.  An object or an    *)
(* array is the sequence of its pairs <<name, property>>, a document the       *)
(* sequence of its properties.                                                 *)
EXTENDS Integers, Sequences, SequencesExt

-----------------------------------------------------------------------------
Null == [Null |-> 0]
Undefined == [Undefined |-> 0]
Number(n) == [Number |-> n]
Boolean(b) == [Boolean |-> b]
String(s) == [String |-> s]
Array(pairs) == [Array |-> pairs]
Object(pairs) == [Object |-> pairs]

GetType(property) == CHOOSE type \in DOMAIN property : TRUE

-----------------------------------------------------------------------------
(* Reading a document.  GetProperty counts from 0.                             *)

IsType(document, index, type) ==
  index < Len(document) /\ GetType(document[index + 1]) = type

(* The value of the first pair of that name if it has that type.               *)
FindName(pairs, name) == SelectInSeq(pairs, LAMBDA pair : pair[1] = name)

Has(pairs, name, type) ==
  LET index == FindName(pairs, name) IN index > 0 /\ GetType(pairs[index][2]) = type

Get(pairs, name, type, default) ==
  IF Has(pairs, name, type) THEN pairs[FindName(pairs, name)][2][type] ELSE default
=============================================================================
