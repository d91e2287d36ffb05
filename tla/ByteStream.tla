------------------------------ MODULE ByteStream ------------------------------
(* ov::ByteStream (common/src/core/byte_stream.cpp, byte_stream.h): streams    *)
(* over one ov::Data object, each with a place of its own and a stack of saved *)
(* places. A stream that may write makes the data longer as it needs; one that *)
(* may not cannot even be put at the end of the data. Numbers are written and  *)
(* read in the order of the host, little or big endian (byte_ordering.h); a    *)
(* number is its bytes, the most significant first. "typed" is the numbers in  *)
(* the data that no other write has touched since.                             *)
EXTENDS Integers, Sequences, SequencesExt

CONSTANTS
  ByteStreams,     \* the streams over the data
  HostOrder,       \* the byte order of the machine
  TypedNumbers,    \* numbers that may be written
  MaxSharedLength, \* bound on the length of the data
  MaxByteCalls     \* bound on the calls

ASSUME ByteStreamAssumption ==
  /\ HostOrder \in {"little", "big"}
  /\ TypedNumbers \subseteq Seq(0..255) /\ <<>> \notin TypedNumbers
  /\ MaxSharedLength \in Nat

VARIABLES sharedData, byteStreams, typed, byteCalls

byteStreamVars == <<sharedData, byteStreams, typed, byteCalls>>

Orders == {"host", "little", "big"}
InHostOrder(o) == o \in {"host", HostOrder}
AsStored(b) == IF HostOrder = "little" THEN Reverse(b) ELSE b

(* 24 bits are swapped in the upper or in the lower part of 32.                *)
HostToOrder(b, o) ==
  IF InHostOrder(o) THEN b
  ELSE IF Len(b) = 3 THEN SubSeq(Reverse(<<0>> \o b), 1, 3) ELSE Reverse(b)

OrderToHost(b, o) ==
  IF InHostOrder(o) THEN b
  ELSE IF Len(b) = 3 THEN SubSeq(Reverse(b \o <<0>>), 2, 4) ELSE Reverse(b)

StreamAt(writable, offset) == [writable |-> writable, offset |-> offset, stack |-> <<>>]

ByteStreamInit ==
  /\ sharedData = <<>> /\ typed = {} /\ byteCalls = 0
  /\ byteStreams \in [ByteStreams -> {StreamAt(w, 0) : w \in BOOLEAN}]

ByteStep(s, stream) ==
  /\ byteCalls < MaxByteCalls /\ byteCalls' = byteCalls + 1
  /\ byteStreams' = [byteStreams EXCEPT ![s] = stream]

UntouchedBy(from, to) == {t \in typed : t.at + Len(t.bytes) <= from \/ t.at >= to}

(* Write, WriteInternal and the streaming operators.                           *)
PutBytes(s, bytes, numbers) ==
  LET from == byteStreams[s].offset
      to == from + Len(bytes)
      length == IF to > Len(sharedData) THEN to ELSE Len(sharedData)
  IN /\ byteStreams[s].writable /\ to <= MaxSharedLength
     /\ sharedData' = [i \in 1..length |-> IF i \in from + 1..to THEN bytes[i - from]
                                           ELSE sharedData[i]]
     /\ typed' = UntouchedBy(from, to) \cup numbers
     /\ ByteStep(s, [byteStreams[s] EXCEPT !.offset = to])

WriteTyped(s) ==
  \E b \in TypedNumbers, o \in Orders :
    PutBytes(s, AsStored(HostToOrder(b, o)),
             {[at |-> byteStreams[s].offset, order |-> o, bytes |-> b]})

WriteRaw(s) == PutBytes(s, <<7>>, {})

AppendRaw(s) ==
  /\ byteStreams[s].writable /\ Len(sharedData) < MaxSharedLength
  /\ sharedData' = Append(sharedData, 7)
  /\ ByteStep(s, byteStreams[s]) /\ UNCHANGED typed

Remained(s) == Len(sharedData) - byteStreams[s].offset

(* Mutant: as many are read as are asked for.                                  *)
PeekCountUnlimited(s, size, count) == count

(* How many values of the size Peek gives.                                     *)
PeekCount(s, size, count) ==
  LET remained == Remained(s) \div size IN IF remained < count THEN remained ELSE count

(* Read and Skip of up to two values; the typed reads are reads of one.        *)
ReadCount(s) ==
  \E size \in {1} \cup {Len(b) : b \in TypedNumbers}, count \in 1..2 :
    /\ ByteStep(s, [byteStreams[s] EXCEPT !.offset = @ + size * PeekCount(s, size, count)])
    /\ UNCHANGED <<sharedData, typed>>

ToOffset(s, stream, offset) ==
  LET there == offset < Len(sharedData)
      refused == ~there /\ ~stream.writable
  IN /\ sharedData' = IF there \/ refused THEN sharedData
                      ELSE [i \in 1..offset |-> IF i <= Len(sharedData) THEN sharedData[i] ELSE 0]
     /\ ByteStep(s, IF refused THEN stream ELSE [stream EXCEPT !.offset = offset])
     /\ UNCHANGED typed

SetOffset(s) == \E offset \in 0..MaxSharedLength : ToOffset(s, byteStreams[s], offset)

PushOffset(s) ==
  /\ ByteStep(s, [byteStreams[s] EXCEPT !.stack = Append(@, byteStreams[s].offset)])
  /\ UNCHANGED <<sharedData, typed>>

(* The saved place is gone, whether the stream could be put there or not.      *)
PopOffset(s) ==
  LET stack == byteStreams[s].stack
  IN /\ stack # <<>>
     /\ ToOffset(s, [byteStreams[s] EXCEPT !.stack = Front(@)], Last(stack))

(* A new stream, and a copy, which has no saved places.                        *)
MakeStream(s) ==
  /\ \E stream \in {StreamAt(w, 0) : w \in BOOLEAN}
                     \cup {StreamAt(byteStreams[t].writable, byteStreams[t].offset) :
                             t \in ByteStreams} :
       ByteStep(s, stream)
  /\ UNCHANGED <<sharedData, typed>>

ByteStreamNext ==
  \E s \in ByteStreams :
    \/ WriteTyped(s) \/ WriteRaw(s) \/ AppendRaw(s) \/ ReadCount(s) \/ SetOffset(s)
    \/ PushOffset(s) \/ PopOffset(s) \/ MakeStream(s)

ByteStreamSpec == ByteStreamInit /\ [][ByteStreamNext]_byteStreamVars

-----------------------------------------------------------------------------
(* What is left is never negative, for no stream over the data and at no place *)
(* that was saved, so that no unsigned difference in Remained wraps; and every *)
(* number, of 24 bits too, is read as it was written, whichever stream wrote   *)
(* it and made the data longer since.                                          *)
SharedDataIsRead ==
  /\ \A s \in ByteStreams :
       /\ Remained(s) >= 0
       /\ \A i \in DOMAIN byteStreams[s].stack : byteStreams[s].stack[i] <= Len(sharedData)
  /\ \A t \in typed :
       LET there == SubSeq(sharedData, t.at + 1, t.at + Len(t.bytes))
       IN OrderToHost(AsStored(there), t.order) = t.bytes
=============================================================================
