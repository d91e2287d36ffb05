----------------------------- MODULE DataStream -----------------------------
(* The byte streams of common/src/core/datastream.cpp: a stream in memory that *)
(* grows as it is written, one over a buffer of the caller, a queue that is    *)
(* pushed at its end and cut at its front, a file, and the stream that is read *)
(* backwards; and the numbers and strings IOStream puts into them and takes    *)
(* out again in either byte order. A number is its bytes, the most significant *)
(* first. Memory is never exhausted; the spare room a buffer keeps does not    *)
(* show. "written" is the values from the start of the stream on, "got" those  *)
(* before the place that reading has come to.                                  *)
EXTENDS Integers, Sequences, FiniteSets, SequencesExt

CONSTANTS
  Host,            \* the byte order of the machine
  StreamValues,    \* values that may be written
  MaxStreamValues, \* bound on the values in a stream
  MaxStreamCalls   \* bound on the calls

ByteOrders == {"little", "big"}
StreamKinds == {"number", "string", "bytes32", "bytes64", "uint24", "int24"}
StreamBytes == 0..255

(* The length of a string is in the last of four bytes; integers of 24 bits    *)
(* are what is left of four.                                                   *)
MayBeWritten(v) ==
  /\ v \in [kind : StreamKinds, bytes : Seq(StreamBytes)]
  /\ IF v.kind = "string" THEN Len(v.bytes) \in StreamBytes ELSE v.bytes # <<>>
  /\ v.kind \in {"uint24", "int24"} => Len(v.bytes) = 4
  /\ v.kind = "uint24" => v.bytes[1] = 0

ASSUME StreamAssumption == Host \in ByteOrders /\ \A v \in StreamValues : MayBeWritten(v)

VARIABLES stream, written, got, streamCalls

streamVars == <<stream, written, got, streamCalls>>

Wild == 256   \* a byte nobody has written

-----------------------------------------------------------------------------
(* Values and bytes.                                                           *)
swapOrder(b) == [i \in 1..Len(b) |-> b[Len(b) - i + 1]]
InMemory(b) == IF Host = "little" THEN Reverse(b) ELSE b

writeNumber(b, order) == IF order # Host THEN swapOrder(InMemory(b)) ELSE InMemory(b)
readNumber(b, order) == InMemory(IF order # Host THEN swapOrder(b) ELSE b)

OneByOne(b, order) == FlattenSeq([i \in 1..Len(b) |-> writeNumber(<<b[i]>>, order)])

(* operator<<, writeBytes, writeUInt24 and writeInt24. A value of 24 bits is   *)
(* the low three of the four bytes of an int.                                  *)
PutValue(v, order) ==
  IF v.kind = "number" THEN writeNumber(v.bytes, order)
  ELSE IF v.kind = "string" THEN writeNumber(<<0, 0, 0, Len(v.bytes)>>, order) \o v.bytes
  ELSE IF v.kind \in {"bytes32", "bytes64"} THEN OneByOne(Reverse(v.bytes), order)
  ELSE writeNumber(<<v.bytes[2]>>, order) \o writeNumber(<<v.bytes[3], v.bytes[4]>>, order)

SizeInStream(v) == IF v.kind = "string" THEN 4 + Len(v.bytes)
                   ELSE IF v.kind \in {"uint24", "int24"} THEN 3 ELSE Len(v.bytes)

readUInt24(b, order) == <<0>> \o readNumber(<<b[1]>>, order) \o readNumber(SubSeq(b, 2, 3), order)

(* operator>>, readBytes, readUInt24 and readInt24 of a value of the kind, from *)
(* the bytes it has in the stream. readBytes of 64 bits puts the first byte     *)
(* highest, and that of 32 bits lowest.                                         *)
GetValue(kind, b, order) ==
  IF kind = "number" THEN readNumber(b, order)
  ELSE IF kind = "string" THEN SubSeq(b, 5, Len(b))
  ELSE IF kind = "bytes32" THEN Reverse(b)
  ELSE IF kind = "bytes64" THEN b
  ELSE readUInt24(b, order)

-----------------------------------------------------------------------------
(* Streams.                                                                    *)
NewStream(kind, order, bytes, owned) ==
  [kind |-> kind, order |-> order, bytes |-> bytes, pos |-> 0, owned |-> owned,
   left |-> 0, mode |-> "none", eof |-> FALSE]

Size(s) == Len(s.bytes)
InMemoryKinds == {"memory", "queue"}

(* reallocSize: only a buffer of its own grows, and none gets shorter.         *)
reallocSize(s, n) ==
  IF s.owned /\ n > Size(s)
  THEN [s EXCEPT !.bytes = @ \o [i \in 1..n - Size(s) |-> Wild]]
  ELSE s

Over(bytes, at, data) ==
  [i \in DOMAIN bytes |-> IF i \in at + 1..at + Len(data) THEN data[i - at] ELSE bytes[i]]

MayRead(s) == s.mode \in {"rb", "rb+", "wb+", "ab+"}
MayWrite(s) == s.mode \in {"rb+", "wb", "wb+", "ab", "ab+"}

(* write, or the push of a queue; what cannot be written leaves the stream as  *)
(* it is. A file opened to append is written at its end.                       *)
WriteTo(s, data) ==
  LET atEnd == s.kind = "queue" \/ s.mode \in {"ab", "ab+"}
      at == IF atEnd THEN Size(s) ELSE s.pos
      grown == reallocSize([s EXCEPT !.owned = @ \/ MayWrite(s)], at + Len(data))
      refused == (s.kind = "file" /\ ~MayWrite(s)) \/ at + Len(data) > Size(grown)
  IN IF refused THEN s
     ELSE [s EXCEPT !.bytes = Over(grown.bytes, at, data),
                    !.pos = IF s.kind = "queue" THEN @ ELSE at + Len(data)]

(* read: as much as there is. A file that has less knows it has ended.         *)
ReadFrom(s, n) ==
  LET there == IF s.pos < Size(s) THEN Size(s) - s.pos ELSE 0
  IN IF s.kind = "file" /\ ~MayRead(s) THEN s
     ELSE [s EXCEPT !.pos = @ + (IF n < there THEN n ELSE there),
                    !.eof = s.kind = "file" /\ (@ \/ there < n)]

(* fseek64Inner starts a file that has ended anew before it looks for its place. *)
Settled(s) == IF s.eof THEN [s EXCEPT !.pos = 0, !.eof = FALSE] ELSE s

-----------------------------------------------------------------------------
(* Where the values begin: value k + 1 behind the first k.                     *)
Begins(values) ==
  LET behind[k \in 0..Len(values)] ==
        IF k = 0 THEN 0 ELSE behind[k - 1] + SizeInStream(values[k])
  IN behind
End == Begins(written)[Len(written)]

Of(v, order) == [kind |-> v.kind, bytes |-> v.bytes, order |-> order]
After(values, k) == SubSeq(values, k + 1, Len(values))

(* The constructors: an empty stream in memory, one of a given size, one over  *)
(* a buffer that holds a value; a queue; a file that is not open yet; and a    *)
(* stream that is read backwards, over a buffer or from a stream's place on.   *)
StreamInit ==
  /\ got = <<>> /\ streamCalls = 0
  /\ \E order \in ByteOrders :
       \/ \E kind \in InMemoryKinds :
            stream = NewStream(kind, order, <<>>, TRUE) /\ written = <<>>
       \/ stream = NewStream("memory", order, <<Wild, Wild, Wild>>, TRUE) /\ written = <<>>
       \/ \E v \in StreamValues :
            /\ stream = NewStream("memory", order, PutValue(v, order), FALSE)
            /\ written = <<Of(v, order)>>
       \/ /\ stream = [NewStream("file", order, <<>>, FALSE) EXCEPT !.mode = "absent"]
          /\ written = <<>>
       \/ \E size, from \in 0..3 : \E at \in {0, size} :
            /\ from <= at /\ written = <<>>
            /\ stream = [NewStream("reversed", order, [i \in 1..size |-> Wild], TRUE) EXCEPT
                           !.left = from, !.pos = at]

StreamStep(s, values, before) ==
  /\ streamCalls < MaxStreamCalls /\ streamCalls' = streamCalls + 1
  /\ stream' = s /\ written' = values /\ got' = before

InFile == stream.kind = "file"
InBuffer == stream.kind \in InMemoryKinds

WriteValue ==
  \E v \in StreamValues :
    /\ stream.kind = "queue" \/ stream.pos = End \/ stream.mode \in {"ab", "ab+"}
    /\ InBuffer \/ (InFile /\ ~stream.eof)
    /\ Len(written) < MaxStreamValues
    /\ LET s == WriteTo(stream, PutValue(v, stream.order))
           values == Append(written, Of(v, stream.order))
       IN IF s = stream THEN StreamStep(s, written, got)
          ELSE StreamStep(s, values, IF stream.kind = "queue" THEN got ELSE values)

(* The value that is next is read; a string is only read in the order it was   *)
(* written in. What a read that finds too little leaves in the value is open.  *)
ReadValue ==
  /\ InBuffer \/ (InFile /\ MayRead(stream))
  /\ Len(got) < Len(written)
  /\ LET w == written[Len(got) + 1]
         found == SubSeq(stream.bytes, stream.pos + 1, stream.pos + SizeInStream(w))
         enough == stream.pos + SizeInStream(w) <= Size(stream)
     IN /\ w.kind = "string" => stream.order = w.order
        /\ StreamStep(ReadFrom(stream, SizeInStream(w)), written,
                      Append(got, [kind |-> w.kind, order |-> stream.order,
                                   bytes |-> IF enough THEN GetValue(w.kind, found, stream.order)
                                             ELSE <<Wild>>]))

ReadBeyond ==
  /\ InBuffer \/ InFile
  /\ Len(got) = Len(written)
  /\ StreamStep(ReadFrom(stream, 1), written, got)

(* seek, seekToBegin, seekToEnd.                                               *)
Seek ==
  /\ InBuffer \/ (InFile /\ stream.mode \notin {"none", "absent"})
  /\ \/ \E k \in 0..Len(written) :
          StreamStep([Settled(stream) EXCEPT !.pos = Begins(written)[k]], written,
                     SubSeq(written, 1, k))
     \/ StreamStep([Settled(stream) EXCEPT !.pos = Size(stream)], written, written)

Skip ==
  /\ InBuffer \/ (InFile /\ stream.mode \notin {"none", "absent"})
  /\ Len(got) < Len(written)
  /\ LET w == written[Len(got) + 1]
     IN StreamStep([Settled(stream) EXCEPT !.pos = @ + SizeInStream(w)], written, Append(got, w))

(* pos, size and atEnd of a file.                                              *)
AskPlace ==
  /\ InFile /\ stream.mode \notin {"none", "absent"}
  /\ StreamStep(Settled(stream), written, IF stream.eof THEN <<>> ELSE got)

Resize ==
  /\ stream.kind = "memory"
  /\ StreamStep(reallocSize(stream, End + 2), written, got)

Reset ==
  /\ stream.kind = "memory"
  /\ StreamStep([stream EXCEPT !.bytes = <<>>, !.pos = 0], <<>>, <<>>)

(* Mutant: the place stays where it was.                                       *)
CutKeepingPlace(s, n) ==
  IF n <= Size(s) THEN [s EXCEPT !.bytes = SubSeq(@, n + 1, Len(@))]
  ELSE [s EXCEPT !.bytes = <<>>, !.pos = 0]

CutTo(s, n) ==
  IF n <= Size(s)
  THEN [s EXCEPT !.bytes = SubSeq(@, n + 1, Len(@)), !.pos = IF @ - n >= 0 THEN @ - n ELSE 0]
  ELSE [s EXCEPT !.bytes = <<>>, !.pos = 0]

(* cut of the values that were read, of fewer and of more, and of everything.  *)
Cut ==
  /\ stream.kind = "queue"
  /\ \/ \E k \in 0..Len(written) :
          StreamStep(CutTo(stream, Begins(written)[k]), After(written, k), After(got, k))
     \/ StreamStep(CutTo(stream, Size(stream) + 1), <<>>, <<>>)

(* A copy has a buffer of its own. The copy constructor leaves it in little    *)
(* endian order; assignment leaves the target its order.                       *)
CopyStream ==
  /\ InBuffer
  /\ \E order \in ByteOrders :
       StreamStep([stream EXCEPT !.owned = TRUE, !.order = order], written, got)

SetOrder ==
  \E order \in ByteOrders :
    /\ order # stream.order
    /\ StreamStep([stream EXCEPT !.order = order], written, got)

(* write(IOStream&) of what is left, into a stream in memory.                  *)
Transfer ==
  /\ InBuffer \/ (InFile /\ MayRead(stream))
  /\ stream.pos = Begins(written)[Len(got)]
  /\ LET rest == NewStream("memory", stream.order, After(stream.bytes, stream.pos), TRUE)
     IN StreamStep([rest EXCEPT !.pos = Size(rest)], After(written, Len(got)),
                   After(written, Len(got)))

FopenMode(flags, exists) ==
  LET reads == "Read" \in flags
      writes == "Write" \in flags
  IN IF "Append" \in flags THEN IF reads THEN "ab+" ELSE "ab"
     ELSE IF reads /\ "Truncate" \notin flags
     THEN IF ~writes THEN "rb" ELSE IF exists THEN "rb+" ELSE "wb+"
     ELSE IF writes THEN IF reads THEN "wb+" ELSE "wb"
     ELSE "none"

(* open, which closes first: what the mode needs, and what it does to the file. *)
Open ==
  /\ InFile
  /\ \E flags \in SUBSET {"Read", "Write", "Append", "Truncate"} :
       LET exists == stream.mode # "absent"
           mode == FopenMode(flags, exists)
           closed == NewStream("file", stream.order, stream.bytes, FALSE)
           opened == [closed EXCEPT !.mode = mode]
           fails == mode = "none" \/ (mode \in {"rb", "rb+"} /\ ~exists)
       IN \/ /\ fails
             /\ StreamStep([closed EXCEPT !.mode = IF exists THEN @ ELSE "absent"], written, <<>>)
          \/ /\ ~fails /\ mode \in {"wb", "wb+"}
             /\ StreamStep([opened EXCEPT !.bytes = <<>>], <<>>, <<>>)
          \/ /\ ~fails /\ mode \notin {"wb", "wb+"}
             /\ StreamStep(opened, written, <<>>)

(* The reversed stream: its places count down from the end to left_end_. What   *)
(* read copies lies before the buffer, and is not modelled.                     *)
ReadReversed ==
  /\ stream.kind = "reversed"
  /\ \E n \in 1..2 :
       LET there == stream.pos - stream.left
       IN /\ stream.pos > stream.left
          /\ StreamStep([stream EXCEPT !.pos = @ - (IF n > there THEN there ELSE n)],
                        written, got)

SeekReversed ==
  /\ stream.kind = "reversed"
  /\ \/ \E p \in 0..Size(stream) : StreamStep([stream EXCEPT !.pos = p], written, got)
     \/ StreamStep([stream EXCEPT !.pos = stream.left], written, got)
     \/ \E n \in 0..2 :
          StreamStep([stream EXCEPT !.pos = IF @ - n < stream.left THEN stream.left ELSE @ - n],
                     written, got)

StreamNext ==
  \/ WriteValue \/ ReadValue \/ ReadBeyond \/ Seek \/ Skip \/ AskPlace \/ Resize \/ Reset
  \/ Cut \/ CopyStream \/ SetOrder \/ Transfer \/ Open \/ ReadReversed \/ SeekReversed

StreamSpec == StreamInit /\ [][StreamNext]_streamVars

-----------------------------------------------------------------------------
(* readBytes of 64 bits does not read what writeBytes of 64 bits wrote, and    *)
(* readInt24 reads a negative number as a positive one.                        *)
ComesBack(v) == v.kind # "bytes64" /\ (v.kind = "int24" => v.bytes[1] = 0)

(* Whatever is written comes back, in order and in the byte order it was       *)
(* written in: while the stream grows, is copied, cut or put into another      *)
(* stream, and after seeks, skips and reads that found too little. No stream   *)
(* in memory gets to a place beyond what it holds; that of a queue goes back   *)
(* with what is cut from its front.                                            *)
ValuesComeBack ==
  /\ \A i \in DOMAIN got :
       ComesBack(written[i]) /\ got[i].order = written[i].order => got[i] = written[i]
  /\ stream.kind # "file" => stream.pos \in 0..Size(stream)
=============================================================================
