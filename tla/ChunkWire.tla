------------------------------ MODULE ChunkWire ------------------------------
(* The chunk format of RTMP, as RtmpChunkHeader lays it out and as the chunk    *)
(* parser of the server expects it: a basic header of one to three bytes, a    *)
(* message header of four sizes, an extended timestamp, and the payload with   *)
(* a type 3 header after every full chunk.                                     *)
(*                                                                             *)
(* A client's message is                                                       *)
(*   [fmt, csid, size, kind, timestamp],                                       *)
(* size being that of the basic header, kind its type and length (and the      *)
(* value a SetChunkSize carries), timestamp its full timestamp.  A byte of the *)
(* wire is <<field, n, i>>: the i-th byte of that field of the n-th message.   *)
EXTENDS Integers, Sequences, SequencesExt

CONSTANTS ChunkStreams,       \* the <<csid, size>> clients use
          Kinds,              \* the kinds of their messages, none of them empty
          Times,              \* the timestamps of their messages
          MaxMessages,        \* bound: messages of a stream
          InitialChunkSize,   \* RTMP_DEFAULT_CHUNK_SIZE
          RTMP_EXTEND_TIMESTAMP,
          SERIAL_BITS         \* timestamps have SERIAL_BITS + 1 bits on the wire

(* The stream ids that fit into a basic header of the size.                    *)
Fits(csid, size) ==
  \/ size = 1 /\ 2 <= csid /\ csid < 64
  \/ size = 2 /\ 64 <= csid /\ csid < 64 + 256
  \/ size = 3 /\ 64 <= csid /\ csid < 64 + 65536

ASSUME WireAssumption ==
  /\ ChunkStreams \subseteq Nat \X (1..3) /\ \A c \in ChunkStreams : Fits(c[1], c[2])
  /\ \A k \in Kinds : k.length \in Nat \ {0} /\ k.value \in Nat
  /\ Times \subseteq Nat /\ MaxMessages \in Nat
  /\ InitialChunkSize \in Nat \ {0} /\ RTMP_EXTEND_TIMESTAMP \in Nat \ {0}
  /\ SERIAL_BITS \in Nat \ {0}

WireSpan == 2^(SERIAL_BITS + 1)

-----------------------------------------------------------------------------
(* Sizes.  A field of several bytes has two here, enough to be cut inside.     *)

MessageHeaderSize == [T0 |-> 2, T1 |-> 2, T2 |-> 2, T3 |-> 0]
ExtendedSize == 2

(* The bytes of a basic header; the first one holds the type and six bits.     *)
BasicHeader(fmt, csid, size) ==
  IF size = 1 THEN << <<fmt, csid % 64>> >>
  ELSE IF size = 2 THEN << <<fmt, 0>>, (csid - 64) % 256 >>
  ELSE << <<fmt, 1>>, (csid - 64) % 256, ((csid - 64) \div 256) % 256 >>

(* The stream id and the size the parser reads back.                           *)
GetBasicHeaderSize(first) ==
  IF first[2] = 0 THEN 2 ELSE IF first[2] = 1 THEN 3 ELSE 1

StreamId(bytes) ==
  IF Len(bytes) = 1 THEN bytes[1][2]
  ELSE bytes[2] + 64 + (IF Len(bytes) = 2 THEN 0 ELSE bytes[3] * 256)

-----------------------------------------------------------------------------
(* What the stream s says of its message n.                                    *)

(* The message before n on the same chunk stream, 0 if there is none.          *)
Previous(s, n) ==
  LET before == {m \in 1..n-1 : s[m].csid = s[n].csid}
  IN  IF before = {} THEN 0 ELSE Max(before)

Delta(s, n) == IF s[n].fmt = "T0" THEN 0 ELSE s[n].timestamp - s[Previous(s, n)].timestamp

(* The timestamp field: absolute in type 0, the delta in the others.           *)
Field(s, n) == IF s[n].fmt = "T0" THEN s[n].timestamp % WireSpan ELSE Delta(s, n)

(* A type 3 header has an extended timestamp if the one it repeats has.        *)
Repeated(s, n) == Max({m \in 1..n : s[m].csid = s[n].csid /\ s[m].fmt # "T3"})
IsExtended(s, n) == Field(s, Repeated(s, n)) >= RTMP_EXTEND_TIMESTAMP

ChunkSize(s, n) ==
  LET set == {m \in 1..n-1 : s[m].kind.type = "set_chunk_size" /\ s[m].kind.value > 0}
  IN  IF set = {} THEN InitialChunkSize ELSE s[Max(set)].kind.value

-----------------------------------------------------------------------------
(* What clients may send: compressed headers only of what they can express.    *)
Legal(s, n) ==
  LET p == Previous(s, n)
  IN  \/ s[n].fmt = "T0"
      \/ /\ p # 0 /\ s[n].timestamp >= s[p].timestamp
         /\ s[n].fmt \in {"T2", "T3"} => s[n].kind = s[p].kind
         /\ s[n].fmt = "T3" => Delta(s, n) = Delta(s, p)

ClientMessages ==
  {[fmt |-> f, csid |-> c[1], size |-> c[2], kind |-> k, timestamp |-> t] :
     f \in {"T0", "T1", "T2", "T3"}, c \in ChunkStreams, k \in Kinds, t \in Times}

Streams ==
  {s \in [1..MaxMessages -> ClientMessages] : \A n \in 1..MaxMessages : Legal(s, n)}

(* The chunks of message n: after every full chunk of payload comes a type 3   *)
(* header, with the extended timestamp repeated.                               *)
Bytes(field, n, size) == [i \in 1..size |-> <<field, n, i>>]

Body(s, n) ==
  LET chunk == ChunkSize(s, n)
      header == s[n].size + IF IsExtended(s, n) THEN ExtendedSize ELSE 0
      length == s[n].kind.length
      middle == IF length = 0 THEN 0 ELSE (length - 1) \div chunk
      At(q, r) == IF r < chunk THEN <<"payload", n, q * chunk + r + 1>>
                  ELSE IF r < chunk + s[n].size THEN <<"type3", n, r - chunk + 1>>
                  ELSE <<"extended", n, r - chunk - s[n].size + 1>>
  IN  [i \in 1..length + middle * header |-> At((i - 1) \div (chunk + header), (i - 1) % (chunk + header))]

Chunks(s, n) ==
  Bytes("basic", n, s[n].size) \o Bytes("message", n, MessageHeaderSize[s[n].fmt])
    \o Bytes("extended", n, IF IsExtended(s, n) THEN ExtendedSize ELSE 0) \o Body(s, n)

Wire(s) == FlattenSeq([n \in 1..Len(s) |-> Chunks(s, n)])

(* The message a client means by message n.                                    *)
Meant(s, n) == [csid |-> s[n].csid, kind |-> s[n].kind, timestamp |-> s[n].timestamp,
                payload |-> Bytes("payload", n, s[n].kind.length)]
=============================================================================
