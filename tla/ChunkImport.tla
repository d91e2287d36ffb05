----------------------------- MODULE ChunkImport -----------------------------
(* RtmpImportChunk and RtmpChunkParser: how the messages of a connection are    *)
(* cut out of blocks that end anywhere.                                        *)
(*                                                                             *)
(* ReceiveChunkPacket is called with everything that has not been parsed; it   *)
(* imports header after header and message after message until it needs more   *)
(* data, and the bytes it has used are cut off.  Inside a header the parser    *)
(* keeps its state between two calls.  When an import or a handler fails, the  *)
(* call returns -1 and nothing is cut off, but the parser and _chunk_map keep  *)
(* the state they have reached.                                                *)
EXTENDS ChunkWire

CONSTANTS BlockSizes,            \* bound: bytes a block may bring
          RTMP_MAX_PACKET_SIZE,
          UINT_MAX               \* 2^32 - 1, what (uint32_t)0 - 1 is

ASSUME ImportAssumption ==
  BlockSizes \subseteq Nat \ {0} /\ RTMP_MAX_PACKET_SIZE \in Nat /\ UINT_MAX \in Nat

VARIABLES
  stream,         \* what the client means to send, fixed
  wire,           \* its bytes, fixed
  arrived,        \* how many of them have come in
  cut,            \* how many have been cut off _remained_data
  at,             \* how many the running call has used, from the first on
  receiving,      \* whether ReceiveChunkPacket is running
  _parse_status,  \* of RtmpChunkParser
  _current_chunk_header,
  _chunk_map,     \* the last header of each chunk stream, NoHeader before
  _chunk_size,
  messages,       \* history: what was handed to the handlers
  refused,        \* history: whether a call has returned -1
  misread         \* the parser takes something for a header that is none

wireVars == <<stream, wire>>
callVars == <<arrived, cut, at, receiving>>
parserVars == <<_parse_status, _current_chunk_header>>
importVars == <<_chunk_map, _chunk_size, messages>>
vars == <<wireVars, callVars, parserVars, importVars, refused, misread>>

-----------------------------------------------------------------------------
StreamIds == {c[1] : c \in ChunkStreams}

(* of is the message the header belongs to.                                    *)
NoHeader == [fmt |-> "T0", csid |-> 0, size |-> 0, of |-> 0, is_extended |-> FALSE, time |-> 0,
             kind |-> [type |-> "none", length |-> 0, value |-> 0],
             timestamp |-> 0, timestamp_delta |-> 0, expected_payload_size |-> 0]

Status == {"BasicHeader", "MessageHeader", "ExtendedTimestamp", "Completed"}

Init ==
  /\ stream \in Streams
  /\ wire = Wire(stream)
  /\ arrived = 0 /\ cut = 0 /\ at = 0
  /\ receiving = FALSE
  /\ _parse_status = "BasicHeader"
  /\ _current_chunk_header = NoHeader
  /\ _chunk_map = [c \in StreamIds |-> NoHeader]
  /\ _chunk_size = InitialChunkSize
  /\ messages = <<>>
  /\ refused = FALSE
  /\ misread = FALSE

-----------------------------------------------------------------------------
(* The bytes that are left.                                                    *)

Remained == arrived - at
IsRemained(size) == Remained >= size

(* The next bytes are the first ones of this field of message n.               *)
Reads(field, n, size) == \A i \in 1..size : wire[at + i] = <<field, n, i>>

(* The parser reads a header: it is in the given state, a byte is left.        *)
Parsing(status) == receiving /\ ~misread /\ _parse_status = status /\ Remained > 0

Use(size) == at' = at + size /\ UNCHANGED <<arrived, cut, receiving, refused, misread>>

(* The call returns -1.                                                        *)
Refuse ==
  /\ receiving' = FALSE
  /\ at' = cut
  /\ refused' = TRUE
  /\ UNCHANGED <<arrived, cut, misread>>

AppendBlock ==
  /\ ~receiving /\ ~misread /\ arrived < Len(wire)
  /\ \E size \in BlockSizes :
       arrived' = IF arrived + size < Len(wire) THEN arrived + size ELSE Len(wire)
  /\ receiving' = TRUE
  /\ UNCHANGED <<wireVars, cut, at, parserVars, importVars, refused, misread>>

-----------------------------------------------------------------------------
(* RtmpChunkParser.                                                            *)

ParseBasicHeader ==
  /\ Parsing("BasicHeader")
  /\ LET n == wire[at + 1][2]
         bytes == BasicHeader(stream[n].fmt, stream[n].csid, stream[n].size)
         size == GetBasicHeaderSize(bytes[1])
     IN  /\ Reads("basic", n, 1) /\ IsRemained(size)
         /\ _current_chunk_header' = [NoHeader EXCEPT !.fmt = bytes[1][1], !.csid = StreamId(bytes),
                                                      !.size = size, !.of = n]
         /\ Use(size)
  /\ _parse_status' = "MessageHeader"
  /\ UNCHANGED <<wireVars, importVars>>

(* The three bytes of the timestamp say whether it is extended.                *)
ParseMessageHeader ==
  /\ Parsing("MessageHeader")
  /\ LET h == _current_chunk_header
         size == MessageHeaderSize[h.fmt]
         short == IF IsExtended(stream, h.of) THEN RTMP_EXTEND_TIMESTAMP ELSE Field(stream, h.of)
     IN  /\ IsRemained(size) /\ Reads("message", h.of, size)
         /\ _current_chunk_header' =
              [h EXCEPT !.time = IF h.fmt = "T3" THEN @ ELSE short,
                        !.kind = IF h.fmt \in {"T0", "T1"} THEN stream[h.of].kind ELSE @]
         /\ Use(size)
  /\ _parse_status' = "ExtendedTimestamp"
  /\ UNCHANGED <<wireVars, importVars>>

(* Mutant: every header is asked for its own timestamp.                        *)
TargetIsExtendedAlone(h) == h.time = RTMP_EXTEND_TIMESTAMP

(* A type 3 header is extended if the last one of its chunk stream was.        *)
TargetIsExtended(h) ==
  IF h.fmt = "T3" THEN _chunk_map[h.csid].is_extended ELSE h.time = RTMP_EXTEND_TIMESTAMP

WithExtendedTimestamp(h) ==
  IF TargetIsExtended(h) THEN [h EXCEPT !.is_extended = TRUE, !.time = Field(stream, h.of)] ELSE h

-----------------------------------------------------------------------------
(* RtmpImportChunk.                                                            *)

(* Absolute timestamps are taken as they are while they are near the last one, *)
(* and otherwise put behind the next multiple of 2^SERIAL_BITS.                *)
CalculateRolledTimestamp(last, parsed) ==
  LET delta == IF last > parsed THEN last - parsed ELSE parsed - last
      span == 2^SERIAL_BITS
  IN  IF delta <= 2^(SERIAL_BITS - 1) - 1 THEN parsed
      ELSE last + span - (last % span) + parsed

(* Mutant: type 3 repeats the timestamp without the delta.                     *)
CompleteWithoutDelta(h, last) ==
  CASE h.fmt = "T0" -> [h EXCEPT !.timestamp = h.time]
    [] h.fmt = "T1" -> [h EXCEPT !.timestamp = last.timestamp + h.time]
    [] h.fmt = "T2" -> [h EXCEPT !.timestamp = last.timestamp + h.time, !.kind = last.kind]
    [] h.fmt = "T3" -> [h EXCEPT !.timestamp = last.timestamp, !.kind = last.kind]

(* The completed header: what a compressed one does not say is the last one's. *)
Complete(h, last) ==
  LET delta == IF h.fmt = "T3" THEN last.timestamp_delta ELSE h.time
  IN  IF h.fmt = "T0"
      THEN [h EXCEPT !.timestamp_delta = 0,
                     !.timestamp = IF last = NoHeader THEN h.time
                                   ELSE CalculateRolledTimestamp(last.timestamp, h.time)]
      ELSE [h EXCEPT !.timestamp_delta = delta, !.timestamp = last.timestamp + delta,
                     !.kind = IF h.fmt = "T1" THEN @ ELSE last.kind]

HeaderSize(h) == h.size + IF h.is_extended THEN ExtendedSize ELSE 0

(* Mutant: a header is expected after the last chunk too when it is full.      *)
Type3CountEveryChunk(h) == h.kind.length \div _chunk_size

Type3Count(h) == (IF h.kind.length = 0 THEN UINT_MAX ELSE h.kind.length - 1) \div _chunk_size

CalculateForType3Header(h) ==
  [h EXCEPT !.expected_payload_size = h.kind.length + Type3Count(h) * HeaderSize(h)]

(* The header the parser has completed is looked at with the last one of its   *)
(* chunk stream, and takes its place unless it is refused.                     *)
ParseExtendedTimestamp ==
  /\ Parsing("ExtendedTimestamp")
  /\ LET parsed == WithExtendedTimestamp(_current_chunk_header)
         size == IF parsed.is_extended THEN ExtendedSize ELSE 0
         last == _chunk_map[parsed.csid]
         chunk_header == CalculateForType3Header(Complete(parsed, last))
     IN  /\ IsRemained(size) /\ Reads("extended", parsed.of, size)
         /\ _current_chunk_header' = chunk_header
         /\ IF \/ last = NoHeader /\ parsed.fmt # "T0"
               \/ chunk_header.kind.length > RTMP_MAX_PACKET_SIZE
            THEN Refuse /\ UNCHANGED _chunk_map
            ELSE Use(size) /\ _chunk_map' = [_chunk_map EXCEPT ![parsed.csid] = chunk_header]
  /\ _parse_status' = "Completed"
  /\ UNCHANGED <<wireVars, _chunk_size, messages>>

-----------------------------------------------------------------------------
(* The payload, once all of it has come.                                       *)

(* Mutant: the two-byte form holds the stream id itself.                       *)
ExpectedType3HeaderRaw(h) ==
  IF h.size = 1 THEN << <<"T3", h.csid % 64>> >> ELSE << <<"T3", 0>>, h.csid % 256 >>

ExpectedType3Header(h) ==
  IF h.size = 1 THEN << <<"T3", h.csid % 64>> >>
  ELSE IF h.size = 2 THEN << <<"T3", 0>>, (h.csid - 64) % 256 >>
  ELSE << <<"T3", 1>>, (h.csid - 64) % 256, ((h.csid - 64) \div 65536) % 256 >>

(* The i-th byte of a header in the middle of message n.                       *)
Type3Byte(u) == BasicHeader("T3", stream[u[2]].csid, stream[u[2]].size)[u[3]]

(* After every chunk but the last comes the header that is expected.           *)
Type3HeadersMatch(h) ==
  \A j \in 1..Type3Count(h) : \A i \in 1..h.size :
    LET u == wire[at + j * _chunk_size + (j - 1) * HeaderSize(h) + i]
    IN  u[1] = "type3" /\ Type3Byte(u) = ExpectedType3Header(h)[i]

Payload(h) == [k \in 1..h.kind.length |-> wire[at + k + ((k - 1) \div _chunk_size) * HeaderSize(h)]]

(* ReceiveSetChunkSize refuses 0; ReceiveVideoMessage and ReceiveAudioMessage  *)
(* refuse a message that is too short.                                         *)
HandlerFails(kind) == kind.type = "short" \/ (kind.type = "set_chunk_size" /\ kind.value = 0)

(* What is to be read is the payload the last header announced, and all of it  *)
(* is there.                                                                   *)
LastHeader == _chunk_map[_current_chunk_header.csid]

PayloadIsThere ==
  /\ Parsing("Completed") /\ LastHeader # NoHeader
  /\ Reads("payload", LastHeader.of, 1)
  /\ IsRemained(LastHeader.expected_payload_size)

FinalizeMessage ==
  /\ PayloadIsThere /\ Type3HeadersMatch(LastHeader)
  /\ messages' = Append(messages, [csid |-> LastHeader.csid, kind |-> LastHeader.kind,
                                   timestamp |-> LastHeader.timestamp, payload |-> Payload(LastHeader)])
  /\ IF HandlerFails(LastHeader.kind)
     THEN Refuse /\ UNCHANGED _chunk_size
     ELSE /\ Use(LastHeader.expected_payload_size)
          /\ _chunk_size' = IF LastHeader.kind.type = "set_chunk_size" THEN LastHeader.kind.value ELSE _chunk_size
  /\ _parse_status' = "BasicHeader"
  /\ _current_chunk_header' = NoHeader
  /\ UNCHANGED <<wireVars, _chunk_map>>

(* The parser stays completed, so that the next call tries the payload again.  *)
FinalizeFails ==
  /\ \/ PayloadIsThere /\ ~Type3HeadersMatch(LastHeader)
     \/ Parsing("Completed") /\ LastHeader = NoHeader
  /\ Refuse
  /\ UNCHANGED <<wireVars, parserVars, importVars>>

-----------------------------------------------------------------------------
(* ReceiveChunkPacket needs more data: what has been used is cut off.          *)
NeedMoreData ==
  \/ Remained = 0
  \/ /\ _parse_status = "BasicHeader" /\ Remained > 0 /\ Reads("basic", wire[at + 1][2], 1)
     /\ ~IsRemained(stream[wire[at + 1][2]].size)
  \/ /\ _parse_status = "MessageHeader"
     /\ ~IsRemained(MessageHeaderSize[_current_chunk_header.fmt])
  \/ /\ _parse_status = "ExtendedTimestamp" /\ TargetIsExtended(_current_chunk_header)
     /\ ~IsRemained(ExtendedSize)
  \/ /\ _parse_status = "Completed" /\ LastHeader # NoHeader
     /\ ~IsRemained(LastHeader.expected_payload_size)

CallReturns ==
  /\ receiving /\ ~misread /\ NeedMoreData
  /\ cut' = at
  /\ receiving' = FALSE
  /\ UNCHANGED <<wireVars, arrived, at, parserVars, importVars, refused, misread>>

(* The next byte is not what the parser takes it for; what it makes of the     *)
(* rest is not modelled.                                                       *)
Misread ==
  /\ receiving /\ ~misread /\ ~NeedMoreData
  /\ \/ _parse_status = "BasicHeader" /\ ~Reads("basic", wire[at + 1][2], 1)
     \/ /\ _parse_status = "MessageHeader"
        /\ ~Reads("message", _current_chunk_header.of, MessageHeaderSize[_current_chunk_header.fmt])
     \/ /\ _parse_status = "ExtendedTimestamp" /\ TargetIsExtended(_current_chunk_header)
        /\ ~Reads("extended", _current_chunk_header.of, ExtendedSize)
     \/ /\ _parse_status = "Completed" /\ LastHeader # NoHeader
        /\ ~Reads("payload", LastHeader.of, 1)
  /\ misread' = TRUE
  /\ UNCHANGED <<wireVars, callVars, parserVars, importVars, refused>>

(* Everything the client sends has come, or the stream makes no sense.         *)
Finished == (misread \/ (~receiving /\ arrived = Len(wire))) /\ UNCHANGED vars

Next ==
  \/ AppendBlock
  \/ ParseBasicHeader \/ ParseMessageHeader \/ ParseExtendedTimestamp
  \/ FinalizeMessage \/ FinalizeFails
  \/ CallReturns \/ Misread
  \/ Finished

Spec == Init /\ [][Next]_vars

-----------------------------------------------------------------------------
(* What must hold.                                                             *)

(* However the blocks are cut, and however the headers are compressed, the     *)
(* handlers get the messages the client means, in order, until one is refused: *)
(* chunk stream, type, length, timestamp and every byte of the payload.        *)
HandlersGetTheStream ==
  ~refused => \A k \in 1..Len(messages) : k <= Len(stream) /\ messages[k] = Meant(stream, k)

(* The parser loses its place in the stream only after a refused message.      *)
KeepsItsPlace == misread => refused

(* Between two calls no message that has come in completely is waiting.        *)
NothingCompleteWaits ==
  ~refused /\ ~receiving =>
    \A i \in 1..arrived :
      LET u == wire[i]
      IN  u[1] = "payload" /\ u[3] = stream[u[2]].kind.length => u[2] <= Len(messages)

(* Only what the server may refuse is refused: a stream without messages that  *)
(* are too long or too short and without a zero chunk size is not.             *)
Refusable(kind) == HandlerFails(kind) \/ kind.length > RTMP_MAX_PACKET_SIZE
OnlyRefusableIsRefused == refused => \E n \in 1..Len(stream) : Refusable(stream[n].kind)

(* "In the middle, the chunk stream id of the type 3 message is the same as    *)
(* that of type 0": the header that is expected after a full chunk is the one  *)
(* the chunk stream has.                                                       *)
MiddleHeaderIsTheSame ==
  _parse_status = "Completed" /\ LastHeader # NoHeader =>
    ExpectedType3Header(LastHeader) = BasicHeader("T3", LastHeader.csid, LastHeader.size)

(* "An application assumes that all adjacent timestamps are within 2^31 - 1    *)
(* milliseconds of each other, so 10000 comes after 4000000000": messages of a *)
(* chunk stream that are so near stay so near.                                 *)
AdjacentTimestampsStayNear ==
  ~refused =>
    \A j, k \in 1..Len(messages) :
      /\ Previous(stream, k) = j
      /\ stream[k].timestamp - stream[j].timestamp \in 0..2^SERIAL_BITS - 1
      => messages[k].timestamp - messages[j].timestamp \in 0..2^SERIAL_BITS - 1
=============================================================================
