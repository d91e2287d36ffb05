# MediaEngine in TLA+

A verification project for MediaEngine: the media library in `common/src` and
the program built on it, `application/rtmp_proxy`, which receives RTMP streams
and forwards each of them to several RTMP urls. Every definition is written
from the code; `PROJECT.json` names, for each, the lines it stands for.
Paths below are relative to the repository, `rtmp_stream.cpp` and the like to
`common/src`.

    tlc -workers 2 -config RtmpIngest.cfg MCRtmpIngest      # one of the runs
    tlapm FanOut_proofs.tla                                 # one of the proofs

## 1. The system

### Threads and how they interact

| thread | runs | waits for |
|---|---|---|
| main | `main.cc`: parses the configuration, starts the proxy, polls `g_terminated` | - |
| reactor | the uv loop in `SnyRTMPServer::onThreadProc`; connect, data, close and timer callbacks of every connection | sockets; on close the parse thread and the publishers (joins) |
| parse thread, one per connection | `RtmpStream::onThreadProc`: handshake, chunks, messages, callbacks into the proxy | `RtmpStream::cv_`; the proxy's `mutex_` |
| publisher, one per url of a connection | `SnyMultiRTMPPublish::onThreadProc`: opens a muxer, writes its queue | `cv_[id]`; the remote server |

A block of a socket goes: reactor -> `incomming_data_` -> parse thread ->
`_remained_data` -> handshake or chunk importer -> message handler -> (cache) ->
`onTrack`/`onSample` -> `SnyRTMPServer` -> `SnyRTMPProxy` -> the connection's
`SnyMultiRTMPPublish` -> one queue per publisher -> muxer.

### Components

| component | state | operations | what makes it correct |
|---|---|---|---|
| `RtmpStream`, ingest (`source/rtmp/rtmp_stream.cpp`) | `incomming_data_`, `mutex_`, `cv_`, `_remained_data`, `_handshake_state`, thread | `OnDataReceived`, `onThreadProc`, `stop` | blocks are parsed in order, none is lost, nothing complete waits, the thread is gone before the object |
| `RtmpStream`, publishing | `_stream_name`, `*_stream_coming`, cache and its counters, `published_`, `_tracks`, `track_info_sent_` | message handlers, `PublishStream`, `SendFrame` | tracks first, then samples, in order, none lost; the cache is the stream |
| `RtmpChunkParser`, `RtmpImportChunk` | parser state, current header, `_chunk_map`, `_chunk_size` | `Import`, `Parse*`, `ProcessChunkHeader`, `FinalizeMessage` | the messages meant, wherever the blocks are cut |
| `RtmpExportChunk`, `RtmpMuxUtil` | last header of each chunk stream | `ExportStreamData` | what it writes, the importer reads |
| `SnyRTMPServer` | `rtmp_streams_` | connect, message, close, send | a stream exists exactly while its connection does |
| `SnyRTMPProxy` | `sny_multi_rtmp_publish_`, `mutex_` | connect, close, name, track, sample | a callback finds its forwarding side; nobody is blocked by another connection |
| `SnyMultiRTMPPublish` | queues, `cv_`, `mutex_cv_`, threads | `onTrack`, `onSample`, `onThreadProc`, `stop` | every url gets the stream in order |
| `Threads<T>`, `SThread` (`core/snythreads.*`) | map of threads, stop flags | start, stop, wait | a joined thread has ended |
| `SnyRTMPProxyConf` | names and urls | `parse` | first match wins, empty lists are dropped |
| muxers (`media/mux`, `media/rtmp_writer.cpp`) | format context, tracks, continuity counters | open, write, close | header before samples, trailer once |
| demuxers (`media/snydemuxer*.cc`, `media/demux`) | readers, end of file | read, seek, select | samples of all tracks by time |
| AMF (`media/rtmp/amf_document.cpp`) | values | encode, decode | decode inverts encode |
| handshake (`media/rtmp/rtmp_handshake.cpp`) | - | S1/S2 | digests |
| bit streams (`media/bitstream`, `media/flv`) | - | AVCC/Annex-B, LATM/ADTS, parameter sets | conversions invert each other |
| `ov::Data`, byte and bit streams, `ov::Queue`, `Event`, `Semaphore` (`core`) | buffers with offsets; queues | copy on write; blocking dequeue | a copy never changes with its original; no lost wake-up |
| strings, urls, logging, md5 | - | pure | - |

### What is hard here

There are no tests in the repository. The behaviours a test would hardly reach
are listed, each at its line, under "hazards" in `PROJECT.json`. The groups:

* **interleaving**: waits without a predicate (`rtmp_stream.cpp:1435`,
  `snymultirtmppublish.cc:49`), a map of condition variables that threads extend
  while others iterate over it, joins on the reactor and under a lock;
* **order**: blocks cut anywhere, messages cached and replayed, onTrack before onSample;
* **partial failure**: a refused message leaves the parser and the buffer in
  states that do not fit together; a muxer that does not open;
* **boundaries**: timestamps that roll over, extended timestamps, chunk sizes,
  the counters of the cache, the last bytes of a transport packet, the byte a bit
  stream has begun;
* **state that outlives its use**: maps, filters, headers, counters and parameter
  sets that a muxer or demuxer keeps when it is opened on something else, moved to
  another place or given the same sample again;
* **sharing**: vectors, blocks and buffers that several objects are on, each with a
  place of its own.

## 2. The modules

| module | models | checked by | proved in |
|---|---|---|---|
| `InOrderFanOut` | the promise: what is offered is delivered to each of n receivers in order, each at its own pace | refined by the next two | |
| `RtmpIngest` (`MCRtmpIngest`) | one `RtmpStream` between reactor and parse thread | `RtmpIngest`, `RtmpIngest_reactor` | `FanOut_proofs` |
| `MultiPublish` | one `SnyMultiRTMPPublish` | `MultiPublish`, `MultiPublish_forwarded` | `FanOut_proofs` |
| `RtmpProxy` (`MCRtmpProxy`) | all connections, the reactor, the locks and joins | `RtmpProxy` | `RtmpProxy_proofs` |
| `PublishGate` | from messages to samples | `PublishGate`, `PublishGate_audio` | `PublishGate_proofs` |
| `ChunkWire`, `ChunkImport` (`MCChunkImport`) | from bytes to messages | `ChunkImport`, `ChunkImport_csid`, `ChunkImport_rollover` | `ChunkImport_proofs` |
| `AmfDocument`, `AmfCodec`, `RtmpCommands` (`MCRtmpCommands`) | AMF values; their AMF0 codec; the commands, their answers, the metadata and the acknowledgement | `RtmpCommands` | `RtmpCommands_proofs` |
| `SnyDemuxer` | the MP4 demuxer with its readers | `Library` | `Library_proofs` |
| `FileDemuxer` | the demuxer over FFmpeg, its filters and ADTS headers | `Library` | `Library_proofs` |
| `TsMuxer` | the MPEG-TS muxer with its conversions, tables and packets | `Library` | `Library_proofs` |
| `FfmpegMuxers` | `SnyMuxerImplFFMpeg` and `RtmpWriter` | `Library` | `Library_proofs` |
| `DataValues`, `OvData` | what `ov::Data` promises; how it shares vectors | `Library` | `Library_proofs` |
| `SnyDataBuffer` | counted blocks and the handles on them | `Library` | `Library_proofs` |
| `DataStream` | the byte streams: memory, queue, file, backwards | `Library` | `Streams_proofs` |
| `GfBitStream` | the bit streams in their five modes | `Library` | `Streams_proofs` |
| `ByteStream` | streams over one shared `ov::Data` | `Library` | `Streams_proofs` |
| `RunLemmas` | facts about sequences of consecutive numbers, least and greatest numbers, sequences joined; induction over numbers for a set | | itself |

The last group is the library the application is linked with. Its components do
not call each other while the proxy runs, so `MCLibrary` puts them beside each other:
`subject` chooses the one that is used, and the others stay in their first state.

`RtmpProxy` composes the components: it keeps of `RtmpIngest` and `MultiPublish`
where their threads are and whether there is work, and adds the registry and
`mutex_`. `ChunkImport` refines what `RtmpIngest` calls parsing a unit, and
`PublishGate` and `RtmpCommands` start with the whole messages `ChunkImport` hands
over and look at them from two sides: the one at media, cache and tracks, the other
at what the commands and the metadata say.

### RtmpIngest

Blocks are numbers, in the order of the socket. A protocol unit (C0C1, C2, a
message) is complete when the block it ends in has been appended; `unit_end`,
chosen at the start, ranges over every way of cutting the units. One action is
one critical section or one piece of code between two of them:
`OnDataReceived` (the push under `mutex_`) and `NotifyData` are two steps, and
`PopBlock`, `EnterWait`, the wait itself, `AppendBlock` and the parse calls are
those of the thread. `EnterWait` is a step of its own because `mutex_` is free
between the test and `cv_.wait`. A notification wakes the thread only if it
waits. `PeerClose`, `IdleTimeout`, `CloseStopAll`, `CloseNotify` and `CloseJoin`
are `~RtmpStream`. `waitAll` takes the thread out of the map first, which makes
`isStop` true for it; `CheckStop` says so. The client may close and may start
with a wrong version; streams of which a later message is refused are
the business of `PublishGate` and `ChunkImport`.

### MultiPublish

Samples are numbers. `OnTrack` looks the stream up and starts the publishers,
whose muxer opens or does not (`CreateMuxer`). `OnSample` pushes to every queue
under `mutex_`; the notifications that follow visit `cv_` one entry at a time
(`NotifyNext`), while publishers add their entries when they first wait. The
insertion itself is atomic in the model. The result of `writeSample` is ignored
by the code, so `wrote` counts the samples passed to it.

### RtmpProxy

One action per callback and per lock section. `mutex_` is not a variable: it is held
exactly while the reactor is in the close handler's joins or a callback in
its locked part, which `MutexFree` states. One publisher stands for the
publishers of a connection, and each name is used once: a connection that comes
again under an old name is not in the model.

### PublishGate

A message is what the handlers tell apart: a command that names the stream or not;
video and audio configuration, frame, end of sequence, other codec, too short.
`Deliver` is a handler's whole effect after the cache, with the extradata of
`ConvertToSnyMediaSample` and `SendFrame`; `Replay` is the same for the cached
messages, one per step. `extradata` says for each kind which message its track's
configuration is of, so that one configuration in the place of another is seen. A handler that refuses ends the call: nothing is cut off
and the next block starts again with the first message that is still there.

### ChunkWire and ChunkImport

`ChunkWire` writes a stream of messages as bytes, with every choice of header
compression the format allows. A byte is an abstract value: which field of which
message it is, and which byte of it. A field of several bytes has two, which
is enough to be cut in the middle. The wire has SERIAL_BITS + 1 bits of
timestamp. As in the code, type 3 after type 0 repeats the time (delta 0). Clients
do not interleave chunk streams inside a message: the code refuses it
(`rtmp_import_chunk.cpp:307`).

`ChunkImport` is the call of `ReceiveChunkPacket` with all its loops: `at` is
what the call has used, `cut` what has been cut off, and the two are equal again
when a call returns `-1`. A parser state per step: `ParseBasicHeader`,
`ParseMessageHeader`, `ParseExtendedTimestamp` (with `ProcessChunkHeader`, as the
code goes from one to the other without returning), `FinalizeMessage` (with the
handler). When the next byte is not of the field the parser expects, `Misread`
stops the model: the code goes on with garbage, the model says only that it may
happen.

### AmfDocument, AmfCodec and RtmpCommands

A property of `AmfDocument` is a record whose one field names its type, a document a
sequence of them; the module has the values and how they are looked up. `AmfCodec` has their
encoding. Bytes are abstract: `<<v>>` for markers and lengths, `<<s, i>>` for
the i-th of a text, `<<"number", n, i>>` of a number. `Encode` and `Decode` are the
code's, with what they leave out: `Encode` writes nothing for an object without
pairs, `Decode` does not read a string of length 0 that comes last. The client
encodes by the AMF0 specification (`Amf0`, external).

The codec recurs over nested objects, which the prover cannot read, so it is a parameter of
`RtmpCommands`: `EncodeAmf` and `DecodeAmf` are the server's, `ClientAmf` the client's, and
`RtmpCommands.cfg` gives them the three operators of `AmfCodec`. So is `strtol` (external), the number a text begins with. What the dialogue needs of
them is `CodecAssumption`: what a client may send is decoded to what it said, but for an empty string
at the end (`Received`), and what the server answers is decoded to what it meant. TLC
evaluates it with the modelled codec for all that is said within the bounds.

`ReceiveAmfCommandMessage` decodes the payload, dispatches and answers in one action.
Message n of the client has chunk stream n + 2 and, if it is a command, transaction
id n, so that an answer on the wrong stream or with another's id is seen. What a call
has processed is counted in messages. `PublishGate` says which media message publishes;
here it is the first. Every client connects first and gives a URL: without one the
server dereferences a null `_url`. `StreamOf` is the third token of `Url::Parse` for the
three kinds of URLs: with an application, with a host only, with a query. A client of
the last two kinds is told `Start` though it can never be published, since its stream
has no name; `UsualClient` in the properties excludes it.

`MediaInfo` is `OnAmfMetaData`: every field is set anew by each metadata message, with the default
where the message gives none, a `maxBitrate` given as a text before the numbers. `_device_string` alone is kept when
a message names no device, and `encoder_type` is made from it: it is that of the device named last. A device
is one of the texts the code looks for in it. `TracksOf` is `SetTrackInfo`: the codecs are always H264 and AAC,
the bit rates come in thousands, the layout from the channels. The height and the
rate and size of audio samples are read like the width, the rate without a look at its type; they are left out.

### SnyDemuxer and FileDemuxer

`SnyDemuxer` keeps of a file its tracks as sequences of samples with their time, whether
they are sync samples, the description they refer to and their NAL units. `Open`,
`SelectTrack`, `Seek` and `ReadSample` are the public operations; a reader has its
position, its queue of one sample and the parameter sets it made last. `ReadSample` is
the whole loop over the readers and keeps the index as the code computes it:
it counts only the readers that are selected and not at their end, and is then used for
all readers (`snydemuxer.cc:147`). `played` is what has
been handed out since the last seek or selection.

`FileDemuxer` is `FileDemuxerBase` with its FFmpeg implementation: `setPath`, `open` with
each of its failures, `read`, `seek`, `close`, in any order and with several files. What
the object keeps by stream index (tracks, filters, ADTS settings) is its state; FFmpeg is
external. The times of a sample are left out: `demux_ffmpeg.cpp:248-253` takes pts and
duration from the dts of the packet, and nothing in the repository says otherwise.

### TsMuxer and FfmpegMuxers

Sizes are exact in `TsMuxer`: a packet says which bytes of its PES it carries, with which
adaptation field and counter, and whether it starts the PES. `WriteTsSample` converts the
sample in place, as the code does, then cuts it. The bytes of tables, clocks and
payload are abstract.

In `FfmpegMuxers` an `AVFormatContext` is the tracks its streams were made for, whether
its output is open and its header written, and the packets it took. The allocation of the
context, the output and the header may each be refused; an `open` of `SnyMuxerImplFFMpeg` that is refused for
an empty path or an unknown format leaves the context of the one before in its place (`OpenRefused`). Every call of `RtmpWriter` holds `_lock`
from its first line on, so one call is one action.

### OvData and the streams

`OvData` keeps for each object the vector it is on, the part of it and whether it refers to
memory of the caller. Every operation that changes bytes goes through `Store`, the
code's `Detach` followed by the change. `DataValues` is the abstract
specification: objects that share nothing. `call` names the last call and its arguments,
so that `DataValues` can say what its result has to be. Some calls the class does not
serve; `served` says which, and `lost` which objects have no value since: a copy of a part
that does not begin its vector (`data.cpp:42`), `Erase` with an offset (275),
`GetData` of a part of referenced memory, and an object inserted into itself while it alone uses its
vector.

`SnyDataBuffer` is handles on counted blocks, with `global_ref_count_`. Assigning a handle to
itself or making it a part of itself lets go of the block first and leaves the handle
empty; assigning a handle the bytes of its own block, when no other is on it, frees them before they are copied,
and any bytes may be what is copied (`AssignFrom`). `subData` compares a place with nothing
(`snydatabuffer.cc:160-169`), so handles that reach beyond their block, or begin before it, are in the model. What
such a handle shows is undefined; that its bytes are not read or written (append, clone, assign from, fill) is a
precondition of the callers, `InBlock`. A length below 0 is left out. Nothing under `src/` calls `subData`.
Memory nothing has been written to stands as zeroes.

`DataStream` has one stream at a time, of any of the kinds; `written` and `got` are the
values put in and taken out, whatever was done with the stream in between. It is modelled
as it is where readers and writers do not fit together: 64-bit byte strings are written and read in
different orders, `readInt24` does not extend the sign, the copy of a memory stream
starts with the host's byte order, a string read at the end succeeds, a negative skip is not
checked. `ComesBack` and the model's guards say which
values and calls `ValuesComeBack` is about. A position asked for in a file after a
short read goes back to its start (`datastream.cpp:954`), and the reversed stream reads
before its buffer (1364) and may start with an uninitialised `left_end_` (1071, 1124), for which
the model takes any place there is.

`GfBitStream` compares the stream with `tape`, what the calls should leave behind bit by
bit. `astray` marks the calls nobody can rely on: a rewind to the very first bit (`bitstream.cpp:679`)
or from beyond the end, and a peek at the byte after the last (756). A writer in a fixed buffer cannot be put at its end, which `gf_bs_seek` lets pass
(730) and `BS_SeekIntern` refuses (698); bytes
written into a file across its end at once leave the size it had (517).

In `ByteStream` several streams with places and saved places of their own are on one `ov::Data`.
A stream that may not write cannot be put at the end of the data (`byte_stream.cpp:89-98`), so a place
saved there is lost when it is popped (116-123).

## 3. The runs

Passing runs:

| run | bounds | what it shows |
|---|---|---|
| `RtmpIngest` | 6 blocks, 6 units, 3 of them awaited | `NoBlockLost`, `NothingLeftUnparsed`; `ParserGetsTheStream`: the queue implements `InOrderFanOut`; `WokenThreadDrains`: a notification that finds the thread asleep gets its block appended; `CloseCompletes`: stop() returns when it did not notify inside the window |
| `MultiPublish` | 2 publishers, 3 samples | the same for each url: `EachUrlGetsTheStream`, `WokenPublisherWrites`, `StopCompletes` |
| `RtmpProxy` | 2 connections, 1 configured | `CallbackFindsPublish`, `NoThreadOrphaned`: neither publishers nor a parse thread outlive the object they run in; `ReactorComesBack`, `CallbackReturns`: nobody is blocked for ever unless a stop notification was missed |
| `PublishGate` | 5 messages, blocks of up to 2, half a cache of 2 | `CacheHoldsTheStream`, `TracksBeforeSamples`, `ForwardedInOrder`, `NoFrameLostAfterTracks`; `ConfiguredByTheFirst`: each track has the first configuration of its kind, live or through the cache; `AnnouncedTracksAreFinal`: neither tracks nor their configurations change once announced; `CompleteStreamIsAnnounced` |
| `ChunkImport` | 3 messages, 2 chunk streams, 4 kinds, chunk size 2 or 3, blocks of 1 or 7 bytes | `HandlersGetTheStream`, `KeepsItsPlace`, `NothingCompleteWaits`, `OnlyRefusableIsRefused` |
| `RtmpCommands` | 5 messages out of 11 requests and 2 connects, blocks of up to 2, default window 5, another of 3 | `CallsAnswered`: every call has its `_result`, readable for the client, in order; `PublishTold`, `NamedByTheFirst`; `TracksMatchMetadata`: each field of each track is what the last metadata before the media says, and the encoder is the device named last; `AcknowledgedOnceInTime`: every message is counted once, and acknowledged within half of the window |
| `Library` | ten subjects, each with its own bounds, below | `MergedInOrder`, `KeySampleCarriesParameterSets` (SnyDemuxer); `FileSamplesInOrder` (FileDemuxer); `DemultiplexesToTheSamples`, `ConvertedOnce` (TsMuxer); `PacketsOnTheirStreams` (FfmpegMuxers); `ValueSemantics`: `OvData` implements `DataValues`; `BlocksAreCounted`, `OthersKeepTheirBytes` (SnyDataBuffer); `ValuesComeBack` (DataStream); `TapeIsKept` (GfBitStream); `SharedDataIsRead` (ByteStream) |

Type correctness is proved (`TypeCorrect` in each proof module of the proxy) and not run
again. Only `Library` allows a deadlock: a subject stops when its calls are used up.


Runs that find what the code does against what the repository says (each is a
finding in `PROJECT.json`, with the line and the quotation):

| run | property | what happens |
|---|---|---|
| `RtmpIngest_reactor` | `ReactorReturns` | stop() notifies between the test and the wait; the reactor joins a sleeping thread for ever |
| `MultiPublish_forwarded` | `SampleForwarded` | the notification of a sample is lost; the sample stays queued |
| `PublishGate_audio` | `AudioOnlyIsPublished` | audio is counted as video; an audio-only stream is never published |
| `ChunkImport_csid` | `MiddleHeaderIsTheSame` | chunk stream ids from 320 on: the middle header is compared with a wrong id |
| `ChunkImport_rollover` | `AdjacentTimestampsStayNear` | after a rollover each absolute timestamp jumps by 2^31 |

That the close handler joins the publishers of one connection under the `mutex_` that the callbacks
of all connections need (`snyrtmpproxy.cc:66`) is in the model and listed as a
hazard; the repository promises nothing it contradicts, so `RtmpProxy` checks that the
wait ends: `ReactorComesBack`, `CallbackReturns`.

Where the library does not do what a reader would expect, but no text of the repository
says that it does, the model follows the code and the property is stated for the other calls:

| code | what happens | stated by |
|---|---|---|
| `snydemuxer.cc:123, 147` | the index skips readers; `seek` leaves `eos_` set | `MergedInOrder` while every reader that offers nothing stands behind the others |
| `demux/demux_ffmpeg.cpp:167-188` | the ADTS settings of a closed file are kept | `FileSamplesInOrder`: ADTS headers of the first file only |
| `ffmpeg_helper.cpp:83` | filters are never freed | nothing (memory is not modelled) |
| `rtmp_writer.cpp:251` | `_track_map` outlives `SetPath` | `PacketsOnTheirStreams`: tracks added since |
| `mux/snymuxerImplffmpeg.cpp` | `close` writes a trailer although the header failed | nothing (no packet is involved) |
| `core/snydatabuffer.cc:100, 160` | a handle's own bytes are freed before they are copied; `subData` checks no bounds | `OthersKeepTheirBytes`: the other handles, while they are within their block |
| `core/data.cpp:42, 275` | see OvData above | `ValueSemantics`: such a call loses its own target's value and no other |

### Why the bounds are enough

Lost wake-ups need one block (sample) in the queue and one notification in the window; a
further block shows what the next notification repairs. Six units cut into six
blocks give units that span blocks, blocks that complete several units and
every alternation of the two. Two publishers make queues diverge. Two connections are
the least for one to disturb the other, and callbacks touch no third. Five messages
reach the cache's limit in both ways (both kinds, or HalfCache + 1 of one),
a replay, and a frame after it. Three messages on two chunk streams give every
sequence of header types on one stream, or two with one of another in between, and a change
of the chunk size before and after; blocks of one byte cut everywhere and blocks of seven
deliver several messages at once. SERIAL_BITS is small so that timestamps roll.
Five messages of a dialogue are a connect, two different metadata (with fields the other leaves out,
and the device named in one only), a name and media, or three commands that compete for the name; a window may change in the middle
of a block, and five messages exceed half of either window more than once.

In `Library` the files and samples do what the numbers of calls cannot: two tracks whose
samples interleave, meet at the same time and end one before the other, with a change of the description
on a sync sample and on another one; payloads one and two bytes short of a
packet, exactly a packet, and enough packets that the counters of four bits come round.
`MaxMoves` = 2 seeks or selections reach the two ways a reader's queue can be
stale. Seven calls of a muxer or demuxer are a whole life, and the beginning of
another: add, open, write, close, add, open, write. Two objects, three vectors and four
calls of `OvData` are enough to share, shrink, let go and write; each property was found
violated by a changed definition inside these bounds. Blocks of at most three bytes have parts within, at the
end and beyond it. Streams have five calls over two values,
which is a value, something between, and another one; bit streams five calls on a room of two bytes, so
that every end is reached with a byte begun.

### Fairness

Weak fairness of each thread's own step, and of the reactor inside a handler it
has begun: the scheduler runs a thread that can run. Nobody is obliged to send,
connect or close, and there are no fair wake-ups: a spurious one may happen, never must.
`IdleTimeout` is fair because uv-cpp closes an idle connection by its timer. That
`writeSample` returns is assumed (FFmpeg's socket fails at last); while it does not,
the publisher does not stop, as the hazard at `snymultirtmppublish.cc:46` says.
In `RtmpProxy` and `MultiPublish` a join is enabled only when the thread has exited.

## 4. What is proved

All theorems hold for every value of the constants, from the assumption each
module names (`IngestAssumption`, `PublishAssumption`, `ProxyAssumption`,
`GateAssumption`, `DataAssumption`, `WireAssumption`, `AvAssumption`, `DataBufferAssumption`,
`ByteStreamAssumption`, `StreamAssumption`, `BitAssumption`, `AvFilesAssumption`, `TsAssumption`, `DemuxAssumption`, `DialogueAssumption`), which say of what type things are
(`WireAssumption` also that basic headers fit their ids and that no message is empty, see 5;
`DemuxAssumption` also that decode times do not fall within a track, being sums of unsigned durations;
`DialogueAssumption` also that a client connects with a `connect`; `StreamAssumption` also that the length of a string fits
into one byte, the other three of its four being zero in the model, and that an integer of 24 bits is written from the four bytes of an `int`;
`BitAssumption` also that contents are whole bytes), and from `CodecAssumption`, see 3. Five theorems have a
hypothesis of their own, named and explained below: `NearTimes`, `ShortIds`, `PlainConfigs`, `FewPids`, `FarFromLimit`.

* `FanOut_proofs`, of the two components that implement `InOrderFanOut`. For `RtmpIngest`, `IInv` adds to the type invariant where the blocks are
  (`BlocksInOrder`: the queue is the run from the block after the one in hand to the last
  received), `InHand` (a block is in hand exactly between pop and append),
  `Lifetime` (the thread and `conn` agree) and the two parse facts. None of the
  checked invariants is inductive alone: `NoBlockLost` needs to know that
  the thread holds a block exactly in two places, and `NothingLeftUnparsed` that a parse call ends only when
  the next unit has not arrived. `DeliversInOrder` maps every step to a step or a stutter
  of `InOrderFanOut`. For `MultiPublish`, `PublishInv` is the same along `QueuesInOrder`, `SampleInHand`
  and `PublishersLive`, and `ForwardsInOrder` the refinement, for any number of publishers.
* `RtmpProxy_proofs`. `IInv` relates the reactor's place to the registries
  (`StreamsRegistered`, `HandlerInPlace`, `Accepted`,
  `NothingToParseBeforeRegistration`); with it a callback finds its entry
  because the entry is made before the first block and removed after the join.
* `PublishGate_proofs`. The stream may be of any length. `IInv` has
  the order of the samples (`ForwardedInOrder`), where in the stream the
  handlers are (`Place`), the cache (`Cached`) and what being published and
  announced imply, that no configuration is of a message still to come (`NoneAhead`) and that one that
  finds its track is used, or one before it (`NoLaterThanFirst`); with `OwnConfigs`, that it is of its own kind,
  this is `FirstConfigurationCounts`. `TracksStayFinal` needs of it that an announced track is configured, for only
  a track without a configuration takes one. `DeliverEffect` and `DeliverKeepsOrder` are the lemmas both the
  live and the replayed message use.
* `ChunkImport_proofs`. The stream may be any the client can send, the blocks cut anywhere. The first
  part says where each message is on the wire (`WireLayout`, `PlacesOf`: basic header, message header,
  extended timestamp, payload, one behind the other), the second what the last header of
  a chunk stream says. `IInv` then says of a parser that has refused nothing: it is at the place
  of message k that its state names, and has of k what stands before that place (`AtPlace`);
  `_chunk_map` has for each chunk stream the header of the last message on it (`MapKept`);
  `messages` are the first k - 1 (`Handled`); and between two calls the rest of message k has
  not arrived. None of the four checked invariants is inductive: that the parser keeps its place
  (`KeepsItsPlace`) needs the lengths it has from earlier headers, which need the map.
  `StreamHandled` assumes `NearTimes`, that the client's timestamps are below the wire's span
  and within half of it, and `RefusedRightlyOnly` assumes `ShortIds`, that ids from 320 on are not written
  in three bytes. Both are needed: the runs `ChunkImport_rollover` and `ChunkImport_csid` are what
  happens without them. `PlaceKept`, `NoCompleteMessageWaits` and `Invariance` need neither.
* `RtmpCommands_proofs`. Any client, any cut, any codec that fits. `IInv` is `Shape` (types),
  `Counted` (what was acknowledged and what is to be add up to what was cut off) and, until a call has
  failed, `Right(Handled)`: of the messages that have been handled, the results and statuses sent are
  theirs, one each and in order (`ResultsOk`, `StatusesOk`), name, URL and metadata are what they say
  (`NameOk`, `UrlOk`), `_media_info` has every field of the last metadata and `_device_string` the device named last (`SaidOk`),
  the tracks are what these were at the first media (`TracksOk`), and no more than
  half the window is unacknowledged (`InTime`). TLC checked `IInv` before it was proved. The checked
  properties speak of the moments between two calls only, and are not inductive: `PublishTold` needs
  to know of a usual client that the name is empty exactly while none was asked for, which needs the URL
  (`NameOk`, `UrlOk`); `TracksMatchMetadata` needs `SaidOk` at the moment the media comes; and in the middle of a call the
  messages handled are more than those cut off. The lemmas say what one more message changes (`PrefixSame`,
  `NameGrows`, `StatusKept`), what one more metadata message makes of both (`DescribedIs`), what one more answer does (`OneAdded`), and how the acknowledged sum grows (`SumGrows`).
* `Library_proofs`, one part for each of six components of the library.
  `FfmpegMuxers`: `AvInv` says that the index of an open muxer names, for each of its tracks, the
  stream made for it in the context there is now, and that the map of a writer is right for the
  tracks added since `SetPath`, though not for those it kept. `SnyDataBuffer`: `BufferInv` counts the handles of each block;
  `OneMoves` and `BlockChanges` say how the counts move when one handle or one block does, and
  the calls that let go, allocate and join are put together from them, also when a
  handle is assigned to itself. `BytesKept` (`OthersKeepTheirBytes`) follows from the counts: a block another handle is on
  is not freed (`OthersOnBlock`), so what is allocated is not that block, and it shows what it did (`ShowsTheSame`). `FileDemuxer`: `FileInv` says that the tables
  of an open object are those of the file that is open, that of the closed file only the ADTS headers are left, and
  that what was handed out is what is due before the next packet.
  `SamplesAreInOrder` assumes `PlainConfigs`: AAC extradata has an object type from 1 to 31,
  one to seven channels and a frequency index up to 11. Index 12, 7350 Hz, is
  found again as that of 8000 Hz (`aac_utils.cpp:32-47`), and eight channels are written as seven.
  `OvData`: `ImplementsValues`: `DataSpec => ValueSemantics` for any objects, vectors,
  lengths and numbers of calls. The invariant says that an object that is not lost is
  `Sound`: the bytes it names are there. `InBounds` follows, but is not inductive alone, since
  a part may be cut from a part. The heart is `OthersAreKept`: writing a vector that nobody but the
  target is on leaves what every other object shows, which is just what the test in
  `Detach` establishes. `StoreEffect`, `NewVectorEffect` and `ReferEffect` say what
  the three ways of changing an object do, and one lemma per operation says what the target shows then:
  a part of a part is a part (`PieceOfPiece`), an inserted value is where it was
  asked for (`WithInserts`), and so on. `InBounds` is `PartsStayInBounds`.
  `TsMuxer`: `TsInv` says of the open file that its PES are whole and numbered through, and that the
  next packet of every stream continues the last one on its PID (`Continues`): counters belong to the
  muxer and outlive a file, so this is what makes them consecutive in the next file too. It needs that no two
  streams share a PID (`OwnPids`). `WritePESIs` says what the loop of `WritePES` makes of a PES of any size, `FileGrows` that
  a good file stays good when its packets are put behind it. `PesComeWhole` assumes `FewPids`: each open
  gives new PIDs, audio from 257 and video from 513, so after 256 opens an audio track gets
  the PID of a video track. `SamplesAreConvertedOnce` does not need that: it rests on `MadeInv`, by which a sample of the caller is
  as it was given or as its first writing left it, and a conversion of the latter changes nothing.
  `SnyDemuxer`: `DemuxInv` has three parts. Every reader's queue is empty or holds one sample, the one it took from the file
  with the data that sample must have, and its cached parameter sets are those of the description it names (`AllReaders`); that
  holds until a queued sample is freed, after which nobody reads. Every sample handed out is a sample of its track with the right data (`OutsOk`).
  And while the readers keep step they stand right behind what they hold (`StandIn`), and what was handed out is the merge so far (`Merged`):
  each sample that is due lies either before its reader's position and was handed out, or from there on and comes behind all that was.
  `MergedInOrder` alone is not inductive, as it says nothing of where the readers stand.
  A freed sample can only come of a miscounted index, which is out of step: that is the case `MergeComesInOrder` leaves
  to the hypothesis the property itself has. `KeySamplesDecode` needs no step kept.
* `Streams_proofs`, of the streams. `ByteStream`: `StreamsInv` adds to `SharedDataIsRead` what
  saved places and numbers are; the byte order is turned twice (`ReverseTwice`, `SwapOfThree`), and
  data that grows keeps the numbers in it (`LongerKeeps`).
  `DataStream`: `DataStreamInv` says that the bytes of a stream hold the values written, one behind the other and in the order the stream
  has (`Stored`), that what was read are the first of them (`Same`), and that the stream stands where the next value begins,
  or is a file that has ended (`Stands`), which the next seek starts anew. `ValuesComeBack` speaks of the values only and needs the bytes.
  `StoredAndBack` is the round trip of one value in either order, `StoredOneMore` what one more value behind the others leaves
  of them, and `StoredAfter` and `BeginsAfter` what is left of them when a queue is cut or the rest is moved into another stream.
  `GfBitStream`: `BitInv` says of a reader where the place on the tape is in it: in the byte before its position, which is the one
  it holds, between two bytes, or behind the end, where memory gives zeros (`Reader`, `Here`, `Past`); a reader that is astray is only
  whole. Of a writer it says what is still in the byte it is filling (`Writer`, `Filling`), that a buffer has its size and
  a dynamic stream ends where its size says (`Kind`). `TapeIsKept` alone says nothing of a reader's byte, so it does not show what is read next.
  Bits are read and written one by one by functions of the count, and `ReadIntIs` and `WriteIntIs` follow them by `SetInduction`:
  what is read is what the tape says (`TapeSays`), what is written is laid over it (`LaidOver`), and two runs that follow
  on each other are one (`LaidOn`). `FarFromLimit`, the hypothesis of `EveryBitIsKept`, is that a stream that is not astray stays three bytes below the
  number at which positions wrap, 2^64 in the code: skips are not checked against it (`bitstream.cpp:637-664`). It holds in every state of the run.
* `RunLemmas`: what push and pop do to a run of consecutive numbers, and `SetInduction`: a set of numbers
  that has 0 and with each number the next has them all; `JoinOf` says where the bytes of joined parts are. With the set in the place of a predicate it can
  be cited, and the proofs about `FlattenSeq` and the wire rest on it. `MinIsLeast` and `MaxIsGreatest` say
  that a bounded set of numbers has the least and the greatest that `Min` and `Max` choose.

The proof of a step has one case per action. Only model-checked are all liveness
properties, `CompleteStreamIsAnnounced` among them (out of the prover's reach); that the modelled codec of AMF fits
(`AmfCodec` is written with recursive operators, and the prover takes no module that
has one), which TLC evaluates for the messages of the run. Every invariant
the passing runs check is a theorem as well.

## 5. What is not modelled

`PROJECT.json` lists every component. Left out inside the modelled ones: what is made of the bytes
after the parser has lost its place; messages of length 0 (they stall the connection,
`rtmp_import_chunk.cpp:273`); the bytes of the handshake; AMF names of 128 bytes or more
and reads behind the end of a payload; a client that names a stream before it has given
a URL; metadata fields that are read like one that is modelled; a map corrupted by two unsynchronised
insertions (`snymultirtmppublish.cc:36`, only the missed notification is
modelled); the box parser of Bento4; codec parameters and the rescaling of times in muxers; growing a
reversed stream; and the end of the whole process. Memory is never exhausted.

Whole components are left out where there is no state between calls: the H.264,
H.265 and AAC parsers and converters (but for the two the MPEG-TS muxer uses), the search
for NAL units, strings, urls and md5; where the application does not use them: `ov::Event`,
`ov::Semaphore`, `BitReader`, `BitWriter`; and where there is only I/O: `main`, logging.

## 6. Plan

Done: the ingest queue, the fan-out, the composition, the gate, the chunk importer,
the dialogue with its AMF codec, both demuxers, the three muxers, `ov::Data` and the four
stream and buffer classes; the proofs of the first six and of nine parts of the library. What remains:

1. `Shutdown`: main, loop thread and the order of the destructors; `Threads`
   with `SThread`, which the three thread models then instantiate.
2. `OvQueue`: Dequeue with predicate, timeout and Stop as a refinement of an
   abstract blocking queue, and the waits of `RtmpStream` in its terms, as the repair.
3. `Bitstreams`: AVCC/Annex-B, parameter sets and NAL unit search as functions
   checked against reference definitions over small inputs.

The abstract specifications there are: `InOrderFanOut` and `DataValues`; to come: a
blocking queue and a merge by time.
