--------------------------- MODULE Library_proofs ---------------------------
(* Parts of the library one by one: the two muxers over FFmpeg, the buffer     *)
(* that handles share, the vector that objects of ov::Data share, the file     *)
(* demuxer, the MPEG-TS muxer and the mp4 demuxer. Each invariant that the run *)
(* of MCLibrary checks of them holds for all tracks, contents, files, values   *)
(* and numbers of calls.                                                       *)
EXTENDS FfmpegMuxers, SnyDataBuffer, FileDemuxer, OvData, TsMuxer, SnyDemuxer,
        FiniteSetTheorems, RunLemmas

-----------------------------------------------------------------------------
(* FfmpegMuxers.                                                               *)

(* How many of the ids come before one of them.                                *)
Rank(ids, id) == Cardinality({i \in ids : i < id})

(* The rank of an id among others is below their number.                       *)
LEMMA RankIs ==
  ASSUME NEW ids \in SUBSET Int, IsFiniteSet(ids)
  PROVE  /\ Cardinality(ids) \in Nat
         /\ \A id \in ids : Rank(ids, id) \in 0..Cardinality(ids) - 1
         /\ \A i, j \in ids : i < j => Rank(ids, i) < Rank(ids, j)
<1>. DEFINE n == Cardinality(ids)
            Below(id) == {i \in ids : i < id}
<1>1. n \in Nat /\ n = Cardinality(ids)
  BY FS_CardinalityType
<1>. HIDE DEF n
<1>2. ASSUME NEW id \in ids
      PROVE  IsFiniteSet(Below(id)) /\ Rank(ids, id) \in 0..n - 1
  <2>. DEFINE B == Below(id)
  <2>. DEFINE X == ids \ {id}
  <2>1. B \in SUBSET X /\ IsFiniteSet(X) /\ Cardinality(X) = n - 1
    <3>1. B \in SUBSET X
      OBVIOUS
    <3>. HIDE DEF B
    <3>2. IsFiniteSet(X) /\ Cardinality(X) = n - 1
      BY <1>1, FS_RemoveElement
    <3>. QED  BY <3>1, <3>2
  <2>2. IsFiniteSet(B) /\ Cardinality(B) <= n - 1 /\ Cardinality(B) \in Nat
    <3>. HIDE DEF B, X
    <3>1. IsFiniteSet(B) /\ Cardinality(B) <= Cardinality(X)
      BY <2>1, FS_Subset
    <3>. QED  BY <2>1, <3>1, FS_CardinalityType
  <2>. QED  BY <1>1, <2>2 DEF Rank
<1>3. ASSUME NEW i \in ids, NEW j \in ids, i < j PROVE Rank(ids, i) < Rank(ids, j)
  <2>. DEFINE B == Below(i)
              D == Below(j)
  <2>1. B \cup {i} \subseteq D /\ i \notin B
    <3>1. \A x \in ids : x \in Int
      OBVIOUS
    <3>2. \A x \in ids : x < i => x < j
      BY <1>3, <3>1
    <3>3. ~(i < i)
      BY <3>1
    <3>. QED  BY <1>3, <3>2, <3>3, Zenon
  <2>2. IsFiniteSet(B) /\ IsFiniteSet(D) /\ Cardinality(B) \in Nat /\ Cardinality(D) \in Nat
    BY <1>2, FS_CardinalityType
  <2>. HIDE DEF B, D
  <2>3. Cardinality(B) + 1 <= Cardinality(D)
    BY <2>1, <2>2, FS_AddElement, FS_Subset
  <2>4. Cardinality(B) < Cardinality(D)
    BY <2>2, <2>3
  <2>. QED  BY <2>4 DEF Rank, B, D
<1>. QED  BY <1>1, <1>2, <1>3

(* The order has every id once, at the place its rank says.                    *)
LEMMA InOrderIs ==
  ASSUME NEW ids \in SUBSET Int, IsFiniteSet(ids)
  PROVE  /\ Cardinality(ids) \in Nat
         /\ InOrder(ids) \in [1..Cardinality(ids) -> ids]
         /\ \A id \in ids : \E k \in 1..Cardinality(ids) : InOrder(ids)[k] = id
<1>. DEFINE n == Cardinality(ids)
            rank == [id \in ids |-> Rank(ids, id)]
<1>1. n \in Nat /\ n = Cardinality(ids)
  BY FS_CardinalityType
<1>. HIDE DEF n
<1>2. \A id \in ids : Rank(ids, id) \in 0..n - 1
  BY RankIs DEF n
<1>3. \A i, j \in ids : i < j => Rank(ids, i) < Rank(ids, j)
  BY RankIs
<1>4. rank \in Injection(ids, 0..n - 1)
  <2>1. rank \in [ids -> 0..n - 1]
    BY <1>2
  <2>2. \A i, j \in ids : rank[i] = rank[j] => i = j
    <3>1. \A i, j \in ids : i < j => Rank(ids, i) # Rank(ids, j)
      <4>. SUFFICES ASSUME NEW i \in ids, NEW j \in ids, i < j PROVE Rank(ids, i) # Rank(ids, j)
        OBVIOUS
      <4>1. Rank(ids, i) \in 0..n - 1 /\ Rank(ids, j) \in 0..n - 1
        BY <1>2
      <4>. QED  BY <1>3, <4>1
    <3>2. \A i, j \in ids : i < j \/ j < i \/ i = j
      <4>1. \A x, y \in Int : x < y \/ y < x \/ x = y
        OBVIOUS
      <4>. QED  BY <4>1
    <3>. QED  BY <3>1, <3>2
  <2>. HIDE DEF rank
  <2>. QED  BY <2>1, <2>2 DEF Injection, IsInjective
<1>5. IsFiniteSet(0..n - 1) /\ Cardinality(0..n - 1) = n
  <2>. DEFINE m == n - 1
  <2>1. m \in Int /\ 0 \in Int /\ (0 > m => n = 0) /\ (m - 0) + 1 = n
    BY <1>1
  <2>. HIDE DEF m
  <2>2. IsFiniteSet(0..m) /\ Cardinality(0..m) = n
    BY <2>1, FS_Interval
  <2>. QED  BY <2>2 DEF m
<1>6. rank \in Surjection(ids, 0..n - 1)
  <2>. DEFINE T == 0..n - 1
  <2>. HIDE DEF rank
  <2>1. rank \in Injection(ids, T) /\ IsFiniteSet(T) /\ Cardinality(ids) = Cardinality(T)
    BY <1>1, <1>4, <1>5
  <2>. HIDE DEF T
  <2>2. rank \in Surjection(ids, T)
    BY <2>1, FS_Injection
  <2>. QED  BY <2>2 DEF T
<1>7. \A k \in 0..n - 1 : \E id \in ids : Rank(ids, id) = k
  BY <1>6 DEF Surjection
<1>8. \A i, j \in ids : Rank(ids, i) = Rank(ids, j) => i = j
  BY <1>4 DEF Injection, IsInjective
<1>9. InOrder(ids) = [k \in 1..n |-> CHOOSE id \in ids : Rank(ids, id) = k - 1]
  BY <1>1, Zenon DEF InOrder, Rank
<1>. DEFINE P(k) == CHOOSE id \in ids : Rank(ids, id) = k - 1
<1>10. \A k \in 1..n : P(k) \in ids /\ Rank(ids, P(k)) = k - 1
  <2>. TAKE k \in 1..n
  <2>1. k - 1 \in 0..n - 1
    BY <1>1
  <2>2. \E id \in ids : Rank(ids, id) = k - 1
    BY <1>7, <2>1
  <2>. QED  BY <2>2
<1>11. ASSUME NEW id \in ids PROVE \E k \in 1..n : P(k) = id
  <2>. DEFINE k == Rank(ids, id) + 1
  <2>1. k \in 1..n /\ k - 1 = Rank(ids, id)
    <3>1. Rank(ids, id) \in 0..n - 1
      BY <1>2
    <3>. QED  BY <1>1, <3>1
  <2>. HIDE DEF k, P
  <2>2. Rank(ids, P(k)) = Rank(ids, id) /\ P(k) \in ids
    BY <1>10, <2>1
  <2>3. P(k) = id
    BY <1>8, <2>2
  <2>. QED  BY <2>1, <2>3
<1>. HIDE DEF P
<1>. QED  BY <1>1, <1>9, <1>10, <1>11 DEF P

(* SelectInSeq finds a value where it is.                                      *)
LEMMA IndexIs ==
  ASSUME NEW s, NEW n \in Nat, Len(s) = n, DOMAIN s = 1..n, NEW id \in ToSet(s),
         NEW k, k = SelectInSeq(s, LAMBDA i : i = id)
  PROVE  k \in 1..n /\ s[k] = id
<1>. DEFINE I == {i \in 1..n : s[i] = id}
<1>1. k = IF I # {} THEN Min(I) ELSE 0
  BY DEF SelectInSeq
<1>2. I # {} /\ I \in SUBSET (1..n)
  BY DEF ToSet
<1>. HIDE DEF I
<1>3. k \in I
  BY <1>1, <1>2, MinIsLeast
<1>. QED  BY <1>3 DEF I

-----------------------------------------------------------------------------
AvIds == DOMAIN AvTracks
Packet == [stream : Nat, track : AvIds, added : BOOLEAN, data : BOOLEAN]
Context == [allocated : BOOLEAN, streams : Seq(AvIds), pb : BOOLEAN, header : BOOLEAN,
            packets : Seq(Packet)]
Maps == UNION {[ids -> Nat] : ids \in SUBSET AvIds}

(* The map says where the streams of these tracks are.                         *)
Indexed(ids, map, streams) ==
  \A id \in ids : id \in DOMAIN map /\ map[id] \in 1..Len(streams) /\ streams[map[id]] = id

Muxers == [media_tracks_ : SUBSET AvIds, index : Maps, oc_ : Context, opened : BOOLEAN,
           calls : Nat]

(* An open muxer has a stream for every track in its map.                      *)
MuxerOk(m) ==
  /\ m \in Muxers
  /\ IsFiniteSet(m.media_tracks_)
  /\ DOMAIN m.index \subseteq m.media_tracks_
  /\ m.opened => Indexed(DOMAIN m.index, m.index, m.oc_.streams)
  /\ OnTheirStreams(m.oc_)

Writers == [track_map : Maps, context : Context, added : SUBSET AvIds, started : BOOLEAN,
            calls : Nat]

(* A writer's map is right about the tracks added since SetPath.               *)
WriterOk(w) ==
  /\ w \in Writers
  /\ Indexed(w.added, w.track_map, w.context.streams)
  /\ OnTheirStreams(w.context)

AvInv == MuxerOk(ffMuxer) /\ WriterOk(rtmpWriter)

(* A context without packets, and one that gets another.                       *)
LEMMA ContextsAre ==
  /\ NoContext \in Context /\ NewContext \in Context
  /\ OnTheirStreams(NoContext) /\ OnTheirStreams(NewContext)
  /\ NoContext.streams = <<>> /\ NewContext.streams = <<>>
  /\ \A s \in Seq(AvIds) :
       /\ [NewContext EXCEPT !.streams = s] \in Context
       /\ OnTheirStreams([NewContext EXCEPT !.streams = s])
       /\ [NewContext EXCEPT !.streams = s].streams = s
<1>1. NoContext \in Context /\ NoContext.packets = <<>> /\ NoContext.streams = <<>>
  BY DEF NoContext, Context
<1>2. NewContext \in Context /\ NewContext.packets = <<>> /\ NewContext.streams = <<>>
  BY <1>1 DEF NewContext, Context
<1>3. ASSUME NEW s \in Seq(AvIds)
      PROVE  LET c == [NewContext EXCEPT !.streams = s]
             IN  c \in Context /\ c.packets = <<>> /\ c.streams = s
  BY <1>2 DEF Context
<1>. QED  BY <1>1, <1>2, <1>3 DEF OnTheirStreams

(* A packet more: on the stream of its track when its track was added.         *)
LEMMA WrittenIs ==
  ASSUME NEW c \in Context, OnTheirStreams(c), NEW index \in Nat, NEW id \in AvIds, NEW format,
         NEW added \in BOOLEAN,
         added => index \in 1..Len(c.streams) /\ c.streams[index] = id,
         NEW new, new = Written(c, index, id, format, added)
  PROVE  new \in Context /\ OnTheirStreams(new) /\ new.streams = c.streams
<1>. DEFINE p == [stream |-> index, track |-> id, added |-> added, data |-> HasData(format)]
            packets == Append(c.packets, p)
<1>1. p \in Packet
  BY DEF Packet, HasData
<1>2. p.stream = index /\ p.track = id /\ p.added = added
  OBVIOUS
<1>3. c.packets \in Seq(Packet)
  BY DEF Context
<1>4. new = [c EXCEPT !.packets = packets]
  BY DEF Written
<1>. HIDE DEF p
<1>5. /\ packets \in Seq(Packet) /\ Len(packets) = Len(c.packets) + 1 /\ Len(c.packets) \in Nat
      /\ packets[Len(c.packets) + 1] = p
      /\ \A k \in 1..Len(c.packets) : packets[k] = c.packets[k]
  BY <1>1, <1>3
<1>. HIDE DEF packets
<1>6. new \in Context /\ new.streams = c.streams /\ new.packets = packets
  BY <1>4, <1>5 DEF Context
<1>7. ASSUME NEW k \in 1..Len(packets), packets[k].added
      PROVE  packets[k].stream \in 1..Len(c.streams) /\ c.streams[packets[k].stream] = packets[k].track
  <2>1. CASE k = Len(c.packets) + 1
    BY <1>2, <1>5, <1>7, <2>1
  <2>2. CASE k \in 1..Len(c.packets)
    BY <1>5, <1>7, <2>2 DEF OnTheirStreams
  <2>. QED  BY <1>5, <2>1, <2>2
<1>. QED  BY <1>6, <1>7 DEF OnTheirStreams

(* The place of the first track of no supported type, and the tracks before it *)
(* in the order of their ids: those that get a stream.                         *)
BadAt(ids) == SelectInSeq(InOrder(ids), LAMBDA id : ~Supported(id))
MadeFor(ids) == IF BadAt(ids) = 0 THEN InOrder(ids) ELSE SubSeq(InOrder(ids), 1, BadAt(ids) - 1)

(* The streams made before a bad track: all of them when there is none.        *)
LEMMA MadeAre ==
  ASSUME NEW ids \in SUBSET AvIds, IsFiniteSet(ids)
  PROVE  /\ MadeFor(ids) \in Seq(AvIds) /\ ToSet(MadeFor(ids)) \subseteq ids
         /\ BadAt(ids) = 0 => ToSet(MadeFor(ids)) = ids
<1>. DEFINE s == InOrder(ids)
            n == Cardinality(ids)
            bad == BadAt(ids)
            made == MadeFor(ids)
<1>1. ids \in SUBSET Int
  BY AvAssumption DEF AvIds
<1>2. n \in Nat /\ s \in [1..n -> ids] /\ \A id \in ids : \E k \in 1..n : s[k] = id
  BY <1>1, InOrderIs
<1>. HIDE DEF n, s
<1>3. s \in Seq(ids) /\ Len(s) = n /\ DOMAIN s = 1..n
  BY <1>2
<1>4. s \in Seq(AvIds) /\ ToSet(s) = ids
  BY <1>2, <1>3 DEF ToSet
<1>5. CASE bad = 0
  BY <1>4, <1>5, Zenon DEF s, MadeFor
<1>6. CASE bad # 0
  <2>. DEFINE I == {i \in 1..n : ~Supported(s[i])}
  <2>1. bad = IF I # {} THEN Min(I) ELSE 0
    BY <1>3 DEF SelectInSeq, s, BadAt
  <2>2. bad \in 1..n
    <3>1. I \in SUBSET (1..n) /\ I # {}
      BY <1>6, <2>1
    <3>. HIDE DEF I
    <3>. QED  BY <1>2, <1>6, <2>1, <3>1, MinIsLeast
  <2>3. made = SubSeq(s, 1, bad - 1)
    BY <1>6, Zenon DEF s, MadeFor
  <2>. DEFINE b == bad - 1
              part == SubSeq(s, 1, b)
  <2>4. 1 \in 1..Len(s) + 1 /\ b \in 1 - 1..Len(s) /\ b - 1 + 1 = b /\ b \in Int
    BY <1>2, <1>3, <2>2
  <2>. HIDE DEF b, I, bad, made
  <2>5. /\ part \in Seq(ids) /\ Len(part) = b
        /\ \A k \in 1..b : part[k] \in ids
    BY <1>3, <2>4, SubSeqProperties
  <2>. HIDE DEF part
  <2>6. DOMAIN part = 1..b /\ part \in [1..b -> ids] /\ b \in Nat
    BY <2>5
  <2>7. part \in Seq(AvIds) /\ ToSet(part) \subseteq ids
    BY <2>6 DEF ToSet
  <2>8. made = part
    BY <2>3 DEF part, b
  <2>. QED  BY <1>6, <2>7, <2>8 DEF bad, made
<1>. QED  BY <1>5, <1>6

-----------------------------------------------------------------------------
(* What opening leaves: streams for the first tracks, or for all of them.      *)
LEMMA TracksInitialised ==
  ASSUME NEW m, MuxerOk(m)
  PROVE  MuxerOk(InitMediaTrack(m))
<1>. DEFINE ids == m.media_tracks_
            bad == BadAt(ids)
            made == MadeFor(ids)
            index == [id \in DOMAIN m.index \cup ToSet(made) |->
                        IF id \in ToSet(made) THEN SelectInSeq(made, LAMBDA i : i = id)
                        ELSE m.index[id]]
            context == [NewContext EXCEPT !.streams = made]
            new == [m EXCEPT !.oc_ = context, !.opened = bad = 0, !.index = index]
<1>1. ids \in SUBSET AvIds /\ IsFiniteSet(ids)
  BY DEF MuxerOk, Muxers
<1>2. /\ made \in Seq(AvIds) /\ ToSet(made) \subseteq ids
      /\ bad = 0 => ToSet(made) = ids
  BY <1>1, MadeAre, Zenon
<1>3. context \in Context /\ OnTheirStreams(context) /\ context.streams = made
  BY <1>2, ContextsAre, Zenon
<1>4. Len(made) \in Nat /\ DOMAIN made = 1..Len(made)
  <2>. HIDE DEF made
  <2>. QED  BY <1>2
<1>5. \A id \in ToSet(made) : index[id] \in 1..Len(made) /\ made[index[id]] = id
  <2>. TAKE id \in ToSet(made)
  <2>. DEFINE k == SelectInSeq(made, LAMBDA i : i = id)
              n == Len(made)
  <2>1. index[id] = k
    OBVIOUS
  <2>2. k \in 1..n /\ made[k] = id
    <3>. HIDE DEF made
    <3>1. Len(made) = n /\ DOMAIN made = 1..n /\ n \in Nat
      BY <1>4
    <3>. QED  BY <3>1, IndexIs, Zenon
  <2>. QED  BY <2>1, <2>2, Zenon
<1>6. InitMediaTrack(m) = new
  BY Zenon DEF InitMediaTrack, BadAt, MadeFor
<1>7. DOMAIN index = DOMAIN m.index \cup ToSet(made)
  OBVIOUS
<1>8. \A id \in DOMAIN index : id \notin ToSet(made) => index[id] = m.index[id]
  OBVIOUS
<1>. DEFINE open == bad = 0
<1>9. open \in BOOLEAN
  OBVIOUS
<1>10. open => ToSet(made) = ids
  BY <1>2
<1>11. new = [m EXCEPT !.oc_ = context, !.opened = open, !.index = index]
  OBVIOUS
<1>. HIDE DEF context, open, index, new, made, bad
<1>12. m.index \in Maps /\ DOMAIN m.index \subseteq ids /\ DOMAIN m.index \subseteq AvIds
      /\ \A id \in DOMAIN m.index : m.index[id] \in Nat
  BY DEF MuxerOk, Muxers, Maps
<1>13. index \in Maps /\ DOMAIN index \subseteq ids
  <2>1. DOMAIN index \in SUBSET AvIds /\ DOMAIN index \subseteq ids
    BY <1>1, <1>2, <1>7, <1>12
  <2>2. \A id \in DOMAIN index : index[id] \in Nat
    BY <1>4, <1>5, <1>7, <1>8, <1>12
  <2>3. index = [id \in DOMAIN index |-> index[id]]
    BY DEF index
  <2>4. index \in [DOMAIN index -> Nat]
    BY <2>2, <2>3
  <2>. QED  BY <2>1, <2>4, Zenon DEF Maps
<1>14. open => Indexed(DOMAIN index, index, context.streams)
  BY <1>3, <1>5, <1>7, <1>10, <1>12 DEF Indexed
<1>15. /\ new \in Muxers /\ new.media_tracks_ = ids /\ new.oc_ = context /\ new.opened = open
       /\ new.index = index
  BY <1>3, <1>9, <1>11, <1>13 DEF MuxerOk, Muxers
<1>16. MuxerOk(new)
  BY <1>1, <1>3, <1>13, <1>14, <1>15 DEF MuxerOk
<1>. QED  BY <1>6, <1>16

(* The output and the header of an open muxer; calls that change nothing else. *)
LEMMA OutputOpened ==
  ASSUME NEW m, MuxerOk(m), NEW io \in BOOLEAN, NEW header \in BOOLEAN
  PROVE  MuxerOk(InternalOpen(m, io, header))
<1>. DEFINE context == [m.oc_ EXCEPT !.pb = io, !.header = io /\ header]
            open == io /\ header
            new == [m EXCEPT !.oc_ = context, !.opened = open]
<1>1. CASE ~m.opened
  BY <1>1 DEF InternalOpen
<1>2. CASE m.opened
  <2>1. m \in Muxers /\ m.oc_ \in Context /\ open \in BOOLEAN
    BY DEF MuxerOk, Muxers
  <2>2. /\ context \in Context /\ context.streams = m.oc_.streams
        /\ context.packets = m.oc_.packets
    BY <2>1 DEF Context
  <2>3. InternalOpen(m, io, header) = new
    BY <1>2, <2>1 DEF InternalOpen, Muxers, Context
  <2>. HIDE DEF context, open
  <2>4. /\ new \in Muxers /\ new.media_tracks_ = m.media_tracks_ /\ new.oc_ = context
        /\ new.opened = open /\ new.index = m.index
    BY <2>1, <2>2 DEF Muxers
  <2>5. OnTheirStreams(new.oc_)
    BY <2>2, <2>4 DEF OnTheirStreams, MuxerOk
  <2>6. MuxerOk(new)
    BY <1>2, <2>2, <2>4, <2>5 DEF MuxerOk
  <2>. QED  BY <2>3, <2>6
<1>. QED  BY <1>1, <1>2

(* A call is counted, and nothing else changes.                                *)
LEMMA MuxerCounted ==
  ASSUME NEW m, MuxerOk(m)
  PROVE  MuxerOk([m EXCEPT !.calls = @ + 1])
<1>. DEFINE new == [m EXCEPT !.calls = @ + 1]
<1>1. /\ new \in Muxers /\ new.media_tracks_ = m.media_tracks_ /\ new.oc_ = m.oc_
      /\ new.opened = m.opened /\ new.index = m.index
  BY DEF MuxerOk, Muxers
<1>. HIDE DEF new
<1>2. MuxerOk(new)
  BY <1>1 DEF MuxerOk
<1>. QED  BY <1>2 DEF new

(* Closing drops the context with its streams.                                 *)
LEMMA MuxerClosed ==
  ASSUME NEW m, MuxerOk(m)
  PROVE  MuxerOk([m EXCEPT !.oc_ = NoContext, !.opened = FALSE])
<1>. DEFINE c == NoContext
            new == [m EXCEPT !.oc_ = c, !.opened = FALSE]
<1>1. c \in Context /\ OnTheirStreams(c)
  BY ContextsAre
<1>. HIDE DEF c
<1>2. /\ new \in Muxers /\ new.media_tracks_ = m.media_tracks_ /\ new.oc_ = c
      /\ new.opened = FALSE /\ new.index = m.index
  BY <1>1 DEF MuxerOk, Muxers
<1>. HIDE DEF new
<1>3. MuxerOk(new)
  BY <1>1, <1>2 DEF MuxerOk
<1>. QED  BY <1>3 DEF new, c

(* One step of SnyMuxerImplFFMpeg.                                             *)
LEMMA MuxerStep ==
  ASSUME MuxerOk(ffMuxer), FfMuxerNext
  PROVE  MuxerOk(ffMuxer')
<1>. DEFINE m == ffMuxer
<1>1. ASSUME NEW id \in DOMAIN AvTracks, AddMediaTrack(id)
      PROVE  MuxerOk(ffMuxer')
  <2>. DEFINE ids == m.media_tracks_ \cup {id}
              one == [m EXCEPT !.media_tracks_ = ids]
  <2>1. /\ m \in Muxers /\ m.media_tracks_ \in SUBSET AvIds /\ id \in AvIds
        /\ IsFiniteSet(m.media_tracks_)
    BY DEF MuxerOk, Muxers, AvIds
  <2>2. IsFiniteSet(ids)
    BY <2>1, FS_AddElement
  <2>3. ids \in SUBSET AvIds /\ m.media_tracks_ \subseteq ids
    BY <2>1
  <2>4. ffMuxer' = [one EXCEPT !.calls = @ + 1]
    BY <1>1, <2>1 DEF AddMediaTrack, Muxers
  <2>. HIDE DEF ids
  <2>5. /\ one \in Muxers /\ one.media_tracks_ = ids /\ one.oc_ = m.oc_
        /\ one.opened = m.opened /\ one.index = m.index
    BY <2>1, <2>3 DEF Muxers
  <2>. HIDE DEF one
  <2>6. MuxerOk(one)
    BY <2>2, <2>3, <2>5 DEF MuxerOk
  <2>. QED  BY <2>4, <2>6, MuxerCounted
<1>2. ASSUME NEW allocated \in BOOLEAN, NEW io \in BOOLEAN, NEW header \in BOOLEAN,
             OpenMuxer(allocated, io, header)
      PROVE  MuxerOk(ffMuxer')
  <2>. DEFINE one == IF allocated THEN InternalOpen(InitMediaTrack(m), io, header)
                     ELSE [m EXCEPT !.oc_ = NoContext, !.opened = FALSE]
  <2>1. MuxerOk(one)
    BY TracksInitialised, OutputOpened, MuxerClosed, Zenon
  <2>2. ffMuxer' = [one EXCEPT !.calls = @ + 1]
    BY <1>2, Zenon DEF OpenMuxer
  <2>. HIDE DEF one
  <2>. QED  BY <2>1, <2>2, MuxerCounted
<1>5. ASSUME OpenRefused PROVE MuxerOk(ffMuxer')
  <2>. DEFINE one == [m EXCEPT !.opened = FALSE]
  <2>1. /\ one \in Muxers /\ one.media_tracks_ = m.media_tracks_ /\ one.oc_ = m.oc_
        /\ one.opened = FALSE /\ one.index = m.index
    BY DEF MuxerOk, Muxers
  <2>2. ffMuxer' = [one EXCEPT !.calls = @ + 1]
    BY <1>5 DEF OpenRefused, MuxerOk, Muxers
  <2>. HIDE DEF one
  <2>3. MuxerOk(one)
    BY <2>1 DEF MuxerOk
  <2>. QED  BY <2>2, <2>3, MuxerCounted
<1>3. ASSUME CloseMuxer PROVE MuxerOk(ffMuxer')
  <2>. DEFINE one == [m EXCEPT !.oc_ = NoContext, !.opened = FALSE]
  <2>1. MuxerOk(one)
    BY MuxerClosed, Zenon
  <2>2. ffMuxer' = [one EXCEPT !.calls = @ + 1]
    BY <1>3 DEF CloseMuxer, MuxerOk, Muxers
  <2>. HIDE DEF one
  <2>. QED  BY <2>1, <2>2, MuxerCounted
<1>4. ASSUME NEW id \in DOMAIN AvTracks, NEW format, WriteMediaSample(id, format)
      PROVE  MuxerOk(ffMuxer')
  <2>. DEFINE context == IF id \in DOMAIN m.index
                         THEN Written(m.oc_, m.index[id], id, format, TRUE) ELSE m.oc_
              one == [m EXCEPT !.oc_ = context]
  <2>1. /\ m \in Muxers /\ m.oc_ \in Context /\ OnTheirStreams(m.oc_) /\ id \in AvIds
        /\ m.index \in Maps /\ m.opened
    BY <1>4 DEF MuxerOk, Muxers, AvIds, WriteMediaSample
  <2>2. context \in Context /\ OnTheirStreams(context) /\ context.streams = m.oc_.streams
    <3>1. CASE id \in DOMAIN m.index
      <4>. DEFINE at == m.index[id]
                  c == m.oc_
                  added == TRUE
                  new == Written(c, at, id, format, added)
      <4>1. at \in Nat /\ at \in 1..Len(c.streams) /\ c.streams[at] = id
        BY <2>1, <3>1 DEF Maps, MuxerOk, Indexed
      <4>2. c \in Context /\ OnTheirStreams(c) /\ added \in BOOLEAN /\ context = new
            /\ new = Written(c, at, id, format, added)
        BY <2>1, <3>1
      <4>. HIDE DEF at, c, added, new
      <4>3. new \in Context /\ OnTheirStreams(new) /\ new.streams = c.streams
        BY <2>1, <4>1, <4>2, WrittenIs
      <4>. QED  BY <4>2, <4>3 DEF c
    <3>. QED  BY <2>1, <3>1
  <2>3. ffMuxer' = [one EXCEPT !.calls = @ + 1]
    BY <1>4, <2>1 DEF WriteMediaSample, Muxers
  <2>. HIDE DEF context
  <2>4. /\ one \in Muxers /\ one.media_tracks_ = m.media_tracks_ /\ one.oc_ = context
        /\ one.opened = m.opened /\ one.index = m.index
    BY <2>1, <2>2 DEF Muxers
  <2>. HIDE DEF one
  <2>5. MuxerOk(one)
    BY <2>2, <2>4 DEF MuxerOk
  <2>. QED  BY <2>3, <2>5, MuxerCounted
<1>. QED  BY <1>1, <1>2, <1>3, <1>4, <1>5 DEF FfMuxerNext

-----------------------------------------------------------------------------
(* RtmpWriter.                                                                 *)
LEMMA WriterCounted ==
  ASSUME NEW w, WriterOk(w)
  PROVE  WriterOk([w EXCEPT !.calls = @ + 1])
<1>. DEFINE new == [w EXCEPT !.calls = @ + 1]
<1>1. /\ new \in Writers /\ new.track_map = w.track_map /\ new.context = w.context
      /\ new.added = w.added /\ new.started = w.started
  BY DEF WriterOk, Writers
<1>. HIDE DEF new
<1>2. WriterOk(new)
  BY <1>1 DEF WriterOk
<1>. QED  BY <1>2 DEF new

(* A new context, or none: no track was added to it.                           *)
LEMMA WriterRenewed ==
  ASSUME NEW w, WriterOk(w), NEW c \in Context, OnTheirStreams(c)
  PROVE  WriterOk([w EXCEPT !.context = c, !.added = {}, !.started = FALSE])
<1>. DEFINE new == [w EXCEPT !.context = c, !.added = {}, !.started = FALSE]
<1>1. /\ new \in Writers /\ new.track_map = w.track_map /\ new.context = c
      /\ new.added = {}
  BY DEF WriterOk, Writers
<1>. HIDE DEF new
<1>2. WriterOk(new)
  BY <1>1 DEF WriterOk, Indexed
<1>. QED  BY <1>2 DEF new

(* A track more: the streams of the others stay where they are.                *)
LEMMA TrackAdded ==
  ASSUME NEW w, WriterOk(w), NEW id \in AvIds, NEW new,
         new = [w EXCEPT !.context.streams = Append(@, id),
                  !.track_map = Assigned(@, id, Len(w.context.streams) + 1),
                  !.added = @ \cup {id}, !.calls = @ + 1]
  PROVE  WriterOk(new)
<1>. DEFINE old == w.context
            streams == Append(old.streams, id)
            n == Len(old.streams)
            map == Assigned(w.track_map, id, n + 1)
            context == [old EXCEPT !.streams = streams]
            added == w.added \cup {id}
<1>1. /\ w \in Writers /\ old \in Context /\ OnTheirStreams(old) /\ w.track_map \in Maps
      /\ w.added \in SUBSET AvIds
  BY DEF WriterOk, Writers
<1>2. /\ old.streams \in Seq(AvIds) /\ n \in Nat /\ streams \in Seq(AvIds)
      /\ Len(streams) = n + 1 /\ streams[n + 1] = id
      /\ \A k \in 1..n : streams[k] = old.streams[k]
  BY <1>1 DEF Context
<1>3. /\ DOMAIN map = DOMAIN w.track_map \cup {id} /\ map[id] = n + 1
      /\ \A i \in DOMAIN w.track_map : i # id => map[i] = w.track_map[i]
  BY DEF Assigned
<1>4. map \in Maps
  <2>1. DOMAIN map \in SUBSET AvIds
    BY <1>1, <1>3 DEF Maps
  <2>2. \A i \in DOMAIN map : map[i] \in Nat
    BY <1>1, <1>2, <1>3 DEF Maps
  <2>3. map = [i \in DOMAIN map |-> map[i]]
    BY DEF Assigned
  <2>4. map \in [DOMAIN map -> Nat]
    <3>. HIDE DEF map
    <3>. QED  BY <2>2, <2>3
  <2>. QED  BY <2>1, <2>4, Zenon DEF Maps
<1>. DEFINE one == [w EXCEPT !.context = context, !.track_map = map, !.added = added]
<1>5. new = [one EXCEPT !.calls = @ + 1]
  BY <1>1 DEF Writers, Context
<1>. HIDE DEF map, streams
<1>6. context \in Context /\ context.streams = streams /\ context.packets = old.packets
  BY <1>1, <1>2 DEF Context
<1>. HIDE DEF context
<1>7. OnTheirStreams(context)
  <2>. HIDE DEF old, n
  <2>1. \A k \in 1..n : k \in 1..n + 1 /\ streams[k] = old.streams[k]
    BY <1>2
  <2>2. ASSUME NEW k \in 1..Len(context.packets), context.packets[k].added
        PROVE  /\ context.packets[k].stream \in 1..Len(context.streams)
               /\ context.streams[context.packets[k].stream] = context.packets[k].track
    <3>1. old.packets[k].stream \in 1..n /\ old.streams[old.packets[k].stream] = old.packets[k].track
      BY <1>1, <1>6, <2>2 DEF OnTheirStreams, n
    <3>. QED  BY <1>2, <1>6, <2>1, <3>1
  <2>. QED  BY <2>2 DEF OnTheirStreams
<1>8. Indexed(added, map, streams)
  BY <1>2, <1>3 DEF Indexed, WriterOk
<1>9. added \in SUBSET AvIds
  BY <1>1
<1>. HIDE DEF added
<1>10. one \in Writers /\ one.context = context /\ one.track_map = map /\ one.added = added
  BY <1>1, <1>4, <1>6, <1>9 DEF Writers
<1>. HIDE DEF one
<1>11. WriterOk(one)
  BY <1>6, <1>7, <1>8, <1>10 DEF WriterOk
<1>. QED  BY <1>5, <1>11, WriterCounted

(* One step of RtmpWriter.                                                     *)
LEMMA WriterStep ==
  ASSUME WriterOk(rtmpWriter), RtmpWriterNext
  PROVE  WriterOk(rtmpWriter')
<1>. DEFINE w == rtmpWriter
<1>1. ASSUME NEW allocated \in BOOLEAN, SetPath(allocated) PROVE WriterOk(rtmpWriter')
  <2>. DEFINE c == IF allocated THEN NewContext ELSE NoContext
              one == [w EXCEPT !.context = c, !.added = {}, !.started = FALSE]
  <2>1. c \in Context /\ OnTheirStreams(c)
    BY ContextsAre
  <2>2. rtmpWriter' = [one EXCEPT !.calls = @ + 1]
    BY <1>1 DEF SetPath, WriterOk, Writers
  <2>. HIDE DEF c
  <2>3. WriterOk(one)
    BY <2>1, WriterRenewed
  <2>. HIDE DEF one
  <2>. QED  BY <2>2, <2>3, WriterCounted
<1>2. ASSUME NEW id \in DOMAIN AvTracks, AddWriterTrack(id) PROVE WriterOk(rtmpWriter')
  <2>1. CASE ~Supported(id)
    BY <1>2, <2>1, WriterCounted DEF AddWriterTrack
  <2>2. CASE Supported(id)
    <3>1. id \in AvIds
      BY DEF AvIds
    <3>2. rtmpWriter' = [w EXCEPT !.context.streams = Append(@, id),
                  !.track_map = Assigned(@, id, Len(w.context.streams) + 1),
                  !.added = @ \cup {id}, !.calls = @ + 1]
      BY <1>2, <2>2 DEF AddWriterTrack
    <3>. HIDE DEF w
    <3>. QED  BY <3>1, <3>2, TrackAdded DEF w
  <2>. QED  BY <2>1, <2>2
<1>3. ASSUME NEW io \in BOOLEAN, NEW header \in BOOLEAN, Start(io, header)
      PROVE  WriterOk(rtmpWriter')
  <2>. DEFINE both == io /\ header
              c == [w.context EXCEPT !.pb = io, !.header = both]
              one == [w EXCEPT !.context = c, !.started = both]
  <2>1. w \in Writers /\ w.context \in Context /\ OnTheirStreams(w.context) /\ both \in BOOLEAN
    BY DEF WriterOk, Writers
  <2>2. rtmpWriter' = [one EXCEPT !.calls = @ + 1]
    BY <1>3, <2>1 DEF Start, Writers, Context
  <2>. HIDE DEF both
  <2>3. c \in Context /\ c.streams = w.context.streams /\ c.packets = w.context.packets
    BY <2>1 DEF Context
  <2>. HIDE DEF c
  <2>4. OnTheirStreams(c)
    BY <2>1, <2>3 DEF OnTheirStreams
  <2>5. one \in Writers /\ one.context = c /\ one.track_map = w.track_map /\ one.added = w.added
    BY <2>1, <2>3 DEF Writers
  <2>. HIDE DEF one
  <2>6. WriterOk(one)
    BY <2>3, <2>4, <2>5 DEF WriterOk
  <2>. QED  BY <2>2, <2>6, WriterCounted
<1>4. ASSUME Stop PROVE WriterOk(rtmpWriter')
  <2>. DEFINE c == NoContext
              one == [w EXCEPT !.context = c, !.added = {}, !.started = FALSE]
  <2>1. c \in Context /\ OnTheirStreams(c)
    BY ContextsAre
  <2>2. rtmpWriter' = [one EXCEPT !.calls = @ + 1]
    BY <1>4 DEF Stop, WriterOk, Writers
  <2>. HIDE DEF c
  <2>3. WriterOk(one)
    BY <2>1, WriterRenewed
  <2>. HIDE DEF one
  <2>. QED  BY <2>2, <2>3, WriterCounted
<1>5. ASSUME NEW id \in DOMAIN AvTracks, NEW format, PutData(id, format)
      PROVE  WriterOk(rtmpWriter')
  <2>. DEFINE context == IF id \in DOMAIN w.track_map
                         THEN Written(w.context, w.track_map[id], id, format, id \in w.added)
                         ELSE w.context
              one == [w EXCEPT !.context = context]
  <2>1. /\ w \in Writers /\ w.context \in Context /\ OnTheirStreams(w.context) /\ id \in AvIds
        /\ w.track_map \in Maps
    BY DEF WriterOk, Writers, AvIds
  <2>2. /\ context \in Context /\ OnTheirStreams(context)
        /\ context.streams = w.context.streams
    <3>1. CASE id \in DOMAIN w.track_map
      <4>. DEFINE at == w.track_map[id]
                  c == w.context
                  added == id \in w.added
                  new == Written(c, at, id, format, added)
      <4>1. at \in Nat /\ (added => at \in 1..Len(c.streams) /\ c.streams[at] = id)
        BY <2>1, <3>1 DEF Maps, WriterOk, Indexed
      <4>2. c \in Context /\ OnTheirStreams(c) /\ context = new
            /\ new = Written(c, at, id, format, added)
        BY <2>1, <3>1
      <4>3. added \in BOOLEAN
        OBVIOUS
      <4>. HIDE DEF at, c, added, new
      <4>4. new \in Context /\ OnTheirStreams(new) /\ new.streams = c.streams
        BY <2>1, <4>1, <4>2, <4>3, WrittenIs
      <4>. QED  BY <4>2, <4>4 DEF c
    <3>. QED  BY <2>1, <3>1
  <2>3. rtmpWriter' = [one EXCEPT !.calls = @ + 1]
    BY <1>5, <2>1 DEF PutData, Writers
  <2>. HIDE DEF context
  <2>4. /\ one \in Writers /\ one.context = context /\ one.track_map = w.track_map
        /\ one.added = w.added
    BY <2>1, <2>2 DEF Writers
  <2>. HIDE DEF one
  <2>5. WriterOk(one)
    BY <2>2, <2>4 DEF WriterOk
  <2>. QED  BY <2>3, <2>5, WriterCounted
<1>. QED  BY <1>1, <1>2, <1>3, <1>4, <1>5 DEF RtmpWriterNext

(* A packet goes to the stream its own context made for its track, whatever    *)
(* opens, failures and renewals came before.                                   *)
THEOREM PacketsAreOnTheirStreams == FfmpegMuxersSpec => []PacketsOnTheirStreams
<1>1. FfmpegMuxersInit => AvInv
  <2>. SUFFICES ASSUME FfmpegMuxersInit PROVE AvInv
    OBVIOUS
  <2>. DEFINE none == [x \in {} |-> 0]
  <2>1. <<>> = none /\ none \in [{} -> Nat]
    OBVIOUS
  <2>2. <<>> \in Maps /\ DOMAIN <<>> = {}
    BY <2>1, Zenon DEF Maps
  <2>3. IsFiniteSet({})
    BY FS_EmptySet
  <2>4. MuxerOk(ffMuxer)
    BY <2>2, <2>3, ContextsAre DEF FfmpegMuxersInit, MuxerOk, Muxers
  <2>5. WriterOk(rtmpWriter)
    BY <2>2, ContextsAre DEF FfmpegMuxersInit, WriterOk, Writers, Indexed
  <2>. QED  BY <2>4, <2>5 DEF AvInv
<1>2. AvInv /\ [FfMuxerNext \/ RtmpWriterNext]_ffmpegMuxersVars => AvInv'
  <2>. SUFFICES ASSUME AvInv, [FfMuxerNext \/ RtmpWriterNext]_ffmpegMuxersVars PROVE AvInv'
    OBVIOUS
  <2>1. CASE FfMuxerNext
    <3>1. MuxerOk(ffMuxer')
      BY <2>1, MuxerStep DEF AvInv
    <3>2. rtmpWriter' = rtmpWriter
      BY <2>1 DEF FfMuxerNext
    <3>. QED  BY <3>1, <3>2 DEF AvInv
  <2>2. CASE RtmpWriterNext
    <3>1. WriterOk(rtmpWriter')
      BY <2>2, WriterStep DEF AvInv
    <3>2. ffMuxer' = ffMuxer
      BY <2>2 DEF RtmpWriterNext
    <3>. QED  BY <3>1, <3>2 DEF AvInv
  <2>3. CASE UNCHANGED ffmpegMuxersVars
    BY <2>3 DEF ffmpegMuxersVars, AvInv
  <2>. QED  BY <2>1, <2>2, <2>3
<1>3. AvInv => PacketsOnTheirStreams
  BY DEF AvInv, MuxerOk, WriterOk, PacketsOnTheirStreams
<1>. QED  BY <1>1, <1>2, <1>3, PTL DEF FfmpegMuxersSpec

-----------------------------------------------------------------------------
(* SnyDataBuffer.                                                              *)
Byte == 0..255
HandleRecords == [block : Blocks \cup {NoBlock}, offset : Int, length : Nat]
BlockRecords == [bytes : Seq(Byte), refs : Nat]

Held(at, b) == {h \in Handles : at[h].block = b}
InUse(in) == {b \in Blocks : in[b].refs > 0}

(* BlocksAreCounted, of any handles, blocks and count: what lies between the   *)
(* parts of a call too.                                                        *)
HandlesCounted(at, in, count) ==
  /\ at \in [Handles -> HandleRecords] /\ in \in [Blocks -> BlockRecords]
  /\ \A b \in Blocks : in[b].refs = Cardinality(Held(at, b))
  /\ count = Cardinality(InUse(in))

BufferInv == HandlesCounted(handles, blocks, global_ref_count_)

On(d, b) == IF d.block = b THEN 1 ELSE 0
Alive(e) == IF e.refs > 0 THEN 1 ELSE 0

(* One element more or less.                                                   *)
LEMMA OneMoves ==
  ASSUME NEW S, IsFiniteSet(S), NEW x, NEW T, S \ {x} = T \ {x},
         NEW was, was = IF x \in S THEN 1 ELSE 0, NEW is, is = IF x \in T THEN 1 ELSE 0
  PROVE  /\ Cardinality(T) = Cardinality(S) + is - was
         /\ Cardinality(S) \in Nat
<1>. DEFINE R == S \ {x}
<1>1. /\ IsFiniteSet(R) /\ x \notin R
      /\ (x \in S => S = R \cup {x}) /\ (x \notin S => S = R)
      /\ (x \in T => T = R \cup {x}) /\ (x \notin T => T = R)
  <2>1. IsFiniteSet(R)
    BY FS_RemoveElement
  <2>. QED  BY <2>1
<1>. HIDE DEF R
<1>2. Cardinality(R) \in Nat /\ Cardinality(R \cup {x}) = Cardinality(R) + 1
  BY <1>1, FS_CardinalityType, FS_AddElement
<1>3. Cardinality(S) = Cardinality(R) + was /\ was \in {0, 1}
  <2>1. CASE x \in S
    <3>1. Cardinality(S) = Cardinality(R \cup {x})
      BY <1>1, <2>1, Zenon
    <3>. QED  BY <1>2, <2>1, <3>1
  <2>2. CASE x \notin S
    <3>1. Cardinality(S) = Cardinality(R)
      BY <1>1, <2>2, Zenon
    <3>. QED  BY <1>2, <2>2, <3>1
  <2>. QED  BY <2>1, <2>2
<1>4. Cardinality(T) = Cardinality(R) + is /\ is \in {0, 1}
  <2>1. CASE x \in T
    <3>1. Cardinality(T) = Cardinality(R \cup {x})
      BY <1>1, <2>1, Zenon
    <3>. QED  BY <1>2, <2>1, <3>1
  <2>2. CASE x \notin T
    <3>1. Cardinality(T) = Cardinality(R)
      BY <1>1, <2>2, Zenon
    <3>. QED  BY <1>2, <2>2, <3>1
  <2>. QED  BY <2>1, <2>2
<1>. QED  BY <1>2, <1>3, <1>4

(* A handle goes from one block, or from none, to another.                     *)
LEMMA HandleMoves ==
  ASSUME NEW at \in [Handles -> HandleRecords], NEW h \in Handles, NEW d \in HandleRecords,
         NEW b \in Blocks
  PROVE  /\ Cardinality(Held(at, b)) \in Nat
         /\ Cardinality(Held([at EXCEPT ![h] = d], b))
              = Cardinality(Held(at, b)) + On(d, b) - On(at[h], b)
<1>. DEFINE S == Held(at, b)
            T == Held([at EXCEPT ![h] = d], b)
            was == On(at[h], b)
            is == On(d, b)
<1>1. IsFiniteSet(S) /\ Cardinality(S) \in Nat
  <2>1. S \subseteq Handles
    BY DEF Held
  <2>. HIDE DEF S
  <2>. QED  BY <2>1, DataBufferAssumption, FS_Subset, FS_CardinalityType
<1>2. S \ {h} = T \ {h}
  BY DEF Held
<1>3. was = (IF h \in S THEN 1 ELSE 0) /\ is = (IF h \in T THEN 1 ELSE 0)
  BY DEF Held, On
<1>. HIDE DEF S, T, was, is
<1>4. Cardinality(T) = Cardinality(S) + is - was
  BY <1>1, <1>2, <1>3, OneMoves
<1>. QED  BY <1>1, <1>4 DEF S, T, was, is

(* A block changes: the count of blocks in use moves with its own.             *)
LEMMA BlockChanges ==
  ASSUME NEW in \in [Blocks -> BlockRecords], NEW b \in Blocks, NEW e \in BlockRecords
  PROVE  Cardinality(InUse([in EXCEPT ![b] = e]))
           = Cardinality(InUse(in)) + Alive(e) - Alive(in[b])
<1>. DEFINE S == InUse(in)
            T == InUse([in EXCEPT ![b] = e])
            was == Alive(in[b])
            is == Alive(e)
<1>1. IsFiniteSet(S)
  <2>1. S \subseteq Blocks
    BY DEF InUse
  <2>. HIDE DEF S
  <2>. QED  BY <2>1, DataBufferAssumption, FS_Subset
<1>2. S \ {b} = T \ {b}
  BY DEF InUse
<1>3. was = (IF b \in S THEN 1 ELSE 0) /\ is = (IF b \in T THEN 1 ELSE 0)
  BY DEF InUse, Alive
<1>. HIDE DEF S, T, was, is
<1>4. Cardinality(T) = Cardinality(S) + is - was
  BY <1>1, <1>2, <1>3, OneMoves
<1>. QED  BY <1>4 DEF S, T, was, is

(* A handle moves onto a block that nobody else changes, or off it, or both.   *)
LEMMA OnBlock ==
  ASSUME NEW at, NEW in, NEW count, HandlesCounted(at, in, count),
         NEW h \in Handles, NEW d \in HandleRecords, NEW b \in Blocks, NEW e \in BlockRecords,
         at[h].block \in {NoBlock, b}, d.block \in {NoBlock, b},
         e.refs = in[b].refs + On(d, b) - On(at[h], b),
         NEW c2, c2 = count + Alive(e) - Alive(in[b])
  PROVE  HandlesCounted([at EXCEPT ![h] = d], [in EXCEPT ![b] = e], c2)
<1>. DEFINE at2 == [at EXCEPT ![h] = d]
            in2 == [in EXCEPT ![b] = e]
<1>1. at \in [Handles -> HandleRecords] /\ in \in [Blocks -> BlockRecords]
  BY DEF HandlesCounted
<1>2. at2 \in [Handles -> HandleRecords] /\ in2 \in [Blocks -> BlockRecords]
  BY <1>1
<1>3. ASSUME NEW x \in Blocks PROVE in2[x].refs = Cardinality(Held(at2, x))
  <2>1. Cardinality(Held(at2, x)) = Cardinality(Held(at, x)) + On(d, x) - On(at[h], x)
    BY <1>1, HandleMoves
  <2>2. Cardinality(Held(at, x)) = in[x].refs /\ in[x].refs \in Nat
    BY <1>1 DEF HandlesCounted, BlockRecords
  <2>3. CASE x = b
    BY <1>1, <2>1, <2>2, <2>3
  <2>4. CASE x # b
    <3>1. On(d, x) = 0 /\ On(at[h], x) = 0
      BY <2>4, DataBufferAssumption, Zenon DEF On
    <3>2. in2[x] = in[x]
      BY <1>1, <2>4
    <3>. QED  BY <2>1, <2>2, <3>1, <3>2
  <2>. QED  BY <2>3, <2>4
<1>4. c2 = Cardinality(InUse(in2))
  <2>1. count = Cardinality(InUse(in))
    BY DEF HandlesCounted
  <2>. QED  BY <1>1, <2>1, BlockChanges
<1>. QED  BY <1>2, <1>3, <1>4, Zenon DEF HandlesCounted

(* A handle that is on no block stays on none.                                 *)
LEMMA OffBlocks ==
  ASSUME NEW at, NEW in, NEW count, HandlesCounted(at, in, count),
         NEW h \in Handles, NEW d \in HandleRecords, at[h].block = NoBlock, d.block = NoBlock
  PROVE  HandlesCounted([at EXCEPT ![h] = d], in, count)
<1>. DEFINE at2 == [at EXCEPT ![h] = d]
<1>1. at \in [Handles -> HandleRecords] /\ in \in [Blocks -> BlockRecords]
  BY DEF HandlesCounted
<1>2. at2 \in [Handles -> HandleRecords]
  BY <1>1
<1>3. \A b \in Blocks : Held(at2, b) = Held(at, b)
  BY <1>1, DataBufferAssumption DEF Held
<1>. QED  BY <1>1, <1>2, <1>3 DEF HandlesCounted

(* releaseData.                                                                *)
LEMMA Let ==
  ASSUME BufferInv, NEW h \in Handles
  PROVE  /\ HandlesCounted(AfterRelease(h).at, AfterRelease(h).in, AfterRelease(h).count)
         /\ AfterRelease(h).at = [handles EXCEPT ![h] = Released]
         /\ \A b \in Blocks : b # handles[h].block => AfterRelease(h).in[b] = blocks[b]
<1>. DEFINE b == handles[h].block
            d == Released
            last == b # NoBlock /\ blocks[b].refs = 1
<1>1. /\ handles \in [Handles -> HandleRecords] /\ blocks \in [Blocks -> BlockRecords]
      /\ Released \in HandleRecords /\ d.block = NoBlock /\ d.offset = -1
      /\ global_ref_count_ \in Int
  <2>1. handles \in [Handles -> HandleRecords] /\ blocks \in [Blocks -> BlockRecords]
        /\ Released \in HandleRecords /\ d.block = NoBlock /\ d.offset = -1
    BY DEF BufferInv, HandlesCounted, Released, HandleRecords
  <2>2. global_ref_count_ \in Nat
    <3>. DEFINE S == InUse(blocks)
    <3>1. S \subseteq Blocks /\ global_ref_count_ = Cardinality(S)
      BY DEF BufferInv, HandlesCounted, InUse
    <3>. HIDE DEF S
    <3>. QED  BY <3>1, DataBufferAssumption, FS_Subset, FS_CardinalityType
  <2>. QED  BY <2>1, <2>2
<1>2. AfterRelease(h).at = [handles EXCEPT ![h] = d]
  BY DEF AfterRelease
<1>. HIDE DEF d
<1>3. CASE b = NoBlock
  <2>1. AfterRelease(h).in = blocks /\ AfterRelease(h).count = global_ref_count_
    BY <1>1, <1>3 DEF AfterRelease
  <2>2. HandlesCounted([handles EXCEPT ![h] = d], blocks, global_ref_count_)
    BY <1>1, <1>3, OffBlocks DEF BufferInv, d
  <2>. QED  BY <1>2, <2>1, <2>2 DEF d
<1>4. CASE b # NoBlock
  <2>. DEFINE e == IF last THEN Unused ELSE [blocks[b] EXCEPT !.refs = @ - 1]
  <2>1. b \in Blocks /\ blocks[b] \in BlockRecords
    BY <1>1, <1>4 DEF HandleRecords
  <2>2. blocks[b].refs \in Nat /\ blocks[b].refs > 0
    <3>. DEFINE S == Held(handles, b)
    <3>1. S \subseteq Handles /\ h \in S /\ blocks[b].refs = Cardinality(S)
      BY <2>1 DEF Held, BufferInv, HandlesCounted
    <3>. HIDE DEF S
    <3>2. S # {}
      BY <3>1
    <3>3. Cardinality(S) \in Nat /\ Cardinality(S) # 0
      BY <3>1, <3>2, DataBufferAssumption, FS_Subset, FS_CardinalityType, FS_EmptySet
    <3>. QED  BY <3>1, <3>3
  <2>3. e \in BlockRecords /\ e.refs = blocks[b].refs - 1
    BY <1>4, <2>1, <2>2 DEF BlockRecords, Unused
  <2>5. AfterRelease(h).in = [blocks EXCEPT ![b] = e]
    BY <1>1, <1>4, <2>1 DEF AfterRelease
  <2>6. AfterRelease(h).count = global_ref_count_ + Alive(e) - Alive(blocks[b])
    BY <1>1, <1>4, <2>2, <2>3 DEF AfterRelease, Alive
  <2>7. On(d, b) = 0 /\ On(handles[h], b) = 1
    BY <1>1, <1>4 DEF On
  <2>. HIDE DEF e
  <2>. DEFINE c2 == AfterRelease(h).count
  <2>8. e.refs = blocks[b].refs + On(d, b) - On(handles[h], b)
    BY <2>2, <2>3, <2>7
  <2>9. d \in HandleRecords /\ (d.block = b => FALSE) /\ c2 = global_ref_count_ + Alive(e) - Alive(blocks[b])
    BY <1>1, <1>4, <2>6 DEF d
  <2>. HIDE DEF c2, b
  <2>10. handles[h].block \in {NoBlock, b} /\ d.block \in {NoBlock, b}
    BY <1>1 DEF b
  <2>11. HandlesCounted([handles EXCEPT ![h] = d], [blocks EXCEPT ![b] = e], c2)
    BY <2>1, <2>3, <2>8, <2>9, <2>10, OnBlock DEF BufferInv
  <2>12. \A x \in Blocks : x # b => AfterRelease(h).in[x] = blocks[x]
    BY <1>1, <2>5
  <2>. QED  BY <1>2, <2>5, <2>11, <2>12 DEF c2, b, d
<1>. QED  BY <1>3, <1>4

(* The handle that has let go takes a part of a block that another one is on.  *)
LEMMA Joins ==
  ASSUME BufferInv, NEW h \in Handles, NEW d \in HandleRecords,
         Becomes(AfterRelease(h), h, d),
         d.block # NoBlock => \E s \in Handles : AfterRelease(h).at[s].block = d.block
  PROVE  BufferInv'
<1>. DEFINE at == AfterRelease(h).at
            in == AfterRelease(h).in
            count == AfterRelease(h).count
            b == d.block
<1>1. HandlesCounted(at, in, count) /\ at[h].block = NoBlock /\ at[h] = Released
  <2>1. HandlesCounted(at, in, count) /\ at = [handles EXCEPT ![h] = Released]
    BY Let
  <2>2. at[h] = Released
    BY <2>1 DEF BufferInv, HandlesCounted
  <2>. QED  BY <2>1, <2>2 DEF Released
<1>2. /\ handles' = [at EXCEPT ![h] = d]
      /\ blocks' = IF b = NoBlock THEN in ELSE [in EXCEPT ![b].refs = @ + 1]
      /\ global_ref_count_' = count
  BY DEF Becomes
<1>. HIDE DEF at, in, count
<1>3. CASE b = NoBlock
  <2>1. HandlesCounted([at EXCEPT ![h] = d], in, count)
    BY <1>1, <1>3, OffBlocks
  <2>. QED  BY <1>2, <1>3, <2>1 DEF BufferInv
<1>4. CASE b # NoBlock
  <2>. DEFINE e == [in[b] EXCEPT !.refs = @ + 1]
  <2>1. b \in Blocks /\ at \in [Handles -> HandleRecords] /\ in \in [Blocks -> BlockRecords]
    BY <1>1, <1>4 DEF HandlesCounted, HandleRecords
  <2>2. e \in BlockRecords /\ e.refs = in[b].refs + 1 /\ e.bytes = in[b].bytes
    <3>. DEFINE old == in[b]
    <3>1. old \in BlockRecords
      BY <2>1
    <3>. HIDE DEF old
    <3>2. [old EXCEPT !.refs = @ + 1] \in BlockRecords
      BY <3>1 DEF BlockRecords
    <3>. QED  BY <3>1, <3>2 DEF BlockRecords, old
  <2>3. in[b].refs > 0 /\ in[b].refs \in Nat
    <3>. DEFINE S == Held(at, b)
    <3>1. S \subseteq Handles /\ S # {} /\ in[b].refs = Cardinality(S)
      BY <1>1, <1>4, <2>1 DEF Held, HandlesCounted, at
    <3>. HIDE DEF S
    <3>2. Cardinality(S) \in Nat /\ Cardinality(S) # 0
      BY <3>1, DataBufferAssumption, FS_Subset, FS_CardinalityType, FS_EmptySet
    <3>. QED  BY <3>1, <3>2
  <2>4. On(d, b) = 1 /\ On(at[h], b) = 0 /\ Alive(e) = 1 /\ Alive(in[b]) = 1
    BY <1>1, <1>4, <2>2, <2>3 DEF On, Alive
  <2>5. count = Cardinality(InUse(in)) /\ count \in Nat
    <3>. DEFINE S == InUse(in)
    <3>1. S \subseteq Blocks /\ count = Cardinality(S)
      BY <1>1 DEF HandlesCounted, InUse
    <3>. HIDE DEF S
    <3>2. count \in Nat
      BY <3>1, DataBufferAssumption, FS_Subset, FS_CardinalityType
    <3>. QED  BY <3>1, <3>2 DEF S
  <2>6. e.refs = in[b].refs + On(d, b) - On(at[h], b) /\ count = count + Alive(e) - Alive(in[b])
    BY <2>2, <2>3, <2>4, <2>5
  <2>8. blocks' = [in EXCEPT ![b] = e]
    BY <1>2, <1>4, <2>1
  <2>. HIDE DEF e
  <2>9. at[h].block \in {NoBlock, b} /\ d.block \in {NoBlock, b}
    BY <1>1
  <2>. HIDE DEF b
  <2>10. HandlesCounted([at EXCEPT ![h] = d], [in EXCEPT ![b] = e], count)
    BY <1>1, <2>1, <2>2, <2>6, <2>9, OnBlock
  <2>. QED  BY <1>2, <2>8, <2>10 DEF BufferInv
<1>. QED  BY <1>3, <1>4

(* The handle that has let go gets a block of its own.                         *)
LEMMA Allocates ==
  ASSUME BufferInv, NEW h \in Handles, NEW bytes \in Seq(Byte),
         Allocate(AfterRelease(h), h, bytes)
  PROVE  BufferInv'
<1>. DEFINE at == AfterRelease(h).at
            in == AfterRelease(h).in
            count == AfterRelease(h).count
            b == CHOOSE x \in UnusedBlocks : TRUE
            d == [Released EXCEPT !.block = b]
            e == [bytes |-> bytes, refs |-> 1]
<1>1. /\ HandlesCounted(at, in, count) /\ at = [handles EXCEPT ![h] = Released] /\ at[h] = Released
      /\ at[h].block = NoBlock /\ \A x \in Blocks : x # handles[h].block => in[x] = blocks[x]
  <2>1. /\ HandlesCounted(at, in, count) /\ at = [handles EXCEPT ![h] = Released]
        /\ \A x \in Blocks : x # handles[h].block => in[x] = blocks[x]
    BY Let
  <2>2. at[h] = Released
    BY <2>1 DEF BufferInv, HandlesCounted
  <2>. QED  BY <2>1, <2>2 DEF Released
<1>2. /\ handles' = [at EXCEPT ![h] = d] /\ blocks' = [in EXCEPT ![b] = e]
      /\ global_ref_count_' = count + 1
  BY DEF Allocate
<1>3. b \in UnusedBlocks
  BY DEF Allocate
<1>. HIDE DEF at, in, count, b
<1>4. b \in Blocks /\ blocks[b].refs = 0
  BY <1>3 DEF UnusedBlocks
<1>5. b # handles[h].block
  <2>1. SUFFICES ASSUME b = handles[h].block PROVE FALSE
    OBVIOUS
  <2>. DEFINE S == Held(handles, b)
  <2>2. S \subseteq Handles /\ h \in S /\ Cardinality(S) = 0
    BY <1>4, <2>1 DEF Held, BufferInv, HandlesCounted
  <2>. HIDE DEF S
  <2>3. S = {}
    BY <2>2, DataBufferAssumption, FS_Subset, FS_EmptySet
  <2>. QED  BY <2>2, <2>3
<1>6. in[b] = blocks[b] /\ in[b].refs = 0
  BY <1>1, <1>4, <1>5
<1>7. d \in HandleRecords /\ d.block = b /\ d.offset = -1
  BY <1>4 DEF Released, HandleRecords
<1>8. e \in BlockRecords /\ e.refs = 1
  BY DEF BlockRecords
<1>. HIDE DEF d, e
<1>9. On(d, b) = 1 /\ On(at[h], b) = 0 /\ Alive(e) = 1 /\ Alive(in[b]) = 0
  BY <1>1, <1>4, <1>6, <1>7, <1>8, DataBufferAssumption DEF On, Alive
<1>10. count \in Nat
  <2>. DEFINE S == InUse(in)
  <2>1. S \subseteq Blocks /\ count = Cardinality(S)
    BY <1>1 DEF HandlesCounted, InUse
  <2>. HIDE DEF S
  <2>. QED  BY <2>1, DataBufferAssumption, FS_Subset, FS_CardinalityType
<1>. DEFINE c2 == count + 1
<1>11. /\ e.refs = in[b].refs + On(d, b) - On(at[h], b) /\ c2 = count + Alive(e) - Alive(in[b])
  BY <1>6, <1>7, <1>8, <1>9, <1>10
<1>12. at[h].block \in {NoBlock, b} /\ d.block \in {NoBlock, b}
  BY <1>1, <1>7
<1>13. global_ref_count_' = c2
  BY <1>2
<1>. HIDE DEF c2
<1>14. HandlesCounted([at EXCEPT ![h] = d], [in EXCEPT ![b] = e], c2)
  BY <1>1, <1>4, <1>6, <1>7, <1>8, <1>11, <1>12, OnBlock
<1>. QED  BY <1>2, <1>13, <1>14 DEF BufferInv

(* What a handle in its block shows is bytes.                                  *)
LEMMA BytesShown ==
  ASSUME BufferInv, NEW h \in Handles, InBlock(h)
  PROVE  BufferBytes(h) \in Seq(Byte)
<1>. DEFINE d == handles[h]
            s == blocks[d.block].bytes
<1>1. d \in HandleRecords /\ (d.block # NoBlock => s \in Seq(Byte))
  BY DEF BufferInv, HandlesCounted, HandleRecords, BlockRecords
<1>2. CASE d.block = NoBlock
  <2>1. BufferBytes(h) = <<>>
    BY <1>2, Zenon DEF BufferBytes
  <2>. QED  BY <2>1
<1>3. CASE d.block # NoBlock /\ d.offset >= 0
  <2>. DEFINE m == d.offset + 1
              n == d.offset + d.length
  <2>1. BufferBytes(h) = SubSeq(s, m, n)
    BY <1>3, Zenon DEF BufferBytes
  <2>2. m \in Int /\ n \in Int /\ 1 <= m /\ n <= Len(s) /\ s \in Seq(Byte)
    BY <1>1, <1>3 DEF HandleRecords, InBlock
  <2>. HIDE DEF m, n, s
  <2>3. \A i \in m..n : s[i] \in Byte
    BY <2>2, ElementOfSeq
  <2>4. SubSeq(s, m, n) \in Seq(Byte)
    BY <2>2, <2>3, SubSeqProperties
  <2>. QED  BY <2>1, <2>4
<1>4. CASE d.block # NoBlock /\ ~(d.offset >= 0)
  <2>1. BufferBytes(h) = s
    BY <1>4, Zenon DEF BufferBytes
  <2>. QED  BY <1>1, <1>4, <2>1
<1>. QED  BY <1>2, <1>3, <1>4

(* One step of any handle.                                                     *)
LEMMA BufferStep ==
  ASSUME BufferInv, DataBufferNext
  PROVE  BufferInv'
<1>. USE DEF Byte
<1>1. Released \in HandleRecords /\ Released.block = NoBlock /\ Released.offset = -1
  BY DEF Released, HandleRecords
<1>2. ASSUME NEW h \in Handles, AssignBytes(h) PROVE BufferInv'
  <2>1. ASSUME NEW bytes \in Loads, Allocate(AfterRelease(h), h, bytes) PROVE BufferInv'
    BY <2>1, DataBufferAssumption, Allocates
  <2>2. ASSUME NEW n \in 0..MaxBlockSize, Allocate(AfterRelease(h), h, Zeroes(n)) PROVE BufferInv'
    <3>1. Zeroes(n) \in Seq(Byte)
      BY DataBufferAssumption DEF Zeroes
    <3>. QED  BY <2>2, <3>1, Allocates
  <2>. QED  BY <1>2, <2>1, <2>2 DEF AssignBytes
<1>3. ASSUME NEW h \in Handles, ClearBuffer(h) PROVE BufferInv'
  BY <1>1, <1>3, Joins DEF ClearBuffer
<1>4. ASSUME NEW h \in Handles, NEW s \in Handles, AssignBuffer(h, s) PROVE BufferInv'
  <2>. DEFINE at == AfterRelease(h).at
              d == at[s]
  <2>1. d \in HandleRecords
    BY Let DEF HandlesCounted
  <2>. QED  BY <1>4, <2>1, Joins DEF AssignBuffer
<1>5. ASSUME NEW h \in Handles, NEW s \in Handles, SubDataOf(h, s) PROVE BufferInv'
  <2>. DEFINE b == AfterRelease(h).at[s].block
  <2>1. AfterRelease(h).at \in [Handles -> HandleRecords]
    BY Let DEF HandlesCounted
  <2>2. PICK offset \in -1..MaxBlockSize, n \in 0..MaxBlockSize :
          Becomes(AfterRelease(h), h, IF b = NoBlock THEN Released
                                      ELSE [block |-> b, offset |-> offset, length |-> n])
    BY <1>5 DEF SubDataOf
  <2>. DEFINE d == IF b = NoBlock THEN Released
                   ELSE [block |-> b, offset |-> offset, length |-> n]
  <2>3. b \in Blocks \cup {NoBlock} /\ offset \in Int /\ n \in Nat
    BY <2>1, DataBufferAssumption DEF HandleRecords
  <2>. HIDE DEF b
  <2>4. d \in HandleRecords /\ (d.block # NoBlock => d.block = b)
    BY <1>1, <2>3 DEF HandleRecords
  <2>. HIDE DEF d
  <2>5. Becomes(AfterRelease(h), h, d)
    BY <2>2 DEF d
  <2>. QED  BY <2>4, <2>5, Joins DEF b
<1>6. ASSUME NEW h \in Handles, AppendTo(h) PROVE BufferInv'
  <2>1. PICK bytes \in Loads \cup {BufferBytes(s) : s \in {s \in Handles : InBlock(s)}} :
          Allocate(AfterRelease(h), h, BufferBytes(h) \o bytes)
    BY <1>6 DEF AppendTo
  <2>4. InBlock(h)
    BY <1>6 DEF AppendTo
  <2>2. bytes \in Seq(Byte)
    BY DataBufferAssumption, BytesShown
  <2>3. BufferBytes(h) \o bytes \in Seq(Byte)
    BY <2>2, <2>4, BytesShown, ConcatProperties
  <2>. QED  BY <2>1, <2>3, Allocates
<1>7. ASSUME NEW h \in Handles, NEW s \in Handles, CloneTo(h, s) PROVE BufferInv'
  BY <1>7, BytesShown, Allocates DEF CloneTo
<1>8. ASSUME NEW h \in Handles, Fill(h) PROVE BufferInv'
  <2>. DEFINE b == handles[h].block
              old == blocks[b].bytes
              from == IF handles[h].offset >= 0 THEN handles[h].offset ELSE 0
              new == [i \in DOMAIN old |-> IF i \in from + 1..from + BufferSize(h) THEN 9 ELSE old[i]]
  <2>1. /\ handles \in [Handles -> HandleRecords] /\ blocks \in [Blocks -> BlockRecords]
        /\ b \in Blocks
    BY <1>8 DEF Fill, BufferInv, HandlesCounted, HandleRecords
  <2>2. old \in Seq(Byte) /\ Len(old) \in Nat
    BY <2>1 DEF BlockRecords
  <2>3. new \in Seq(Byte) /\ Len(new) = Len(old)
    <3>. DEFINE n == Len(old)
                Hit(i) == i \in from + 1..from + BufferSize(h)
    <3>. HIDE DEF old, Byte
    <3>1. DOMAIN old = 1..n /\ n \in Nat /\ \A i \in 1..n : old[i] \in Byte
      BY <2>2, ElementOfSeq
    <3>2. new = [i \in 1..n |-> IF Hit(i) THEN 9 ELSE old[i]]
      BY <3>1
    <3>. HIDE DEF n, old, new, Hit
    <3>3. \A i \in 1..n : (IF Hit(i) THEN 9 ELSE old[i]) \in Byte
      BY <3>1 DEF Byte
    <3>4. new \in [1..n -> Byte]
      BY <3>2, <3>3
    <3>5. new \in Seq(Byte) /\ Len(new) = n
      BY <3>1, <3>4
    <3>. QED  BY <3>5 DEF n
  <2>. HIDE DEF old, new
  <2>4. blocks' = [blocks EXCEPT ![b].bytes = new] /\ handles' = handles
        /\ global_ref_count_' = global_ref_count_
    BY <1>8 DEF Fill, old, new
  <2>5. /\ blocks' \in [Blocks -> BlockRecords]
        /\ \A x \in Blocks : blocks'[x].refs = blocks[x].refs
    BY <2>1, <2>3, <2>4 DEF BlockRecords, old
  <2>6. InUse(blocks') = InUse(blocks)
    BY <2>5 DEF InUse
  <2>. QED  BY <2>4, <2>5, <2>6 DEF BufferInv, HandlesCounted
<1>9. ASSUME NEW h \in Handles, NEW s \in Handles, AssignFrom(h, s) PROVE BufferInv'
  <2>. DEFINE overwritten == [i \in 1..BufferSize(s) |-> 9]
  <2>1. BufferBytes(s) \in Seq(Byte)
    BY <1>9, BytesShown DEF AssignFrom
  <2>2. overwritten \in Seq(Byte)
    <3>. DEFINE n == BufferSize(s)
    <3>1. n \in Nat
      <4>. DEFINE d == handles[s]
      <4>1. d \in HandleRecords /\ (d.block # NoBlock => blocks[d.block].bytes \in Seq(Byte))
        BY DEF BufferInv, HandlesCounted, HandleRecords, BlockRecords
      <4>2. n = 0 \/ n = d.length \/ (d.block # NoBlock /\ n = Len(blocks[d.block].bytes))
        BY DEF BufferSize
      <4>. QED  BY <4>1, <4>2, LenProperties DEF HandleRecords
    <3>2. \A m \in Nat : [i \in 1..m |-> 9] \in Seq(Byte)
      OBVIOUS
    <3>. HIDE DEF Byte
    <3>. QED  BY <3>1, <3>2
  <2>. HIDE DEF overwritten
  <2>3. \/ Allocate(AfterRelease(h), h, BufferBytes(s))
        \/ Allocate(AfterRelease(h), h, overwritten)
    BY <1>9 DEF AssignFrom, overwritten
  <2>. QED  BY <2>1, <2>2, <2>3, Allocates
<1>. QED  BY <1>2, <1>3, <1>4, <1>5, <1>6, <1>7, <1>8, <1>9 DEF DataBufferNext

LEMMA BufferBegins == DataBufferInit => BufferInv
<1>. SUFFICES ASSUME DataBufferInit PROVE BufferInv
  OBVIOUS
<1>1. handles \in [Handles -> HandleRecords] /\ blocks \in [Blocks -> BlockRecords]
  BY DEF DataBufferInit, Released, Unused, HandleRecords, BlockRecords
<1>2. \A b \in Blocks : Held(handles, b) = {} /\ blocks[b].refs = 0
  BY DataBufferAssumption DEF DataBufferInit, Held, Released, Unused
<1>3. InUse(blocks) = {} /\ global_ref_count_ = 0
  BY <1>2 DEF InUse, DataBufferInit
<1>4. Cardinality({}) = 0
  BY FS_EmptySet
<1>. QED  BY <1>1, <1>2, <1>3, <1>4 DEF BufferInv, HandlesCounted

LEMMA BufferInvariance == DataBufferSpec => []BufferInv
<1>1. BufferInv /\ [DataBufferNext]_dataBufferVars => BufferInv'
  <2>1. BufferInv /\ UNCHANGED dataBufferVars => BufferInv'
    BY DEF dataBufferVars, BufferInv
  <2>. QED  BY <2>1, BufferStep
<1>. QED  BY <1>1, BufferBegins, PTL DEF DataBufferSpec

(* However the handles are copied, cut, appended to, assigned to themselves    *)
(* and from their own bytes, every block is counted by the handles on it.      *)
THEOREM BlocksCounted == DataBufferSpec => []BlocksAreCounted
<1>1. BufferInv => BlocksAreCounted
  BY DEF BufferInv, HandlesCounted, Held, InUse, BlocksAreCounted
<1>. QED  BY <1>1, BufferInvariance, PTL

(* What lets go of a block leaves the bytes under the other handles on it.     *)
LEMMA OthersOnBlock ==
  ASSUME BufferInv, NEW h \in Handles, NEW g \in Handles, g # h, handles[g].block # NoBlock
  PROVE  LET c == handles[g].block
         IN /\ c \in Blocks /\ blocks[c].refs # 0
            /\ AfterRelease(h).in[c].bytes = blocks[c].bytes
<1>. DEFINE c == handles[g].block
            b == handles[h].block
<1>1. /\ handles \in [Handles -> HandleRecords] /\ blocks \in [Blocks -> BlockRecords]
      /\ c \in Blocks /\ blocks[c].refs = Cardinality(Held(handles, c))
  BY DEF BufferInv, HandlesCounted, HandleRecords
<1>2. IsFiniteSet(Held(handles, c)) /\ g \in Held(handles, c)
  <2>1. Held(handles, c) \subseteq Handles
    BY DEF Held
  <2>. QED  BY <2>1, DataBufferAssumption, FS_Subset DEF Held
<1>3. blocks[c].refs # 0
  BY <1>1, <1>2, FS_EmptySet
<1>4. CASE b = c
  <2>. DEFINE S == Held(handles, c)
  <2>1. h \in S /\ g \in S /\ IsFiniteSet(S) /\ blocks[c].refs = Cardinality(S)
    BY <1>1, <1>2, <1>4 DEF Held
  <2>. HIDE DEF S
  <2>2. Cardinality(S) # 1
    <3>1. SUFFICES ASSUME Cardinality(S) = 1 PROVE FALSE
      OBVIOUS
    <3>2. PICK x : S = {x}
      BY <2>1, <3>1, FS_Singleton
    <3>. QED  BY <2>1, <3>2
  <2>3. AfterRelease(h).in = [blocks EXCEPT ![b].refs = @ - 1]
    BY <1>1, <1>4, <2>1, <2>2, DataBufferAssumption DEF AfterRelease
  <2>4. AfterRelease(h).in[c] = [blocks[c] EXCEPT !.refs = @ - 1]
    BY <1>1, <1>4, <2>3
  <2>5. AfterRelease(h).in[c].bytes = blocks[c].bytes
    BY <1>1, <2>4 DEF BlockRecords
  <2>. QED  BY <1>1, <1>3, <2>5
<1>5. CASE b # c
  BY <1>1, <1>3, <1>5, Let
<1>. QED  BY <1>4, <1>5

(* A handle whose place and bytes stay shows the same.                         *)
LEMMA ShowsTheSame ==
  ASSUME NEW g \in Handles, handles'[g] = handles[g], InBlock(g),
         handles[g].block # NoBlock
           => blocks'[handles[g].block].bytes = blocks[handles[g].block].bytes
  PROVE  InBlock(g)' /\ BufferBytes(g)' = BufferBytes(g)
<1>1. InBlock(g)'
  BY DEF InBlock
<1>2. BufferBytes(g)' = BufferBytes(g)
  <2>1. CASE handles[g].block = NoBlock
    BY <2>1, Zenon DEF BufferBytes
  <2>2. CASE handles[g].block # NoBlock
    BY <2>2, Zenon DEF BufferBytes
  <2>. QED  BY <2>1, <2>2
<1>. QED  BY <1>1, <1>2

(* The handle h becomes another or gets a block: only its record changes, and  *)
(* the bytes of no block that another handle is on.                            *)
LEMMA OthersKept ==
  ASSUME BufferInv, NEW h \in Handles,
         \/ \E d : Becomes(AfterRelease(h), h, d) /\ d.block \in Blocks \cup {NoBlock}
         \/ \E bytes : Allocate(AfterRelease(h), h, bytes),
         NEW g \in Handles, handles' # handles, handles'[g] = handles[g], InBlock(g)
  PROVE  InBlock(g)' /\ BufferBytes(g)' = BufferBytes(g)
<1>. DEFINE at == AfterRelease(h).at
            in == AfterRelease(h).in
<1>1. /\ at = [handles EXCEPT ![h] = Released] /\ in \in [Blocks -> BlockRecords]
      /\ handles \in [Handles -> HandleRecords]
  BY Let DEF HandlesCounted, BufferInv
<1>2. g # h
  <2>1. \E d : handles' = [handles EXCEPT ![h] = d]
    BY <1>1 DEF Becomes, Allocate
  <2>. QED  BY <1>1, <2>1
<1>3. ASSUME handles[g].block # NoBlock
      PROVE  blocks'[handles[g].block].bytes = blocks[handles[g].block].bytes
  <2>. DEFINE c == handles[g].block
  <2>1. c \in Blocks /\ blocks[c].refs # 0 /\ in[c].bytes = blocks[c].bytes
    BY <1>2, <1>3, OthersOnBlock
  <2>. HIDE DEF in, c
  <2>2. ASSUME NEW d, Becomes(AfterRelease(h), h, d), d.block \in Blocks \cup {NoBlock}
        PROVE  blocks'[c].bytes = in[c].bytes
    <3>1. blocks' = IF d.block = NoBlock THEN in ELSE [in EXCEPT ![d.block].refs = @ + 1]
      BY <2>2 DEF Becomes, in
    <3>. QED  BY <1>1, <2>1, <2>2, <3>1 DEF BlockRecords
  <2>3. ASSUME NEW bytes, Allocate(AfterRelease(h), h, bytes)
        PROVE  blocks'[c].bytes = in[c].bytes
    <3>. DEFINE b == CHOOSE x \in UnusedBlocks : TRUE
    <3>1. b \in UnusedBlocks /\ blocks' = [in EXCEPT ![b] = [bytes |-> bytes, refs |-> 1]]
      BY <2>3 DEF Allocate, in
    <3>. HIDE DEF b
    <3>2. b # c
      BY <2>1, <3>1 DEF UnusedBlocks
    <3>. QED  BY <1>1, <2>1, <3>1, <3>2
  <2>. QED  BY <2>1, <2>2, <2>3 DEF c
<1>. QED  BY <1>3, ShowsTheSame

(* Whatever is done to one handle, the others keep the bytes they show.        *)
THEOREM BytesKept == DataBufferSpec => OthersKeepTheirBytes
<1>. DEFINE Kept == \A h \in Handles :
                      handles' # handles /\ handles'[h] = handles[h] /\ InBlock(h)
                        => InBlock(h)' /\ BufferBytes(h)' = BufferBytes(h)
<1>1. ASSUME BufferInv, DataBufferNext, handles' # handles PROVE Kept
  <2>1. PICK g \in Handles :
          \/ AssignBytes(g) \/ ClearBuffer(g) \/ AppendTo(g) \/ Fill(g)
          \/ \E s \in Handles :
               AssignBuffer(g, s) \/ SubDataOf(g, s) \/ CloneTo(g, s) \/ AssignFrom(g, s)
    BY <1>1 DEF DataBufferNext
  <2>2. AfterRelease(g).at \in [Handles -> HandleRecords] /\ Released \in HandleRecords
    <3>1. AfterRelease(g).at \in [Handles -> HandleRecords]
      BY <1>1, Let DEF HandlesCounted
    <3>2. Released \in HandleRecords
      BY DEF Released, HandleRecords
    <3>. QED  BY <3>1, <3>2
  <2>3. \/ \E d : Becomes(AfterRelease(g), g, d) /\ d.block \in Blocks \cup {NoBlock}
        \/ \E bytes : Allocate(AfterRelease(g), g, bytes)
    <3>1. CASE AssignBytes(g) \/ AppendTo(g)
      BY <3>1 DEF AssignBytes, AppendTo
    <3>2. CASE ClearBuffer(g)
      BY <2>2, <3>2 DEF ClearBuffer, HandleRecords
    <3>3. CASE Fill(g)
      BY <1>1, <3>3 DEF Fill
    <3>4. ASSUME NEW s \in Handles, CloneTo(g, s) \/ AssignFrom(g, s)
          PROVE  \E bytes : Allocate(AfterRelease(g), g, bytes)
      BY <3>4 DEF CloneTo, AssignFrom
    <3>5. ASSUME NEW s \in Handles, AssignBuffer(g, s)
          PROVE  \E d : Becomes(AfterRelease(g), g, d) /\ d.block \in Blocks \cup {NoBlock}
      <4>1. Becomes(AfterRelease(g), g, AfterRelease(g).at[s])
        BY <3>5 DEF AssignBuffer
      <4>2. AfterRelease(g).at[s].block \in Blocks \cup {NoBlock}
        BY <2>2 DEF HandleRecords
      <4>. QED  BY <4>1, <4>2
    <3>6. ASSUME NEW s \in Handles, SubDataOf(g, s)
          PROVE  \E d : Becomes(AfterRelease(g), g, d) /\ d.block \in Blocks \cup {NoBlock}
      <4>. DEFINE b == AfterRelease(g).at[s].block
      <4>1. b \in Blocks \cup {NoBlock}
        BY <2>2 DEF HandleRecords
      <4>2. PICK offset \in -1..MaxBlockSize, n \in 0..MaxBlockSize :
              Becomes(AfterRelease(g), g, IF b = NoBlock THEN Released
                                          ELSE [block |-> b, offset |-> offset, length |-> n])
        BY <3>6 DEF SubDataOf
      <4>. HIDE DEF b
      <4>. DEFINE d == IF b = NoBlock THEN Released
                       ELSE [block |-> b, offset |-> offset, length |-> n]
      <4>3. d.block \in Blocks \cup {NoBlock}
        BY <4>1 DEF Released
      <4>. HIDE DEF d
      <4>4. Becomes(AfterRelease(g), g, d)
        BY <4>2 DEF d
      <4>. QED  BY <4>3, <4>4
    <3>. QED  BY <2>1, <3>1, <3>2, <3>3, <3>4, <3>5, <3>6
  <2>. QED  BY <1>1, <2>3, OthersKept
<1>2. BufferInv /\ [DataBufferNext]_dataBufferVars => [Kept]_dataBufferVars
  BY <1>1 DEF dataBufferVars
<1>. HIDE DEF Kept
<1>3. DataBufferSpec => [][Kept]_dataBufferVars
  BY <1>2, BufferInvariance, PTL DEF DataBufferSpec
<1>. QED  BY <1>3 DEF OthersKeepTheirBytes, Kept

-----------------------------------------------------------------------------
(* FileDemuxer.                                                                *)

(* Extradata that an ADTS header can stand for: the frequency of index 12,     *)
(* 7350 Hz, gets the index of 8000 Hz, and eight channels or none cannot be    *)
(* told from seven or are refused by an assertion.                             *)
PlainConfigs ==
  \A path \in DOMAIN AvFiles : \A i \in DOMAIN AvFiles[path].streams :
    LET stream == AvFiles[path].streams[i]
    IN stream.codec = "aac" /\ stream.extra.size >= 2 =>
         stream.extra.config \in (1..31) \X (0..11) \X (1..7)

(* A frequency of the table but the last is found at its index.                *)
LEMMA FrequencyFound ==
  ASSUME NEW index \in 0..11
  PROVE  aac_get_index_by_sample_rate(aac_get_sample_rate_by_index(index)) = index
<1>. DEFINE rate == aac_get_sample_rate_by_index(index)
            I == {i \in 1..11 : RateLimits[i] <= rate}
            found == SelectInSeq(RateLimits, LAMBDA limit : limit <= rate)
<1>1. rate = SampleRates[index + 1]
  BY DEF aac_get_sample_rate_by_index
<1>. HIDE DEF rate
<1>2. Len(RateLimits) = 11
  BY DEF RateLimits
<1>3. found = IF I # {} THEN Min(I) ELSE 0
  BY <1>2 DEF SelectInSeq
<1>4. \A i \in 1..11 : i \in I <=> i >= index + 1
  <2>1. \A i \in 1..11 : RateLimits[i] <= SampleRates[index + 1] <=> i >= index + 1
    BY DEF RateLimits, SampleRates
  <2>. QED  BY <1>1, <2>1
<1>5. I \in SUBSET (1..11)
  OBVIOUS
<1>. HIDE DEF I
<1>6. CASE index = 11
  <2>1. I = {}
    BY <1>4, <1>5, <1>6
  <2>. QED  BY <1>3, <1>6, <2>1 DEF aac_get_index_by_sample_rate, rate
<1>7. CASE index # 11
  <2>1. index + 1 \in I
    BY <1>4, <1>7
  <2>2. Min(I) \in I /\ \A i \in I : Min(I) <= i
    BY <1>5, <2>1, MinIsLeast
  <2>3. found = index + 1
    BY <1>3, <1>4, <1>5, <2>1, <2>2
  <2>. HIDE DEF found
  <2>4. aac_get_index_by_sample_rate(rate) = found - 1
    BY <2>3 DEF aac_get_index_by_sample_rate, found
  <2>. QED  BY <2>3, <2>4 DEF rate
<1>. QED  BY <1>6, <1>7

(* Parsed and made again, extradata gives the header of its own values.        *)
LEMMA HeaderMade ==
  ASSUME NEW extra, extra.config \in (1..31) \X (0..11) \X (1..7), extra.config[1] <= 4
  PROVE  aac_make_adts_header(aac_parse_extra_data(extra))
           = <<extra.config[1] - 1, extra.config[2], extra.config[3]>>
<1>. DEFINE c == extra.config
            rate == aac_get_sample_rate_by_index(c[2])
<1>1. c[1] \in 1..4 /\ c[2] \in 0..11 /\ c[3] \in 1..7
  OBVIOUS
<1>. HIDE DEF c
<1>2. aac_get_index_by_sample_rate(rate) = c[2]
  BY <1>1, FrequencyFound
<1>3. (c[1] - 1) % 4 = c[1] - 1 /\ c[3] # 8
  BY <1>1
<1>4. aac_parse_extra_data(extra) = <<c[1], rate, c[3]>>
  BY DEF aac_parse_extra_data, c
<1>. DEFINE adts == <<c[1], rate, c[3]>>
<1>. HIDE DEF rate
<1>5. adts[1] = c[1] /\ adts[2] = rate /\ adts[3] = c[3]
  OBVIOUS
<1>. HIDE DEF adts
<1>6. aac_make_adts_header(adts) = <<c[1] - 1, c[2], c[3]>>
  BY <1>2, <1>3, <1>5 DEF aac_make_adts_header
<1>. QED  BY <1>4, <1>6 DEF adts, c

Tracks(file) == {i \in DOMAIN file.streams : IsTrack(file.streams[i])}
StreamOf(file, n) == file.streams[file.packets[n].stream]

(* What the object is while a file is open, and while none is.                 *)
FileOk(d) ==
  /\ DOMAIN d = {"file_path_", "opened_", "eof_", "fmt_ctx_", "media_tracks_", "filtered",
                 "aac_adts_", "opens", "calls"}
  /\ DOMAIN d.fmt_ctx_ = {"file", "next"}
  /\ d.opened_ \in BOOLEAN /\ d.opens \in Nat
  /\ d.opens = 0 => DOMAIN d.aac_adts_ = {}
  /\ ~d.opened_ => d.media_tracks_ = {} /\ d.filtered = {} /\ d.eof_ = FALSE
  /\ d.opened_ =>
       LET file == OpenFileOf(d)
       IN /\ d.fmt_ctx_.file \in DOMAIN AvFiles
          /\ d.fmt_ctx_.next \in 1..Len(file.packets) + 1
          /\ d.media_tracks_ = Tracks(file)
          /\ d.filtered \subseteq {i \in Tracks(file) : NeedsFilter(file.streams[i])}
          /\ d.opens # 0
          /\ d.eof_ => d.fmt_ctx_.next = Len(file.packets) + 1
          /\ d.opens = 1 => \A i \in DOMAIN d.aac_adts_ :
               /\ i \in DOMAIN file.streams /\ file.streams[i].extra.size >= 2
               /\ d.aac_adts_[i] = aac_parse_extra_data(file.streams[i].extra)

(* A sample, of a file that is the first the object opened or a later one.     *)
SampleOk(sample, file, first) ==
  LET stream == StreamOf(file, sample.n)
  IN /\ sample.n \in 1..Len(file.packets)
     /\ sample.filtered => NeedsFilter(stream)
     /\ first /\ stream.codec = "aac" =>
          sample.adts = IF stream.extra.size < 2 THEN NoAdts
                        ELSE aac_make_adts_header(aac_parse_extra_data(stream.extra))

DueOf(r, file) ==
  {n \in r.from..Len(file.packets) : IsTrack(StreamOf(file, n))} \ r.refused
Handed(r) == {r.samples[k].n : k \in 1..Len(r.samples)}

(* What has been read of the open file.                                        *)
ReadOk(d, r) ==
  LET file == OpenFileOf(d)
      next == d.fmt_ctx_.next
  IN /\ DOMAIN r = {"samples", "from", "refused"}
     /\ r.from \in 1..next
     /\ \A x \in r.refused : x \in Nat /\ x < next
     /\ \E S : r.samples \in Seq(S)
     /\ \A k \in 1..Len(r.samples) : SampleOk(r.samples[k], file, d.opens = 1)
     /\ \A k \in 1..Len(r.samples) - 1 : r.samples[k].n < r.samples[k + 1].n
     /\ Handed(r) = {n \in DueOf(r, file) : n < next}

FileInv == FileOk(fileDemuxer) /\ (fileDemuxer.opened_ => ReadOk(fileDemuxer, fileRead))

(* Nothing read yet.                                                           *)
LEMMA NothingRead ==
  ASSUME NEW d, NEW from \in Nat \ {0}, d.fmt_ctx_.next = from
  PROVE  ReadOk(d, [samples |-> <<>>, from |-> from, refused |-> {}])
<1>. DEFINE r == [samples |-> <<>>, from |-> from, refused |-> {}]
<1>1. r.samples = <<>> /\ r.from = from /\ r.refused = {} /\ Len(r.samples) = 0
      /\ DOMAIN r = {"samples", "from", "refused"} /\ r.samples \in Seq(Nat)
  OBVIOUS
<1>. HIDE DEF r
<1>2. Handed(r) = {}
  BY <1>1 DEF Handed
<1>3. {n \in DueOf(r, OpenFileOf(d)) : n < from} = {}
  <2>1. \A n \in DueOf(r, OpenFileOf(d)) : n \in from..Len(OpenFileOf(d).packets)
    BY <1>1 DEF DueOf
  <2>2. \A n \in from..Len(OpenFileOf(d).packets) : ~(n < from)
    OBVIOUS
  <2>. QED  BY <2>1, <2>2
<1>4. ReadOk(d, r)
  BY <1>1, <1>2, <1>3 DEF ReadOk
<1>. QED  BY <1>4 DEF r

(* Only what FileOk and ReadOk speak of.                                       *)
LEMMA FileSame ==
  ASSUME NEW d, FileOk(d), NEW new, DOMAIN new = DOMAIN d,
         new.opened_ = d.opened_, new.eof_ = d.eof_, new.fmt_ctx_ = d.fmt_ctx_,
         new.media_tracks_ = d.media_tracks_, new.filtered = d.filtered,
         new.aac_adts_ = d.aac_adts_, new.opens = d.opens
  PROVE  FileOk(new) /\ \A r : ReadOk(d, r) => ReadOk(new, r)
<1>1. OpenFileOf(new) = OpenFileOf(d)
  BY DEF OpenFileOf
<1>2. FileOk(new)
  BY <1>1 DEF FileOk
<1>3. ASSUME NEW r, ReadOk(d, r) PROVE ReadOk(new, r)
  BY <1>1, <1>3 DEF ReadOk
<1>. QED  BY <1>2, <1>3

(* A call is counted, and nothing else changes.                                *)
LEMMA FileCalled ==
  ASSUME NEW d, FileOk(d)
  PROVE  /\ FileOk(Called(d)) /\ Called(d).opened_ = d.opened_ /\ Called(d).fmt_ctx_ = d.fmt_ctx_
         /\ \A r : ReadOk(d, r) => ReadOk(Called(d), r)
<1>. DEFINE new == Called(d)
<1>1. /\ DOMAIN new = DOMAIN d /\ new.opened_ = d.opened_ /\ new.eof_ = d.eof_
      /\ new.fmt_ctx_ = d.fmt_ctx_ /\ new.media_tracks_ = d.media_tracks_
      /\ new.filtered = d.filtered /\ new.aac_adts_ = d.aac_adts_ /\ new.opens = d.opens
  BY DEF Called, FileOk
<1>. HIDE DEF new
<1>2. FileOk(new) /\ \A r : ReadOk(d, r) => ReadOk(new, r)
  BY <1>1, FileSame, Zenon
<1>. QED  BY <1>1, <1>2 DEF new

(* open() of an object that is not open.                                       *)
LEMMA FileOpened ==
  ASSUME NEW made \in SUBSET (1..2), FileOk(fileDemuxer), ~fileDemuxer.opened_
  PROVE  LET d == OpenImpl(made)
         IN /\ FileOk(d)
            /\ d.opened_ => d.fmt_ctx_.next = 1
<1>. DEFINE old == fileDemuxer
            path == old.file_path_
            file == AvFiles[path]
            streams == file.streams
            tracks == {i \in DOMAIN streams : IsTrack(streams[i])}
            filtered == {i \in tracks : NeedsFilter(streams[i])} \cap made
            new == tracks \ old.media_tracks_
            d == OpenImpl(made)
            ctx == [file |-> path, next |-> 1]
<1>1. /\ DOMAIN old = {"file_path_", "opened_", "eof_", "fmt_ctx_", "media_tracks_", "filtered",
                       "aac_adts_", "opens", "calls"}
      /\ old.opened_ = FALSE /\ old.opens \in Nat /\ (old.opens = 0 => DOMAIN old.aac_adts_ = {})
      /\ old.media_tracks_ = {} /\ old.filtered = {} /\ old.eof_ = FALSE
  BY DEF FileOk
<1>2. CASE path \notin DOMAIN AvFiles
  <2>1. d = [old EXCEPT !.fmt_ctx_ = NoAvContext]
    BY <1>2, Zenon DEF OpenImpl
  <2>2. /\ DOMAIN d = DOMAIN old /\ d.opened_ = FALSE /\ d.opens = old.opens /\ d.aac_adts_ = old.aac_adts_
        /\ d.media_tracks_ = {} /\ d.filtered = {} /\ d.eof_ = FALSE /\ d.fmt_ctx_ = NoAvContext
    BY <1>1, <2>1
  <2>. HIDE DEF d
  <2>3. DOMAIN NoAvContext = {"file", "next"}
    BY DEF NoAvContext
  <2>. QED  BY <1>1, <2>2, <2>3 DEF FileOk, d
<1>3. CASE path \in DOMAIN AvFiles /\ ~file.infoFound
  <2>1. d = [old EXCEPT !.fmt_ctx_ = ctx]
    BY <1>3, Zenon DEF OpenImpl
  <2>2. /\ DOMAIN d = DOMAIN old /\ d.opened_ = FALSE /\ d.opens = old.opens /\ d.aac_adts_ = old.aac_adts_
        /\ d.media_tracks_ = {} /\ d.filtered = {} /\ d.eof_ = FALSE /\ d.fmt_ctx_ = ctx
    BY <1>1, <2>1
  <2>. HIDE DEF d
  <2>. QED  BY <1>1, <2>2 DEF FileOk, d
<1>4. CASE path \in DOMAIN AvFiles /\ file.infoFound
  <2>. DEFINE opened == old.media_tracks_ \cup tracks # {}
              one == [old EXCEPT !.fmt_ctx_ = ctx, !.media_tracks_ = @ \cup tracks,
                        !.filtered = @ \cup (filtered \cap new), !.opened_ = opened, !.opens = @ + 1]
  <2>1. d = one
    BY <1>4, Zenon DEF OpenImpl
  <2>2. /\ DOMAIN one = DOMAIN old /\ one.opened_ = opened /\ one.opens = old.opens + 1
        /\ one.aac_adts_ = old.aac_adts_ /\ one.media_tracks_ = tracks
        /\ one.filtered = filtered \cap new /\ one.eof_ = FALSE /\ one.fmt_ctx_ = ctx
        /\ opened \in BOOLEAN /\ (opened <=> tracks # {})
    <3>. HIDE DEF ctx, tracks, filtered, new
    <3>1. opened \in BOOLEAN /\ (opened <=> tracks # {}) /\ old.media_tracks_ \cup tracks = tracks
          /\ old.filtered \cup (filtered \cap new) = filtered \cap new
      BY <1>1
    <3>. HIDE DEF opened
    <3>. QED  BY <1>1, <3>1
  <2>. HIDE DEF one, opened
  <2>3. ctx.file = path /\ ctx.next = 1 /\ DOMAIN ctx = {"file", "next"}
    OBVIOUS
  <2>. HIDE DEF ctx
  <2>4. OpenFileOf(one) = file
    BY <2>2, <2>3 DEF OpenFileOf
  <2>5. Len(file.packets) \in Nat
    BY <1>4, AvFilesAssumption
  <2>6. tracks = Tracks(file) /\ filtered \subseteq {i \in tracks : NeedsFilter(streams[i])}
    BY DEF Tracks
  <2>. HIDE DEF tracks, filtered, new
  <2>7. one.opened_ => /\ one.fmt_ctx_.file \in DOMAIN AvFiles
          /\ one.fmt_ctx_.next \in 1..Len(file.packets) + 1
          /\ one.media_tracks_ = Tracks(file)
          /\ one.filtered \subseteq {i \in Tracks(file) : NeedsFilter(file.streams[i])}
          /\ one.opens # 0 /\ (one.opens = 1 => DOMAIN one.aac_adts_ = {})
    BY <1>1, <1>4, <2>2, <2>3, <2>5, <2>6
  <2>8. ~one.opened_ => one.media_tracks_ = {} /\ one.filtered = {}
    BY <2>2, <2>6
  <2>9. FileOk(one)
    BY <1>1, <2>2, <2>3, <2>4, <2>7, <2>8 DEF FileOk
  <2>. HIDE DEF d
  <2>. QED  BY <2>1, <2>2, <2>3, <2>9 DEF d
<1>. QED  BY <1>2, <1>3, <1>4

(* The headers that AdtsFor keeps and adds.                                    *)
LEMMA AdtsKept ==
  ASSUME NEW d, FileOk(d), d.opened_, NEW i \in DOMAIN OpenFileOf(d).streams,
         NEW headers, headers = AdtsFor(d, i)
  PROVE  d.opens = 1 =>
           /\ \A k \in DOMAIN headers :
                /\ k \in DOMAIN OpenFileOf(d).streams /\ OpenFileOf(d).streams[k].extra.size >= 2
                /\ headers[k] = aac_parse_extra_data(OpenFileOf(d).streams[k].extra)
           /\ i \in DOMAIN headers <=> OpenFileOf(d).streams[i].extra.size >= 2
<1>. SUFFICES ASSUME d.opens = 1
     PROVE  /\ \A k \in DOMAIN headers :
                /\ k \in DOMAIN OpenFileOf(d).streams /\ OpenFileOf(d).streams[k].extra.size >= 2
                /\ headers[k] = aac_parse_extra_data(OpenFileOf(d).streams[k].extra)
            /\ i \in DOMAIN headers <=> OpenFileOf(d).streams[i].extra.size >= 2
  OBVIOUS
<1>. DEFINE extra == OpenFileOf(d).streams[i].extra
            old == d.aac_adts_
            new == [k \in DOMAIN old \cup {i} |-> IF k = i THEN aac_parse_extra_data(extra) ELSE old[k]]
<1>1. \A k \in DOMAIN old :
         /\ k \in DOMAIN OpenFileOf(d).streams /\ OpenFileOf(d).streams[k].extra.size >= 2
         /\ old[k] = aac_parse_extra_data(OpenFileOf(d).streams[k].extra)
  BY DEF FileOk
<1>2. CASE extra.size >= 2 /\ i \notin DOMAIN old
  <2>1. headers = new
    BY <1>2, Zenon DEF AdtsFor
  <2>. QED  BY <1>1, <1>2, <2>1
<1>3. CASE ~(extra.size >= 2 /\ i \notin DOMAIN old)
  <2>1. headers = old
    BY <1>3, Zenon DEF AdtsFor
  <2>. QED  BY <1>1, <1>3, <2>1
<1>. QED  BY <1>2, <1>3

(* readSampleImpl.                                                             *)
LEMMA SampleRead ==
  ASSUME FileInv, ReadFileSample
  PROVE  FileInv'
<1>. DEFINE d == fileDemuxer
            r == fileRead
            ctx == d.fmt_ctx_
            next == ctx.next
            file == OpenFileOf(d)
            packets == file.packets
            len == Len(packets)
            left == {n \in next..len : packets[n].stream \in d.media_tracks_}
            filterable == {n \in left : packets[n].stream \in d.filtered}
            Giving(refused) == left \ refused
            First(refused) == CHOOSE k \in Giving(refused) : \A j \in Giving(refused) : k <= j
            Headers(i) == IF file.streams[i].codec = "aac" THEN AdtsFor(d, i) ELSE d.aac_adts_
            Sample(n) ==
              LET i == packets[n].stream
              IN [n |-> n, filtered |-> i \in d.filtered,
                  adts |-> IF file.streams[i].codec = "aac" /\ i \in DOMAIN Headers(i)
                           THEN aac_make_adts_header(Headers(i)[i]) ELSE NoAdts]
<1>1. /\ FileOk(d) /\ ReadOk(d, r) /\ d.opened_ /\ d.opened_ \in BOOLEAN
      /\ DOMAIN d = {"file_path_", "opened_", "eof_", "fmt_ctx_", "media_tracks_", "filtered",
                     "aac_adts_", "opens", "calls"}
      /\ DOMAIN ctx = {"file", "next"} /\ ctx.file \in DOMAIN AvFiles
      /\ next \in 1..len + 1 /\ d.media_tracks_ = Tracks(file)
      /\ d.filtered \subseteq {i \in Tracks(file) : NeedsFilter(file.streams[i])}
      /\ DOMAIN r = {"samples", "from", "refused"} /\ r.from \in 1..next
      /\ \A x \in r.refused : x \in Nat /\ x < next
  BY DEF FileInv, ReadFileSample, FileOk, ReadOk
<1>2. /\ len \in Nat /\ \A n \in 1..len : packets[n].stream \in DOMAIN file.streams
      /\ \A i \in DOMAIN file.streams : file.streams[i].extra.size \in Nat
  <2>1. ctx.file \in DOMAIN AvFiles /\ file = AvFiles[ctx.file]
    BY <1>1 DEF OpenFileOf
  <2>. DEFINE S == [stream : DOMAIN file.streams, dts : Int, key : BOOLEAN]
  <2>2. packets \in Seq(S) /\ \A i \in DOMAIN file.streams : file.streams[i].extra.size \in Nat
    BY <2>1, AvFilesAssumption
  <2>. HIDE DEF packets, S
  <2>3. len \in Nat /\ \A n \in 1..len : packets[n] \in S
    BY <2>2, ElementOfSeq
  <2>. QED  BY <2>2, <2>3 DEF S
<1>3. PICK refused \in SUBSET filterable :
        \/ /\ Giving(refused) = {}
           /\ d' = [d EXCEPT !.eof_ = TRUE, !.fmt_ctx_.next = len + 1]
           /\ r' = [r EXCEPT !.refused = @ \cup refused]
        \/ /\ Giving(refused) # {} /\ \A k \in refused : k < First(refused)
           /\ d' = [d EXCEPT !.fmt_ctx_.next = First(refused) + 1,
                             !.aac_adts_ = Headers(packets[First(refused)].stream)]
           /\ r' = [r EXCEPT !.samples = Append(@, Sample(First(refused))), !.refused = @ \cup refused]
  BY Zenon DEF ReadFileSample
<1>. DEFINE giving == Giving(refused)
            n == First(refused)
<1>4. \A k \in 1..len : k \in left <=> k >= next /\ IsTrack(StreamOf(file, k))
  BY <1>1, <1>2 DEF Tracks, StreamOf
<1>5. left \in SUBSET (1..len) /\ refused \subseteq left /\ giving = left \ refused
  BY <1>1, <1>2
<1>6. CASE /\ giving = {} /\ d' = [d EXCEPT !.eof_ = TRUE, !.fmt_ctx_.next = len + 1]
           /\ r' = [r EXCEPT !.refused = @ \cup refused]
  <2>1. /\ DOMAIN d' = DOMAIN d /\ d'.opened_ = d.opened_ /\ d'.eof_ = TRUE /\ d'.opens = d.opens
        /\ DOMAIN d'.fmt_ctx_ = {"file", "next"} /\ d'.fmt_ctx_.next = len + 1
        /\ d'.fmt_ctx_.file = ctx.file /\ d'.media_tracks_ = d.media_tracks_
        /\ d'.filtered = d.filtered /\ d'.aac_adts_ = d.aac_adts_
    BY <1>1, <1>6
  <2>2. /\ DOMAIN r' = DOMAIN r /\ r'.samples = r.samples /\ r'.from = r.from
        /\ r'.refused = r.refused \cup refused
    BY <1>1, <1>6
  <2>3. OpenFileOf(d') = file
    BY <2>1 DEF OpenFileOf
  <2>4. FileOk(d')
    <3>1. len + 1 \in 1..len + 1
      BY <1>2
    <3>2. /\ d.opens \in Nat /\ d.opens # 0
          /\ d.opens = 1 => \A k \in DOMAIN d.aac_adts_ :
               /\ k \in DOMAIN file.streams /\ file.streams[k].extra.size >= 2
               /\ d.aac_adts_[k] = aac_parse_extra_data(file.streams[k].extra)
      BY <1>1 DEF FileOk
    <3>. HIDE DEF len, file, d
    <3>. QED  BY <1>1, <2>1, <2>3, <3>1, <3>2 DEF FileOk, len, packets
  <2>5. {k \in DueOf(r', file) : k < len + 1} = {k \in DueOf(r, file) : k < next}
    <3>1. \A k \in refused : k \in 1..len /\ ~(k < next)
      BY <1>1, <1>2, <1>4, <1>5
    <3>2. \A k \in 1..len : IsTrack(StreamOf(file, k)) /\ k >= next => k \in refused
      BY <1>4, <1>5, <1>6
    <3>3. r.from \in Nat /\ next \in Nat
      BY <1>1, <1>2
    <3>. HIDE DEF d, r, next, file, len
    <3>4. \A k \in r.from..len : k \in 1..len /\ k < len + 1 /\ (k < next \/ k >= next)
      BY <1>1, <1>2
    <3>. QED  BY <2>2, <3>1, <3>2, <3>4 DEF DueOf, len, packets
  <2>6. \A x \in r'.refused : x \in Nat /\ x < len + 1
    <3>1. \A x \in refused : x \in Nat /\ x < len + 1
      <4>1. \A x \in 1..len : x \in Nat /\ x < len + 1
        BY <1>2
      <4>. HIDE DEF left, len
      <4>. QED  BY <1>5, <4>1
    <3>2. \A x \in r.refused : x \in Nat /\ x < len + 1
      BY <1>1, <1>2
    <3>. QED  BY <2>2, <3>1, <3>2
  <2>7. r'.from \in 1..len + 1
    BY <1>1, <1>2, <2>2
  <2>8. Handed(r') = Handed(r)
    BY <2>2 DEF Handed
  <2>9. ReadOk(d', r')
    <3>. HIDE DEF d, r, file, len, next
    <3>1. DOMAIN r' = {"samples", "from", "refused"} /\ Handed(r') = {k \in DueOf(r', file) : k < len + 1}
      BY <1>1, <2>2, <2>5, <2>8 DEF ReadOk, file, next, ctx
    <3>. QED  BY <1>1, <2>1, <2>2, <2>3, <2>6, <2>7, <3>1 DEF ReadOk, file
  <2>. QED  BY <2>4, <2>9 DEF FileInv
<1>7. CASE /\ giving # {} /\ \A k \in refused : k < n
           /\ d' = [d EXCEPT !.fmt_ctx_.next = n + 1, !.aac_adts_ = Headers(packets[n].stream)]
           /\ r' = [r EXCEPT !.samples = Append(@, Sample(n)), !.refused = @ \cup refused]
  <2>. DEFINE i == packets[n].stream
              sample == Sample(n)
              stream == file.streams[i]
              samples == Append(r.samples, sample)
              headers == Headers(i)
  <2>1. n \in giving /\ \A k \in giving : n <= k
    <3>1. \E x \in giving : \A k \in giving : x <= k
      <4>. DEFINE S == giving
      <4>1. S \in SUBSET (1..len) /\ S # {}
        BY <1>5, <1>7
      <4>. HIDE DEF S, len
      <4>2. Min(S) \in S /\ \A k \in S : Min(S) <= k
        BY <1>2, <4>1, MinIsLeast
      <4>. QED  BY <4>2 DEF S
    <3>. HIDE DEF Giving
    <3>. QED  BY <3>1, Zenon
  <2>2. n \in 1..len /\ n >= next /\ IsTrack(StreamOf(file, n)) /\ n \notin refused
    BY <1>4, <1>5, <2>1
  <2>3. i \in DOMAIN file.streams /\ stream = StreamOf(file, n) /\ stream.extra.size \in Nat
    BY <1>2, <2>2 DEF StreamOf
  <2>4. \A k \in 1..len : k >= next /\ IsTrack(StreamOf(file, k)) /\ k \notin refused => n <= k
    BY <1>4, <1>5, <2>1
  <2>. HIDE DEF First, Giving, Sample, Headers
  <2>5. /\ DOMAIN d' = DOMAIN d /\ d'.opened_ = d.opened_ /\ d'.eof_ = d.eof_ /\ d'.opens = d.opens
        /\ DOMAIN d'.fmt_ctx_ = {"file", "next"} /\ d'.fmt_ctx_.next = n + 1
        /\ d'.fmt_ctx_.file = ctx.file /\ d'.media_tracks_ = d.media_tracks_
        /\ d'.filtered = d.filtered /\ d'.aac_adts_ = headers
    BY <1>1, <1>7
  <2>6. /\ DOMAIN r' = DOMAIN r /\ r'.samples = samples /\ r'.from = r.from
        /\ r'.refused = r.refused \cup refused
    BY <1>1, <1>7
  <2>7. OpenFileOf(d') = file
    BY <2>5 DEF OpenFileOf
  <2>8. d.opens = 1 =>
          /\ \A k \in DOMAIN headers :
               /\ k \in DOMAIN file.streams /\ file.streams[k].extra.size >= 2
               /\ headers[k] = aac_parse_extra_data(file.streams[k].extra)
          /\ stream.codec = "aac" => (i \in DOMAIN headers <=> stream.extra.size >= 2)
    <3>1. CASE stream.codec = "aac"
      <4>1. headers = AdtsFor(d, i)
        BY <3>1 DEF Headers
      <4>. HIDE DEF headers, i
      <4>. QED  BY <1>1, <2>3, <4>1, AdtsKept
    <3>2. CASE stream.codec # "aac"
      <4>1. headers = d.aac_adts_
        BY <3>2 DEF Headers
      <4>. HIDE DEF headers, i
      <4>. QED  BY <1>1, <3>2, <4>1 DEF FileOk
    <3>. QED  BY <3>1, <3>2
  <2>9. FileOk(d')
    <3>1. d.eof_ => FALSE
      BY <1>1, <1>2, <2>2 DEF FileOk
    <3>2. n + 1 \in 1..len + 1
      BY <1>2, <2>2
    <3>3. d.opens # 0 /\ d.opens \in Nat
      BY <1>1 DEF FileOk
    <3>. HIDE DEF headers, len, n, file
    <3>. QED  BY <1>1, <2>5, <2>7, <2>8, <3>1, <3>2, <3>3 DEF FileOk, len
  <2>10. sample.n = n /\ SampleOk(sample, file, d.opens = 1)
    <3>1. /\ sample.n = n /\ (sample.filtered <=> i \in d.filtered)
          /\ sample.adts = IF stream.codec = "aac" /\ i \in DOMAIN headers
                           THEN aac_make_adts_header(headers[i]) ELSE NoAdts
      BY DEF Sample
    <3>. HIDE DEF sample, headers, i, n, file, len
    <3>2. sample.filtered => NeedsFilter(stream)
      BY <1>1, <3>1 DEF Tracks
    <3>3. d.opens = 1 /\ stream.codec = "aac" =>
            sample.adts = IF stream.extra.size < 2 THEN NoAdts
                          ELSE aac_make_adts_header(aac_parse_extra_data(stream.extra))
      BY <2>3, <2>8, <3>1
    <3>. QED  BY <2>2, <2>3, <3>1, <3>2, <3>3 DEF SampleOk, len, packets
  <2>. HIDE DEF sample
  <2>11. \A x \in Handed(r) : x < next /\ x \in Nat
    <3>1. \A x \in DueOf(r, file) : x \in r.from..len
      BY DEF DueOf
    <3>. HIDE DEF len, file
    <3>2. \A x \in DueOf(r, file) : x \in Nat
      BY <1>1, <3>1
    <3>. QED  BY <1>1, <3>2 DEF ReadOk, file, next, ctx
  <2>12. PICK S : r.samples \in Seq(S)
    BY <1>1 DEF ReadOk
  <2>. DEFINE T == S \cup {sample}
              m == Len(r.samples)
  <2>13. /\ samples \in Seq(T) /\ Len(samples) = m + 1 /\ m \in Nat /\ samples[m + 1] = sample
         /\ \A k \in 1..m : samples[k] = r.samples[k]
    <3>1. sample \in T /\ r.samples \in Seq(T)
      BY <2>12
    <3>. HIDE DEF T
    <3>. QED  BY <3>1, AppendProperties
  <2>. HIDE DEF samples, T
  <2>14. Handed(r') = Handed(r) \cup {n}
    <3>1. \A k \in 1..m + 1 : k \in 1..m \/ k = m + 1
      BY <2>13
    <3>2. \A k \in 1..m : k \in 1..m + 1
      BY <2>13
    <3>3. m + 1 \in 1..m + 1
      BY <2>13
    <3>. HIDE DEF n
    <3>. QED  BY <2>6, <2>10, <2>13, <3>1, <3>2, <3>3 DEF Handed
  <2>15. {k \in DueOf(r', file) : k < n + 1} = {k \in DueOf(r, file) : k < next} \cup {n}
    <3>1. \A k \in refused : k \in 1..len /\ ~(k < next)
      BY <1>1, <1>2, <1>4, <1>5
    <3>2. n \notin r.refused /\ n \in r.from..len
      BY <1>1, <1>2, <2>2
    <3>3. \A k \in r.from..len : k \in 1..len /\ (k < next => k < n + 1) /\ (k < n + 1 => k < next \/ k = n \/ (k >= next /\ k < n))
      BY <1>1, <1>2, <2>2
    <3>4. \A k \in r.from..len : ~(k < n /\ n <= k)
      BY <1>1, <1>2, <2>2
    <3>5. n < n + 1
      BY <1>2, <2>2
    <3>. HIDE DEF n, next, len
    <3>6. ASSUME NEW k \in DueOf(r', file), k < n + 1 PROVE k = n \/ (k \in DueOf(r, file) /\ k < next)
      BY <2>4, <2>6, <3>3, <3>4, <3>6 DEF DueOf, len, packets
    <3>7. ASSUME NEW k \in DueOf(r, file), k < next PROVE k \in DueOf(r', file) /\ k < n + 1
      BY <2>6, <3>1, <3>3, <3>7 DEF DueOf, len, packets
    <3>8. n \in DueOf(r', file)
      BY <2>2, <2>6, <3>2 DEF DueOf, len, packets
    <3>. QED  BY <3>5, <3>6, <3>7, <3>8
  <2>16. \A x \in r'.refused : x \in Nat /\ x < n + 1
    <3>1. \A x \in refused : x \in Nat /\ x < n + 1
      BY <1>2, <1>5, <1>7, <2>2
    <3>2. \A x \in r.refused : x \in Nat /\ x < n + 1
      BY <1>1, <1>2, <2>2
    <3>. QED  BY <2>6, <3>1, <3>2
  <2>17. r'.from \in 1..n + 1
    BY <1>1, <1>2, <2>2, <2>6
  <2>18. \A k \in 1..m : SampleOk(r.samples[k], file, d.opens = 1)
    BY <1>1 DEF ReadOk
  <2>19. \A k \in 1..m + 1 : SampleOk(samples[k], file, d.opens = 1)
    <3>1. \A k \in 1..m + 1 : k \in 1..m \/ k = m + 1
      BY <2>13
    <3>. HIDE DEF n, file
    <3>. QED  BY <2>10, <2>13, <2>18, <3>1
  <2>20. \A k \in 1..m : samples[k].n < samples[k + 1].n
    <3>1. CASE m = 0
      BY <3>1
    <3>2. CASE m # 0
      <4>1. \A k \in 1..m - 1 : k \in 1..m /\ k + 1 \in 1..m /\ r.samples[k].n < r.samples[k + 1].n
        BY <1>1, <2>13 DEF ReadOk
      <4>2. r.samples[m].n \in Handed(r)
        BY <2>13, <3>2 DEF Handed
      <4>3. r.samples[m].n < n
        BY <1>1, <1>2, <2>2, <2>11, <4>2
      <4>4. \A k \in 1..m : k \in 1..m - 1 \/ k = m
        BY <2>13
      <4>5. m \in 1..m
        BY <2>13, <3>2
      <4>. HIDE DEF n
      <4>. QED  BY <2>10, <2>13, <4>1, <4>3, <4>4, <4>5
    <3>. QED  BY <3>1, <3>2
  <2>21. m + 1 - 1 = m
    BY <2>13
  <2>22. Handed(r') = {k \in DueOf(r', file) : k < n + 1}
    BY <1>1, <2>14, <2>15 DEF ReadOk
  <2>23. ReadOk(d', r')
    <3>. HIDE DEF d, r, file, len, next, n
    <3>. QED  BY <1>1, <2>5, <2>6, <2>7, <2>13, <2>16, <2>17, <2>19, <2>20, <2>21, <2>22 DEF ReadOk
  <2>. QED  BY <2>9, <2>23 DEF FileInv
<1>. QED  BY <1>3, <1>6, <1>7

(* seek() of an open file.                                                     *)
LEMMA FileSought ==
  ASSUME FileInv, NEW pos, SeekFile(pos)
  PROVE  FileInv'
<1>. DEFINE d == fileDemuxer
            packets == OpenFileOf(d).packets
            target == SeekTarget(packets, pos)
            one == [d EXCEPT !.eof_ = FALSE, !.fmt_ctx_.next = target]
            none == [d EXCEPT !.eof_ = FALSE]
<1>1. /\ FileOk(d) /\ ReadOk(d, fileRead) /\ d.opened_ /\ d.opens \in Nat
      /\ DOMAIN d = {"file_path_", "opened_", "eof_", "fmt_ctx_", "media_tracks_", "filtered",
                     "aac_adts_", "opens", "calls"}
      /\ DOMAIN d.fmt_ctx_ = {"file", "next"} /\ d.fmt_ctx_.file \in DOMAIN AvFiles
  BY DEF FileInv, SeekFile, FileOk
<1>2. CASE target # 0 /\ d' = Called(one)
           /\ fileRead' = [samples |-> <<>>, from |-> target, refused |-> {}]
  <2>1. target \in 1..Len(packets)
    <3>. DEFINE I == {i \in 1..Len(packets) : packets[i].key /\ packets[i].dts <= pos}
    <3>1. target = IF I # {} THEN Max(I) ELSE 0
      BY DEF SeekTarget, SelectLastInSeq
    <3>2. packets \in Seq([stream : DOMAIN OpenFileOf(d).streams, dts : Int, key : BOOLEAN])
      BY <1>1, AvFilesAssumption DEF OpenFileOf
    <3>3. Len(packets) \in Nat
      BY <3>2
    <3>4. I \in SUBSET (1..Len(packets))
      OBVIOUS
    <3>. HIDE DEF I, target, packets
    <3>5. I # {}
      BY <1>2, <3>1
    <3>6. Max(I) \in I
      BY <3>3, <3>4, <3>5, MaxIsGreatest
    <3>. QED  BY <3>1, <3>4, <3>5, <3>6
  <2>. HIDE DEF target
  <2>2. /\ DOMAIN one = DOMAIN d /\ one.opened_ = d.opened_ /\ one.eof_ = FALSE /\ one.opens = d.opens
        /\ DOMAIN one.fmt_ctx_ = {"file", "next"} /\ one.fmt_ctx_.next = target
        /\ one.fmt_ctx_.file = d.fmt_ctx_.file /\ one.media_tracks_ = d.media_tracks_
        /\ one.filtered = d.filtered /\ one.aac_adts_ = d.aac_adts_
    BY <1>1
  <2>. HIDE DEF one
  <2>3. OpenFileOf(one) = OpenFileOf(d)
    BY <2>2 DEF OpenFileOf
  <2>4. target \in 1..Len(packets) + 1
    <3>1. Len(packets) \in Nat
      BY <1>1, AvFilesAssumption DEF OpenFileOf
    <3>. HIDE DEF packets
    <3>. QED  BY <2>1, <3>1
  <2>5. FileOk(one)
    BY <1>1, <2>2, <2>3, <2>4 DEF FileOk
  <2>6. ReadOk(one, [samples |-> <<>>, from |-> target, refused |-> {}])
    <3>1. target \in Nat \ {0}
      BY <2>1
    <3>. QED  BY <2>2, <3>1, NothingRead
  <2>7. FileOk(d') /\ ReadOk(d', fileRead')
    BY <1>2, <2>5, <2>6, FileCalled
  <2>. QED  BY <2>7 DEF FileInv
<1>3. CASE d' = Called(none) /\ fileRead' = fileRead
  <2>1. /\ DOMAIN none = DOMAIN d /\ none.opened_ = d.opened_ /\ none.eof_ = FALSE
        /\ none.opens = d.opens /\ none.fmt_ctx_ = d.fmt_ctx_
        /\ none.media_tracks_ = d.media_tracks_ /\ none.filtered = d.filtered
        /\ none.aac_adts_ = d.aac_adts_
    BY <1>1
  <2>. HIDE DEF none
  <2>2. OpenFileOf(none) = OpenFileOf(d)
    BY <2>1 DEF OpenFileOf
  <2>3. FileOk(none) /\ ReadOk(none, fileRead)
    BY <1>1, <2>1, <2>2 DEF FileOk, ReadOk
  <2>4. FileOk(d') /\ ReadOk(d', fileRead')
    BY <1>3, <2>3, FileCalled
  <2>. QED  BY <2>4 DEF FileInv
<1>. QED  BY <1>2, <1>3, Zenon DEF SeekFile

(* Every step of the object.                                                   *)
LEMMA FileStep ==
  ASSUME FileInv, [FileDemuxerNext]_fileDemuxerVars
  PROVE  FileInv'
<1>1. FileOk(fileDemuxer)
  BY DEF FileInv
<1>2. ASSUME NEW path, SetFilePath(path) PROVE FileInv'
  <2>. DEFINE one == [fileDemuxer EXCEPT !.file_path_ = path]
  <2>1. fileDemuxer' = Called(one) /\ fileRead' = fileRead
    BY <1>2 DEF SetFilePath
  <2>2. /\ DOMAIN one = DOMAIN fileDemuxer
        /\ one.opened_ = fileDemuxer.opened_ /\ one.eof_ = fileDemuxer.eof_
        /\ one.fmt_ctx_ = fileDemuxer.fmt_ctx_ /\ one.media_tracks_ = fileDemuxer.media_tracks_
        /\ one.filtered = fileDemuxer.filtered /\ one.aac_adts_ = fileDemuxer.aac_adts_
        /\ one.opens = fileDemuxer.opens
    BY <1>1 DEF FileOk
  <2>. HIDE DEF one
  <2>3. FileOk(one) /\ \A r : ReadOk(fileDemuxer, r) => ReadOk(one, r)
    BY <1>1, <2>2, FileSame, Zenon
  <2>4. /\ FileOk(fileDemuxer') /\ fileDemuxer'.opened_ = fileDemuxer.opened_
        /\ \A r : ReadOk(fileDemuxer, r) => ReadOk(fileDemuxer', r)
    BY <2>1, <2>2, <2>3, FileCalled, Zenon
  <2>. QED  BY <2>1, <2>4 DEF FileInv
<1>3. CASE OpenFile
  <2>1. CASE fileDemuxer.opened_
    <3>1. fileDemuxer' = Called(fileDemuxer) /\ fileRead' = fileRead
      BY <1>3, <2>1 DEF OpenFile
    <3>. QED  BY <1>1, <3>1, FileCalled DEF FileInv
  <2>2. CASE ~fileDemuxer.opened_
    <3>1. PICK made \in SUBSET (1..2) : fileDemuxer' = Called(OpenImpl(made))
      BY <1>3, <2>2, Zenon DEF OpenFile
    <3>2. fileRead' = [samples |-> <<>>, from |-> 1, refused |-> {}]
      BY <1>3, <2>2, Zenon DEF OpenFile
    <3>. DEFINE one == OpenImpl(made)
    <3>3. FileOk(one) /\ (one.opened_ => one.fmt_ctx_.next = 1)
      BY <1>1, <2>2, FileOpened
    <3>. HIDE DEF one
    <3>4. one.opened_ => ReadOk(one, [samples |-> <<>>, from |-> 1, refused |-> {}])
      BY <3>3, NothingRead
    <3>5. /\ FileOk(fileDemuxer') /\ fileDemuxer'.opened_ = one.opened_
          /\ \A r : ReadOk(one, r) => ReadOk(fileDemuxer', r)
      BY <3>1, <3>3, FileCalled, Zenon DEF one
    <3>. QED  BY <3>2, <3>4, <3>5, Zenon DEF FileInv
  <2>. QED  BY <2>1, <2>2
<1>4. CASE CloseFile
  <2>. DEFINE one == [fileDemuxer EXCEPT !.fmt_ctx_ = NoAvContext, !.media_tracks_ = {},
                        !.filtered = {}, !.opened_ = FALSE, !.eof_ = FALSE]
  <2>1. fileDemuxer' = Called(one)
    BY <1>4 DEF CloseFile
  <2>2. /\ DOMAIN one = DOMAIN fileDemuxer /\ one.opened_ = FALSE /\ one.eof_ = FALSE
        /\ one.fmt_ctx_ = NoAvContext /\ one.media_tracks_ = {} /\ one.filtered = {}
        /\ one.aac_adts_ = fileDemuxer.aac_adts_ /\ one.opens = fileDemuxer.opens
    BY <1>1 DEF FileOk
  <2>. HIDE DEF one
  <2>3. DOMAIN NoAvContext = {"file", "next"}
    BY DEF NoAvContext
  <2>4. FileOk(one)
    BY <1>1, <2>2, <2>3 DEF FileOk
  <2>5. FileOk(fileDemuxer') /\ ~fileDemuxer'.opened_
    BY <2>1, <2>2, <2>4, FileCalled
  <2>. QED  BY <2>5 DEF FileInv
<1>5. CASE ReadFileSample
  BY <1>5, SampleRead
<1>6. ASSUME NEW pos, SeekFile(pos) PROVE FileInv'
  BY <1>6, FileSought
<1>7. CASE UNCHANGED fileDemuxerVars
  BY <1>7 DEF fileDemuxerVars, FileInv
<1>. QED  BY <1>2, <1>3, <1>4, <1>5, <1>6, <1>7, Zenon DEF FileDemuxerNext

(* What has been read of the open file is what readSample owes.                *)
LEMMA FileRead ==
  ASSUME PlainConfigs, FileInv
  PROVE  FileSamplesInOrder
<1>. SUFFICES ASSUME fileDemuxer.opened_ PROVE FileSamplesInOrder
  BY DEF FileSamplesInOrder
<1>. DEFINE d == fileDemuxer
            r == fileRead
            file == OpenFileOf(d)
            len == Len(file.packets)
            next == d.fmt_ctx_.next
            Owed == {n \in r.from..len : IsTrack(file.streams[file.packets[n].stream])} \ r.refused
            handed == {r.samples[k].n : k \in 1..Len(r.samples)}
<1>1. FileOk(d) /\ ReadOk(d, r)
  BY DEF FileInv
<1>2. d.fmt_ctx_.file \in DOMAIN AvFiles /\ next \in 1..len + 1 /\ (d.eof_ => next = len + 1)
      /\ r.from \in 1..next
  BY <1>1 DEF FileOk, ReadOk
<1>3. file.packets \in Seq([stream : DOMAIN file.streams, dts : Int, key : BOOLEAN])
      /\ \A i \in DOMAIN file.streams : file.streams[i].extra.size \in Nat
  BY <1>2, AvFilesAssumption DEF OpenFileOf
<1>4. len \in Nat /\ \A n \in 1..len : file.packets[n].stream \in DOMAIN file.streams
  <2>. DEFINE S == [stream : DOMAIN file.streams, dts : Int, key : BOOLEAN]
              packets == file.packets
  <2>1. packets \in Seq(S)
    BY <1>3
  <2>. HIDE DEF packets, S
  <2>2. Len(packets) \in Nat /\ \A n \in 1..Len(packets) : packets[n] \in S
    BY <2>1, ElementOfSeq
  <2>. QED  BY <2>2 DEF S, packets
<1>5. handed = {n \in Owed : n < next}
  BY <1>1 DEF ReadOk, Handed, DueOf, StreamOf
<1>6. \A k \in 1..Len(r.samples) - 1 : r.samples[k].n < r.samples[k + 1].n
  BY <1>1 DEF ReadOk
<1>7. d.eof_ => handed = Owed
  <2>1. \A n \in Owed : n \in r.from..len
    OBVIOUS
  <2>. HIDE DEF Owed, len, handed, next
  <2>2. d.eof_ => \A n \in Owed : n < next
    BY <1>2, <1>4, <2>1
  <2>. QED  BY <1>5, <2>2
<1>8. ASSUME NEW k \in 1..Len(r.samples)
      PROVE  LET sample == r.samples[k]
                 stream == file.streams[file.packets[sample.n].stream]
             IN /\ sample.filtered => NeedsFilter(stream)
                /\ stream.codec = "aac" /\ d.opens = 1
                   /\ (stream.extra.size >= 2 => stream.extra.config[1] <= 4) =>
                     sample.adts = IF stream.extra.size < 2 THEN NoAdts
                                   ELSE <<stream.extra.config[1] - 1, stream.extra.config[2],
                                          stream.extra.config[3]>>
  <2>. DEFINE sample == r.samples[k]
              stream == file.streams[file.packets[sample.n].stream]
              extra == stream.extra
  <2>1. SampleOk(sample, file, d.opens = 1)
    BY <1>1, <1>8 DEF ReadOk
  <2>2. /\ sample.n \in 1..len /\ (sample.filtered => NeedsFilter(stream))
        /\ d.opens = 1 /\ stream.codec = "aac" =>
             sample.adts = IF extra.size < 2 THEN NoAdts
                           ELSE aac_make_adts_header(aac_parse_extra_data(extra))
    BY <2>1 DEF SampleOk, StreamOf
  <2>3. file.packets[sample.n].stream \in DOMAIN file.streams
    BY <1>4, <2>2
  <2>4. extra.size \in Nat
    BY <1>3, <2>3
  <2>5. stream.codec = "aac" /\ extra.size >= 2 =>
          extra.config \in (1..31) \X (0..11) \X (1..7)
    BY <1>2, <2>3 DEF PlainConfigs, OpenFileOf
  <2>. HIDE DEF sample, stream, extra
  <2>6. stream.codec = "aac" /\ extra.size >= 2 /\ extra.config[1] <= 4 =>
          aac_make_adts_header(aac_parse_extra_data(extra))
            = <<extra.config[1] - 1, extra.config[2], extra.config[3]>>
    BY <2>5, HeaderMade
  <2>7. extra.size < 2 \/ extra.size >= 2
    BY <2>4
  <2>8. stream.codec = "aac" /\ d.opens = 1 /\ (extra.size >= 2 => extra.config[1] <= 4) =>
          sample.adts = IF extra.size < 2 THEN NoAdts
                        ELSE <<extra.config[1] - 1, extra.config[2], extra.config[3]>>
    BY <2>2, <2>6, <2>7
  <2>. QED  BY <2>2, <2>8 DEF sample, stream, extra
<1>. HIDE DEF Owed, handed
<1>. QED  BY <1>5, <1>6, <1>7, <1>8, Zenon DEF FileSamplesInOrder, Owed, handed

(* FileSamplesInOrder: whatever the files and the calls, with closes, failed   *)
(* opens and seeks among them, readSample gives the packets of the tracks of   *)
(* the open file in order, each once, AAC packets under the header of their    *)
(* stream.                                                                     *)
THEOREM SamplesAreInOrder ==
  ASSUME PlainConfigs
  PROVE  FileDemuxerSpec => []FileSamplesInOrder
<1>1. FileDemuxerInit => FileInv
  <2>. SUFFICES ASSUME FileDemuxerInit PROVE FileInv
    OBVIOUS
  <2>1. /\ DOMAIN fileDemuxer = {"file_path_", "opened_", "eof_", "fmt_ctx_", "media_tracks_",
                                 "filtered", "aac_adts_", "opens", "calls"}
        /\ fileDemuxer.opened_ = FALSE /\ fileDemuxer.eof_ = FALSE
        /\ fileDemuxer.fmt_ctx_ = NoAvContext /\ fileDemuxer.media_tracks_ = {}
        /\ fileDemuxer.filtered = {} /\ fileDemuxer.aac_adts_ = <<>> /\ fileDemuxer.opens = 0
    BY DEF FileDemuxerInit
  <2>2. DOMAIN NoAvContext = {"file", "next"}
    BY DEF NoAvContext
  <2>3. DOMAIN fileDemuxer.aac_adts_ = {}
    BY <2>1
  <2>. DEFINE d == fileDemuxer
  <2>4. DOMAIN d.fmt_ctx_ = {"file", "next"} /\ d.opened_ \in BOOLEAN /\ d.opens \in Nat
    <3>1. DOMAIN d.fmt_ctx_ = {"file", "next"}
      BY <2>1, <2>2, Zenon
    <3>2. 0 \in Nat
      OBVIOUS
    <3>3. d.opened_ \in BOOLEAN /\ d.opens \in Nat
      BY <2>1, <3>2, Zenon
    <3>. QED  BY <3>1, <3>3
  <2>. HIDE DEF d
  <2>5. FileOk(d)
    BY <2>1, <2>3, <2>4 DEF FileOk, d
  <2>. QED  BY <2>1, <2>5 DEF FileInv, d
<1>2. FileInv /\ [FileDemuxerNext]_fileDemuxerVars => FileInv'
  BY FileStep
<1>3. FileInv => FileSamplesInOrder
  BY FileRead
<1>. QED  BY <1>1, <1>2, <1>3, PTL DEF FileDemuxerSpec

-----------------------------------------------------------------------------
(* OvData implements values: what its users can see of an object changes only  *)
(* by a call on that object, and to what the arguments say, whatever vectors   *)
(* the object shares with others at the time.                                  *)

DataObject == [ref : BOOLEAN, vec : Vectors \cup {NoVector}, offset : Nat, length : Nat]

(* The bytes that GetData and GetLength show are there.                        *)
Sound(o) ==
  LET d == objects[o]
  IN /\ Content(o) \in Seq(Nat) /\ Len(Content(o)) = d.length
     /\ d.vec # NoVector /\ ~d.ref => d.offset + d.length <= Len(heap[d.vec])
     /\ d.ref => d.length <= Len(Original)

DataTyped ==
  /\ objects \in [Objects -> DataObject]
  /\ heap \in [Vectors -> Seq(Nat)]
  /\ lost \subseteq Objects

ValuesInv == DataTyped /\ \A o \in Objects \ lost : Sound(o)

(* A step after which all objects but o are what they were, in vectors with    *)
(* the bytes they had.                                                         *)
ChangesOnly(o) ==
  /\ objects' \in [Objects -> DataObject]
  /\ heap' \in [Vectors -> Seq(Nat)]
  /\ \A p \in Objects \ {o} :
       /\ objects'[p] = objects[p]
       /\ objects[p].vec # NoVector => heap'[objects[p].vec] = heap[objects[p].vec]

-----------------------------------------------------------------------------
(* A piece of a sequence has the length of the piece.                          *)
LEMMA PieceOfSeq ==
  ASSUME NEW b \in Seq(Nat), NEW m \in Nat, NEW n \in Nat, m + n <= Len(b)
  PROVE  /\ SubSeq(b, m + 1, m + n) \in Seq(Nat)
         /\ Len(SubSeq(b, m + 1, m + n)) = n
         /\ \A i \in 1..n : SubSeq(b, m + 1, m + n)[i] = b[m + i]
<1>1. \A i \in m + 1..m + n : b[i] \in Nat
  BY ElementOfSeq
<1>. QED  BY <1>1, SubSeqProperties

(* A piece of a piece is a piece.                                              *)
LEMMA PieceOfPiece ==
  ASSUME NEW b \in Seq(Nat), NEW from \in Nat, NEW len \in Nat, from + len <= Len(b),
         NEW at \in Nat, NEW n \in Nat, at + n <= len
  PROVE  SubSeq(SubSeq(b, from + 1, from + len), at + 1, at + n)
           = SubSeq(b, from + at + 1, from + at + n)
<1>. DEFINE piece == SubSeq(b, from + 1, from + len)
            left == SubSeq(piece, at + 1, at + n)
            right == SubSeq(b, from + at + 1, from + at + n)
<1>1. /\ piece \in Seq(Nat) /\ Len(piece) = len
      /\ \A i \in 1..len : piece[i] = b[from + i]
  BY PieceOfSeq
<1>2. /\ left \in Seq(Nat) /\ Len(left) = n
      /\ \A i \in 1..n : left[i] = piece[at + i]
  <2>. HIDE DEF piece
  <2>. QED  BY <1>1, PieceOfSeq
<1>3. /\ right \in Seq(Nat) /\ Len(right) = n
      /\ \A i \in 1..n : right[i] = b[from + at + i]
  BY PieceOfSeq, from + at \in Nat
<1>4. \A i \in 1..n : left[i] = right[i]
  BY <1>1, <1>2, <1>3
<1>. HIDE DEF left, right
<1>5. left = right
  BY <1>2, <1>3, <1>4, SeqEqual
<1>. QED  BY <1>5 DEF left, right

-----------------------------------------------------------------------------
(* A vector that only o is on, or nobody, can be written without anybody else  *)
(* seeing it, whatever o becomes.                                              *)
LEMMA OthersAreKept ==
  ASSUME DataTyped, NEW o \in Objects, NEW d \in DataObject,
         NEW v, NEW bytes \in Seq(Nat),
         Put([objects EXCEPT ![o] = d], v, bytes),
         v \in Vectors => Users(v) \subseteq {o}
  PROVE  /\ objects'[o] = d
         /\ d.vec \in Vectors => heap'[d.vec] = IF d.vec = v THEN bytes ELSE heap[d.vec]
         /\ ChangesOnly(o)
<1>. USE DEF DataTyped
<1>1. objects' = [objects EXCEPT ![o] = d] /\ objects' \in [Objects -> DataObject]
  BY DEF Put
<1>2. heap' \in [Vectors -> Seq(Nat)]
  BY <1>1, EmptySeq DEF Put
<1>3. ASSUME NEW p \in Objects, objects'[p].vec \in Vectors
      PROVE  heap'[objects'[p].vec]
               = IF objects'[p].vec = v THEN bytes ELSE heap[objects'[p].vec]
  BY <1>1, <1>3 DEF Put
<1>4. objects'[o] = d
  BY <1>1
<1>5. d.vec \in Vectors => heap'[d.vec] = IF d.vec = v THEN bytes ELSE heap[d.vec]
  BY <1>3, <1>4
<1>6. ASSUME NEW p \in Objects \ {o}
      PROVE  /\ objects'[p] = objects[p]
             /\ objects[p].vec # NoVector => heap'[objects[p].vec] = heap[objects[p].vec]
  <2>1. objects'[p] = objects[p]
    BY <1>1
  <2>2. ASSUME objects[p].vec # NoVector
        PROVE  heap'[objects[p].vec] = heap[objects[p].vec]
    <3>1. objects[p].vec \in Vectors
      BY <2>2 DEF DataObject
    <3>2. objects[p].vec # v
      BY <3>1 DEF Users
    <3>. QED  BY <1>3, <2>1, <3>1, <3>2
  <2>. QED  BY <2>1, <2>2
<1>. QED  BY <1>1, <1>2, <1>4, <1>5, <1>6 DEF ChangesOnly

(* Detach and write: o has the bytes, alone and from the front.                *)
LEMMA StoreEffect ==
  ASSUME DataTyped, NEW o \in Objects, NEW bytes \in Seq(Nat), NEW n \in Nat,
         Store(o, bytes, n)
  PROVE  /\ ChangesOnly(o)
         /\ n = Len(bytes) => Content(o)' = bytes /\ Sound(o)'
<1>1. PICK v \in Vectors : /\ Put([objects EXCEPT ![o] = Own(v, n)], v, bytes)
                           /\ Users(v) \subseteq {o}
  <2>1. CASE KeepsVector(o) /\ Put([objects EXCEPT ![o] = Own(objects[o].vec, n)],
                                   objects[o].vec, bytes)
    BY <2>1 DEF KeepsVector, DataTyped, DataObject
  <2>2. CASE Free # {} /\ LET v == CHOOSE v \in Free : TRUE
                          IN Put([objects EXCEPT ![o] = Own(v, n)], v, bytes)
    BY <2>2 DEF Free
  <2>. QED  BY <2>1, <2>2 DEF Store
<1>2. Own(v, n) \in DataObject /\ Own(v, n).vec = v
  BY DEF Own, DataObject
<1>3. objects'[o] = Own(v, n) /\ heap'[v] = bytes /\ ChangesOnly(o)
  BY <1>1, <1>2, OthersAreKept
<1>4. ASSUME n = Len(bytes) PROVE Content(o)' = bytes /\ Sound(o)'
  <2>1. Content(o)' = SubSeq(bytes, 1, n)
    BY <1>3, DataAssumption DEF Content, Own
  <2>2. Content(o)' = bytes
    BY <1>4, <2>1, SubSeqFull
  <2>. QED  BY <1>3, <1>4, <2>2 DEF Sound, Own
<1>. QED  BY <1>3, <1>4

(* The same for a vector made for the purpose; with an offset the value is not *)
(* the bytes.                                                                  *)
LEMMA NewVectorEffect ==
  ASSUME DataTyped, NEW o \in Objects, NEW bytes \in Seq(Nat), NEW offset \in Nat,
         InNewVector(o, bytes, offset)
  PROVE  /\ ChangesOnly(o)
         /\ offset = 0 => Content(o)' = bytes /\ Sound(o)'
<1>. DEFINE d(v) == [Own(v, Len(bytes)) EXCEPT !.offset = offset]
<1>1. PICK v \in Vectors : Put([objects EXCEPT ![o] = d(v)], v, bytes) /\ Users(v) = {}
  BY DEF InNewVector, Free
<1>2. /\ d(v) \in DataObject /\ d(v).vec = v /\ ~d(v).ref
      /\ d(v).offset = offset /\ d(v).length = Len(bytes)
  BY LenProperties DEF Own, DataObject
<1>. HIDE DEF d
<1>3. objects'[o] = d(v) /\ heap'[v] = bytes /\ ChangesOnly(o)
  BY <1>1, <1>2, OthersAreKept
<1>4. ASSUME offset = 0 PROVE Content(o)' = bytes /\ Sound(o)'
  <2>1. Content(o)' = SubSeq(bytes, 1, Len(bytes))
    BY <1>2, <1>3, <1>4, DataAssumption DEF Content
  <2>2. Content(o)' = bytes
    BY <2>1, SubSeqFull
  <2>. QED  BY <1>2, <1>3, <1>4, <2>2 DEF Sound
<1>. QED  BY <1>3, <1>4

-----------------------------------------------------------------------------
(* A call the class serves makes its object what the bytes are that it has     *)
(* now, and the object can be used again.                                      *)
LEMMA ServedCall ==
  ASSUME ValuesInv, NEW o \in Objects, ChangesOnly(o), Sound(o)', lost' = lost \ {o}
  PROVE  ValuesInv' /\ shown' = [shown EXCEPT ![o] = Content(o)']
<1>1. ASSUME NEW p \in Objects \ {o} PROVE Content(p)' = Content(p)
  BY <1>1 DEF ChangesOnly, Content
<1>2. ASSUME NEW p \in Objects \ {o}, p \notin lost PROVE Sound(p)'
  BY <1>1, <1>2 DEF ChangesOnly, Sound, ValuesInv
<1>3. DataTyped'
  BY DEF ChangesOnly, ValuesInv, DataTyped
<1>4. ValuesInv'
  BY <1>2, <1>3 DEF ValuesInv
<1>5. shown' = [shown EXCEPT ![o] = Content(o)']
  BY <1>1 DEF shown
<1>. QED  BY <1>4, <1>5

(* One it does not serve loses the value of its object and no other.           *)
LEMMA UnservedCall ==
  ASSUME ValuesInv, NEW o \in Objects, ChangesOnly(o), lost' = lost \cup {o}
  PROVE  ValuesInv' /\ shown' = [shown EXCEPT ![o] = <<"lost">>]
<1>1. ASSUME NEW p \in Objects \ {o} PROVE Content(p)' = Content(p)
  BY <1>1 DEF ChangesOnly, Content
<1>2. ASSUME NEW p \in Objects \ {o}, p \notin lost PROVE Sound(p)'
  BY <1>1, <1>2 DEF ChangesOnly, Sound, ValuesInv
<1>3. DataTyped'
  BY DEF ChangesOnly, ValuesInv, DataTyped
<1>4. ValuesInv'
  BY <1>2, <1>3 DEF ValuesInv
<1>5. shown' = [shown EXCEPT ![o] = <<"lost">>]
  BY <1>1 DEF shown
<1>. QED  BY <1>4, <1>5

(* The names of the calls and the arguments most of them have.                 *)
LEMMA Arguments ==
  /\ "create" \in Operations /\ "is" \in Operations /\ "move" \in Operations
  /\ "subdata" \in Operations /\ "keep" \in Operations /\ "resize" \in Operations
  /\ "insert" \in Operations /\ "add" \in Operations /\ "erase" \in Operations
  /\ "write" \in Operations
  /\ 0 \in Int /\ 0 \in Nat /\ <<>> \in Seq(Nat)
BY EmptySeq DEF Operations

(* The last call is never the one that stands for none.                        *)
LEMMA ServedCallIsMade ==
  ASSUME NEW op \in Operations, NEW o \in Objects, NEW s \in Objects, NEW at \in Int, NEW n \in Nat,
         NEW bytes \in Seq(Nat), Call(op, o, s, at, n, bytes, TRUE)
  PROVE  /\ call' # NoCall /\ call'.served /\ lost' = lost \ {o}
         /\ call'.op = op /\ call'.on = o /\ call'.from = s /\ call'.at = at /\ call'.n = n
         /\ call'.bytes = bytes
<1>1. call' = [op |-> op, on |-> o, from |-> s, at |-> at, n |-> n, bytes |-> bytes,
               served |-> TRUE]
  BY DEF Call
<1>2. lost' = lost \ {o}
  BY DEF Call
<1>3. call' # NoCall
  <2>1. TRUE \in BOOLEAN
    OBVIOUS
  <2>2. call' \in [op : Operations, on : Objects, from : Objects, at : Int, n : Nat,
                    bytes : Seq(Nat), served : BOOLEAN]
    BY <1>1, <2>1, Zenon
  <2>. QED  BY <2>2, DataAssumption, Zenon
<1>4. call'.served
  BY <1>1
<1>5. /\ call'.op = op /\ call'.on = o /\ call'.from = s /\ call'.at = at /\ call'.n = n
         /\ call'.bytes = bytes
  BY <1>1
<1>. QED  BY <1>1, <1>2, <1>3, <1>4, <1>5

(* The same of a call that is not served.                                      *)
LEMMA UnservedCallIsMade ==
  ASSUME NEW op \in Operations, NEW o \in Objects, NEW s \in Objects, NEW at \in Int, NEW n \in Nat,
         NEW bytes \in Seq(Nat), Call(op, o, s, at, n, bytes, FALSE)
  PROVE  call' # NoCall /\ ~call'.served /\ call'.on = o /\ lost' = lost \cup {o}
<1>1. call' = [op |-> op, on |-> o, from |-> s, at |-> at, n |-> n, bytes |-> bytes,
               served |-> FALSE]
  BY DEF Call
<1>2. lost' = lost \cup {o} /\ call'.on = o
  BY <1>1 DEF Call
<1>3. call' # NoCall
  <2>1. FALSE \in BOOLEAN
    OBVIOUS
  <2>2. call' \in [op : Operations, on : Objects, from : Objects, at : Int, n : Nat,
                    bytes : Seq(Nat), served : BOOLEAN]
    BY <1>1, <2>1, Zenon
  <2>. QED  BY <2>2, DataAssumption, Zenon
<1>4. ~call'.served
  BY <1>1
<1>. QED  BY <1>2, <1>3, <1>4

(* What can be read of an object that may be used.                             *)
LEMMA UsableIsSound ==
  ASSUME ValuesInv, NEW o \in Objects, Usable(o)
  PROVE  /\ shown[o] = Content(o) /\ Content(o) \in Seq(Nat)
         /\ Len(Content(o)) = objects[o].length /\ objects[o] \in DataObject
BY DEF ValuesInv, Usable, Sound, DataTyped, shown

-----------------------------------------------------------------------------
(* One lemma per operation.                                                    *)

(* An object made of bytes shows them, in a vector of its own.                 *)
LEMMA CreateCopyStep ==
  ASSUME ValuesInv, NEW o \in Objects, CreateCopy(o)
  PROVE  ValuesInv' /\ Values!ValuesNext
<1>1. PICK bytes \in Given : /\ InNewVector(o, bytes, 0)
                             /\ Call("create", o, o, 0, 0, bytes, TRUE)
  BY DEF CreateCopy
<1>2. bytes \in Seq(Nat)
  BY DataAssumption
<1>3. ChangesOnly(o) /\ Content(o)' = bytes /\ Sound(o)'
  BY <1>1, <1>2, NewVectorEffect DEF ValuesInv
<1>4. /\ call' # NoCall /\ lost' = lost \ {o}
      /\ call'.op = "create" /\ call'.on = o /\ call'.bytes = bytes /\ call'.served
  BY <1>1, <1>2, ServedCallIsMade, Arguments, Zenon
<1>5. ValuesInv' /\ shown' = [shown EXCEPT ![o] = bytes]
  BY <1>3, <1>4, ServedCall
<1>. QED  BY <1>4, <1>5 DEF Values!ValuesNext

(* A cleared object has a new empty vector and shows nothing.                  *)
LEMMA ClearStep ==
  ASSUME ValuesInv, NEW o \in Objects, Clear(o)
  PROVE  ValuesInv' /\ Values!ValuesNext
<1>1. InNewVector(o, <<>>, 0) /\ Call("create", o, o, 0, 0, <<>>, TRUE)
  BY DEF Clear
<1>2. <<>> \in Seq(Nat)
  BY EmptySeq
<1>3. ChangesOnly(o) /\ Content(o)' = <<>> /\ Sound(o)'
  BY <1>1, <1>2, NewVectorEffect DEF ValuesInv
<1>4. /\ call' # NoCall /\ lost' = lost \ {o}
      /\ call'.op = "create" /\ call'.on = o /\ call'.bytes = <<>> /\ call'.served
  BY <1>1, <1>2, ServedCallIsMade, Arguments, Zenon
<1>5. ValuesInv' /\ shown' = [shown EXCEPT ![o] = <<>>]
  BY <1>3, <1>4, ServedCall
<1>. QED  BY <1>4, <1>5 DEF Values!ValuesNext

(* Nothing is copied: o refers to what d says.                                 *)
LEMMA ReferEffect ==
  ASSUME DataTyped, NEW o \in Objects, NEW d \in DataObject, Refer(o, d)
  PROVE  /\ ChangesOnly(o) /\ objects'[o] = d
         /\ d.vec \in Vectors => heap'[d.vec] = heap[d.vec]
<1>1. Put([objects EXCEPT ![o] = d], NoVector, <<>>)
  BY DEF Refer
<1>2. <<>> \in Seq(Nat) /\ NoVector \notin Vectors
  BY EmptySeq, DataAssumption
<1>3. /\ objects'[o] = d /\ ChangesOnly(o)
      /\ d.vec \in Vectors => heap'[d.vec] = IF d.vec = NoVector THEN <<>> ELSE heap[d.vec]
  BY <1>1, <1>2, OthersAreKept
<1>. QED  BY <1>2, <1>3

(* An object that refers to the caller's memory shows its beginning.           *)
LEMMA CreateReferenceStep ==
  ASSUME ValuesInv, NEW o \in Objects, CreateReference(o)
  PROVE  ValuesInv' /\ Values!ValuesNext
<1>1. PICK n \in 0..Len(Original) :
        /\ Refer(o, [ref |-> TRUE, vec |-> NoVector, offset |-> 0, length |-> n])
        /\ Call("create", o, o, 0, 0, SubSeq(Original, 1, n), TRUE)
  BY DEF CreateReference
<1>. DEFINE d == [ref |-> TRUE, vec |-> NoVector, offset |-> 0, length |-> n]
            bytes == SubSeq(Original, 1, n)
<1>2. d \in DataObject /\ d.ref /\ d.length = n
  BY LenProperties, DataAssumption DEF DataObject
<1>3. bytes \in Seq(Nat) /\ Len(bytes) = n
  BY DataAssumption, SubSeqProperties, ElementOfSeq
<1>. HIDE DEF d, bytes
<1>4. ChangesOnly(o) /\ objects'[o] = d
  BY <1>1, <1>2, ReferEffect DEF ValuesInv, d
<1>5. Content(o)' = bytes
  BY <1>2, <1>4 DEF Content, bytes
<1>6. Sound(o)'
  BY <1>2, <1>3, <1>4, <1>5 DEF Sound
<1>7. /\ call' # NoCall /\ lost' = lost \ {o}
      /\ call'.op = "create" /\ call'.on = o /\ call'.bytes = bytes /\ call'.served
  <2>1. Call("create", o, o, 0, 0, bytes, TRUE)
    BY <1>1 DEF bytes
  <2>. QED  BY <1>3, <2>1, ServedCallIsMade, Arguments, Zenon
<1>8. ValuesInv' /\ shown' = [shown EXCEPT ![o] = bytes]
  BY <1>4, <1>5, <1>6, <1>7, ServedCall
<1>. QED  BY <1>7, <1>8 DEF Values!ValuesNext

(* What s shows is what o shows when it becomes the same.                      *)
LEMMA SameIsShown ==
  ASSUME ValuesInv, NEW o \in Objects, NEW s \in Objects, Usable(s), Refer(o, objects[s])
  PROVE  ChangesOnly(o) /\ Content(o)' = Content(s) /\ Sound(o)'
<1>1. Sound(s) /\ objects[s] \in DataObject /\ DataTyped
  BY DEF ValuesInv, DataTyped, Usable
<1>2. /\ ChangesOnly(o) /\ objects'[o] = objects[s]
      /\ objects[s].vec \in Vectors => heap'[objects[s].vec] = heap[objects[s].vec]
  BY <1>1, ReferEffect
<1>3. objects[s].vec = NoVector \/ objects[s].vec \in Vectors
  BY <1>1 DEF DataObject
<1>4. Content(o)' = Content(s)
  BY <1>2, <1>3 DEF Content
<1>5. Sound(o)'
  BY <1>1, <1>2, <1>3, <1>4 DEF Sound
<1>. QED  BY <1>2, <1>4, <1>5

(* An assigned object shows what the source shows, in the same vector.         *)
LEMMA AssignStep ==
  ASSUME ValuesInv, NEW o \in Objects, NEW s \in Objects, Assign(o, s)
  PROVE  ValuesInv' /\ Values!ValuesNext
<1>1. Usable(s) /\ Refer(o, objects[s]) /\ Call("is", o, s, 0, 0, <<>>, TRUE)
  BY DEF Assign
<1>2. ChangesOnly(o) /\ Content(o)' = Content(s) /\ Sound(o)'
  BY <1>1, SameIsShown
<1>3. /\ call' # NoCall /\ lost' = lost \ {o}
      /\ call'.op = "is" /\ call'.on = o /\ call'.from = s /\ call'.served
  BY <1>1, ServedCallIsMade, Arguments, Zenon
<1>4. ValuesInv' /\ shown' = [shown EXCEPT ![o] = Content(s)]
  BY <1>2, <1>3, ServedCall
<1>5. shown[s] = Content(s)
  BY <1>1, UsableIsSound
<1>. QED  BY <1>3, <1>4, <1>5 DEF Values!ValuesNext

(* A copy of an object whose part begins its vector is another object with the *)
(* same value; of any other object the copy is lost.                           *)
LEMMA CopyConstructStep ==
  ASSUME ValuesInv, NEW o \in Objects, NEW s \in Objects, CopyConstruct(o, s)
  PROVE  ValuesInv' /\ Values!ValuesNext
<1>1. /\ Usable(s)
      /\ \/ objects[s].vec = NoVector /\ Refer(o, objects[s])
         \/ objects[s].vec # NoVector /\ InNewVector(o, Content(s), objects[s].offset)
      /\ Call("is", o, s, 0, 0, <<>>, objects[s].offset = 0)
  BY DEF CopyConstruct
<1>2. /\ shown[s] = Content(s) /\ Content(s) \in Seq(Nat)
      /\ objects[s] \in DataObject /\ objects[s].offset \in Nat
  BY <1>1, UsableIsSound DEF DataObject
<1>3. ChangesOnly(o)
  BY <1>1, <1>2, SameIsShown, NewVectorEffect DEF ValuesInv
<1>4. CASE objects[s].offset = 0
  <2>1. Call("is", o, s, 0, 0, <<>>, TRUE)
    BY <1>1, <1>4 DEF Call
  <2>2. Content(o)' = Content(s) /\ Sound(o)'
    BY <1>1, <1>2, <1>4, SameIsShown, NewVectorEffect DEF ValuesInv
  <2>3. /\ call' # NoCall /\ lost' = lost \ {o}
        /\ call'.op = "is" /\ call'.on = o /\ call'.from = s /\ call'.served
    BY <2>1, ServedCallIsMade, Arguments, Zenon
  <2>4. ValuesInv' /\ shown' = [shown EXCEPT ![o] = Content(s)]
    BY <1>3, <2>2, <2>3, ServedCall
  <2>. QED  BY <1>2, <2>3, <2>4 DEF Values!ValuesNext
<1>5. CASE objects[s].offset # 0
  <2>1. Call("is", o, s, 0, 0, <<>>, FALSE)
    BY <1>1, <1>5 DEF Call
  <2>2. call' # NoCall /\ ~call'.served /\ call'.on = o /\ lost' = lost \cup {o}
    BY <2>1, UnservedCallIsMade, Arguments, Zenon
  <2>3. ValuesInv' /\ shown' = [shown EXCEPT ![o] = <<"lost">>]
    BY <1>3, <2>2, UnservedCall
  <2>. QED  BY <2>2, <2>3 DEF Values!ValuesNext, Values!Lost
<1>. QED  BY <1>4, <1>5

(* The source shows nothing any more and the target what the source did.       *)
LEMMA MoveConstructStep ==
  ASSUME ValuesInv, NEW o \in Objects, NEW s \in Objects, MoveConstruct(o, s)
  PROVE  ValuesInv' /\ Values!ValuesNext
<1>1. /\ o # s /\ Usable(s)
      /\ Put([objects EXCEPT ![o] = objects[s], ![s] = Hollow], NoVector, <<>>)
      /\ Call("move", o, s, 0, 0, <<>>, TRUE)
  BY DEF MoveConstruct
<1>2. DataTyped /\ objects[s] \in DataObject /\ Hollow \in DataObject /\ Sound(s)
  BY <1>1 DEF ValuesInv, DataTyped, Usable, Hollow, DataObject
<1>3. /\ objects' \in [Objects -> DataObject] /\ objects'[o] = objects[s] /\ objects'[s] = Hollow
      /\ \A p \in Objects \ {o, s} : objects'[p] = objects[p]
  BY <1>1, <1>2 DEF Put, DataTyped
<1>4. heap' \in [Vectors -> Seq(Nat)]
  BY <1>1, <1>2, EmptySeq, DataAssumption DEF Put, DataTyped
<1>5. ASSUME NEW p \in Objects, objects'[p].vec \in Vectors
      PROVE  heap'[objects'[p].vec] = heap[objects'[p].vec]
  BY <1>1, <1>3, <1>5, DataAssumption DEF Put
<1>6. \A p \in Objects : objects'[p].vec = NoVector \/ objects'[p].vec \in Vectors
  BY <1>3 DEF DataObject
<1>7. /\ Content(o)' = Content(s)
      /\ \A p \in Objects \ {o, s} : Content(p)' = Content(p)
  BY <1>3, <1>5, <1>6 DEF Content
<1>8. Content(s)' = <<>> /\ Sound(s)'
  BY <1>3, EmptySeq DEF Content, Sound, Hollow
<1>9. Sound(o)'
  BY <1>2, <1>3, <1>5, <1>6, <1>7 DEF Sound
<1>10. /\ call' # NoCall /\ lost' = lost \ {o}
       /\ call'.op = "move" /\ call'.on = o /\ call'.from = s /\ call'.served
  BY <1>1, ServedCallIsMade, Arguments, Zenon
<1>11. ASSUME NEW p \in Objects \ {o, s}, p \notin lost PROVE Sound(p)'
  BY <1>3, <1>5, <1>6, <1>7, <1>11 DEF Sound, ValuesInv
<1>12. ValuesInv'
  BY <1>2, <1>3, <1>4, <1>8, <1>9, <1>10, <1>11 DEF ValuesInv, DataTyped
<1>13. shown' = [shown EXCEPT ![o] = Content(s), ![s] = <<>>]
  BY <1>1, <1>7, <1>8, <1>10 DEF shown, Usable
<1>14. shown[s] = Content(s)
  BY <1>1, UsableIsSound
<1>. QED  BY <1>10, <1>12, <1>13, <1>14 DEF Values!ValuesNext

(* A part is the bytes it names, in the vector of the whole.                   *)
LEMMA SubdataStep ==
  ASSUME ValuesInv, NEW o \in Objects, NEW s \in Objects, Subdata(o, s)
  PROVE  ValuesInv' /\ Values!ValuesNext
<1>. DEFINE d == objects[s]
<1>1. Usable(s)
  BY DEF Subdata
<1>2. PICK at \in Parts(s), n \in 0..MaxLength :
        /\ Place(s, at) + n <= d.length
        /\ IF d.ref /\ Free # {}
           THEN LET v == CHOOSE v \in Free : TRUE
                IN Put([objects EXCEPT ![o] = [ref |-> TRUE, vec |-> v,
                          offset |-> d.offset + Place(s, at), length |-> n]], v, <<>>)
           ELSE Refer(o, [d EXCEPT !.offset = d.offset + Place(s, at), !.length = n])
        /\ Call("subdata", o, s, at, n, <<>>, ~d.ref \/ d.offset + Place(s, at) = 0)
  BY DEF Subdata
<1>. DEFINE from == Place(s, at)
<1>3. /\ shown[s] = Content(s) /\ Content(s) \in Seq(Nat) /\ Len(Content(s)) = d.length
      /\ d \in DataObject /\ Sound(s) /\ DataTyped
  BY <1>1, UsableIsSound DEF ValuesInv, Usable
<1>4. at \in Int /\ n \in Nat /\ from \in Nat /\ from + n <= d.length
  BY <1>2, <1>3, DataAssumption DEF Parts, DataObject
<1>5. Values!Place(Content(s), at) = from
  BY <1>3 DEF Place, Values!Place
<1>6. PICK e \in DataObject :
        /\ e.ref = d.ref /\ e.offset = d.offset + from /\ e.length = n
        /\ ~d.ref => e.vec = d.vec
        /\ objects'[o] = e /\ ChangesOnly(o)
        /\ ~d.ref /\ d.vec \in Vectors => heap'[d.vec] = heap[d.vec]
  <2>1. CASE d.ref /\ Free # {}
    <3>1. PICK v \in Vectors :
            /\ Users(v) = {}
            /\ Put([objects EXCEPT ![o] = [ref |-> TRUE, vec |-> v,
                      offset |-> d.offset + from, length |-> n]], v, <<>>)
      BY <1>2, <2>1 DEF Free
    <3>. DEFINE e == [ref |-> TRUE, vec |-> v, offset |-> d.offset + from, length |-> n]
    <3>2. e \in DataObject
      BY <1>3, <1>4 DEF DataObject
    <3>3. objects'[o] = e /\ ChangesOnly(o)
      <4>1. e.vec = v /\ (v \in Vectors => Users(v) \subseteq {o})
        BY <3>1
      <4>2. Put([objects EXCEPT ![o] = e], v, <<>>)
        BY <3>1
      <4>. HIDE DEF e
      <4>. QED  BY <1>3, <3>2, <4>1, <4>2, EmptySeq, OthersAreKept
    <3>4. e.ref = d.ref /\ e.offset = d.offset + from /\ e.length = n
      BY <2>1, <1>3 DEF DataObject
    <3>. QED  BY <2>1, <3>2, <3>3, <3>4
  <2>2. CASE ~(d.ref /\ Free # {})
    <3>. DEFINE e == [d EXCEPT !.offset = d.offset + from, !.length = n]
    <3>1. /\ e \in DataObject /\ e.ref = d.ref /\ e.vec = d.vec
          /\ e.offset = d.offset + from /\ e.length = n
      <4>. HIDE DEF d, from
      <4>1. d.offset + from \in Nat
        BY <1>3, <1>4 DEF DataObject
      <4>. QED  BY <1>3, <1>4, <4>1 DEF DataObject
    <3>2. Refer(o, e)
      BY <1>2, <2>2
    <3>. HIDE DEF e
    <3>3. /\ ChangesOnly(o) /\ objects'[o] = e
          /\ e.vec \in Vectors => heap'[e.vec] = heap[e.vec]
      BY <1>3, <3>1, <3>2, ReferEffect
    <3>. QED  BY <3>1, <3>3
  <2>. QED  BY <2>1, <2>2
<1>. HIDE DEF from
<1>7. CASE ~d.ref \/ d.offset + from = 0
  <2>1. Call("subdata", o, s, at, n, <<>>, TRUE)
    BY <1>2, <1>7 DEF Call, from
  <2>2. /\ call' # NoCall /\ lost' = lost \ {o} /\ call'.op = "subdata" /\ call'.on = o
        /\ call'.from = s /\ call'.at = at /\ call'.n = n /\ call'.served
    BY <1>4, <2>1, ServedCallIsMade, Arguments, Zenon
  <2>3. /\ Content(o)' = SubSeq(Content(s), from + 1, from + n)
        /\ ~d.ref /\ d.vec # NoVector => d.offset + from + n <= Len(heap[d.vec])
    <3>1. CASE d.ref
      <4>1. d.offset = 0 /\ from = 0
        BY <1>3, <1>4, <1>7, <3>1 DEF DataObject
      <4>2. Content(o)' = SubSeq(Original, 0 + 0 + 1, 0 + 0 + n)
        <5>1. Content(o)' = SubSeq(Original, 1, n)
          BY <1>6, <3>1 DEF Content
        <5>2. 0 + 0 + 1 = 1 /\ 0 + 0 + n = n
          BY <1>4
        <5>. QED  BY <5>1, <5>2
      <4>3. Content(s) = SubSeq(Original, 0 + 1, 0 + d.length)
        BY <1>3, <3>1 DEF Content, DataObject
      <4>4. d.length \in Nat /\ 0 + d.length <= Len(Original) /\ 0 + n <= d.length
        BY <1>3, <1>4, <3>1, <4>1, DataAssumption DEF DataObject, Sound
      <4>5. SubSeq(Content(s), 0 + 1, 0 + n) = SubSeq(Original, 0 + 0 + 1, 0 + 0 + n)
        BY <1>4, <4>3, <4>4, PieceOfPiece, DataAssumption
      <4>. QED  BY <3>1, <4>1, <4>2, <4>5
    <3>2. CASE ~d.ref /\ d.vec = NoVector
      <4>1. Content(s) = <<>> /\ Content(o)' = <<>>
        BY <1>6, <3>2 DEF Content
      <4>2. SubSeq(<<>>, from + 1, from + n) = <<>>
        BY <1>3, <1>4, <4>1, SubSeqEmpty
      <4>. QED  BY <3>2, <4>1, <4>2
    <3>3. CASE ~d.ref /\ d.vec # NoVector
      <4>1. /\ Content(s) = SubSeq(heap[d.vec], d.offset + 1, d.offset + d.length)
            /\ d.offset + d.length <= Len(heap[d.vec])
            /\ heap[d.vec] \in Seq(Nat) /\ d.offset \in Nat /\ d.length \in Nat
            /\ d.vec \in Vectors
        BY <1>3, <3>3 DEF Content, Sound, DataTyped, DataObject
      <4>2. Content(o)' = SubSeq(heap[d.vec], d.offset + from + 1, d.offset + from + n)
        BY <1>6, <3>3, <4>1 DEF Content
      <4>3. SubSeq(Content(s), from + 1, from + n)
              = SubSeq(heap[d.vec], d.offset + from + 1, d.offset + from + n)
        <5>. DEFINE b == heap[d.vec]
                    offset == d.offset
                    length == d.length
        <5>1. /\ b \in Seq(Nat) /\ offset \in Nat /\ length \in Nat
              /\ offset + length <= Len(b) /\ from + n <= length
              /\ from \in Nat /\ n \in Nat
          BY <1>4, <4>1
        <5>. HIDE DEF b, offset, length
        <5>2. SubSeq(SubSeq(b, offset + 1, offset + length), from + 1, from + n)
                = SubSeq(b, offset + from + 1, offset + from + n)
          BY <5>1, PieceOfPiece
        <5>. QED  BY <4>1, <5>2 DEF b, offset, length
      <4>4. d.offset + from + n <= Len(heap[d.vec])
        <5>. HIDE DEF d
        <5>1. Len(heap[d.vec]) \in Nat
          BY <4>1, LenProperties
        <5>. QED  BY <1>4, <4>1, <5>1
      <4>. QED  BY <4>2, <4>3, <4>4
    <3>. QED  BY <3>1, <3>2, <3>3
  <2>4. Sound(o)'
    <3>1. Content(o)' \in Seq(Nat) /\ Len(Content(o)') = n
      <4>. DEFINE b == Content(s)
      <4>1. b \in Seq(Nat) /\ from + n <= Len(b)
        BY <1>3, <1>4
      <4>2. Content(o)' = SubSeq(b, from + 1, from + n)
        BY <2>3
      <4>. HIDE DEF b, d
      <4>3. SubSeq(b, from + 1, from + n) \in Seq(Nat)
            /\ Len(SubSeq(b, from + 1, from + n)) = n
        BY <1>4, <4>1, PieceOfSeq
      <4>. QED  BY <4>2, <4>3
    <3>2. d.ref => n <= Len(Original)
      BY <1>3, <1>4, DataAssumption DEF Sound, DataObject
    <3>. QED  BY <1>3, <1>4, <1>6, <2>3, <3>1, <3>2 DEF Sound, DataObject
  <2>5. ValuesInv' /\ shown' = [shown EXCEPT ![o] = SubSeq(Content(s), from + 1, from + n)]
    BY <1>6, <2>2, <2>3, <2>4, ServedCall
  <2>. QED  BY <1>3, <1>5, <2>2, <2>5 DEF Values!ValuesNext
<1>8. CASE ~(~d.ref \/ d.offset + from = 0)
  <2>1. Call("subdata", o, s, at, n, <<>>, FALSE)
    BY <1>2, <1>8 DEF Call, from
  <2>2. call' # NoCall /\ ~call'.served /\ call'.on = o /\ lost' = lost \cup {o}
    BY <1>4, <2>1, UnservedCallIsMade, Arguments, Zenon
  <2>3. ValuesInv' /\ shown' = [shown EXCEPT ![o] = <<"lost">>]
    BY <1>6, <2>2, UnservedCall
  <2>. QED  BY <2>2, <2>3 DEF Values!ValuesNext, Values!Lost
<1>. QED  BY <1>7, <1>8

(* A refused call, and one that only makes the object the user of its vector.  *)
LEMMA RefusedStep ==
  ASSUME ValuesInv, NEW o \in Objects, Usable(o), Refused(o)
  PROVE  ValuesInv' /\ Values!ValuesNext
<1>1. UNCHANGED <<objects, heap>> /\ Call("keep", o, o, 0, 0, <<>>, TRUE)
  BY DEF Refused
<1>2. /\ call' # NoCall /\ lost' = lost \ {o}
      /\ call'.op = "keep" /\ call'.on = o /\ call'.served
  BY <1>1, ServedCallIsMade, Arguments, Zenon
<1>3. ChangesOnly(o) /\ Content(o)' = Content(o) /\ Sound(o)'
  BY <1>1 DEF ChangesOnly, Content, Sound, ValuesInv, DataTyped, Usable
<1>4. ValuesInv' /\ shown' = [shown EXCEPT ![o] = Content(o)]
  BY <1>2, <1>3, ServedCall
<1>5. shown[o] = Content(o)
  BY UsableIsSound
<1>. QED  BY <1>2, <1>4, <1>5 DEF Values!ValuesNext

(* Reserving detaches the object and leaves what it shows.                     *)
LEMMA ReserveStep ==
  ASSUME ValuesInv, NEW o \in Objects, Reserve(o)
  PROVE  ValuesInv' /\ Values!ValuesNext
<1>1. /\ Usable(o) /\ Store(o, Content(o), objects[o].length)
      /\ Call("keep", o, o, 0, 0, <<>>, TRUE)
  BY DEF Reserve
<1>2. /\ shown[o] = Content(o) /\ Content(o) \in Seq(Nat)
      /\ objects[o].length \in Nat /\ objects[o].length = Len(Content(o))
  BY <1>1, UsableIsSound DEF DataObject
<1>3. ChangesOnly(o) /\ Content(o)' = Content(o) /\ Sound(o)'
  BY <1>1, <1>2, StoreEffect DEF ValuesInv
<1>4. /\ call' # NoCall /\ lost' = lost \ {o}
      /\ call'.op = "keep" /\ call'.on = o /\ call'.served
  BY <1>1, ServedCallIsMade, Arguments, Zenon
<1>5. ValuesInv' /\ shown' = [shown EXCEPT ![o] = Content(o)]
  BY <1>3, <1>4, ServedCall
<1>. QED  BY <1>2, <1>4, <1>5 DEF Values!ValuesNext

(* A shortened value loses its end, a lengthened one is filled with zeros.     *)
LEMMA SetLengthStep ==
  ASSUME ValuesInv, NEW o \in Objects, SetLength(o)
  PROVE  ValuesInv' /\ Values!ValuesNext
<1>1. Usable(o)
  BY DEF SetLength
<1>2. PICK n \in 0..MaxLength :
        /\ Store(o, [i \in 1..n |-> IF i <= objects[o].length THEN Content(o)[i] ELSE 0], n)
        /\ Call("resize", o, o, 0, n, <<>>, TRUE)
  BY DEF SetLength
<1>3. /\ shown[o] = Content(o) /\ Content(o) \in Seq(Nat)
      /\ objects[o].length \in Nat /\ objects[o].length = Len(Content(o))
  BY <1>1, UsableIsSound DEF DataObject
<1>. DEFINE bytes == [i \in 1..n |-> IF i <= objects[o].length THEN Content(o)[i] ELSE 0]
<1>4. n \in Nat /\ bytes \in Seq(Nat) /\ n = Len(bytes)
  <2>1. n \in Nat
    BY DataAssumption
  <2>2. bytes \in [1..n -> Nat]
    BY <1>3, <2>1, ElementOfSeq
  <2>. QED  BY <2>1, <2>2
<1>5. Values!Resized(Content(o), n) = bytes
  BY <1>3 DEF Values!Resized
<1>. HIDE DEF bytes
<1>6. ChangesOnly(o) /\ Content(o)' = bytes /\ Sound(o)'
  BY <1>2, <1>4, StoreEffect DEF ValuesInv, bytes
<1>7. /\ call' # NoCall /\ lost' = lost \ {o}
      /\ call'.op = "resize" /\ call'.on = o /\ call'.n = n /\ call'.served
  <2>1. n \in Nat /\ Call("resize", o, o, 0, n, <<>>, TRUE)
    BY <1>2, <1>4
  <2>. QED  BY <2>1, ServedCallIsMade, Arguments, Zenon
<1>8. ValuesInv' /\ shown' = [shown EXCEPT ![o] = bytes]
  BY <1>6, <1>7, ServedCall
<1>. QED  BY <1>3, <1>5, <1>7, <1>8 DEF Values!ValuesNext

(* A byte stored changes that byte of that object.                             *)
LEMMA WriteByteStep ==
  ASSUME ValuesInv, NEW o \in Objects, WriteByte(o)
  PROVE  ValuesInv' /\ Values!ValuesNext
<1>1. Usable(o)
  BY DEF WriteByte
<1>2. PICK i \in 1..objects[o].length, bytes \in Given :
        /\ Len(bytes) = 1
        /\ Store(o, [Content(o) EXCEPT ![i] = bytes[1]], objects[o].length)
        /\ Call("write", o, o, i, 0, bytes, TRUE)
  BY DEF WriteByte
<1>3. /\ shown[o] = Content(o) /\ Content(o) \in Seq(Nat)
      /\ objects[o].length \in Nat /\ objects[o].length = Len(Content(o))
  BY <1>1, UsableIsSound DEF DataObject
<1>4. i \in Int /\ i \in 1..Len(Content(o)) /\ bytes \in Seq(Nat) /\ bytes[1] \in Nat
  <2>1. bytes \in Seq(Nat) /\ 1 \in 1..Len(bytes)
    BY <1>2, DataAssumption
  <2>2. bytes[1] \in Nat
    BY <2>1, ElementOfSeq
  <2>. QED  BY <1>3, <2>1, <2>2
<1>. DEFINE written == [Content(o) EXCEPT ![i] = bytes[1]]
<1>5. written \in Seq(Nat) /\ Len(written) = objects[o].length
  BY <1>3, <1>4, ExceptSeq
<1>. HIDE DEF written
<1>6. ChangesOnly(o) /\ Content(o)' = written /\ Sound(o)'
  BY <1>2, <1>3, <1>5, StoreEffect DEF ValuesInv, written
<1>7. /\ call' # NoCall /\ lost' = lost \ {o} /\ call'.op = "write" /\ call'.on = o
      /\ call'.at = i /\ call'.bytes = bytes /\ call'.served
  BY <1>2, <1>4, ServedCallIsMade, Arguments, Zenon
<1>8. ValuesInv' /\ shown' = [shown EXCEPT ![o] = written]
  BY <1>6, <1>7, ServedCall
<1>. QED  BY <1>3, <1>7, <1>8 DEF Values!ValuesNext, written

(* Inserting makes a sequence longer by what is inserted.                      *)
LEMMA InsertedLength ==
  ASSUME NEW c \in Seq(Nat), NEW bytes \in Seq(Nat), NEW at \in 0..Len(c)
  PROVE  /\ SubSeq(c, 1, at) \o bytes \o SubSeq(c, at + 1, Len(c)) \in Seq(Nat)
         /\ Len(SubSeq(c, 1, at) \o bytes \o SubSeq(c, at + 1, Len(c))) = Len(c) + Len(bytes)
<1>. DEFINE before == SubSeq(c, 1, at)
            after == SubSeq(c, at + 1, Len(c))
<1>1. before \in Seq(Nat) /\ Len(before) = at
  BY SubSeqProperties, ElementOfSeq
<1>2. after \in Seq(Nat) /\ Len(after) = Len(c) - at
  BY SubSeqProperties, ElementOfSeq
<1>. HIDE DEF before, after
<1>. DEFINE front == before \o bytes
<1>3. front \in Seq(Nat) /\ Len(front) = at + Len(bytes)
  BY <1>1, ConcatProperties
<1>. HIDE DEF front
<1>4. front \o after \in Seq(Nat) /\ Len(front \o after) = at + Len(bytes) + (Len(c) - at)
  BY <1>2, <1>3, ConcatProperties
<1>5. Len(front \o after) = Len(c) + Len(bytes)
  BY <1>4, LenProperties
<1>. QED  BY <1>4, <1>5 DEF before, after, front

(* The bytes go where they were asked for, counted from either end.            *)
LEMMA WithInserts ==
  ASSUME ValuesInv, NEW o \in Objects, Usable(o), NEW bytes \in Seq(Nat), NEW at \in Parts(o)
  PROVE  /\ With(o, bytes, at) \in Seq(Nat)
         /\ Len(With(o, bytes, at)) = objects[o].length + Len(bytes)
         /\ With(o, bytes, at) = Values!Inserted(Content(o), bytes, at)
<1>1. Content(o) \in Seq(Nat) /\ objects[o].length = Len(Content(o))
  BY UsableIsSound
<1>2. Place(o, at) \in 0..Len(Content(o))
  BY <1>1 DEF Parts
<1>3. Values!Place(Content(o), at) = Place(o, at)
  BY <1>1 DEF Place, Values!Place
<1>4. With(o, bytes, at) = Values!Inserted(Content(o), bytes, at)
  BY <1>1, <1>3 DEF With, Values!Inserted
<1>5. /\ With(o, bytes, at) \in Seq(Nat)
      /\ Len(With(o, bytes, at)) = Len(Content(o)) + Len(bytes)
  BY <1>1, <1>2, InsertedLength DEF With
<1>. QED  BY <1>1, <1>4, <1>5

(* Inserted bytes are in the value of that object only.                        *)
LEMMA InsertBytesStep ==
  ASSUME ValuesInv, NEW o \in Objects, InsertBytes(o)
  PROVE  ValuesInv' /\ Values!ValuesNext
<1>1. Usable(o)
  BY DEF InsertBytes
<1>2. CASE Refused(o)
  BY <1>1, <1>2, RefusedStep
<1>3. CASE ~Refused(o)
  <2>1. PICK bytes \in Given, at \in Parts(o) :
          /\ Store(o, With(o, bytes, at), objects[o].length + Len(bytes))
          /\ Call("insert", o, o, at, 0, bytes, TRUE)
    BY <1>3 DEF InsertBytes
  <2>2. bytes \in Seq(Nat) /\ at \in Int
    BY DataAssumption DEF Parts
  <2>3. /\ With(o, bytes, at) \in Seq(Nat)
        /\ Len(With(o, bytes, at)) = objects[o].length + Len(bytes)
        /\ With(o, bytes, at) = Values!Inserted(Content(o), bytes, at)
    BY <1>1, <2>2, WithInserts
  <2>4. objects[o].length + Len(bytes) \in Nat
    BY <2>3, LenProperties
  <2>5. ChangesOnly(o) /\ Content(o)' = With(o, bytes, at) /\ Sound(o)'
    BY <2>1, <2>3, <2>4, StoreEffect DEF ValuesInv
  <2>6. /\ call' # NoCall /\ lost' = lost \ {o} /\ call'.op = "insert" /\ call'.on = o
        /\ call'.at = at /\ call'.bytes = bytes /\ call'.served
    BY <2>1, <2>2, ServedCallIsMade, Arguments, Zenon
  <2>7. ValuesInv' /\ shown' = [shown EXCEPT ![o] = With(o, bytes, at)]
    BY <2>5, <2>6, ServedCall
  <2>8. shown[o] = Content(o)
    BY <1>1, UsableIsSound
  <2>. QED  BY <2>3, <2>6, <2>7, <2>8 DEF Values!ValuesNext
<1>. QED  BY <1>2, <1>3

(* The bytes of another object, or of itself while it shares its vector.       *)
LEMMA InsertDataStep ==
  ASSUME ValuesInv, NEW o \in Objects, NEW s \in Objects, InsertData(o, s)
  PROVE  ValuesInv' /\ Values!ValuesNext
<1>1. Usable(o) /\ Usable(s)
  BY DEF InsertData
<1>2. CASE Refused(o)
  BY <1>1, <1>2, RefusedStep
<1>3. CASE ~Refused(o)
  <2>. DEFINE served == s # o \/ objects[o].ref \/ Users(objects[o].vec) # {o}
  <2>1. PICK at \in Parts(o) :
          /\ Store(o, With(o, Content(s), at), objects[o].length + objects[s].length)
          /\ Call("add", o, s, at, 0, <<>>, served)
    BY <1>3 DEF InsertData
  <2>2. /\ Content(s) \in Seq(Nat) /\ Len(Content(s)) = objects[s].length
        /\ shown[s] = Content(s) /\ shown[o] = Content(o) /\ at \in Int
    BY <1>1, UsableIsSound DEF Parts
  <2>3. /\ With(o, Content(s), at) \in Seq(Nat)
        /\ Len(With(o, Content(s), at)) = objects[o].length + objects[s].length
        /\ With(o, Content(s), at) = Values!Inserted(Content(o), Content(s), at)
    BY <1>1, <2>2, WithInserts
  <2>4. objects[o].length + objects[s].length \in Nat
    BY <2>3, LenProperties
  <2>5. ChangesOnly(o) /\ Content(o)' = With(o, Content(s), at) /\ Sound(o)'
    BY <2>1, <2>3, <2>4, StoreEffect DEF ValuesInv
  <2>6. CASE served
    <3>1. Call("add", o, s, at, 0, <<>>, TRUE)
      BY <2>1, <2>6 DEF Call
    <3>2. /\ call' # NoCall /\ lost' = lost \ {o} /\ call'.op = "add" /\ call'.on = o
          /\ call'.from = s /\ call'.at = at /\ call'.served
      BY <2>2, <3>1, ServedCallIsMade, Arguments, Zenon
    <3>3. ValuesInv' /\ shown' = [shown EXCEPT ![o] = With(o, Content(s), at)]
      BY <2>5, <3>2, ServedCall
    <3>. QED  BY <2>2, <2>3, <3>2, <3>3 DEF Values!ValuesNext
  <2>7. CASE ~served
    <3>1. Call("add", o, s, at, 0, <<>>, FALSE)
      BY <2>1, <2>7 DEF Call
    <3>2. call' # NoCall /\ ~call'.served /\ call'.on = o /\ lost' = lost \cup {o}
      BY <2>2, <3>1, UnservedCallIsMade, Arguments, Zenon
    <3>3. ValuesInv' /\ shown' = [shown EXCEPT ![o] = <<"lost">>]
      BY <2>5, <3>2, UnservedCall
    <3>. QED  BY <3>2, <3>3 DEF Values!ValuesNext, Values!Lost
  <2>. QED  BY <2>6, <2>7
<1>. QED  BY <1>2, <1>3

(* Only the first bytes can be erased; what another range leaves is lost.      *)
LEMMA EraseStep ==
  ASSUME ValuesInv, NEW o \in Objects, Erase(o)
  PROVE  ValuesInv' /\ Values!ValuesNext
<1>1. Usable(o)
  BY DEF Erase
<1>2. CASE Refused(o)
  BY <1>1, <1>2, RefusedStep
<1>3. CASE ~Refused(o)
  <2>. DEFINE length == objects[o].length
  <2>1. PICK n \in 0..length : \E at \in 0..n :
          /\ at + n < length
          /\ Store(o, SubSeq(Content(o), 1, at) \o SubSeq(Content(o), n + 1, length), length - n)
          /\ Call("erase", o, o, at, n, <<>>, at = 0)
    BY <1>3 DEF Erase
  <2>2. PICK at \in 0..n :
          /\ at + n < length
          /\ Store(o, SubSeq(Content(o), 1, at) \o SubSeq(Content(o), n + 1, length), length - n)
          /\ Call("erase", o, o, at, n, <<>>, at = 0)
    BY <2>1
  <2>3. /\ Content(o) \in Seq(Nat) /\ Len(Content(o)) = length
        /\ length \in Nat /\ shown[o] = Content(o)
    BY <1>1, UsableIsSound DEF DataObject
  <2>4. n \in Nat /\ at \in Int /\ length - n \in Nat /\ at <= length
    BY <2>2, <2>3
  <2>. HIDE DEF length
  <2>. DEFINE front == SubSeq(Content(o), 1, at)
              rest == SubSeq(Content(o), n + 1, length)
  <2>5. front \in Seq(Nat) /\ (at = 0 => front = <<>>)
    BY <2>3, <2>4, SubSeqProperties, SubSeqEmpty, ElementOfSeq
  <2>6. rest \in Seq(Nat) /\ Len(rest) = length - n
    BY <2>3, <2>4, SubSeqProperties, ElementOfSeq
  <2>. HIDE DEF front, rest
  <2>7. front \o rest \in Seq(Nat) /\ (at = 0 => front \o rest = rest)
    BY <2>5, <2>6, ConcatProperties, ConcatEmptySeq
  <2>8. Store(o, front \o rest, length - n)
    BY <2>2 DEF front, rest
  <2>9. ChangesOnly(o) /\ (at = 0 => Content(o)' = rest /\ Sound(o)')
    BY <2>4, <2>6, <2>7, <2>8, StoreEffect DEF ValuesInv
  <2>10. CASE at = 0
    <3>1. Call("erase", o, o, at, n, <<>>, TRUE)
      BY <2>2, <2>10 DEF Call
    <3>2. /\ call' # NoCall /\ lost' = lost \ {o} /\ call'.op = "erase" /\ call'.on = o
          /\ call'.n = n /\ call'.served
      BY <2>4, <3>1, ServedCallIsMade, Arguments, Zenon
    <3>3. ValuesInv' /\ shown' = [shown EXCEPT ![o] = rest]
      BY <2>9, <2>10, <3>2, ServedCall
    <3>. QED  BY <2>3, <3>2, <3>3 DEF Values!ValuesNext, rest
  <2>11. CASE at # 0
    <3>1. Call("erase", o, o, at, n, <<>>, FALSE)
      BY <2>2, <2>11 DEF Call
    <3>2. call' # NoCall /\ ~call'.served /\ call'.on = o /\ lost' = lost \cup {o}
      BY <2>4, <3>1, UnservedCallIsMade, Arguments, Zenon
    <3>3. ValuesInv' /\ shown' = [shown EXCEPT ![o] = <<"lost">>]
      BY <2>9, <3>2, UnservedCall
    <3>. QED  BY <3>2, <3>3 DEF Values!ValuesNext, Values!Lost
  <2>. QED  BY <2>10, <2>11
<1>. QED  BY <1>2, <1>3

-----------------------------------------------------------------------------
(* The theorems.                                                               *)

(* Objects that were given nothing show nothing.                               *)
LEMMA InitSound == DataInit => ValuesInv /\ Values!ValuesInit
<1>. SUFFICES ASSUME DataInit PROVE ValuesInv /\ Values!ValuesInit
  OBVIOUS
<1>1. DataTyped
  BY EmptySeq DEF DataInit, DataTyped, Hollow, DataObject
<1>2. \A o \in Objects : Content(o) = <<>>
  BY DEF DataInit, Content, Hollow
<1>3. ValuesInv
  BY <1>1, <1>2, EmptySeq DEF ValuesInv, Sound, DataInit, Hollow
<1>4. Values!ValuesInit
  BY <1>2 DEF Values!ValuesInit, DataInit, shown
<1>. QED  BY <1>3, <1>4

(* Every step is a step of the values, or changes none.                        *)
LEMMA StepRefines ==
  ASSUME ValuesInv, [DataNext]_dataVars
  PROVE  ValuesInv' /\ [Values!ValuesNext]_<<shown, call>>
<1>1. CASE DataNext
  <2>1. PICK o \in Objects :
          \/ CreateCopy(o) \/ CreateReference(o) \/ Reserve(o) \/ SetLength(o) \/ Clear(o)
          \/ InsertBytes(o) \/ Erase(o) \/ WriteByte(o)
          \/ \E s \in Objects : \/ CopyConstruct(o, s) \/ MoveConstruct(o, s) \/ Assign(o, s)
                                \/ Subdata(o, s) \/ InsertData(o, s)
    BY <1>1 DEF DataNext
  <2>2. CASE CreateCopy(o)
    BY <2>2, CreateCopyStep
  <2>3. CASE CreateReference(o)
    BY <2>3, CreateReferenceStep
  <2>4. CASE Reserve(o)
    BY <2>4, ReserveStep
  <2>5. CASE SetLength(o)
    BY <2>5, SetLengthStep
  <2>6. CASE Clear(o)
    BY <2>6, ClearStep
  <2>7. CASE InsertBytes(o)
    BY <2>7, InsertBytesStep
  <2>8. CASE Erase(o)
    BY <2>8, EraseStep
  <2>9. CASE WriteByte(o)
    BY <2>9, WriteByteStep
  <2>10. ASSUME NEW s \in Objects,
                \/ CopyConstruct(o, s) \/ MoveConstruct(o, s) \/ Assign(o, s)
                \/ Subdata(o, s) \/ InsertData(o, s)
         PROVE  ValuesInv' /\ Values!ValuesNext
    BY <2>10, CopyConstructStep, MoveConstructStep, AssignStep, SubdataStep, InsertDataStep
  <2>. QED  BY <2>1, <2>2, <2>3, <2>4, <2>5, <2>6, <2>7, <2>8, <2>9, <2>10
<1>2. CASE UNCHANGED dataVars
  <2>1. \A o \in Objects : Content(o)' = Content(o)
    BY <1>2 DEF dataVars, Content
  <2>2. ValuesInv'
    BY <1>2, <2>1 DEF dataVars, ValuesInv, DataTyped, Sound
  <2>3. UNCHANGED <<shown, call>>
    BY <1>2, <2>1 DEF dataVars, shown
  <2>. QED  BY <2>2, <2>3
<1>. QED  BY <1>1, <1>2

(* The objects are well typed, and what GetData and GetLength show of one that *)
(* may be used is there: no part reaches beyond its vector or beyond what the  *)
(* caller gave, whatever was done to the objects it shares the vector with.    *)
THEOREM PartsStayInBounds == DataSpec => [](DataTyped /\ InBounds)
<1>1. DataInit => ValuesInv
  BY InitSound
<1>2. ValuesInv /\ [DataNext]_dataVars => ValuesInv'
  BY StepRefines
<1>3. ValuesInv => DataTyped /\ InBounds
  BY DEF ValuesInv, Sound, InBounds
<1>. QED  BY <1>1, <1>2, <1>3, PTL DEF DataSpec

(* ov::Data implements values: for any objects, vectors, bytes and bounds,     *)
(* every call changes the value of its own object to what the arguments say.   *)
THEOREM ImplementsValues == DataSpec => ValueSemantics
<1>1. DataInit => ValuesInv /\ Values!ValuesInit
  BY InitSound
<1>2. ValuesInv /\ [DataNext]_dataVars => ValuesInv' /\ [Values!ValuesNext]_<<shown, call>>
  BY StepRefines
<1>. QED  BY <1>1, <1>2, PTL DEF DataSpec, ValueSemantics, Values!ValuesSpec

-----------------------------------------------------------------------------
(* TsMuxer.                                                                    *)
(*                                                                             *)
(* The packets of the open file carry whole PES with running counters, and the *)
(* next packet of every stream continues the last one there (Continues): the   *)
(* counters are the muxer's, and no two streams have a PID in common as long   *)
(* as the audio PIDs have not reached the video PIDs.                          *)
(* The PIDs of the audio streams stay below those of the video streams.        *)
FewPids == MaxTsCalls * Cardinality(DOMAIN TsTracks) <= PidVideo - PidAudio

TsStreams == [pid : Nat, cc : Nat]

TsMuxerOk(m) ==
  /\ DOMAIN m = {"media_tracks_", "media_streams_", "output_", "audio_stream_pid_",
                 "video_stream_pid_", "pat", "pmt", "calls"}
  /\ m.media_tracks_ \in SUBSET DOMAIN TsTracks
  /\ DOMAIN m.media_streams_ \subseteq DOMAIN TsTracks
  /\ m.media_streams_ \in [DOMAIN m.media_streams_ -> TsStreams]
  /\ m.output_ \in BOOLEAN
  /\ m.audio_stream_pid_ \in Nat /\ m.video_stream_pid_ \in Nat
  /\ m.pat \in Nat /\ m.pmt \in Nat
  /\ m.calls \in 0..MaxTsCalls

TsPackets ==
  [from : Nat, pes : Nat, pid : Nat, start : BOOLEAN, cc : Nat, pcr : BOOLEAN,
   adaptation : Nat, size : Nat]

TsPes == [sample : DOMAIN TsSamples, pid : Nat, header : Nat, units : Seq(TsUnits)]

(* A sample as its first writing leaves it.                                    *)
Made(s) ==
  LET given == TsSamples[s]
      to == Converted(given, TsTracks[given.track].extradata)
  IN [track |-> given.track, format |-> to.format, units |-> to.units, cut |-> given.cut]

(* A caller's sample is as it was given or as its first writing left it.       *)
SamplesMade ==
  /\ DOMAIN tsSamples = DOMAIN TsSamples
  /\ \A s \in DOMAIN TsSamples : tsSamples[s] \in {TsSamples[s], Made(s)}

TsPesOk(pes) ==
  /\ pes.sample \in DOMAIN TsSamples
  /\ pes.units = (IF TsTracks[TsSamples[pes.sample].track].type = "video"
                  THEN <<<<"aud", 6>>>> ELSE <<>>) \o Made(pes.sample).units

(* Streams have PIDs of their own, in the range of their type.                 *)
OwnPids(streams, audio, video, made) ==
  /\ \A id \in DOMAIN streams :
       IF TsTracks[id].type = "audio"
       THEN PidAudio <= streams[id].pid /\ streams[id].pid < audio
       ELSE PidVideo <= streams[id].pid /\ streams[id].pid < video
  /\ \A i, j \in DOMAIN streams : i # j => streams[i].pid # streams[j].pid
  /\ PidAudio <= audio /\ PidVideo <= video
  /\ audio <= PidAudio + made * Cardinality(DOMAIN TsTracks)

OwnPidsOf(m) == OwnPids(m.media_streams_, m.audio_stream_pid_, m.video_stream_pid_, m.calls)

(* The packets of a file, alone: every PES is whole.                           *)
StartsPes(sent, k) == k = 1 \/ sent[k - 1].pes # sent[k].pes
EndsPes(sent, k) == k = Len(sent) \/ sent[k + 1].pes # sent[k].pes
Follows(sent, k, j) ==
  sent[j].pid = sent[k].pid /\ \A i \in j + 1..k - 1 : sent[i].pid # sent[k].pid

PacketOk(p, pmt) ==
  /\ p.pid \in {PidPat, PidPmt} \cup pmt
  /\ 4 + p.adaptation + p.size = PacketSize
  /\ p.pcr => p.adaptation >= 2 + PcrAdaptationSize

InItsPes(sent, k, pes) ==
  sent[k].pes # 0 =>
    LET of == pes[sent[k].pes]
    IN /\ sent[k].pid = of.pid
       /\ sent[k].start <=> StartsPes(sent, k)
       /\ sent[k].from = IF StartsPes(sent, k) THEN 0 ELSE sent[k - 1].from + sent[k - 1].size
       /\ EndsPes(sent, k) => sent[k].from + sent[k].size = of.header + SizeOf(of.units)

Consecutive(sent, N) ==
  \A k \in 1..N : \A j \in 1..k - 1 : Follows(sent, k, j) => sent[k].cc = (sent[j].cc + 1) % 16

PesWhole(sent, N, pes, last, pmt) ==
  /\ \A k \in 1..N : PacketOk(sent[k], pmt)
  /\ Consecutive(sent, N)
  /\ \A n \in 1..last : \E k \in 1..N : sent[k].pes = n
  /\ \A k \in 1..N : InItsPes(sent, k, pes)
  /\ \A k \in 1..N - 1 : sent[k].pes <= sent[k + 1].pes

(* The next packet on a stream's PID follows the last one there.               *)
Awaited(sent, N, pid, cc) ==
  \A j \in 1..N :
    sent[j].pid = pid /\ (\A i \in j + 1..N : sent[i].pid # pid) => cc % 16 = (sent[j].cc + 1) % 16

Continues(sent, N, streams) ==
  \A id \in DOMAIN streams : Awaited(sent, N, streams[id].pid, streams[id].cc)

Numbered(sent, N, last) == \A k \in 1..N : sent[k].pes \in 0..last

TsFileOk(m, file) ==
  IF ~m.output_ THEN file = NoTsFile
  ELSE /\ file = [packets |-> file.packets, pmt |-> file.pmt, pes |-> file.pes]
       /\ file.packets \in Seq(TsPackets) /\ file.pes \in Seq(TsPes)
       /\ file.pmt = {m.media_streams_[id].pid : id \in DOMAIN m.media_streams_}
       /\ \A n \in 1..Len(file.pes) : TsPesOk(file.pes[n])
       /\ Numbered(file.packets, Len(file.packets), Len(file.pes))
       /\ PesWhole(file.packets, Len(file.packets), file.pes, Len(file.pes), file.pmt)
       /\ Continues(file.packets, Len(file.packets), m.media_streams_)

TsInv ==
  /\ TsMuxerOk(tsMuxer)
  /\ OwnPidsOf(tsMuxer)
  /\ SamplesMade
  /\ TsFileOk(tsMuxer, tsFile)

-----------------------------------------------------------------------------
(* A packet with the given fields.                                             *)
IsPacket(p, pid, cc, start, pcr, from, size, pes) ==
  /\ p \in TsPackets
  /\ p.pid = pid /\ p.cc = cc /\ p.from = from /\ p.size = size /\ p.pes = pes
  /\ p.start = start /\ p.pcr = pcr
  /\ 4 + p.adaptation + p.size = PacketSize
  /\ p.pcr => p.adaptation >= 2 + PcrAdaptationSize

RoomIn(pcr) == IF pcr THEN PacketPayloadSize - 2 - PcrAdaptationSize ELSE PacketPayloadSize

(* A packet takes the bytes its adaptation field leaves room for.              *)
LEMMA PacketIs ==
  ASSUME NEW stream \in TsStreams, NEW start \in BOOLEAN, NEW pes \in Nat, NEW from \in Nat,
         NEW wanted \in 0..PacketPayloadSize, NEW pcr \in BOOLEAN
  PROVE  IsPacket(WritePacketHeader(stream, start, pes, from, wanted, pcr),
                  stream.pid, stream.cc % 16, start, pcr, from,
                  IF wanted > RoomIn(pcr) THEN RoomIn(pcr) ELSE wanted, pes)
<1>. DEFINE size == IF wanted > RoomIn(pcr) THEN RoomIn(pcr) ELSE wanted
            field == IF pcr THEN 2 + PcrAdaptationSize ELSE 0
            held == IF wanted + field > PacketPayloadSize THEN PacketPayloadSize - field ELSE wanted
            adaptation == IF field + held < PacketPayloadSize THEN PacketPayloadSize - held ELSE field
            pid == stream.pid
            cc == stream.cc % 16
<1>1. WritePacketHeader(stream, start, pes, from, wanted, pcr)
        = [pid |-> pid, start |-> start, cc |-> cc, pcr |-> pcr,
           adaptation |-> adaptation, pes |-> pes, from |-> from, size |-> held]
  BY Zenon DEF WritePacketHeader
<1>2. /\ held = size /\ size \in Nat /\ adaptation \in Nat
      /\ 4 + adaptation + size = PacketSize
      /\ pcr => adaptation >= 2 + PcrAdaptationSize
  BY DEF PacketPayloadSize, PcrAdaptationSize, PacketSize, RoomIn
<1>3. pid \in Nat /\ cc \in Nat
  BY DEF TsStreams
<1>. HIDE DEF size, held, adaptation, pid, cc
<1>4. IsPacket([pid |-> pid, start |-> start, cc |-> cc, pcr |-> pcr,
                adaptation |-> adaptation, pes |-> pes, from |-> from, size |-> size],
               pid, cc, start, pcr, from, size, pes)
  BY <1>2, <1>3 DEF IsPacket, TsPackets
<1>. QED  BY <1>1, <1>2, <1>4, Zenon DEF size, pid, cc

(* The n-th packet of a PES, and what comes before it.                         *)
PacketOf(stream, total, pes, n, before) ==
  IF n = 0 THEN WritePacketHeader(stream, TRUE, pes, 0, AtMostPayload(total), TRUE)
  ELSE LET from == before.from + before.size
       IN WritePacketHeader([stream EXCEPT !.cc = @ + n], FALSE, pes, from,
                            AtMostPayload(total - from), FALSE)

(* How much of a PES its first n packets carry.                                *)
CarriedBy(total, n) ==
  LET room == PacketPayloadSize - 2 - PcrAdaptationSize
      most == IF n = 0 THEN 0 ELSE room + PacketPayloadSize * (n - 1)
  IN IF most > total THEN total ELSE most

(* The n-th packet of a PES, made from the one before it.                      *)
LEMMA PacketOfIs ==
  ASSUME NEW stream \in TsStreams, NEW total \in Nat, NEW pes \in Nat, NEW n \in Nat,
         NEW before, n # 0 => before.from + before.size = CarriedBy(total, n)
  PROVE  IsPacket(PacketOf(stream, total, pes, n, before), stream.pid, (stream.cc + n) % 16,
                  n = 0, n = 0, CarriedBy(total, n),
                  CarriedBy(total, n + 1) - CarriedBy(total, n), pes)
<1>. DEFINE p == PacketOf(stream, total, pes, n, before)
            c == CarriedBy(total, n)
            size == CarriedBy(total, n + 1) - CarriedBy(total, n)
            wanted == AtMostPayload(total - c)
            next == [stream EXCEPT !.cc = @ + n]
<1>1. c \in 0..total /\ wanted \in 0..PacketPayloadSize /\ c \in Nat
  BY DEF CarriedBy, PacketPayloadSize, PcrAdaptationSize, AtMostPayload
<1>2. next \in TsStreams /\ next.pid = stream.pid /\ next.cc = stream.cc + n
  BY DEF TsStreams
<1>3. (IF wanted > RoomIn(n = 0) THEN RoomIn(n = 0) ELSE wanted) = size
  BY DEF CarriedBy, PacketPayloadSize, PcrAdaptationSize, AtMostPayload, RoomIn
<1>4. n = 0 => wanted = AtMostPayload(total) /\ c = 0 /\ stream.cc + n = stream.cc
  BY DEF CarriedBy, PacketPayloadSize, PcrAdaptationSize, TsStreams, AtMostPayload
<1>5. p = IF n = 0 THEN WritePacketHeader(stream, TRUE, pes, c, wanted, TRUE)
          ELSE WritePacketHeader(next, FALSE, pes, c, wanted, FALSE)
  BY <1>4, Zenon DEF PacketOf
<1>. HIDE DEF next, wanted, size, p, c
<1>6. CASE n = 0
  <2>1. (n = 0) = TRUE
    BY <1>6
  <2>2. IsPacket(p, stream.pid, stream.cc % 16, TRUE, TRUE, c,
                 IF wanted > RoomIn(TRUE) THEN RoomIn(TRUE) ELSE wanted, pes)
    BY <1>1, <1>5, <1>6, PacketIs, TRUE \in BOOLEAN, Zenon
  <2>3. IsPacket(p, stream.pid, (stream.cc + n) % 16, n = 0, n = 0, c, size, pes)
    BY <1>3, <1>4, <1>6, <2>1, <2>2, Zenon
  <2>. QED  BY <2>3 DEF p, c, size
<1>7. CASE n # 0
  <2>1. (n = 0) = FALSE
    BY <1>7
  <2>2. IsPacket(p, next.pid, next.cc % 16, FALSE, FALSE, c,
                 IF wanted > RoomIn(FALSE) THEN RoomIn(FALSE) ELSE wanted, pes)
    BY <1>1, <1>2, <1>5, <1>7, PacketIs, FALSE \in BOOLEAN, Zenon
  <2>3. IsPacket(p, stream.pid, (stream.cc + n) % 16, n = 0, n = 0, c, size, pes)
    BY <1>2, <1>3, <2>1, <2>2, Zenon
  <2>. QED  BY <2>3 DEF p, c, size
<1>. QED  BY <1>6, <1>7

(* What a PES is cut into: each packet goes on where the one before it ended.  *)
CutsPes(packets, stream, total, pes) ==
  /\ packets \in Seq(TsPackets) /\ Len(packets) \in Nat \ {0}
  /\ \A k \in 1..Len(packets) :
       /\ packets[k].pid = stream.pid /\ packets[k].pes = pes
       /\ packets[k].cc = (stream.cc + (k - 1)) % 16
       /\ packets[k].start <=> k = 1
       /\ packets[k].from = IF k = 1 THEN 0 ELSE packets[k - 1].from + packets[k - 1].size
       /\ 4 + packets[k].adaptation + packets[k].size = PacketSize
       /\ packets[k].pcr => packets[k].adaptation >= 2 + PcrAdaptationSize
  /\ packets[Len(packets)].from + packets[Len(packets)].size = total

(* Every packet carries a byte at least.                                       *)
LEMMA CarriedIs ==
  ASSUME NEW total \in Nat, NEW n \in Nat
  PROVE  /\ CarriedBy(total, n) \in 0..total
         /\ n <= total => CarriedBy(total, n) >= n
         /\ CarriedBy(total, 0) = 0
  BY DEF CarriedBy, PacketPayloadSize, PcrAdaptationSize

(* The recursion over the packets has its values.                              *)
LEMMA PacketsExist ==
  ASSUME NEW stream \in TsStreams, NEW total \in Nat, NEW pes \in Nat
  PROVE  \E f : f = [n \in 0..total |-> PacketOf(stream, total, pes, n, f[n - 1])]
<1>. DEFINE c(n) == CarriedBy(total, n)
            d == [n \in 0..total |-> PacketOf(stream, total, pes, n, [from |-> c(n), size |-> 0])]
<1>1. ASSUME NEW n \in Nat
      PROVE  LET p == PacketOf(stream, total, pes, n, [from |-> c(n), size |-> 0])
             IN p.from + p.size = c(n + 1)
  <2>. DEFINE before == [from |-> c(n), size |-> 0]
              p == PacketOf(stream, total, pes, n, before)
  <2>1. c(n) \in Nat /\ c(n + 1) \in Nat
    <3>. DEFINE m == n + 1
    <3>1. m \in Nat
      OBVIOUS
    <3>. HIDE DEF m
    <3>2. c(n) \in 0..total /\ c(m) \in 0..total
      BY <3>1, CarriedIs
    <3>. QED  BY <3>2 DEF m
  <2>2. before.from + before.size = c(n)
    BY <2>1
  <2>. HIDE DEF before
  <2>3. p.from = c(n) /\ p.size = c(n + 1) - c(n)
    <3>1. IsPacket(p, stream.pid, (stream.cc + n) % 16, n = 0, n = 0, c(n), c(n + 1) - c(n), pes)
      BY <2>2, PacketOfIs
    <3>. HIDE DEF p, c
    <3>. QED
      BY <3>1 DEF IsPacket
  <2>. HIDE DEF p, c
  <2>4. p.from + p.size = c(n + 1)
    BY <2>1, <2>3
  <2>. QED  BY <2>4 DEF p, before, c
<1>2. ASSUME NEW n \in 0..total PROVE d[n] = PacketOf(stream, total, pes, n, d[n - 1])
  <2>1. CASE n = 0
    BY <2>1, Zenon DEF PacketOf
  <2>2. CASE n # 0
    <3>1. n - 1 \in Nat /\ n - 1 \in 0..total /\ n - 1 + 1 = n
      BY <2>2
    <3>2. d[n - 1].from + d[n - 1].size = c(n)
      BY <1>1, <3>1
    <3>3. c(n) + 0 = c(n)
      BY CarriedIs
    <3>4. PacketOf(stream, total, pes, n, [from |-> c(n), size |-> 0])
            = PacketOf(stream, total, pes, n, d[n - 1])
      <4>. DEFINE before == [from |-> c(n), size |-> 0]
                  last == d[n - 1]
      <4>1. before.from + before.size = last.from + last.size
        BY <3>2, <3>3
      <4>. HIDE DEF before, last
      <4>2. PacketOf(stream, total, pes, n, before) = PacketOf(stream, total, pes, n, last)
        BY <4>1, Zenon DEF PacketOf
      <4>. QED  BY <4>2 DEF before, last
    <3>. HIDE DEF c
    <3>. QED  BY <3>4, Zenon
  <2>. QED  BY <2>1, <2>2
<1>3. d = [n \in 0..total |-> d[n]]
  OBVIOUS
<1>. HIDE DEF d
<1>. QED  BY <1>2, <1>3, Zenon

(* WritePES cuts a PES into packets that carry it whole and in order.          *)
LEMMA WritePESIs ==
  ASSUME NEW stream \in TsStreams, NEW total \in Nat \ {0}, NEW pes \in Nat
  PROVE  CutsPes(WritePES(stream, total, pes), stream, total, pes)
<1>. DEFINE Is(f) == f = [n \in 0..total |-> PacketOf(stream, total, pes, n, f[n - 1])]
            e == CHOOSE f : Is(f)
            Whole(n) == /\ e[n - 1].from + e[n - 1].size >= total
                        /\ \A k \in 1..n - 1 : e[k - 1].from + e[k - 1].size < total
            count == CHOOSE n \in 1..total : Whole(n)
            packets == [n \in 1..count |-> e[n - 1]]
            c(n) == CarriedBy(total, n)
<1>1. WritePES(stream, total, pes) = packets
  BY Zenon DEF WritePES, PacketOf
<1>2. Is(e)
  BY PacketsExist, Zenon
<1>3. \A n \in 0..total : e[n] = PacketOf(stream, total, pes, n, e[n - 1])
  <2>. HIDE DEF e
  <2>. QED  BY <1>2, Zenon
<1>. HIDE DEF e
<1>. DEFINE Q(n) == IsPacket(e[n], stream.pid, (stream.cc + n) % 16, n = 0, n = 0,
                             c(n), c(n + 1) - c(n), pes)
            S == {n \in Nat : n <= total => Q(n)}
<1>4. 0 \in S
  <2>1. 0 \in 0..total /\ 0 \in Nat
    OBVIOUS
  <2>2. e[0] = PacketOf(stream, total, pes, 0, e[0 - 1])
    BY <1>3, <2>1
  <2>3. Q(0)
    BY <2>2, PacketOfIs, <2>1
  <2>. HIDE DEF Q
  <2>. QED  BY <2>3
<1>5. \A n \in Nat : c(n) \in Nat /\ c(n) <= total /\ (n <= total => c(n) >= n)
  BY CarriedIs
<1>6. ASSUME NEW n \in Nat, Q(n) PROVE e[n].from + e[n].size = c(n + 1)
  <2>1. e[n].from = c(n) /\ e[n].size = c(n + 1) - c(n)
    BY <1>6 DEF IsPacket
  <2>2. c(n) \in Nat /\ c(n + 1) \in Nat
    <3>1. n + 1 \in Nat
      OBVIOUS
    <3>. HIDE DEF c
    <3>. QED  BY <1>5, <3>1
  <2>. HIDE DEF c
  <2>. QED  BY <2>1, <2>2
<1>7. ASSUME NEW n \in Nat, n \in S PROVE n + 1 \in S
  <2>1. ASSUME n + 1 <= total PROVE Q(n + 1)
    <3>. DEFINE m == n + 1
    <3>1. m \in Nat /\ m \in 0..total /\ m - 1 = n /\ n <= total
      BY <2>1
    <3>2. e[m - 1].from + e[m - 1].size = c(m)
      BY <1>6, <1>7, <3>1
    <3>3. e[m] = PacketOf(stream, total, pes, m, e[m - 1])
      BY <1>3, <3>1
    <3>. HIDE DEF m
    <3>4. Q(m)
      BY <3>1, <3>2, <3>3, PacketOfIs
    <3>. QED  BY <3>4 DEF m
  <2>. HIDE DEF Q
  <2>. QED  BY <2>1
<1>8. \A n \in 0..total : Q(n)
  <2>1. Nat \subseteq S
    <3>. HIDE DEF S
    <3>. QED  BY <1>4, <1>7, SetInduction
  <2>. HIDE DEF Q
  <2>. QED  BY <2>1
<1>9. \A n \in 0..total : e[n].from + e[n].size = c(n + 1)
  <2>. HIDE DEF Q, c
  <2>. QED  BY <1>6, <1>8
<1>. HIDE DEF c
<1>10. count \in 1..total /\ Whole(count)
  <2>. DEFINE W == {n \in 1..total : c(n) >= total}
  <2>1. total \in W
    BY <1>5
  <2>. HIDE DEF W
  <2>2. W \in SUBSET (1..total) /\ W # {} /\ total \in Nat
    BY <2>1 DEF W
  <2>3. Min(W) \in W /\ \A n \in W : Min(W) <= n
    BY <2>2, MinIsLeast
  <2>. DEFINE n == Min(W)
  <2>. HIDE DEF n
  <2>4. n \in 1..total /\ c(n) >= total /\ \A k \in 1..total : c(k) >= total => n <= k
    BY <2>3 DEF W, n
  <2>5. \A k \in 1..total : k - 1 \in 0..total /\ k - 1 + 1 = k
    OBVIOUS
  <2>6. \A k \in 1..total : e[k - 1].from + e[k - 1].size = c(k)
    BY <1>9, <2>5
  <2>7. \A k \in 1..total : c(k) \in Nat
    BY <1>5
  <2>8. \A k \in 1..n - 1 : k \in 1..total /\ c(k) < total
    BY <2>4, <2>7
  <2>9. e[n - 1].from + e[n - 1].size >= total
    BY <2>4, <2>6
  <2>10. \A k \in 1..n - 1 : e[k - 1].from + e[k - 1].size < total
    BY <2>6, <2>8
  <2>11. Whole(n)
    BY <2>9, <2>10
  <2>. HIDE DEF Whole
  <2>. QED  BY <2>4, <2>11
<1>. HIDE DEF count
<1>11. /\ packets \in Seq(TsPackets) /\ Len(packets) = count /\ count \in Nat \ {0}
       /\ \A k \in 1..count : packets[k] = e[k - 1]
  <2>1. \A k \in 1..count : e[k - 1] \in TsPackets
    BY <1>8, <1>10 DEF IsPacket
  <2>. QED  BY <1>10, <2>1
<1>12. ASSUME NEW k \in 1..count
       PROVE  /\ packets[k].pid = stream.pid /\ packets[k].pes = pes
              /\ packets[k].cc = (stream.cc + (k - 1)) % 16
              /\ packets[k].start <=> k = 1
              /\ 4 + packets[k].adaptation + packets[k].size = PacketSize
              /\ packets[k].pcr => packets[k].adaptation >= 2 + PcrAdaptationSize
              /\ packets[k].from = c(k - 1)
              /\ packets[k].from + packets[k].size = c(k)
  <2>. DEFINE n == k - 1
  <2>1. n \in 0..total /\ n + 1 = k /\ (n = 0) = (k = 1)
    BY <1>10
  <2>2. packets[k] = e[n]
    BY <1>11
  <2>. HIDE DEF packets, n
  <2>3. Q(n) /\ e[n].from + e[n].size = c(k)
    BY <1>8, <1>9, <2>1
  <2>. QED  BY <2>1, <2>2, <2>3, Zenon DEF IsPacket, n
<1>. HIDE DEF packets
<1>13. ASSUME NEW k \in 1..count
       PROVE  packets[k].from = IF k = 1 THEN 0 ELSE packets[k - 1].from + packets[k - 1].size
  <2>1. k = 1 => c(k - 1) = 0
    BY CarriedIs DEF c
  <2>2. k # 1 => k - 1 \in 1..count
    BY <1>11
  <2>. QED  BY <1>12, <2>1, <2>2
<1>14. packets[count].from + packets[count].size = total
  <2>1. count \in 1..count /\ count - 1 \in 0..total /\ count - 1 + 1 = count /\ count \in Nat
    BY <1>10
  <2>2. c(count) >= total /\ c(count) \in Nat /\ c(count) <= total
    BY <1>5, <1>9, <1>10, <2>1
  <2>3. c(count) = total
    BY <2>2
  <2>. QED  BY <1>12, <2>1, <2>3
<1>15. CutsPes(packets, stream, total, pes)
  BY <1>11, <1>12, <1>13, <1>14 DEF CutsPes
<1>. QED  BY <1>1, <1>15

-----------------------------------------------------------------------------
(* Counters are taken modulo 16 once or at every step.                         *)
LEMMA NextCounter ==
  ASSUME NEW x \in Nat
  PROVE  ((x % 16) + 1) % 16 = (x + 1) % 16
  OBVIOUS

(* C packets behind L others.                                                  *)
Behind(all, sent, cut, L, C) ==
  /\ L \in Nat /\ C \in Nat \ {0}
  /\ \A k \in 1..L : all[k] = sent[k]
  /\ \A k \in 1..C : all[L + k] = cut[k]

(* A position in the longer file is in one part of it.                         *)
LEMMA BehindAt ==
  ASSUME NEW all, NEW sent, NEW cut, NEW L, NEW C, Behind(all, sent, cut, L, C)
  PROVE  /\ \A k \in 1..L + C : k \in 1..L \/ \E m \in 1..C : k = L + m
         /\ \A k \in 1..L : k \in 1..L + C
         /\ \A k \in 1..C : L + k \in 1..L + C /\ L + k \notin 1..L
<1>1. L \in Nat /\ C \in Nat
  BY DEF Behind
<1>2. \A k \in 1..L + C : k \in 1..L \/ (k - L \in 1..C /\ k = L + (k - L))
  BY <1>1
<1>. QED  BY <1>1, <1>2

OnePid(cut, C, pid, cc) ==
  \A k \in 1..C : cut[k].pid = pid /\ cut[k].cc = (cc + (k - 1)) % 16

(* The counters of packets of one PID behind those of a file.                  *)
LEMMA CountersGoOn ==
  ASSUME NEW all, NEW sent, NEW cut, NEW L, NEW C, Behind(all, sent, cut, L, C),
         NEW pid, NEW cc \in Nat, OnePid(cut, C, pid, cc),
         Consecutive(sent, L), Awaited(sent, L, pid, cc)
  PROVE  Consecutive(all, L + C)
<1>. SUFFICES ASSUME NEW k \in 1..L + C, NEW j \in 1..k - 1, Follows(all, k, j)
              PROVE  all[k].cc = (all[j].cc + 1) % 16
  BY DEF Consecutive
<1>1. L \in Nat /\ C \in Nat \ {0}
  BY DEF Behind
<1>2. CASE k \in 1..L
  <2>1. j \in 1..L /\ \A i \in j + 1..k - 1 : i \in 1..L
    BY <1>1, <1>2
  <2>2. all[k] = sent[k] /\ all[j] = sent[j] /\ \A i \in j + 1..k - 1 : all[i] = sent[i]
    BY <1>2, <2>1 DEF Behind
  <2>3. Follows(sent, k, j)
    BY <2>2 DEF Follows
  <2>. QED  BY <1>2, <2>2, <2>3 DEF Consecutive
<1>3. CASE k = L + 1
  <2>1. /\ 1 \in 1..C /\ j \in 1..L
        /\ \A i \in j + 1..L : i \in j + 1..k - 1 /\ i \in 1..L
    BY <1>1, <1>3
  <2>2. all[k] = cut[1] /\ all[j] = sent[j] /\ \A i \in j + 1..L : all[i] = sent[i]
    BY <1>3, <2>1 DEF Behind
  <2>3. all[k].pid = pid /\ all[k].cc = (cc + (1 - 1)) % 16
    BY <2>1, <2>2 DEF OnePid
  <2>4. sent[j].pid = pid /\ \A i \in j + 1..L : sent[i].pid # pid
    BY <2>1, <2>2, <2>3 DEF Follows
  <2>5. cc % 16 = (sent[j].cc + 1) % 16 /\ cc + (1 - 1) = cc
    BY <2>1, <2>4 DEF Awaited
  <2>. QED  BY <2>2, <2>3, <2>5
<1>4. CASE k \notin 1..L /\ k # L + 1
  <2>. DEFINE m == k - L
              i == k - 1
  <2>1. m \in 1..C /\ m - 1 \in 1..C /\ k = L + m /\ i = L + (m - 1) /\ j <= i /\ j \in Int /\ i \in Int
    BY <1>1, <1>4
  <2>. DEFINE x == cc + (m - 1 - 1)
  <2>2. x \in Nat /\ cc + (m - 1) = x + 1
    BY <1>1, <2>1
  <2>3. all[k] = cut[m] /\ all[i] = cut[m - 1]
    BY <2>1 DEF Behind
  <2>4. /\ all[k].pid = pid /\ all[k].cc = (x + 1) % 16
        /\ all[i].pid = pid /\ all[i].cc = x % 16
    BY <2>1, <2>2, <2>3 DEF OnePid
  <2>. HIDE DEF m, x
  <2>5. j = i
    <3>1. j + 1 <= i => i \in j + 1..k - 1
      BY <2>1
    <3>2. ~(j + 1 <= i)
      BY <2>4, <3>1 DEF Follows
    <3>. QED  BY <2>1, <3>2
  <2>. HIDE DEF i
  <2>. QED  BY <2>2, <2>4, <2>5, NextCounter
<1>. QED  BY <1>2, <1>3, <1>4

(* What follows on each stream's PID then.                                     *)
LEMMA StreamsGoOn ==
  ASSUME NEW all, NEW sent, NEW cut, NEW L, NEW C, Behind(all, sent, cut, L, C),
         NEW pid, NEW cc \in Nat, OnePid(cut, C, pid, cc),
         NEW other, NEW counter \in Nat, other = pid => counter = cc + C,
         other # pid => Awaited(sent, L, other, counter)
  PROVE  Awaited(all, L + C, other, counter)
<1>. SUFFICES ASSUME NEW j \in 1..L + C, all[j].pid = other, \A i \in j + 1..L + C : all[i].pid # other
              PROVE  counter % 16 = (all[j].cc + 1) % 16
  BY DEF Awaited
<1>1. L \in Nat /\ C \in Nat \ {0}
  BY DEF Behind
<1>2. CASE other = pid
  <2>. DEFINE i == L + C
              x == cc + (C - 1)
  <2>1. C \in 1..C /\ i \in 1..L + C /\ x \in Nat /\ counter = x + 1
    BY <1>1, <1>2
  <2>2. all[i] = cut[C]
    BY <2>1 DEF Behind
  <2>3. all[i].pid = pid /\ all[i].cc = x % 16
    BY <2>1, <2>2 DEF OnePid
  <2>. HIDE DEF x
  <2>4. j = i
    BY <1>1, <1>2, <2>3
  <2>. HIDE DEF i
  <2>. QED  BY <2>1, <2>3, <2>4, NextCounter
<1>3. CASE other # pid
  <2>1. \A m \in 1..C : all[L + m].pid = pid
    BY DEF Behind, OnePid
  <2>2. j \in 1..L
    BY <1>3, <2>1, BehindAt
  <2>3. \A i \in j + 1..L : i \in j + 1..L + C /\ i \in 1..L
    BY <1>1, <2>2
  <2>4. all[j] = sent[j] /\ \A i \in j + 1..L : all[i] = sent[i]
    BY <2>2, <2>3 DEF Behind
  <2>5. sent[j].pid = other /\ \A i \in j + 1..L : sent[i].pid # other
    BY <2>3, <2>4
  <2>6. counter % 16 = (sent[j].cc + 1) % 16
    BY <1>3, <2>2, <2>5 DEF Awaited
  <2>. QED  BY <2>4, <2>6
<1>. QED  BY <1>2, <1>3

Extended(more, pes, last, new) == (\A k \in 1..last : more[k] = pes[k]) /\ more[last + 1] = new

(* The packets are 188 bytes long.                                             *)
AllFit(cut, C) ==
  \A k \in 1..C : /\ 4 + cut[k].adaptation + cut[k].size = PacketSize
                  /\ cut[k].pcr => cut[k].adaptation >= 2 + PcrAdaptationSize

OnePes(cut, C, n, new) ==
  /\ \A k \in 1..C : /\ cut[k].pid = new.pid /\ cut[k].pes = n
                     /\ cut[k].start <=> k = 1
                     /\ cut[k].from = IF k = 1 THEN 0 ELSE cut[k - 1].from + cut[k - 1].size
  /\ cut[C].from + cut[C].size = new.header + SizeOf(new.units)

(* The packets that were there before are in their PES as they were.           *)
LEMMA OldStayInTheirPes ==
  ASSUME NEW all, NEW sent, NEW cut, NEW L, NEW C, Behind(all, sent, cut, L, C), Len(sent) = L,
         NEW pes, NEW more, NEW last \in Nat, NEW new, Extended(more, pes, last, new),
         Numbered(sent, L, last),
         NEW k \in 1..L, InItsPes(sent, k, pes), Len(all) = L + C
  PROVE  InItsPes(all, k, more)
<1>. SUFFICES ASSUME sent[k].pes # 0, all[k] = sent[k] PROVE InItsPes(all, k, more)
  BY DEF InItsPes, Behind
<1>1. L \in Nat /\ C \in Nat \ {0}
  BY DEF Behind
<1>2. k # 1 => all[k - 1] = sent[k - 1]
  <2>1. k # 1 => k - 1 \in 1..L
    BY <1>1
  <2>. QED  BY <2>1 DEF Behind
<1>3. sent[k].pes \in 1..last
  <2>1. \A x \in 0..last : x # 0 => x \in 1..last
    OBVIOUS
  <2>. QED  BY <2>1 DEF Numbered
<1>. DEFINE of == pes[sent[k].pes]
<1>4. more[all[k].pes] = of
  BY <1>3 DEF Extended
<1>5. StartsPes(all, k) <=> StartsPes(sent, k)
  BY <1>2, Zenon DEF StartsPes
<1>6. EndsPes(all, k) => EndsPes(sent, k)
  <2>1. k # L => k + 1 \in 1..L /\ k # L + C
    BY <1>1
  <2>2. k # L => all[k + 1] = sent[k + 1]
    BY <2>1 DEF Behind
  <2>. QED  BY <2>1, <2>2, Zenon DEF EndsPes
<1>7. ~StartsPes(sent, k) => k # 1
  BY DEF StartsPes
<1>8. /\ sent[k].pid = of.pid
      /\ sent[k].start <=> StartsPes(sent, k)
      /\ sent[k].from = IF StartsPes(sent, k) THEN 0 ELSE sent[k - 1].from + sent[k - 1].size
      /\ EndsPes(sent, k) => sent[k].from + sent[k].size = of.header + SizeOf(of.units)
  BY Zenon DEF InItsPes
<1>. HIDE DEF of
<1>9. all[k].from = IF StartsPes(all, k) THEN 0 ELSE all[k - 1].from + all[k - 1].size
  BY <1>2, <1>5, <1>7, <1>8, Zenon
<1>10. EndsPes(all, k) => all[k].from + all[k].size = of.header + SizeOf(of.units)
  BY <1>6, <1>8, Zenon
<1>. QED  BY <1>4, <1>5, <1>8, <1>9, <1>10, Zenon DEF InItsPes

(* And the new ones are in the new PES.                                        *)
LEMMA NewAreInTheirPes ==
  ASSUME NEW all, NEW sent, NEW cut, NEW L, NEW C, Behind(all, sent, cut, L, C), Len(all) = L + C,
         NEW pes, NEW more, NEW last \in Nat, NEW new, Extended(more, pes, last, new),
         Numbered(sent, L, last),
         OnePes(cut, C, last + 1, new), NEW m \in 1..C
  PROVE  InItsPes(all, L + m, more)
<1>. DEFINE k == L + m
<1>1. L \in Nat /\ C \in Nat \ {0} /\ m \in Nat
  BY DEF Behind
<1>2. /\ k \in 1..L + C /\ (k - 1 = L + (m - 1)) /\ (k + 1 = L + (m + 1))
      /\ m # 1 => m - 1 \in 1..C /\ k # 1
      /\ m = 1 /\ k # 1 => k - 1 \in 1..L
      /\ m # C => k # L + C /\ m + 1 \in 1..C
  BY <1>1
<1>3. /\ all[k] = cut[m]
      /\ m # 1 => all[k - 1] = cut[m - 1]
      /\ m = 1 /\ k # 1 => all[k - 1] = sent[k - 1]
      /\ m # C => all[k + 1] = cut[m + 1]
  <2>1. \A i \in 1..C : all[L + i] = cut[i]
    BY DEF Behind
  <2>2. \A i \in 1..L : all[i] = sent[i]
    BY DEF Behind
  <2>. HIDE DEF k
  <2>. QED  BY <1>2, <2>1, <2>2 DEF k
<1>. HIDE DEF k
<1>4. \A i \in 1..L : sent[i].pes # last + 1
  BY DEF Numbered
<1>5. \A i \in 1..C : cut[i].pes = last + 1
  BY DEF OnePes
<1>6. StartsPes(all, k) <=> m = 1
  <2>1. m = 1 => StartsPes(all, k)
    BY <1>2, <1>3, <1>4, <1>5, Zenon DEF StartsPes
  <2>2. m # 1 => ~StartsPes(all, k)
    BY <1>2, <1>3, <1>5, Zenon DEF StartsPes
  <2>. QED  BY <2>1, <2>2
<1>7. EndsPes(all, k) => m = C
  BY <1>2, <1>3, <1>5, Zenon DEF EndsPes
<1>8. more[all[k].pes] = new
  BY <1>3, <1>5 DEF Extended
<1>9. all[k].pid = new.pid /\ (all[k].start <=> StartsPes(all, k))
  BY <1>3, <1>6, Zenon DEF OnePes
<1>10. all[k].from = IF StartsPes(all, k) THEN 0 ELSE all[k - 1].from + all[k - 1].size
  <2>1. cut[m].from = IF m = 1 THEN 0 ELSE cut[m - 1].from + cut[m - 1].size
    BY Zenon DEF OnePes
  <2>. QED  BY <1>3, <1>6, <2>1, Zenon
<1>11. EndsPes(all, k) => all[k].from + all[k].size = new.header + SizeOf(new.units)
  BY <1>3, <1>7, Zenon DEF OnePes
<1>12. InItsPes(all, k, more)
  BY <1>8, <1>9, <1>10, <1>11, Zenon DEF InItsPes
<1>. QED  BY <1>12 DEF k

(* A file with a PES more.                                                     *)
LEMMA FileGrows ==
  ASSUME NEW sent, NEW all, NEW pes, NEW more, NEW pmt, NEW L, NEW C, NEW cut, NEW last \in Nat,
         NEW new, NEW cc \in Nat, Behind(all, sent, cut, L, C), Len(sent) = L, Len(all) = L + C,
         Extended(more, pes, last, new), new.pid \in pmt, Numbered(sent, L, last),
         PesWhole(sent, L, pes, last, pmt), OnePid(cut, C, new.pid, cc), OnePes(cut, C, last + 1, new),
         Awaited(sent, L, new.pid, cc),
         AllFit(cut, C)
  PROVE  PesWhole(all, L + C, more, last + 1, pmt) /\ Numbered(all, L + C, last + 1)
<1>1. L \in Nat /\ C \in Nat \ {0}
  BY DEF Behind
<1>2. /\ \A k \in 1..L : all[k] = sent[k]
      /\ \A k \in 1..C : all[L + k] = cut[k]
  BY DEF Behind
<1>3. /\ \A k \in 1..L + C : k \in 1..L \/ \E m \in 1..C : k = L + m
      /\ \A k \in 1..L : k \in 1..L + C
      /\ \A k \in 1..C : L + k \in 1..L + C /\ L + k \notin 1..L
  BY BehindAt
<1>4. /\ \A k \in 1..L : PacketOk(sent[k], pmt)
      /\ Consecutive(sent, L)
      /\ \A m \in 1..last : \E k \in 1..L : sent[k].pes = m
      /\ \A k \in 1..L : InItsPes(sent, k, pes)
      /\ \A k \in 1..L - 1 : sent[k].pes <= sent[k + 1].pes
  BY Zenon DEF PesWhole
<1>5. /\ \A k \in 1..C : cut[k].pes = last + 1 /\ cut[k].pid = new.pid
  BY DEF OnePes
<1>6. \A k \in 1..L + C : PacketOk(all[k], pmt)
  <2>1. ASSUME NEW k \in 1..L PROVE PacketOk(all[k], pmt)
    BY <1>2, <1>4, <2>1, Zenon
  <2>2. ASSUME NEW m \in 1..C PROVE PacketOk(all[L + m], pmt)
    <3>1. cut[m].pid = new.pid
      BY <1>5
    <3>2. PacketOk(cut[m], pmt)
      BY <3>1 DEF PacketOk, AllFit
    <3>. QED  BY <1>2, <3>2
  <2>. QED  BY <1>3, <2>1, <2>2, Zenon
<1>7. Consecutive(all, L + C)
  BY <1>4, CountersGoOn, Zenon
<1>9. \A m \in 1..last + 1 : \E k \in 1..L + C : all[k].pes = m
  <2>1. ASSUME NEW m \in 1..last PROVE \E k \in 1..L + C : all[k].pes = m
    <3>1. PICK k \in 1..L : sent[k].pes = m
      BY <1>4
    <3>. QED  BY <1>2, <1>3, <3>1
  <2>2. \E k \in 1..L + C : all[k].pes = last + 1
    <3>1. 1 \in 1..C
      BY <1>1
    <3>2. L + 1 \in 1..L + C /\ all[L + 1] = cut[1]
      BY <1>2, <1>3, <3>1
    <3>. QED  BY <1>5, <3>1, <3>2
  <2>3. \A m \in 1..last + 1 : m \in 1..last \/ m = last + 1
    OBVIOUS
  <2>. QED  BY <2>1, <2>2, <2>3, Zenon
<1>10. \A k \in 1..L + C : InItsPes(all, k, more)
  <2>2. ASSUME NEW k \in 1..L PROVE InItsPes(all, k, more)
    <3>1. InItsPes(sent, k, pes)
      BY <1>4
    <3>. QED  BY <3>1, OldStayInTheirPes, Zenon
  <2>3. ASSUME NEW m \in 1..C PROVE InItsPes(all, L + m, more)
    BY NewAreInTheirPes, Zenon
  <2>. QED  BY <1>3, <2>2, <2>3, Zenon
<1>11. \A k \in 1..L + C : all[k].pes \in 0..last + 1
  <2>1. \A k \in 1..L : all[k].pes \in 0..last + 1
    BY <1>2 DEF Numbered
  <2>2. \A m \in 1..C : all[L + m].pes \in 0..last + 1
    BY <1>2, <1>5
  <2>. QED  BY <1>3, <2>1, <2>2, Zenon
<1>12. \A k \in 1..L + C - 1 : all[k].pes <= all[k + 1].pes
  <2>. SUFFICES ASSUME NEW k \in 1..L + C - 1 PROVE all[k].pes <= all[k + 1].pes
    OBVIOUS
  <2>1. CASE k + 1 \in 1..L
    <3>1. k \in 1..L - 1 /\ k \in 1..L
      BY <1>1, <2>1
    <3>2. all[k] = sent[k] /\ all[k + 1] = sent[k + 1] /\ sent[k].pes <= sent[k + 1].pes
      BY <1>2, <1>4, <2>1, <3>1
    <3>. QED  BY <3>2
  <2>2. CASE k + 1 \notin 1..L
    <3>. DEFINE m == k + 1 - L
    <3>1. m \in 1..C /\ k + 1 = L + m /\ k \in 1..L + C
      BY <1>1, <2>2
    <3>2. all[k + 1] = cut[m]
      BY <1>2, <3>1
    <3>3. all[k + 1].pes = last + 1 /\ all[k].pes \in 0..last + 1
      BY <1>5, <1>11, <3>1, <3>2
    <3>. QED  BY <3>3
  <2>. QED  BY <2>1, <2>2
<1>13. Numbered(all, L + C, last + 1)
  BY <1>11, Zenon DEF Numbered
<1>. DEFINE N == L + C
            M == last + 1
<1>14. PesWhole(all, N, more, M, pmt)
  <2>1. \A k \in 1..N : PacketOk(all[k], pmt)
    BY <1>6, Zenon
  <2>2. Consecutive(all, N)
    BY <1>7, Zenon
  <2>3. \A m \in 1..M : \E k \in 1..N : all[k].pes = m
    BY <1>9, Zenon
  <2>4. \A k \in 1..N : InItsPes(all, k, more)
    BY <1>10, Zenon
  <2>5. \A k \in 1..N - 1 : all[k].pes <= all[k + 1].pes
    <3>1. N - 1 = L + C - 1
      BY <1>1
    <3>. QED  BY <1>12, <3>1, Zenon
  <2>. HIDE DEF N, M
  <2>. QED  BY <2>1, <2>2, <2>3, <2>4, <2>5, Zenon DEF PesWhole
<1>. QED  BY <1>13, <1>14

-----------------------------------------------------------------------------
(* What a conversion puts before the units of a sample.                        *)
Prefixed(sample, extradata) ==
  IF sample.format = "avcc" /\ extradata # "none" /\ HasIdr(sample.units)
  THEN <<<<"sps", 12>>, <<"pps", 8>>>>
  ELSE IF sample.format = "latm" /\ extradata # "none" THEN <<<<"adts", 7>>>> ELSE <<>>

(* What a conversion makes of a sample: its pieces behind those it prefixes.   *)
LEMMA ConvertedIs ==
  ASSUME NEW sample, sample.units \in Seq(TsUnits), NEW extradata
  PROVE  LET to == Converted(sample, extradata)
         IN  /\ to.units = Prefixed(sample, extradata) \o sample.units
             /\ to.format = IF sample.format = "avcc" THEN "annexb"
                            ELSE IF sample.format = "latm" THEN "adts" ELSE sample.format
             /\ sample.format \notin {"avcc", "latm"} => to.ok /\ to.units = sample.units
<1>1. CASE sample.format = "avcc"
  <2>. DEFINE a == AvccToAnnexB(sample, extradata)
  <2>1. Converted(sample, extradata) = [a EXCEPT !.format = "annexb"]
    BY <1>1, Zenon DEF Converted
  <2>2. /\ DOMAIN a = {"ok", "format", "units"}
        /\ a.units = (IF extradata # "none" /\ HasIdr(sample.units)
                      THEN <<<<"sps", 12>>, <<"pps", 8>>>> ELSE <<>>) \o sample.units
    BY DEF AvccToAnnexB
  <2>3. a.units = Prefixed(sample, extradata) \o sample.units
    BY <1>1, <2>2 DEF Prefixed
  <2>. HIDE DEF a
  <2>4. /\ [a EXCEPT !.format = "annexb"].units = a.units
        /\ [a EXCEPT !.format = "annexb"].format = "annexb"
    BY <2>2
  <2>. QED  BY <1>1, <2>1, <2>3, <2>4
<1>2. CASE sample.format = "latm"
  <2>. DEFINE a == LatmToAdts(sample, extradata)
  <2>1. Converted(sample, extradata) = [a EXCEPT !.format = "adts"]
    BY <1>2, Zenon DEF Converted
  <2>2. /\ DOMAIN a = {"ok", "format", "units"}
        /\ a.units = (IF extradata = "none" THEN <<>> ELSE <<<<"adts", 7>>>>) \o sample.units
    BY DEF LatmToAdts
  <2>3. a.units = Prefixed(sample, extradata) \o sample.units
    BY <1>2, <2>2 DEF Prefixed
  <2>. HIDE DEF a
  <2>4. /\ [a EXCEPT !.format = "adts"].units = a.units
        /\ [a EXCEPT !.format = "adts"].format = "adts"
    BY <2>2
  <2>. QED  BY <1>2, <2>1, <2>3, <2>4
<1>3. CASE sample.format # "avcc" /\ sample.format # "latm"
  <2>. DEFINE r == [ok |-> TRUE, format |-> sample.format, units |-> sample.units]
  <2>1. Converted(sample, extradata) = r
    BY <1>3, Zenon DEF Converted
  <2>2. r.ok = TRUE /\ r.format = sample.format /\ r.units = sample.units
    OBVIOUS
  <2>3. Prefixed(sample, extradata) \o sample.units = sample.units
    <3>1. Prefixed(sample, extradata) = <<>>
      BY <1>3, Zenon DEF Prefixed
    <3>. QED  BY <3>1
  <2>. HIDE DEF r
  <2>. QED  BY <1>3, <2>1, <2>2, <2>3
<1>. QED  BY <1>1, <1>2, <1>3

(* What a conversion puts before the pieces is pieces.                         *)
LEMMA PrefixedIs ==
  ASSUME NEW sample, NEW extradata
  PROVE  Prefixed(sample, extradata) \in Seq(TsUnits)
<1>1. <<>> \in Seq(TsUnits) /\ <<<<"adts", 7>>>> \in Seq(TsUnits)
  BY DEF TsUnits, TsKinds
<1>2. <<<<"sps", 12>>, <<"pps", 8>>>> \in Seq(TsUnits)
  <2>1. <<"sps", 12>> \in TsUnits /\ <<"pps", 8>> \in TsUnits
    BY DEF TsUnits, TsKinds
  <2>. QED  BY <2>1
<1>. QED  BY <1>1, <1>2, Zenon DEF Prefixed

(* A sample once written has what its conversion made, whatever comes then.    *)
LEMMA MadeIs ==
  ASSUME NEW s \in DOMAIN TsSamples
  PROVE  LET given == TsSamples[s]
             extradata == TsTracks[given.track].extradata
             to == Converted(Made(s), extradata)
         IN  /\ given.units \in Seq(TsUnits) /\ Made(s).units \in Seq(TsUnits)
             /\ Made(s).units = Prefixed(given, extradata) \o given.units
             /\ Made(s).track = given.track /\ given.track \in DOMAIN TsTracks
             /\ to.units = Made(s).units /\ to.format = Made(s).format /\ to.ok
<1>. DEFINE given == TsSamples[s]
            extradata == TsTracks[given.track].extradata
            made == Made(s)
            head == Prefixed(given, extradata)
<1>1. /\ given.units \in Seq(TsUnits) /\ given.track \in DOMAIN TsTracks
  BY TsAssumption DEF TsUnits
<1>. HIDE DEF given
<1>2. /\ made.track = given.track /\ made.units = Converted(given, extradata).units
      /\ made.format = Converted(given, extradata).format
  BY DEF Made, given
<1>. HIDE DEF made, extradata
<1>3. /\ made.units = head \o given.units
      /\ made.format = IF given.format = "avcc" THEN "annexb"
                       ELSE IF given.format = "latm" THEN "adts" ELSE given.format
  BY <1>1, <1>2, ConvertedIs
<1>4. head \in Seq(TsUnits)
  BY PrefixedIs
<1>. HIDE DEF head
<1>5. made.units \in Seq(TsUnits)
  BY <1>1, <1>3, <1>4
<1>6. made.format \notin {"avcc", "latm"}
  BY <1>3
<1>7. LET to == Converted(made, extradata)
      IN to.units = made.units /\ to.format = made.format /\ to.ok
  BY <1>5, <1>6, ConvertedIs
<1>. QED  BY <1>1, <1>2, <1>3, <1>5, <1>7, Zenon DEF made, given, extradata, head

-----------------------------------------------------------------------------
(* How often a kind is among the units before the given ones.                  *)
Kinds(head, kind) == Cardinality({i \in 1..Len(head) : head[i][1] = kind})

(* How often every kind is among what comes before the pieces of a sample.     *)
LEMMA HeadIs ==
  ASSUME NEW sample, NEW extradata, NEW aud \in BOOLEAN
  PROVE  LET head == (IF aud THEN <<<<"aud", 6>>>> ELSE <<>>) \o Prefixed(sample, extradata)
         IN  /\ head \in Seq(TsUnits)
             /\ \A i \in 1..Len(head) : head[i][1] \in {"aud", "sps", "pps", "adts"}
             /\ \A kind \in {"sps", "pps"} :
                  Kinds(head, kind) = IF sample.format = "avcc" /\ extradata # "none" /\ HasIdr(sample.units)
                                      THEN 1 ELSE 0
             /\ Kinds(head, "adts") = IF sample.format = "latm" /\ extradata # "none" THEN 1 ELSE 0
<1>. DEFINE first == IF aud THEN <<<<"aud", 6>>>> ELSE <<>>
            part == Prefixed(sample, extradata)
            head == first \o part
            a == IF aud THEN 1 ELSE 0
            Sets == sample.format = "avcc" /\ extradata # "none" /\ HasIdr(sample.units)
            Adts == sample.format = "latm" /\ extradata # "none"
            Of(kind) == {i \in 1..Len(head) : head[i][1] = kind}
<1>1. first \in Seq(TsUnits) /\ Len(first) = a /\ \A i \in 1..a : first[i][1] = "aud"
  <2>1. <<"aud", 6>> \in TsUnits
    BY DEF TsUnits, TsKinds
  <2>2. CASE aud
    BY <2>1, <2>2
  <2>3. CASE ~aud
    BY <2>3
  <2>. QED  BY <2>2, <2>3
<1>2. part \in Seq(TsUnits)
  BY PrefixedIs
<1>3. a \in Nat
  OBVIOUS
<1>. HIDE DEF first, part, a
<1>4. /\ head \in Seq(TsUnits) /\ Len(head) = a + Len(part) /\ Len(part) \in Nat
      /\ \A i \in 1..a : head[i] = first[i]
      /\ \A i \in 1..Len(part) : head[a + i] = part[i]
  BY <1>1, <1>2, <1>3
<1>. HIDE DEF head
<1>5. \A i \in 1..a : head[i][1] = "aud"
  BY <1>1, <1>4
<1>6. CASE Sets
  <2>1. part = <<<<"sps", 12>>, <<"pps", 8>>>>
    BY <1>6 DEF part, Prefixed
  <2>2. Len(part) = 2 /\ part[1][1] = "sps" /\ part[2][1] = "pps"
    BY <2>1
  <2>3. head[a + 1][1] = "sps" /\ head[a + 2][1] = "pps" /\ Len(head) = a + 2
    BY <1>4, <2>2
  <2>4. \A i \in 1..a + 2 : i \in 1..a \/ i = a + 1 \/ i = a + 2
    BY <1>3
  <2>5. a + 1 \in 1..a + 2 /\ a + 2 \in 1..a + 2 /\ a + 1 # a + 2
    BY <1>3
  <2>6. Of("sps") = {a + 1} /\ Of("pps") = {a + 2} /\ Of("adts") = {}
    BY <1>5, <2>3, <2>4, <2>5
  <2>7. \A i \in 1..Len(head) : head[i][1] \in {"aud", "sps", "pps", "adts"}
    BY <1>5, <2>3, <2>4
  <2>8. Kinds(head, "sps") = 1 /\ Kinds(head, "pps") = 1 /\ Kinds(head, "adts") = 0
    BY <2>6, FS_Singleton, FS_EmptySet, Zenon DEF Kinds
  <2>9. ~Adts
    BY <1>6
  <2>. QED  BY <1>4, <1>6, <2>7, <2>8, <2>9 DEF head, first, part
<1>7. CASE Adts
  <2>1. part = <<<<"adts", 7>>>>
    BY <1>7 DEF part, Prefixed
  <2>2. Len(part) = 1 /\ part[1][1] = "adts"
    BY <2>1
  <2>3. head[a + 1][1] = "adts" /\ Len(head) = a + 1
    BY <1>4, <2>2
  <2>4. \A i \in 1..a + 1 : i \in 1..a \/ i = a + 1
    BY <1>3
  <2>5. a + 1 \in 1..a + 1
    BY <1>3
  <2>6. Of("sps") = {} /\ Of("pps") = {} /\ Of("adts") = {a + 1}
    BY <1>5, <2>3, <2>4, <2>5
  <2>7. \A i \in 1..Len(head) : head[i][1] \in {"aud", "sps", "pps", "adts"}
    BY <1>5, <2>3, <2>4
  <2>8. Kinds(head, "sps") = 0 /\ Kinds(head, "pps") = 0 /\ Kinds(head, "adts") = 1
    BY <2>6, FS_Singleton, FS_EmptySet, Zenon DEF Kinds
  <2>9. ~Sets
    BY <1>7
  <2>. QED  BY <1>4, <1>7, <2>7, <2>8, <2>9 DEF head, first, part
<1>8. CASE ~Sets /\ ~Adts
  <2>1. part = <<>>
    BY <1>8, Zenon DEF part, Prefixed
  <2>2. Len(head) = a
    BY <1>3, <1>4, <2>1
  <2>3. Of("sps") = {} /\ Of("pps") = {} /\ Of("adts") = {}
    BY <1>5, <2>2
  <2>4. \A i \in 1..Len(head) : head[i][1] \in {"aud", "sps", "pps", "adts"}
    BY <1>5, <2>2
  <2>5. Kinds(head, "sps") = 0 /\ Kinds(head, "pps") = 0 /\ Kinds(head, "adts") = 0
    BY <2>3, FS_EmptySet, Zenon DEF Kinds
  <2>. QED  BY <1>4, <1>8, <2>4, <2>5 DEF head, first, part
<1>. QED  BY <1>6, <1>7, <1>8

(* The units of every PES.                                                     *)
LEMMA PesUnitsAre ==
  ASSUME NEW pes, TsPesOk(pes)
  PROVE  LET sample == TsSamples[pes.sample]
             extra == TsTracks[sample.track].extradata # "none"
             added == Len(pes.units) - Len(sample.units)
             Added(kind) == Cardinality({i \in 1..added : pes.units[i][1] = kind})
         IN /\ added >= 0
            /\ \A i \in 1..Len(sample.units) : pes.units[added + i] = sample.units[i]
            /\ \A i \in 1..added : pes.units[i][1] \in {"aud", "sps", "pps", "adts"}
            /\ \A kind \in {"sps", "pps"} :
                 Added(kind) = IF sample.format = "avcc" /\ extra /\ HasIdr(sample.units) THEN 1 ELSE 0
            /\ Added("adts") = IF sample.format = "latm" /\ extra THEN 1 ELSE 0
<1>. DEFINE sample == TsSamples[pes.sample]
            extradata == TsTracks[sample.track].extradata
            aud == TsTracks[sample.track].type = "video"
            first == IF aud THEN <<<<"aud", 6>>>> ELSE <<>>
            part == Prefixed(sample, extradata)
            head == first \o part
            added == Len(pes.units) - Len(sample.units)
            units == sample.units
<1>1. /\ units \in Seq(TsUnits) /\ pes.units = first \o (part \o units)
  <2>1. /\ Made(pes.sample).units = part \o units /\ units \in Seq(TsUnits)
    BY MadeIs DEF TsPesOk
  <2>. QED  BY <2>1, Zenon DEF TsPesOk
<1>2. first \in Seq(TsUnits) /\ part \in Seq(TsUnits)
  <2>1. <<"aud", 6>> \in TsUnits
    BY DEF TsUnits, TsKinds
  <2>2. <<<<"aud", 6>>>> \in Seq(TsUnits) /\ <<>> \in Seq(TsUnits)
    BY <2>1
  <2>. QED  BY <2>2, PrefixedIs, Zenon
<1>3. aud \in BOOLEAN
  OBVIOUS
<1>. HIDE DEF aud
<1>4. /\ head \in Seq(TsUnits)
      /\ \A i \in 1..Len(head) : head[i][1] \in {"aud", "sps", "pps", "adts"}
      /\ \A kind \in {"sps", "pps"} :
           Kinds(head, kind) = IF sample.format = "avcc" /\ extradata # "none" /\ HasIdr(sample.units)
                               THEN 1 ELSE 0
      /\ Kinds(head, "adts") = IF sample.format = "latm" /\ extradata # "none" THEN 1 ELSE 0
  BY <1>3, HeadIs
<1>. HIDE DEF sample, extradata, first, part, units
<1>5. pes.units = head \o units
  BY <1>1, <1>2
<1>. HIDE DEF head
<1>6. /\ Len(head) \in Nat /\ Len(units) \in Nat /\ Len(pes.units) = Len(head) + Len(units)
      /\ \A i \in 1..Len(head) : pes.units[i] = head[i]
      /\ \A i \in 1..Len(units) : pes.units[Len(head) + i] = units[i]
  BY <1>1, <1>4, <1>5
<1>7. added = Len(head)
  BY <1>6 DEF units
<1>. HIDE DEF added
<1>8. \A kind : Kinds(head, kind) = Cardinality({i \in 1..added : pes.units[i][1] = kind})
  <2>1. \A kind : {i \in 1..Len(head) : head[i][1] = kind} = {i \in 1..added : pes.units[i][1] = kind}
    BY <1>6, <1>7
  <2>. QED  BY <2>1, Zenon DEF Kinds
<1>9. /\ added >= 0
      /\ \A i \in 1..Len(units) : pes.units[added + i] = units[i]
      /\ \A i \in 1..added : pes.units[i][1] \in {"aud", "sps", "pps", "adts"}
  BY <1>4, <1>6, <1>7
<1>. DEFINE Added(kind) == Cardinality({i \in 1..added : pes.units[i][1] = kind})
<1>10. \A kind : Kinds(head, kind) = Added(kind)
  BY <1>8, Zenon
<1>. HIDE DEF Added
<1>11. \A kind \in {"sps", "pps"} :
         Added(kind) = IF sample.format = "avcc" /\ extradata # "none" /\ HasIdr(sample.units)
                       THEN 1 ELSE 0
  BY <1>4, <1>10
<1>12. Added("adts") = IF sample.format = "latm" /\ extradata # "none" THEN 1 ELSE 0
  BY <1>4, <1>10
<1>. QED  BY <1>9, <1>11, <1>12, Zenon DEF sample, extradata, units, added, Added

-----------------------------------------------------------------------------
(* The size of some units is a number.                                         *)
LEMMA SumsExist ==
  ASSUME NEW N \in Nat, NEW v \in [1..N -> Nat]
  PROVE  \E f \in [0..N -> Nat] : f = [n \in 0..N |-> IF n = 0 THEN 0 ELSE f[n - 1] + v[n]]
<1>. DEFINE Is(f, m) == f \in [0..m -> Nat] /\ f[0] = 0 /\ \A n \in 1..m : f[n] = f[n - 1] + v[n]
            S == {m \in Nat : m <= N => \E f : Is(f, m)}
<1>1. 0 \in S
  <2>. DEFINE f == [n \in 0..0 |-> 0]
  <2>1. f \in [0..0 -> Nat] /\ f[0] = 0 /\ 1..0 = {}
    OBVIOUS
  <2>. HIDE DEF f
  <2>2. Is(f, 0)
    BY <2>1
  <2>. HIDE DEF Is
  <2>. QED  BY <2>2
<1>2. ASSUME NEW m \in Nat, m \in S PROVE m + 1 \in S
  <2>1. ASSUME m + 1 <= N PROVE \E f : Is(f, m + 1)
    <3>1. m <= N /\ m + 1 \in 1..N
      BY <2>1
    <3>2. PICK f : Is(f, m)
      BY <1>2, <3>1
    <3>. DEFINE g == [n \in 0..m + 1 |-> IF n = m + 1 THEN f[m] + v[m + 1] ELSE f[n]]
    <3>3. f[m] \in Nat /\ v[m + 1] \in Nat
      BY <3>1, <3>2
    <3>4. g \in [0..m + 1 -> Nat] /\ g[m + 1] = f[m] + v[m + 1] /\ \A n \in 0..m : g[n] = f[n]
      BY <3>2, <3>3
    <3>. HIDE DEF g
    <3>5. ASSUME NEW n \in 1..m + 1 PROVE g[n] = g[n - 1] + v[n]
      <4>1. CASE n = m + 1
        BY <3>4, <4>1
      <4>2. CASE n # m + 1
        <5>1. n \in 1..m /\ n \in 0..m /\ n - 1 \in 0..m
          BY <4>2
        <5>. QED  BY <3>2, <3>4, <5>1
      <4>. QED  BY <4>1, <4>2
    <3>6. Is(g, m + 1)
      BY <3>2, <3>4, <3>5
    <3>. HIDE DEF Is
    <3>. QED  BY <3>6
  <2>. HIDE DEF Is
  <2>. QED  BY <2>1
<1>3. Nat \subseteq S
  <2>. HIDE DEF S
  <2>. QED  BY <1>1, <1>2, SetInduction
<1>4. PICK f : Is(f, N)
  <2>. HIDE DEF Is
  <2>. QED  BY <1>3
<1>5. \A n \in 0..N : f[n] = IF n = 0 THEN 0 ELSE f[n - 1] + v[n]
  BY <1>4
<1>6. f = [n \in 0..N |-> f[n]] /\ f \in [0..N -> Nat]
  BY <1>4
<1>7. f = [n \in 0..N |-> IF n = 0 THEN 0 ELSE f[n - 1] + v[n]]
  BY <1>5, <1>6, Zenon
<1>. QED  BY <1>6, <1>7

(* A sum's values are numbers whichever function the recursion chooses.        *)
LEMMA SumsAre ==
  ASSUME NEW N \in Nat, NEW v \in [1..N -> Nat], NEW f,
         f = [n \in 0..N |-> IF n = 0 THEN 0 ELSE f[n - 1] + v[n]]
  PROVE  f[N] \in Nat
<1>. DEFINE S == {n \in Nat : n <= N => f[n] \in Nat}
<1>1. \A n \in 0..N : f[n] = IF n = 0 THEN 0 ELSE f[n - 1] + v[n]
  BY Zenon
<1>2. 0 \in S
  BY <1>1
<1>3. ASSUME NEW n \in Nat, n \in S PROVE n + 1 \in S
  <2>1. ASSUME n + 1 <= N PROVE f[n + 1] \in Nat
    <3>1. n + 1 \in 0..N /\ n + 1 # 0 /\ n + 1 - 1 = n /\ n <= N /\ n + 1 \in 1..N
      BY <2>1
    <3>2. f[n + 1] = f[n] + v[n + 1] /\ f[n] \in Nat /\ v[n + 1] \in Nat
      BY <1>1, <1>3, <3>1
    <3>. QED  BY <3>2
  <2>. QED  BY <2>1
<1>4. Nat \subseteq S
  <2>. HIDE DEF S
  <2>. QED  BY <1>2, <1>3, SetInduction
<1>. QED  BY <1>4

(* A size is a number.                                                         *)
LEMMA SizeIs ==
  ASSUME NEW units \in Seq(TsUnits)
  PROVE  SizeOf(units) \in Nat
<1>. DEFINE N == Len(units)
            v == [n \in 1..N |-> units[n][2]]
            Is(f) == f = [n \in 0..N |-> IF n = 0 THEN 0 ELSE f[n - 1] + units[n][2]]
            e == CHOOSE f : Is(f)
<1>1. N \in Nat /\ \A n \in 1..N : units[n] \in TsUnits
  OBVIOUS
<1>2. v \in [1..N -> Nat]
  BY <1>1 DEF TsUnits
<1>3. SizeOf(units) = e[N]
  BY Zenon DEF SizeOf
<1>4. \A f : f = [n \in 0..N |-> IF n = 0 THEN 0 ELSE f[n - 1] + v[n]] <=> Is(f)
  <2>1. \A n \in 0..N : n # 0 => v[n] = units[n][2]
    BY <1>1
  <2>. HIDE DEF v, N
  <2>. QED  BY <2>1
<1>5. Is(e)
  <2>1. \E f : Is(f)
    <3>. HIDE DEF N, v, Is
    <3>. QED  BY <1>1, <1>2, <1>4, SumsExist
  <2>. HIDE DEF Is
  <2>. QED  BY <2>1, Zenon
<1>. HIDE DEF N, v, e, Is
<1>. QED  BY <1>1, <1>2, <1>3, <1>4, <1>5, SumsAre

(* Counting up to a number of calls.                                           *)
LEMMA StepsBelow ==
  ASSUME NEW made \in Nat, NEW most \in Nat, made <= most, NEW n \in Nat
  PROVE  made * n <= most * n /\ (made + 1) * n = made * n + n /\ made * n \in Nat
<1>1. PICK d \in Nat : most = made + d
  <2>1. most - made \in Nat /\ most = made + (most - made)
    OBVIOUS
  <2>. QED  BY <2>1
<1>2. (made + d) * n = made * n + d * n /\ d * n \in Nat /\ made * n \in Nat
  OBVIOUS
<1>3. (made + 1) * n = made * n + n
  OBVIOUS
<1>. QED  BY <1>1, <1>2, <1>3

(* An open's new streams have PIDs no stream has had.                          *)
TracksOf(m, type) == {id \in m.media_tracks_ : Muxable(id) /\ TsTracks[id].type = type}

(* The streams of an open have PIDs of their own while the audio PIDs are few. *)
LEMMA StreamsAreMade ==
  ASSUME FewPids, NEW m, TsMuxerOk(m), OwnPidsOf(m), m.calls < MaxTsCalls,
         NEW next, next.media_streams_ = StreamsOf(m), next.calls = m.calls + 1,
         next.audio_stream_pid_ = m.audio_stream_pid_ + Cardinality(TracksOf(m, "audio")),
         next.video_stream_pid_ = m.video_stream_pid_ + Cardinality(TracksOf(m, "video"))
  PROVE  /\ OwnPidsOf(next)
         /\ next.audio_stream_pid_ \in Nat /\ next.video_stream_pid_ \in Nat
         /\ DOMAIN next.media_streams_ \subseteq DOMAIN TsTracks
         /\ next.media_streams_ \in [DOMAIN next.media_streams_ -> TsStreams]
<1>. DEFINE A == TracksOf(m, "audio")
            V == TracksOf(m, "video")
            N == Cardinality(DOMAIN TsTracks)
            audio == m.audio_stream_pid_
            video == m.video_stream_pid_
            old == m.media_streams_
            new == next.media_streams_
            streams == DOMAIN old \cup A \cup V
            a == Cardinality(A)
            v == Cardinality(V)
<1>1. /\ A \subseteq DOMAIN TsTracks /\ V \subseteq DOMAIN TsTracks
      /\ DOMAIN old \subseteq DOMAIN TsTracks
      /\ old \in [DOMAIN old -> TsStreams] /\ audio \in Nat /\ video \in Nat
      /\ m.calls \in Nat /\ MaxTsCalls \in Nat /\ m.calls + 1 <= MaxTsCalls
  BY TsAssumption DEF TsMuxerOk, TracksOf
<1>2. /\ DOMAIN TsTracks \in SUBSET Int /\ IsFiniteSet(DOMAIN TsTracks) /\ N \in Nat
      /\ A \in SUBSET Int /\ IsFiniteSet(A) /\ V \in SUBSET Int /\ IsFiniteSet(V)
      /\ a \in Nat /\ a <= N
      /\ v \in Nat
  <2>1. DOMAIN TsTracks \in SUBSET Int /\ IsFiniteSet(DOMAIN TsTracks)
    BY TsAssumption
  <2>2. IsFiniteSet(A) /\ a <= N /\ IsFiniteSet(V)
    <3>. HIDE DEF A, V
    <3>. QED  BY <1>1, <2>1, FS_Subset
  <2>3. A \in SUBSET Int /\ V \in SUBSET Int
    <3>. HIDE DEF A, V
    <3>. QED  BY <1>1, <2>1
  <2>. HIDE DEF A, V
  <2>. QED  BY <2>1, <2>2, <2>3, FS_CardinalityType
<1>3. new = [id \in streams |-> IF id \in DOMAIN old THEN old[id]
                              ELSE IF TsTracks[id].type = "audio"
                              THEN [pid |-> audio + Rank(A, id), cc |-> 0]
                              ELSE [pid |-> video + Rank(V, id), cc |-> 0]]
  <2>1. /\ \A id : id \in A => TsTracks[id].type = "audio"
        /\ \A id : id \in V => TsTracks[id].type = "video"
    BY DEF TracksOf
  <2>2. new = [id \in streams |-> IF id \in DOMAIN old THEN old[id]
                 ELSE [pid |-> (IF TsTracks[id].type = "audio" THEN audio ELSE video)
                                 + Rank(TracksOf(m, TsTracks[id].type), id), cc |-> 0]]
    BY Zenon DEF StreamsOf, Rank, TracksOf
  <2>. HIDE DEF A, V, new, old, audio, video
  <2>3. ASSUME NEW id \in streams, id \notin DOMAIN old
        PROVE  [pid |-> (IF TsTracks[id].type = "audio" THEN audio ELSE video)
                          + Rank(TracksOf(m, TsTracks[id].type), id), cc |-> 0]
                 = IF TsTracks[id].type = "audio"
                   THEN [pid |-> audio + Rank(A, id), cc |-> 0]
                   ELSE [pid |-> video + Rank(V, id), cc |-> 0]
    <3>1. CASE id \in A
      BY <2>1, <3>1, Zenon DEF A
    <3>2. CASE id \in V
      <4>1. TsTracks[id].type = "video" /\ "video" # "audio"
        BY <2>1, <3>2
      <4>. QED  BY <4>1, Zenon DEF V
    <3>. QED  BY <2>3, <3>1, <3>2
  <2>. QED  BY <2>2, <2>3, Zenon
<1>4. /\ \A id \in A : Rank(A, id) \in 0..a - 1
      /\ \A i, j \in A : i < j => Rank(A, i) < Rank(A, j)
      /\ \A id \in V : Rank(V, id) \in 0..v - 1
      /\ \A i, j \in V : i < j => Rank(V, i) < Rank(V, j)
  <2>. HIDE DEF A, V
  <2>. QED  BY <1>2, RankIs
<1>5. /\ \A id \in A : TsTracks[id].type = "audio"
      /\ \A id \in V : TsTracks[id].type # "audio"
  BY DEF TracksOf
<1>6. /\ audio <= PidAudio + m.calls * N
      /\ audio + a <= PidAudio + (m.calls + 1) * N
      /\ audio + a <= PidVideo
  <2>. DEFINE c == m.calls
              most == MaxTsCalls
              p == c * N
              q == (c + 1) * N
              r == most * N
  <2>1. audio <= PidAudio + p
    BY Zenon DEF OwnPids, OwnPidsOf
  <2>2. r <= PidVideo - PidAudio
    BY Zenon DEF FewPids
  <2>3. c \in Nat /\ c + 1 \in Nat /\ most \in Nat /\ c + 1 <= most /\ N \in Nat
    BY <1>1, <1>2
  <2>. HIDE DEF N, c, most
  <2>4. q <= r /\ r \in Nat
    BY <2>3, StepsBelow
  <2>5. q = p + N /\ p \in Nat
    <3>1. c <= most
      BY <2>3
    <3>. QED  BY <2>3, <3>1, StepsBelow
  <2>. HIDE DEF p, q, r, a, audio
  <2>6. audio + a <= PidAudio + q /\ PidAudio + r <= PidVideo
    BY <1>1, <1>2, <2>1, <2>2, <2>3, <2>4, <2>5 DEF PidAudio, PidVideo
  <2>7. audio + a <= PidVideo
    BY <1>1, <1>2, <2>4, <2>5, <2>3, <2>6 DEF PidAudio, PidVideo
  <2>. QED  BY <2>1, <2>6, <2>7 DEF p, q, c
<1>7. /\ \A id \in DOMAIN old :
           IF TsTracks[id].type = "audio"
           THEN PidAudio <= old[id].pid /\ old[id].pid < audio
           ELSE PidVideo <= old[id].pid /\ old[id].pid < video
      /\ \A i, j \in DOMAIN old : i # j => old[i].pid # old[j].pid
      /\ PidAudio <= audio /\ PidVideo <= video
  BY DEF OwnPids, OwnPidsOf
<1>8. /\ DOMAIN new = streams
      /\ \A id \in DOMAIN old : new[id] = old[id]
      /\ \A id \in A : id \notin DOMAIN old => new[id] = [pid |-> audio + Rank(A, id), cc |-> 0]
      /\ \A id \in V : id \notin DOMAIN old => new[id] = [pid |-> video + Rank(V, id), cc |-> 0]
  <2>. HIDE DEF A, V, new, old, audio, video
  <2>. QED  BY <1>3, <1>5
<1>. HIDE DEF A, V, new, old, audio, video, a, v, N
<1>9. \A id \in streams : new[id].pid \in Nat /\ new[id].cc \in Nat /\ new[id] \in TsStreams
  <2>1. \A id \in DOMAIN old : old[id] \in TsStreams
    BY <1>1
  <2>2. ASSUME NEW id \in A, id \notin DOMAIN old PROVE new[id] \in TsStreams
    <3>1. audio + Rank(A, id) \in Nat
      BY <1>1, <1>2, <1>4
    <3>. QED  BY <1>8, <2>2, <3>1 DEF TsStreams
  <2>3. ASSUME NEW id \in V, id \notin DOMAIN old PROVE new[id] \in TsStreams
    <3>1. video + Rank(V, id) \in Nat
      BY <1>1, <1>2, <1>4
    <3>. QED  BY <1>8, <2>3, <3>1 DEF TsStreams
  <2>4. \A id \in streams : new[id] \in TsStreams
    BY <1>8, <2>1, <2>2, <2>3
  <2>. QED  BY <2>4 DEF TsStreams
<1>10. \A id \in streams :
         IF TsTracks[id].type = "audio"
         THEN PidAudio <= new[id].pid /\ new[id].pid < audio + a
         ELSE PidVideo <= new[id].pid /\ new[id].pid < video + v
  <2>1. ASSUME NEW id \in DOMAIN old
        PROVE  IF TsTracks[id].type = "audio"
               THEN PidAudio <= new[id].pid /\ new[id].pid < audio + a
               ELSE PidVideo <= new[id].pid /\ new[id].pid < video + v
    <3>1. new[id].pid = old[id].pid /\ old[id].pid \in Nat
      BY <1>1, <1>8 DEF TsStreams
    <3>. QED  BY <1>1, <1>2, <1>7, <3>1
  <2>2. ASSUME NEW id \in A, id \notin DOMAIN old
        PROVE  PidAudio <= new[id].pid /\ new[id].pid < audio + a /\ audio <= new[id].pid
    <3>1. new[id].pid = audio + Rank(A, id) /\ Rank(A, id) \in 0..a - 1
      BY <1>4, <1>8, <2>2
    <3>. QED  BY <1>1, <1>2, <1>7, <3>1 DEF PidAudio
  <2>3. ASSUME NEW id \in V, id \notin DOMAIN old
        PROVE  PidVideo <= new[id].pid /\ new[id].pid < video + v /\ video <= new[id].pid
    <3>1. new[id].pid = video + Rank(V, id) /\ Rank(V, id) \in 0..v - 1
      BY <1>4, <1>8, <2>3
    <3>. QED  BY <1>1, <1>2, <1>7, <3>1 DEF PidVideo
  <2>. QED  BY <1>5, <2>1, <2>2, <2>3
<1>11. ASSUME NEW i \in streams, NEW j \in streams, i # j PROVE new[i].pid # new[j].pid
  <2>1. CASE TsTracks[i].type = "audio" /\ TsTracks[j].type # "audio"
    BY <1>1, <1>2, <1>6, <1>9, <1>10, <2>1 DEF PidVideo
  <2>2. CASE TsTracks[i].type # "audio" /\ TsTracks[j].type = "audio"
    BY <1>1, <1>2, <1>6, <1>9, <1>10, <2>2 DEF PidVideo
  <2>3. CASE i \in DOMAIN old /\ j \in DOMAIN old
    BY <1>7, <1>8, <1>11, <2>3
  <2>4. \A h, k \in streams :
          h \in DOMAIN old /\ k \notin DOMAIN old
            /\ (TsTracks[h].type = "audio" <=> TsTracks[k].type = "audio")
            => new[h].pid # new[k].pid
    <3>. SUFFICES ASSUME NEW h \in streams, NEW k \in streams, h \in DOMAIN old, k \notin DOMAIN old,
                         TsTracks[h].type = "audio" <=> TsTracks[k].type = "audio"
                  PROVE  new[h].pid # new[k].pid
      OBVIOUS
    <3>1. CASE k \in A
      <4>1. new[k].pid = audio + Rank(A, k) /\ Rank(A, k) \in 0..a - 1
        BY <1>4, <1>8, <3>1
      <4>2. new[h].pid < audio /\ new[h].pid \in Nat
        BY <1>5, <1>7, <1>8, <1>9, <3>1
      <4>. QED  BY <1>1, <1>2, <4>1, <4>2
    <3>2. CASE k \in V
      <4>1. new[k].pid = video + Rank(V, k) /\ Rank(V, k) \in 0..v - 1
        BY <1>4, <1>8, <3>2
      <4>2. new[h].pid < video /\ new[h].pid \in Nat
        BY <1>5, <1>7, <1>8, <1>9, <3>2
      <4>. QED  BY <1>1, <1>2, <4>1, <4>2
    <3>. QED  BY <3>1, <3>2
  <2>5. CASE i \in A /\ j \in A /\ i \notin DOMAIN old /\ j \notin DOMAIN old
    <3>1. i \in Int /\ j \in Int
      BY <1>2, <2>5
    <3>2. Rank(A, i) # Rank(A, j) /\ Rank(A, i) \in Int /\ Rank(A, j) \in Int
      BY <1>2, <1>4, <1>11, <2>5, <3>1
    <3>3. new[i].pid = audio + Rank(A, i) /\ new[j].pid = audio + Rank(A, j)
      BY <1>8, <2>5
    <3>4. \A x, y \in Int : x # y => audio + x # audio + y
      BY <1>1
    <3>. QED  BY <3>2, <3>3, <3>4, Zenon
  <2>6. CASE i \in V /\ j \in V /\ i \notin DOMAIN old /\ j \notin DOMAIN old
    <3>1. i \in Int /\ j \in Int
      BY <1>2, <2>6
    <3>2. Rank(V, i) # Rank(V, j) /\ Rank(V, i) \in Int /\ Rank(V, j) \in Int
      BY <1>2, <1>4, <1>11, <2>6, <3>1
    <3>3. new[i].pid = video + Rank(V, i) /\ new[j].pid = video + Rank(V, j)
      BY <1>8, <2>6
    <3>4. \A x, y \in Int : x # y => video + x # video + y
      BY <1>1
    <3>. QED  BY <3>2, <3>3, <3>4, Zenon
  <2>. QED  BY <1>5, <2>1, <2>2, <2>3, <2>4, <2>5, <2>6
<1>12. PidAudio <= audio + a /\ PidVideo <= video + v
  BY <1>1, <1>2, <1>7 DEF PidAudio, PidVideo
<1>13. /\ next.audio_stream_pid_ = audio + a /\ next.video_stream_pid_ = video + v
       /\ next.calls = m.calls + 1
  BY Zenon DEF audio, video, a, v, A, V
<1>14. OwnPidsOf(next)
  BY <1>6, <1>8, <1>10, <1>11, <1>12, <1>13, Zenon DEF OwnPids, OwnPidsOf, new, N
<1>15. new \in [streams -> TsStreams]
  <2>1. new = [id \in streams |-> new[id]]
    BY <1>3
  <2>. QED  BY <1>9, <2>1
<1>. QED  BY <1>1, <1>2, <1>8, <1>13, <1>14, <1>15 DEF new

-----------------------------------------------------------------------------
(* A call more leaves the PIDs as they are, and so do other counters.          *)
LEMMA PidsStay ==
  ASSUME NEW streams, NEW audio \in Nat, NEW video, NEW made \in Nat,
         OwnPids(streams, audio, video, made),
         NEW later, DOMAIN later = DOMAIN streams,
         \A id \in DOMAIN streams : later[id].pid = streams[id].pid
  PROVE  OwnPids(later, audio, video, made + 1)
<1>. DEFINE N == Cardinality(DOMAIN TsTracks)
            p == made * N
            q == (made + 1) * N
<1>1. N \in Nat
  BY TsAssumption, FS_CardinalityType
<1>2. audio <= PidAudio + p
  BY Zenon DEF OwnPids
<1>3. q = p + N /\ p \in Nat
  <2>1. made <= made
    OBVIOUS
  <2>. HIDE DEF N
  <2>. QED  BY <1>1, <2>1, StepsBelow
<1>. HIDE DEF N, p, q
<1>4. audio <= PidAudio + q
  BY <1>1, <1>2, <1>3 DEF PidAudio
<1>. QED  BY <1>4, Zenon DEF OwnPids, q, N

(* What adding a track, closing and writing leave of the muxer's fields.       *)
LEMMA TrackAddedTs ==
  ASSUME NEW m, TsMuxerOk(m), OwnPidsOf(m), m.calls < MaxTsCalls, NEW id \in DOMAIN TsTracks,
         NEW next, next = [m EXCEPT !.media_tracks_ = @ \cup {id}, !.calls = @ + 1]
  PROVE  /\ TsMuxerOk(next) /\ OwnPidsOf(next)
         /\ next.output_ = m.output_ /\ next.media_streams_ = m.media_streams_
<1>1. m.calls \in Nat /\ MaxTsCalls \in Nat /\ m.audio_stream_pid_ \in Nat
  BY TsAssumption DEF TsMuxerOk
<1>2. /\ next.media_tracks_ = m.media_tracks_ \cup {id} /\ next.media_streams_ = m.media_streams_
      /\ next.output_ = m.output_ /\ next.audio_stream_pid_ = m.audio_stream_pid_
      /\ next.video_stream_pid_ = m.video_stream_pid_ /\ next.pat = m.pat /\ next.pmt = m.pmt
      /\ next.calls = m.calls + 1 /\ DOMAIN next = DOMAIN m
  BY DEF TsMuxerOk
<1>3. TsMuxerOk(next)
  BY <1>1, <1>2 DEF TsMuxerOk
<1>4. OwnPids(m.media_streams_, m.audio_stream_pid_, m.video_stream_pid_, m.calls + 1)
  BY <1>1, PidsStay, Zenon DEF OwnPidsOf
<1>. QED  BY <1>2, <1>3, <1>4, Zenon DEF OwnPidsOf

(* Closing leaves the streams and their PIDs.                                  *)
LEMMA MuxerClosedTs ==
  ASSUME NEW m, TsMuxerOk(m), OwnPidsOf(m), m.calls < MaxTsCalls,
         NEW next, next = [m EXCEPT !.output_ = FALSE, !.calls = @ + 1]
  PROVE  TsMuxerOk(next) /\ OwnPidsOf(next) /\ ~next.output_
<1>1. m.calls \in Nat /\ MaxTsCalls \in Nat /\ m.audio_stream_pid_ \in Nat
  BY TsAssumption DEF TsMuxerOk
<1>2. /\ next.media_tracks_ = m.media_tracks_ /\ next.media_streams_ = m.media_streams_
      /\ next.output_ = FALSE /\ next.audio_stream_pid_ = m.audio_stream_pid_
      /\ next.video_stream_pid_ = m.video_stream_pid_ /\ next.pat = m.pat /\ next.pmt = m.pmt
      /\ next.calls = m.calls + 1 /\ DOMAIN next = DOMAIN m
  BY DEF TsMuxerOk
<1>3. TsMuxerOk(next)
  BY <1>1, <1>2 DEF TsMuxerOk
<1>4. OwnPids(m.media_streams_, m.audio_stream_pid_, m.video_stream_pid_, m.calls + 1)
  BY <1>1, PidsStay, Zenon DEF OwnPidsOf
<1>. QED  BY <1>2, <1>3, <1>4, Zenon DEF OwnPidsOf

(* So does a call that only counts.                                            *)
LEMMA MuxerCountedTs ==
  ASSUME NEW m, TsMuxerOk(m), OwnPidsOf(m), m.calls < MaxTsCalls,
         NEW next, next = [m EXCEPT !.calls = @ + 1]
  PROVE  /\ TsMuxerOk(next) /\ OwnPidsOf(next)
         /\ next.output_ = m.output_ /\ next.media_streams_ = m.media_streams_
<1>1. m.calls \in Nat /\ MaxTsCalls \in Nat /\ m.audio_stream_pid_ \in Nat
  BY TsAssumption DEF TsMuxerOk
<1>2. /\ next.media_tracks_ = m.media_tracks_ /\ next.media_streams_ = m.media_streams_
      /\ next.output_ = m.output_ /\ next.audio_stream_pid_ = m.audio_stream_pid_
      /\ next.video_stream_pid_ = m.video_stream_pid_ /\ next.pat = m.pat /\ next.pmt = m.pmt
      /\ next.calls = m.calls + 1 /\ DOMAIN next = DOMAIN m
  BY DEF TsMuxerOk
<1>3. TsMuxerOk(next)
  BY <1>1, <1>2 DEF TsMuxerOk
<1>4. OwnPids(m.media_streams_, m.audio_stream_pid_, m.video_stream_pid_, m.calls + 1)
  BY <1>1, PidsStay, Zenon DEF OwnPidsOf
<1>. QED  BY <1>2, <1>3, <1>4, Zenon DEF OwnPidsOf

(* The muxer after a PES of n packets of a stream.                             *)
WrittenTs(m, id, n) == [[m EXCEPT !.calls = @ + 1] EXCEPT !.media_streams_[id].cc = @ + n]

SentBy(next, m, id, n) ==
  /\ next.output_ = m.output_
  /\ DOMAIN next.media_streams_ = DOMAIN m.media_streams_
  /\ \A i \in DOMAIN m.media_streams_ :
       /\ next.media_streams_[i].pid = m.media_streams_[i].pid
       /\ next.media_streams_[i].cc = IF i = id THEN m.media_streams_[i].cc + n
                                      ELSE m.media_streams_[i].cc

(* So does a PES, which only moves the counter of its stream.                  *)
LEMMA StreamWrittenTs ==
  ASSUME NEW m, TsMuxerOk(m), OwnPidsOf(m), m.calls < MaxTsCalls,
         NEW id \in DOMAIN m.media_streams_, NEW n \in Nat,
         NEW next, next = WrittenTs(m, id, n)
  PROVE  TsMuxerOk(next) /\ OwnPidsOf(next) /\ SentBy(next, m, id, n)
<1>. USE DEF WrittenTs, SentBy
<1>. DEFINE old == m.media_streams_
            new == [old EXCEPT ![id].cc = @ + n]
<1>1. m.calls \in Nat /\ MaxTsCalls \in Nat /\ m.audio_stream_pid_ \in Nat
  BY TsAssumption DEF TsMuxerOk
<1>2. /\ next.media_tracks_ = m.media_tracks_ /\ next.media_streams_ = new
      /\ next.output_ = m.output_ /\ next.audio_stream_pid_ = m.audio_stream_pid_
      /\ next.video_stream_pid_ = m.video_stream_pid_ /\ next.pat = m.pat /\ next.pmt = m.pmt
      /\ next.calls = m.calls + 1 /\ DOMAIN next = DOMAIN m
  BY DEF TsMuxerOk
<1>3. old \in [DOMAIN old -> TsStreams] /\ DOMAIN old \subseteq DOMAIN TsTracks
  BY DEF TsMuxerOk
<1>. HIDE DEF old
<1>4. /\ DOMAIN new = DOMAIN old /\ new \in [DOMAIN old -> TsStreams]
      /\ \A i \in DOMAIN old : /\ new[i].pid = old[i].pid
                               /\ new[i].cc = IF i = id THEN old[i].cc + n ELSE old[i].cc
  <2>1. old[id] \in TsStreams /\ DOMAIN old[id] = {"pid", "cc"}
    BY <1>3 DEF TsStreams, old
  <2>2. [old[id] EXCEPT !.cc = @ + n] \in TsStreams
    BY <2>1 DEF TsStreams
  <2>3. new = [old EXCEPT ![id] = [old[id] EXCEPT !.cc = @ + n]]
    OBVIOUS
  <2>4. /\ [old[id] EXCEPT !.cc = @ + n].pid = old[id].pid
        /\ [old[id] EXCEPT !.cc = @ + n].cc = old[id].cc + n
    BY <2>1
  <2>. QED  BY <1>3, <2>2, <2>3, <2>4 DEF old
<1>. HIDE DEF new
<1>5. TsMuxerOk(next)
  BY <1>1, <1>2, <1>3, <1>4 DEF TsMuxerOk
<1>6. OwnPids(new, m.audio_stream_pid_, m.video_stream_pid_, m.calls + 1)
  BY <1>1, <1>4, PidsStay, Zenon DEF OwnPidsOf, old
<1>. QED  BY <1>2, <1>4, <1>5, <1>6, Zenon DEF OwnPidsOf, old

(* The two tables at the beginning of a file.                                  *)
LEMMA TablesAre ==
  ASSUME NEW pat \in Nat, NEW pmt \in Nat, NEW pids
  PROVE  LET sent == <<TablePacket(PidPat, pat), TablePacket(PidPmt, pmt)>>
         IN  /\ sent \in Seq(TsPackets) /\ Len(sent) = 2
             /\ PesWhole(sent, 2, <<>>, 0, pids) /\ Numbered(sent, 2, 0)
             /\ \A k \in 1..2 : sent[k].pid \in {PidPat, PidPmt}
<1>. DEFINE p == TablePacket(PidPat, pat)
            q == TablePacket(PidPmt, pmt)
            sent == <<p, q>>
<1>1. IsPacket(p, PidPat, pat % 16, TRUE, FALSE, 0, 184, 0)
  <2>1. [pid |-> PidPat, cc |-> pat] \in TsStreams /\ 0 \in Nat
    BY DEF TsStreams, PidPat
  <2>2. PacketPayloadSize \in 0..PacketPayloadSize /\ TRUE \in BOOLEAN /\ FALSE \in BOOLEAN
    BY DEF PacketPayloadSize
  <2>3. IsPacket(p, [pid |-> PidPat, cc |-> pat].pid, [pid |-> PidPat, cc |-> pat].cc % 16,
                 TRUE, FALSE, 0,
                 IF PacketPayloadSize > RoomIn(FALSE) THEN RoomIn(FALSE) ELSE PacketPayloadSize, 0)
    BY <2>1, <2>2, PacketIs DEF TablePacket
  <2>4. (IF PacketPayloadSize > RoomIn(FALSE) THEN RoomIn(FALSE) ELSE PacketPayloadSize) = 184
    BY DEF RoomIn, PacketPayloadSize
  <2>. QED
    BY <2>3, <2>4
<1>2. IsPacket(q, PidPmt, pmt % 16, TRUE, FALSE, 0, 184, 0)
  <2>1. [pid |-> PidPmt, cc |-> pmt] \in TsStreams /\ 0 \in Nat
    BY DEF TsStreams, PidPmt
  <2>2. PacketPayloadSize \in 0..PacketPayloadSize /\ TRUE \in BOOLEAN /\ FALSE \in BOOLEAN
    BY DEF PacketPayloadSize
  <2>3. IsPacket(q, [pid |-> PidPmt, cc |-> pmt].pid, [pid |-> PidPmt, cc |-> pmt].cc % 16,
                 TRUE, FALSE, 0,
                 IF PacketPayloadSize > RoomIn(FALSE) THEN RoomIn(FALSE) ELSE PacketPayloadSize, 0)
    BY <2>1, <2>2, PacketIs DEF TablePacket
  <2>4. (IF PacketPayloadSize > RoomIn(FALSE) THEN RoomIn(FALSE) ELSE PacketPayloadSize) = 184
    BY DEF RoomIn, PacketPayloadSize
  <2>. QED
    BY <2>3, <2>4
<1>. HIDE DEF p, q
<1>3. /\ p \in TsPackets /\ q \in TsPackets
      /\ p.pid = PidPat /\ q.pid = PidPmt /\ p.pes = 0 /\ q.pes = 0
      /\ ~p.pcr /\ ~q.pcr
      /\ 4 + p.adaptation + p.size = PacketSize /\ 4 + q.adaptation + q.size = PacketSize
  BY <1>1, <1>2 DEF IsPacket
<1>4. sent \in Seq(TsPackets) /\ Len(sent) = 2 /\ sent[1] = p /\ sent[2] = q
  BY <1>3
<1>. HIDE DEF sent
<1>5. \A k \in 1..2 : k = 1 \/ k = 2
  OBVIOUS
<1>6. \A k \in 1..2 : PacketOk(sent[k], pids)
  BY <1>3, <1>4, <1>5 DEF PacketOk
<1>7. Consecutive(sent, 2)
  <2>. SUFFICES ASSUME NEW k \in 1..2, NEW j \in 1..k - 1, Follows(sent, k, j) PROVE FALSE
    BY DEF Consecutive
  <2>1. k = 2 /\ j = 1
    OBVIOUS
  <2>2. PidPat # PidPmt
    BY DEF PidPat, PidPmt
  <2>. QED
    BY <2>1, <2>2, <1>3, <1>4 DEF Follows
<1>8. \A k \in 1..2 : sent[k].pes = 0 /\ sent[k].pid \in {PidPat, PidPmt}
  BY <1>3, <1>4, <1>5
<1>9. \A k \in 1..2 : InItsPes(sent, k, <<>>)
  BY <1>8 DEF InItsPes
<1>10. PesWhole(sent, 2, <<>>, 0, pids)
  <2>1. 1 \in 1..2 /\ 2 \in 1..2 /\ 2 - 1 = 1 /\ (\A k \in 1..1 : k = 1 /\ k + 1 = 2)
    OBVIOUS
  <2>2. \A k \in 1..2 - 1 : sent[k].pes <= sent[k + 1].pes
    <3>. SUFFICES ASSUME NEW k \in 1..2 - 1 PROVE sent[k].pes <= sent[k + 1].pes
      OBVIOUS
    <3>1. k = 1 /\ k + 1 = 2
      BY <2>1
    <3>2. sent[1].pes = 0 /\ sent[2].pes = 0
      BY <1>8, <2>1
    <3>. QED
      BY <3>1, <3>2
  <2>3. \A n \in 1..0 : \E k \in 1..2 : sent[k].pes = n
    OBVIOUS
  <2>. QED
    BY <2>2, <2>3, <1>6, <1>7, <1>9 DEF PesWhole
<1>11. Numbered(sent, 2, 0)
  BY <1>8 DEF Numbered
<1>. QED
  BY <1>4, <1>8, <1>10, <1>11 DEF sent, p, q

(* The muxer a call of open leaves.                                            *)
OpenedTs(m, success) ==
  [m EXCEPT !.calls = @ + 1, !.media_streams_ = StreamsOf(m),
              !.audio_stream_pid_ = @ + Cardinality(TracksOf(m, "audio")),
              !.video_stream_pid_ = @ + Cardinality(TracksOf(m, "video")),
              !.output_ = success,
              !.pat = IF success THEN @ + 1 ELSE @,
              !.pmt = IF success THEN @ + 1 ELSE @]

(* It satisfies the invariant's parts about the muxer.                         *)
LEMMA MuxerOpenedTs ==
  ASSUME FewPids, NEW m, TsMuxerOk(m), OwnPidsOf(m), m.calls < MaxTsCalls,
         NEW success \in BOOLEAN, NEW next, next = OpenedTs(m, success)
  PROVE  TsMuxerOk(next) /\ OwnPidsOf(next) /\ next.output_ = success
         /\ next.media_streams_ = StreamsOf(m)
<1>1. DOMAIN m = {"media_tracks_", "media_streams_", "output_", "audio_stream_pid_",
                  "video_stream_pid_", "pat", "pmt", "calls"}
  BY DEF TsMuxerOk
<1>. USE DEF OpenedTs
<1>2. /\ DOMAIN next = DOMAIN m
      /\ next.media_tracks_ = m.media_tracks_ /\ next.output_ = success
      /\ next.pat = (IF success THEN m.pat + 1 ELSE m.pat)
      /\ next.pmt = (IF success THEN m.pmt + 1 ELSE m.pmt)
      /\ next.calls = m.calls + 1
  BY <1>1
<1>3. /\ next.media_streams_ = StreamsOf(m)
      /\ next.audio_stream_pid_ = m.audio_stream_pid_ + Cardinality(TracksOf(m, "audio"))
      /\ next.video_stream_pid_ = m.video_stream_pid_ + Cardinality(TracksOf(m, "video"))
  BY <1>1
<1>4. /\ OwnPidsOf(next)
      /\ next.audio_stream_pid_ \in Nat /\ next.video_stream_pid_ \in Nat
      /\ DOMAIN next.media_streams_ \subseteq DOMAIN TsTracks
      /\ next.media_streams_ \in [DOMAIN next.media_streams_ -> TsStreams]
  BY <1>2, <1>3, StreamsAreMade
<1>. HIDE DEF OpenedTs
<1>5. m.calls \in 0..MaxTsCalls /\ MaxTsCalls \in Nat /\ m.pat \in Nat /\ m.pmt \in Nat
      /\ m.media_tracks_ \in SUBSET DOMAIN TsTracks
  BY TsAssumption DEF TsMuxerOk
<1>6. next.calls \in 0..MaxTsCalls /\ next.pat \in Nat /\ next.pmt \in Nat
  BY <1>2, <1>5
<1>. QED
  BY <1>1, <1>2, <1>3, <1>4, <1>5, <1>6, Zenon DEF TsMuxerOk

(* Opening keeps the invariant.                                                *)
LEMMA OpenTsKeeps ==
  ASSUME FewPids, TsInv, NEW created \in BOOLEAN, OpenTs(created)
  PROVE  TsInv'
<1>. DEFINE m == tsMuxer
            streams == StreamsOf(m)
            success == streams # <<>> /\ created
            tables == <<TablePacket(PidPat, m.pat), TablePacket(PidPmt, m.pmt)>>
            pids == {streams[id].pid : id \in DOMAIN streams}
<1>1. /\ TsMuxerOk(m) /\ OwnPidsOf(m) /\ m.calls < MaxTsCalls /\ ~m.output_
      /\ SamplesMade
      /\ tsSamples' = tsSamples /\ tsFile = NoTsFile
      /\ success \in BOOLEAN
  BY DEF TsInv, TsFileOk, OpenTs
<1>2. tsMuxer' = OpenedTs(m, success)
  BY Zenon DEF OpenTs, TracksOf, OpenedTs
<1>3. tsFile' = IF ~success THEN tsFile
                ELSE [pes |-> <<>>, pmt |-> pids, packets |-> tables]
  BY Zenon DEF OpenTs
<1>. HIDE DEF success
<1>4. TsMuxerOk(tsMuxer') /\ OwnPidsOf(tsMuxer') /\ tsMuxer'.output_ = success
      /\ tsMuxer'.media_streams_ = streams
  BY <1>1, <1>2, MuxerOpenedTs, Zenon
<1>5. TsFileOk(tsMuxer', tsFile')
  <2>1. CASE ~success
    BY <2>1, <1>1, <1>3, <1>4 DEF TsFileOk
  <2>2. CASE success
    <3>1. tsFile' = [pes |-> <<>>, pmt |-> pids, packets |-> tables]
      BY <2>2, <1>3
    <3>2. /\ tsFile'.pes = <<>> /\ tsFile'.pmt = pids /\ tsFile'.packets = tables
          /\ tsFile' = [packets |-> tsFile'.packets, pmt |-> tsFile'.pmt, pes |-> tsFile'.pes]
      BY <3>1
    <3>3. m.pat \in Nat /\ m.pmt \in Nat
      BY <1>1 DEF TsMuxerOk
    <3>4. /\ tables \in Seq(TsPackets) /\ Len(tables) = 2
          /\ PesWhole(tables, 2, <<>>, 0, pids) /\ Numbered(tables, 2, 0)
          /\ \A k \in 1..2 : tables[k].pid \in {PidPat, PidPmt}
      BY <3>3, TablesAre
    <3>5. \A id \in DOMAIN streams : streams[id].pid \notin {PidPat, PidPmt}
      <4>. SUFFICES ASSUME NEW id \in DOMAIN streams PROVE streams[id].pid \notin {PidPat, PidPmt}
        OBVIOUS
      <4>1. streams \in [DOMAIN streams -> TsStreams]
        BY <1>4 DEF TsMuxerOk
      <4>2. streams[id].pid \in Nat
        BY <4>1 DEF TsStreams
      <4>3. PidAudio <= streams[id].pid \/ PidVideo <= streams[id].pid
        BY <1>4 DEF OwnPidsOf, OwnPids
      <4>. QED
        BY <4>2, <4>3 DEF PidAudio, PidVideo, PidPat, PidPmt
    <3>. HIDE DEF tables, pids, streams
    <3>6. Continues(tables, 2, streams)
      BY <3>4, <3>5 DEF Continues, Awaited
    <3>7. <<>> \in Seq(TsPes) /\ Len(<<>>) = 0 /\ 1..0 = {}
      OBVIOUS
    <3>8. pids = {streams[id].pid : id \in DOMAIN streams}
      BY DEF pids
    <3>. QED
      BY <3>2, <3>4, <3>6, <3>7, <3>8, <1>4, <2>2 DEF TsFileOk
  <2>. QED
    BY <2>1, <2>2
<1>. QED
  BY <1>1, <1>4, <1>5 DEF TsInv, SamplesMade

PesOn(pes, m, id) ==
  /\ id \in DOMAIN m.media_streams_
  /\ pes \in TsPes /\ TsPesOk(pes)
  /\ pes.pid = m.media_streams_[id].pid
  /\ pes.header \in Nat \ {0}

PacketsBehind(file, m, id, pes) ==
  WritePES(m.media_streams_[id], pes.header + SizeOf(pes.units), Len(file.pes) + 1)

FileWith(file, packets, pes) == [file EXCEPT !.packets = @ \o packets, !.pes = Append(@, pes)]

(* A PES put behind those of a file, cut into packets, leaves a good file.     *)
LEMMA FileWritten ==
  ASSUME NEW m, TsMuxerOk(m), OwnPidsOf(m), m.output_, NEW file, TsFileOk(m, file),
         NEW id, NEW pes, PesOn(pes, m, id), NEW packets, packets = PacketsBehind(file, m, id, pes),
         NEW next, SentBy(next, m, id, Len(packets)),
         NEW later, later = FileWith(file, packets, pes)
  PROVE  TsFileOk(next, later) /\ Len(packets) \in Nat
<1>. DEFINE streams == m.media_streams_
            pid == streams[id].pid
            cc == streams[id].cc
            last == Len(file.pes)
            L == Len(file.packets)
            C == Len(packets)
            sent == file.packets
            all == later.packets
            total == pes.header + SizeOf(pes.units)
<1>. USE DEF PesOn
<1>1. /\ file = [packets |-> file.packets, pmt |-> file.pmt, pes |-> file.pes]
      /\ file.packets \in Seq(TsPackets) /\ file.pes \in Seq(TsPes)
      /\ file.pmt = {streams[i].pid : i \in DOMAIN streams}
      /\ \A n \in 1..Len(file.pes) : TsPesOk(file.pes[n])
      /\ Numbered(sent, L, last)
      /\ PesWhole(sent, L, file.pes, last, file.pmt)
      /\ Continues(sent, L, streams)
  BY DEF TsFileOk
<1>2. last \in Nat /\ L \in Nat
  BY <1>1
<1>3. \A i \in DOMAIN streams : streams[i] \in TsStreams
  BY DEF TsMuxerOk
<1>4. pid \in Nat /\ cc \in Nat /\ streams[id] \in TsStreams
  BY <1>3 DEF TsStreams
<1>5. pes.units \in Seq(TsUnits)
  BY DEF TsPes
<1>6. total \in Nat \ {0}
  <2>1. SizeOf(pes.units) \in Nat
    BY <1>5, SizeIs
  <2>. QED
    BY <2>1
<1>7. CutsPes(packets, streams[id], total, last + 1)
  <2>1. last + 1 \in Nat
    BY <1>2
  <2>. QED
    BY <2>1, <1>4, <1>6, WritePESIs DEF PacketsBehind
<1>8. packets \in Seq(TsPackets) /\ C \in Nat \ {0}
  BY <1>7 DEF CutsPes
<1>9. /\ later.packets = sent \o packets /\ later.pes = Append(file.pes, pes) /\ later.pmt = file.pmt
      /\ later = [packets |-> later.packets, pmt |-> later.pmt, pes |-> later.pes]
  BY <1>1 DEF FileWith
<1>. HIDE DEF sent, all, total, last, L, C, pid, cc, streams
<1>10. /\ all \in Seq(TsPackets) /\ later.pes \in Seq(TsPes)
       /\ Len(all) = L + C /\ Len(later.pes) = last + 1 /\ Len(sent) = L
  <2>1. sent \in Seq(TsPackets) /\ file.pes \in Seq(TsPes) /\ Len(sent) = L /\ Len(file.pes) = last
        /\ Len(packets) = C
    BY <1>1 DEF sent, L, last, C
  <2>2. sent \o packets \in Seq(TsPackets) /\ Len(sent \o packets) = L + C
    BY <2>1, <1>8
  <2>3. Append(file.pes, pes) \in Seq(TsPes) /\ Len(Append(file.pes, pes)) = last + 1
    BY <2>1
  <2>. QED
    BY <2>1, <2>2, <2>3, <1>9 DEF all
<1>11. Behind(all, sent, packets, L, C)
  BY <1>1, <1>2, <1>8, <1>9 DEF Behind, all, sent, L, C
<1>12. Extended(later.pes, file.pes, last, pes)
  BY <1>1, <1>9 DEF Extended, last
<1>13. pes.pid \in file.pmt /\ pes.pid = pid
  BY <1>1 DEF streams, pid
<1>14. OnePid(packets, C, pes.pid, cc)
  BY <1>7, <1>13 DEF CutsPes, OnePid, C, pid, cc
<1>15. OnePes(packets, C, last + 1, pes)
  BY <1>7, <1>13 DEF CutsPes, OnePes, C, pid, total
<1>16. Awaited(sent, L, pes.pid, cc)
  BY <1>1, <1>13 DEF Continues, pid, cc, streams
<1>17. AllFit(packets, C)
  BY <1>7 DEF CutsPes, AllFit, C
<1>18. PesWhole(all, L + C, later.pes, last + 1, file.pmt) /\ Numbered(all, L + C, last + 1)
  BY <1>1, <1>2, <1>4, <1>10, <1>11, <1>12, <1>13, <1>14, <1>15, <1>16, <1>17, FileGrows, Zenon
<1>19. Continues(all, L + C, next.media_streams_)
  <2>. SUFFICES ASSUME NEW i \in DOMAIN streams
                PROVE  Awaited(all, L + C, next.media_streams_[i].pid, next.media_streams_[i].cc)
    BY DEF Continues, streams, SentBy
  <2>. DEFINE other == streams[i].pid
              counter == IF i = id THEN cc + C ELSE streams[i].cc
  <2>1. next.media_streams_[i].pid = other /\ next.media_streams_[i].cc = counter
    BY DEF streams, cc, C, SentBy
  <2>2. counter \in Nat
    BY <1>3, <1>4, <1>8 DEF TsStreams
  <2>3. other = pes.pid => counter = cc + C
    BY <1>13 DEF OwnPidsOf, OwnPids, streams, pid
  <2>4. other # pes.pid => Awaited(sent, L, other, counter)
    BY <1>1, <1>13 DEF Continues, pid
  <2>. HIDE DEF other, counter
  <2>5. Awaited(all, L + C, other, counter)
    BY <1>4, <1>11, <1>14, <2>2, <2>3, <2>4, StreamsGoOn, Zenon
  <2>. QED
    BY <2>1, <2>5
<1>20. file.pmt = {next.media_streams_[i].pid : i \in DOMAIN next.media_streams_}
  BY <1>1 DEF streams, SentBy
<1>21. \A n \in 1..Len(later.pes) : TsPesOk(later.pes[n])
  BY <1>1, <1>2, <1>10, <1>12 DEF Extended, last
<1>22. later.pmt = file.pmt /\ next.output_
  BY <1>9 DEF SentBy
<1>23. TsFileOk(next, later)
  BY <1>9, <1>10, <1>18, <1>19, <1>20, <1>21, <1>22, Zenon DEF TsFileOk, all
<1>. QED
  BY <1>23, <1>8 DEF C

(* A sample with another format and other pieces.                              *)
Marked(sample, other, more) == [sample EXCEPT !.format = other, !.units = more]

(* It is the record one expects.                                               *)
LEMMA MarkedIs ==
  ASSUME NEW track, NEW format, NEW units, NEW cut, NEW other, NEW more
  PROVE  Marked([track |-> track, format |-> format, units |-> units, cut |-> cut], other, more)
           = [track |-> track, format |-> other, units |-> more, cut |-> cut]
<1>. USE DEF Marked
<1>. DEFINE sample == [track |-> track, format |-> format, units |-> units, cut |-> cut]
            marked == Marked(sample, other, more)
<1>1. marked \in [track : {track}, format : {other}, units : {more}, cut : {cut}]
  OBVIOUS
<1>. HIDE DEF marked
<1>2. marked = [track |-> track, format |-> other, units |-> more, cut |-> cut]
  BY <1>1
<1>. QED
  BY <1>2 DEF marked

(* The step of a sample that is converted to `to' and written.                 *)
SampleTo(s, to) ==
  /\ to = Converted(tsSamples[s], TsTracks[tsSamples[s].track].extradata)
  /\ tsSamples' = [tsSamples EXCEPT ![s].format = to.format, ![s].units = to.units]

PesMade(pes, s, pid) ==
  /\ TsPesOk(pes) /\ pes.sample = s /\ pes.pid = pid /\ pes.header \in {14, 19}
  /\ pes.units \in Seq(TsUnits)
  /\ pes = [sample |-> s, pid |-> pid, header |-> pes.header, units |-> pes.units]

(* It leaves the sample as its first writing did, and the PES holds that.      *)
LEMMA SampleIsMade ==
  ASSUME SamplesMade, NEW s \in DOMAIN TsSamples, NEW to, SampleTo(s, to), NEW pid
  PROVE  SamplesMade' /\ PesMade(PesOf(s, pid, to.units), s, pid)
<1>. DEFINE given == TsSamples[s]
            extradata == TsTracks[given.track].extradata
            sample == tsSamples[s]
            pes == PesOf(s, pid, to.units)
            first == <<<<"aud", 6>>>>
<1>1. /\ given.units \in Seq(TsUnits) /\ Made(s).units \in Seq(TsUnits)
      /\ Made(s).track = given.track
      /\ Converted(Made(s), extradata).units = Made(s).units
      /\ Converted(Made(s), extradata).format = Made(s).format
  BY MadeIs
<1>2. sample \in {given, Made(s)}
  BY DEF SamplesMade
<1>3. sample.track = given.track /\ to.units = Made(s).units /\ to.format = Made(s).format
  <2>1. CASE sample = given
    BY <2>1 DEF Made, SampleTo
  <2>2. CASE sample = Made(s)
    BY <2>2, <1>1 DEF SampleTo
  <2>. QED
    BY <1>2, <2>1, <2>2
<1>4. tsSamples'[s] = Made(s)
  <2>1. tsSamples'[s] = Marked(sample, to.format, to.units)
    BY DEF SampleTo, SamplesMade, Marked
  <2>2. sample = [track |-> given.track, format |-> sample.format, units |-> sample.units,
                  cut |-> given.cut]
    <3>1. given = [track |-> given.track, format |-> given.format, units |-> given.units,
                   cut |-> given.cut]
      BY TsAssumption
    <3>. QED
      BY <3>1, <1>2 DEF Made
  <2>3. Made(s) = [track |-> given.track, format |-> Made(s).format, units |-> Made(s).units,
                   cut |-> given.cut]
    BY DEF Made
  <2>. HIDE DEF sample, given
  <2>4. Marked(sample, to.format, to.units)
          = [track |-> given.track, format |-> to.format, units |-> to.units, cut |-> given.cut]
    <3>1. PICK format, units : sample = [track |-> given.track, format |-> format,
                                         units |-> units, cut |-> given.cut]
      BY <2>2
    <3>. QED
      BY <3>1, MarkedIs
  <2>. QED
    BY <2>1, <2>3, <2>4, <1>3
<1>5. /\ DOMAIN tsSamples' = DOMAIN TsSamples
      /\ \A i \in DOMAIN TsSamples : tsSamples'[i] \in {TsSamples[i], Made(i)}
  <2>1. DOMAIN tsSamples' = DOMAIN TsSamples
        /\ \A i \in DOMAIN TsSamples \ {s} : tsSamples'[i] = tsSamples[i]
    BY DEF SampleTo, SamplesMade
  <2>. QED
    BY <2>1, <1>4 DEF SamplesMade
<1>6. /\ to.units \in Seq(TsUnits) /\ first \in Seq(TsUnits) /\ first \o to.units \in Seq(TsUnits)
      /\ <<>> \o to.units = to.units
  <2>1. <<"aud", 6>> \in TsUnits
    BY DEF TsUnits, TsKinds
  <2>. QED
    BY <1>1, <1>3, <2>1
<1>7. PesMade(pes, s, pid)
  <2>1. CASE TsTracks[given.track].type = "video"
    <3>1. pes = [sample |-> s, pid |-> pid, header |-> 19, units |-> first \o to.units]
      BY <2>1, <1>3 DEF PesOf
    <3>. HIDE DEF pes, first, given
    <3>2. /\ pes.sample = s /\ pes.pid = pid /\ pes.header = 19 /\ pes.units = first \o to.units
          /\ pes = [sample |-> s, pid |-> pid, header |-> pes.header, units |-> pes.units]
      BY <3>1
    <3>3. TsPesOk(pes)
      BY <3>2, <2>1, <1>3 DEF TsPesOk, first, given
    <3>. QED
      BY <3>2, <3>3, <1>6 DEF PesMade
  <2>2. CASE TsTracks[given.track].type # "video"
    <3>1. pes = [sample |-> s, pid |-> pid, header |-> 14, units |-> to.units]
      BY <2>2, <1>3 DEF PesOf
    <3>. HIDE DEF pes, first, given
    <3>2. /\ pes.sample = s /\ pes.pid = pid /\ pes.header = 14 /\ pes.units = to.units
          /\ pes = [sample |-> s, pid |-> pid, header |-> pes.header, units |-> pes.units]
      BY <3>1
    <3>3. TsPesOk(pes)
      BY <3>2, <2>2, <1>3, <1>6 DEF TsPesOk, given
    <3>. QED
      BY <3>2, <3>3, <1>6 DEF PesMade
  <2>. QED
    BY <2>1, <2>2
<1>. QED
  BY <1>5, <1>7 DEF SamplesMade

(* A PES on a PID is of the type of the file's.                                *)
LEMMA PesIsPes ==
  ASSUME NEW s \in DOMAIN TsSamples, NEW pid \in Nat, NEW pes, PesMade(pes, s, pid)
  PROVE  pes \in TsPes /\ TsPesOk(pes) /\ pes.pid = pid /\ pes.header \in Nat \ {0}
  BY DEF PesMade, TsPes

(* Writing a sample keeps the invariant.                                       *)
LEMMA WriteTsSampleKeeps ==
  ASSUME TsInv, NEW s \in DOMAIN TsSamples, WriteTsSample(s)
  PROVE  TsInv'
<1>. DEFINE m == tsMuxer
            sample == tsSamples[s]
            id == sample.track
            to == Converted(sample, TsTracks[id].extradata)
            pes == PesOf(s, m.media_streams_[id].pid, to.units)
            packets == WritePES(m.media_streams_[id], pes.header + SizeOf(pes.units),
                                Len(tsFile.pes) + 1)
            counted == [m EXCEPT !.calls = @ + 1]
<1>1. /\ TsMuxerOk(m) /\ OwnPidsOf(m) /\ m.calls < MaxTsCalls /\ m.output_
      /\ SamplesMade
      /\ TsFileOk(m, tsFile)
  BY DEF TsInv, WriteTsSample
<1>2. CASE tsMuxer' = counted /\ tsSamples' = tsSamples /\ tsFile' = tsFile
  <2>1. /\ TsMuxerOk(tsMuxer') /\ OwnPidsOf(tsMuxer')
        /\ tsMuxer'.output_ = m.output_ /\ tsMuxer'.media_streams_ = m.media_streams_
    BY <1>1, <1>2, MuxerCountedTs, Zenon
  <2>. QED
    BY <1>1, <1>2, <2>1 DEF TsInv, TsFileOk, SamplesMade
<1>3. CASE /\ id \in DOMAIN m.media_streams_ /\ to.ok
           /\ tsMuxer' = [counted EXCEPT !.media_streams_[id].cc = @ + Len(packets)]
           /\ tsSamples' = [tsSamples EXCEPT ![s].format = to.format, ![s].units = to.units]
           /\ tsFile' = [tsFile EXCEPT !.packets = @ \o packets, !.pes = Append(@, pes)]
  <2>1. SamplesMade' /\ PesMade(pes, s, m.media_streams_[id].pid)
    <3>1. SampleTo(s, to)
      BY <1>1, <1>3, Zenon DEF SampleTo
    <3>. QED
      BY <1>1, <3>1, SampleIsMade, Zenon
  <2>6. m.media_streams_[id].pid \in Nat
    BY <1>1, <1>3 DEF TsMuxerOk, TsStreams
  <2>7. pes \in TsPes /\ TsPesOk(pes) /\ pes.pid = m.media_streams_[id].pid /\ pes.header \in Nat \ {0}
    BY <2>1, <2>6, <1>1, PesIsPes, Zenon
  <2>8. packets = WritePES(m.media_streams_[id], pes.header + SizeOf(pes.units), Len(tsFile.pes) + 1)
    OBVIOUS
  <2>. HIDE DEF packets, pes, to
  <2>9. Len(packets) \in Nat
    <3>1. m.media_streams_[id] \in TsStreams
      BY <1>1, <1>3 DEF TsMuxerOk
    <3>2. pes.header + SizeOf(pes.units) \in Nat \ {0}
      <4>1. pes.units \in Seq(TsUnits)
        BY <2>7 DEF TsPes
      <4>2. SizeOf(pes.units) \in Nat
        BY <4>1, SizeIs
      <4>. QED
        BY <4>2, <2>7
    <3>3. Len(tsFile.pes) + 1 \in Nat
      BY <1>1 DEF TsFileOk
    <3>4. CutsPes(packets, m.media_streams_[id], pes.header + SizeOf(pes.units), Len(tsFile.pes) + 1)
      BY <2>8, <3>1, <3>2, <3>3, WritePESIs
    <3>. QED
      BY <3>4 DEF CutsPes
  <2>10. TsMuxerOk(tsMuxer') /\ OwnPidsOf(tsMuxer') /\ SentBy(tsMuxer', m, id, Len(packets))
    <3>1. tsMuxer' = WrittenTs(m, id, Len(packets))
      BY <1>3, Zenon DEF WrittenTs
    <3>. QED
      BY <1>1, <1>3, <2>9, <3>1, StreamWrittenTs, Zenon
  <2>11. TsFileOk(tsMuxer', tsFile')
    <3>1. tsFile' = FileWith(tsFile, packets, pes)
      BY <1>3, Zenon DEF FileWith
    <3>2. PesOn(pes, m, id)
      BY <1>3, <2>7 DEF PesOn
    <3>3. packets = PacketsBehind(tsFile, m, id, pes)
      BY <2>8 DEF PacketsBehind
    <3>. QED
      BY <3>1, <3>2, <3>3, <1>1, <2>10, FileWritten, Zenon
  <2>. QED
    BY <2>1, <2>10, <2>11 DEF TsInv
<1>. QED
  BY <1>2, <1>3, Zenon DEF WriteTsSample

(* The invariant holds at first.                                               *)
LEMMA TsInit == TsMuxerInit => TsInv
<1>. SUFFICES ASSUME TsMuxerInit PROVE TsInv
  OBVIOUS
<1>. DEFINE none == [x \in {} |-> 0]
<1>1. <<>> = none /\ DOMAIN none = {} /\ none \in [DOMAIN none -> TsStreams]
  OBVIOUS
<1>2. DOMAIN <<>> = {} /\ <<>> \in [DOMAIN <<>> -> TsStreams]
  BY <1>1, Zenon
<1>3. /\ tsMuxer = [media_tracks_ |-> {}, media_streams_ |-> <<>>, output_ |-> FALSE,
                    audio_stream_pid_ |-> PidAudio, video_stream_pid_ |-> PidVideo,
                    pat |-> 0, pmt |-> 0, calls |-> 0]
      /\ tsSamples = TsSamples /\ tsFile = NoTsFile
  BY DEF TsMuxerInit
<1>4. /\ DOMAIN tsMuxer = {"media_tracks_", "media_streams_", "output_", "audio_stream_pid_",
                           "video_stream_pid_", "pat", "pmt", "calls"}
      /\ tsMuxer.media_tracks_ = {} /\ tsMuxer.media_streams_ = <<>> /\ tsMuxer.output_ = FALSE
      /\ tsMuxer.audio_stream_pid_ = PidAudio /\ tsMuxer.video_stream_pid_ = PidVideo
      /\ tsMuxer.pat = 0 /\ tsMuxer.pmt = 0 /\ tsMuxer.calls = 0
  BY <1>3
<1>5. TsMuxerOk(tsMuxer)
  <2>1. 0 \in 0..MaxTsCalls /\ PidAudio \in Nat /\ PidVideo \in Nat /\ 0 \in Nat
    BY TsAssumption DEF PidAudio, PidVideo
  <2>2. {} \in SUBSET DOMAIN TsTracks /\ {} \subseteq DOMAIN TsTracks /\ FALSE \in BOOLEAN
    OBVIOUS
  <2>. QED
    BY <1>2, <1>4, <2>1, <2>2, Zenon DEF TsMuxerOk
<1>6. OwnPidsOf(tsMuxer)
  <2>. DEFINE N == Cardinality(DOMAIN TsTracks)
  <2>1. N \in Nat
    BY TsAssumption, FS_CardinalityType
  <2>. HIDE DEF N
  <2>2. PidAudio <= PidAudio + 0 * N /\ PidAudio <= PidAudio /\ PidVideo <= PidVideo
    BY <2>1 DEF PidAudio, PidVideo
  <2>3. OwnPids(<<>>, PidAudio, PidVideo, 0)
    BY <1>2, <2>2 DEF OwnPids, N
  <2>. QED
    BY <1>4, <2>3 DEF OwnPidsOf
<1>. QED
  BY <1>3, <1>4, <1>5, <1>6 DEF TsInv, TsFileOk, SamplesMade

(* Every call keeps it.                                                        *)
LEMMA TsStep ==
  ASSUME FewPids, TsInv, [TsMuxerNext]_tsMuxerVars
  PROVE  TsInv'
<1>. DEFINE m == tsMuxer
<1>1. /\ TsMuxerOk(m) /\ OwnPidsOf(m)
      /\ SamplesMade
      /\ TsFileOk(m, tsFile)
  BY DEF TsInv
<1>2. ASSUME NEW id \in DOMAIN TsTracks, AddTsTrack(id) PROVE TsInv'
  <2>1. /\ m.calls < MaxTsCalls /\ tsSamples' = tsSamples /\ tsFile' = tsFile
        /\ tsMuxer' = [m EXCEPT !.media_tracks_ = @ \cup {id}, !.calls = @ + 1]
    BY <1>2 DEF AddTsTrack
  <2>2. /\ TsMuxerOk(tsMuxer') /\ OwnPidsOf(tsMuxer')
        /\ tsMuxer'.output_ = m.output_ /\ tsMuxer'.media_streams_ = m.media_streams_
    BY <1>1, <2>1, TrackAddedTs, Zenon
  <2>. QED
    BY <1>1, <2>1, <2>2 DEF TsInv, TsFileOk, SamplesMade
<1>3. ASSUME NEW created \in BOOLEAN, OpenTs(created) PROVE TsInv'
  BY <1>3, OpenTsKeeps
<1>4. CASE CloseTs
  <2>1. /\ m.calls < MaxTsCalls /\ tsSamples' = tsSamples /\ tsFile' = NoTsFile
        /\ tsMuxer' = [m EXCEPT !.output_ = FALSE, !.calls = @ + 1]
    BY <1>4 DEF CloseTs
  <2>2. TsMuxerOk(tsMuxer') /\ OwnPidsOf(tsMuxer') /\ ~tsMuxer'.output_
    BY <1>1, <2>1, MuxerClosedTs, Zenon
  <2>. QED
    BY <1>1, <2>1, <2>2 DEF TsInv, TsFileOk, SamplesMade
<1>5. ASSUME NEW s \in DOMAIN TsSamples, WriteTsSample(s) PROVE TsInv'
  BY <1>5, WriteTsSampleKeeps
<1>6. CASE UNCHANGED tsMuxerVars
  BY <1>6 DEF TsInv, tsMuxerVars, SamplesMade
<1>. QED
  BY <1>2, <1>3, <1>4, <1>5, <1>6 DEF TsMuxerNext

(* What a demultiplexer reads is what was written, whatever the number of      *)
(* tracks, samples, calls and their sizes: TsMuxer's                           *)
(* DemultiplexesToTheSamples, when the audio PIDs do not run into the video    *)
(* PIDs, as they do after that many opens.                                     *)
THEOREM PesComeWhole ==
  ASSUME FewPids
  PROVE  TsMuxerSpec => []DemultiplexesToTheSamples
<1>1. TsInv => DemultiplexesToTheSamples
  <2>. SUFFICES ASSUME TsInv PROVE DemultiplexesToTheSamples
    OBVIOUS
  <2>. DEFINE sent == tsFile.packets
  <2>1. CASE ~tsMuxer.output_
    <3>1. sent = <<>> /\ tsFile.pes = <<>> /\ Len(sent) = 0
      BY <2>1 DEF TsInv, TsFileOk, NoTsFile
    <3>2. 1..0 = {} /\ 1..0 - 1 = {} /\ Len(<<>>) = 0
      OBVIOUS
    <3>. QED
      BY <3>1, <3>2 DEF DemultiplexesToTheSamples
  <2>2. CASE tsMuxer.output_
    <3>1. PesWhole(sent, Len(sent), tsFile.pes, Len(tsFile.pes), tsFile.pmt)
      BY <2>2 DEF TsInv, TsFileOk
    <3>. QED
      BY <3>1, Zenon DEF DemultiplexesToTheSamples, PesWhole, PacketOk, Consecutive, Follows, InItsPes,
           StartsPes, EndsPes
  <2>. QED
    BY <2>1, <2>2
<1>2. TsInv /\ [TsMuxerNext]_tsMuxerVars => TsInv'
  BY TsStep
<1>. QED
  BY <1>1, <1>2, TsInit, PTL DEF TsMuxerSpec

(* The part of the invariant that is about what is written, which holds        *)
(* whatever the PIDs are.                                                      *)
Elements(seq) == {seq[n] : n \in DOMAIN seq}

MadeInv ==
  /\ SamplesMade
  /\ DOMAIN tsFile = {"packets", "pmt", "pes"}
  /\ tsFile.pes \in Seq(Elements(tsFile.pes))
  /\ \A n \in 1..Len(tsFile.pes) : TsPesOk(tsFile.pes[n])

(* A sequence with one element more is a sequence of what is in it.            *)
LEMMA AppendedElements ==
  ASSUME NEW seq, seq \in Seq(Elements(seq)), NEW new
  PROVE  LET more == Append(seq, new)
         IN  /\ more \in Seq(Elements(more))
             /\ \A n \in 1..Len(more) : more[n] = new \/ (n \in 1..Len(seq) /\ more[n] = seq[n])
<1>. DEFINE S == Elements(seq) \cup {new}
            more == Append(seq, new)
<1>1. seq \in Seq(S) /\ new \in S
  <2>. DEFINE T == Elements(seq)
  <2>1. T \subseteq S /\ seq \in Seq(T)
    OBVIOUS
  <2>. HIDE DEF T, S
  <2>2. seq \in Seq(S)
    BY <2>1
  <2>. QED
    BY <2>2 DEF S
<1>. HIDE DEF S
<1>2. /\ more \in Seq(S) /\ Len(more) = Len(seq) + 1 /\ Len(seq) \in Nat
      /\ more[Len(seq) + 1] = new /\ \A n \in 1..Len(seq) : more[n] = seq[n]
  BY <1>1
<1>. HIDE DEF more
<1>3. more \in Seq(Elements(more))
  <2>. DEFINE T == Elements(more)
  <2>1. more \in [1..Len(more) -> S] /\ Len(more) \in Nat
    BY <1>2
  <2>2. more = [n \in 1..Len(more) |-> more[n]] /\ \A n \in 1..Len(more) : more[n] \in T
    BY <2>1 DEF Elements
  <2>. HIDE DEF T
  <2>3. more \in [1..Len(more) -> T]
    BY <2>2
  <2>4. more \in Seq(T)
    BY <2>1, <2>3
  <2>. QED
    BY <2>4 DEF T
<1>. QED
  BY <1>2, <1>3 DEF more

(* Every call keeps it.                                                        *)
LEMMA MadeStep ==
  ASSUME MadeInv, [TsMuxerNext]_tsMuxerVars
  PROVE  MadeInv'
<1>1. ASSUME tsSamples' = tsSamples, tsFile' = tsFile PROVE MadeInv'
  BY <1>1 DEF MadeInv, SamplesMade
<1>2. ASSUME tsSamples' = tsSamples, DOMAIN tsFile' = {"packets", "pmt", "pes"}, tsFile'.pes = <<>>
      PROVE  MadeInv'
  <2>1. <<>> \in Seq(Elements(<<>>)) /\ Len(<<>>) = 0 /\ 1..0 = {}
    OBVIOUS
  <2>. QED
    BY <1>2, <2>1 DEF MadeInv, SamplesMade
<1>3. ASSUME NEW created \in BOOLEAN, OpenTs(created) PROVE MadeInv'
  <2>1. tsSamples' = tsSamples
    BY <1>3 DEF OpenTs
  <2>2. \/ tsFile' = tsFile
        \/ DOMAIN tsFile' = {"packets", "pmt", "pes"} /\ tsFile'.pes = <<>>
    BY <1>3 DEF OpenTs
  <2>. QED
    BY <2>1, <2>2, <1>1, <1>2
<1>4. CASE CloseTs
  <2>1. tsSamples' = tsSamples /\ DOMAIN tsFile' = {"packets", "pmt", "pes"} /\ tsFile'.pes = <<>>
    BY <1>4 DEF CloseTs, NoTsFile
  <2>. QED
    BY <2>1, <1>2
<1>5. ASSUME NEW s \in DOMAIN TsSamples, WriteTsSample(s) PROVE MadeInv'
  <2>1. CASE tsSamples' = tsSamples /\ tsFile' = tsFile
    BY <2>1, <1>1
  <2>2. CASE ~(tsSamples' = tsSamples /\ tsFile' = tsFile)
    <3>1. PICK to, pid, packets :
            /\ SampleTo(s, to)
            /\ tsFile' = FileWith(tsFile, packets, PesOf(s, pid, to.units))
      BY <1>5, <2>2, Zenon DEF WriteTsSample, SampleTo, FileWith
    <3>. DEFINE pes == PesOf(s, pid, to.units)
                old == tsFile.pes
    <3>2. SamplesMade' /\ PesMade(pes, s, pid)
      BY <3>1, SampleIsMade, Zenon DEF MadeInv
    <3>3. TsPesOk(pes)
      BY <3>2 DEF PesMade
    <3>. HIDE DEF pes
    <3>4. DOMAIN tsFile' = {"packets", "pmt", "pes"} /\ tsFile'.pes = Append(old, pes)
      BY <3>1 DEF MadeInv, FileWith, pes
    <3>5. old \in Seq(Elements(old)) /\ \A n \in 1..Len(old) : TsPesOk(old[n])
      BY DEF MadeInv
    <3>. HIDE DEF old
    <3>. DEFINE more == Append(old, pes)
    <3>6. /\ more \in Seq(Elements(more))
          /\ \A n \in 1..Len(more) : more[n] = pes \/ (n \in 1..Len(old) /\ more[n] = old[n])
      BY <3>5, AppendedElements
    <3>. HIDE DEF more
    <3>7. \A n \in 1..Len(more) : TsPesOk(more[n])
      BY <3>3, <3>5, <3>6
    <3>8. tsFile'.pes = more
      BY <3>4 DEF more
    <3>. QED
      BY <3>2, <3>4, <3>6, <3>7, <3>8, Zenon DEF MadeInv
  <2>. QED
    BY <2>1, <2>2
<1>6. ASSUME NEW id \in DOMAIN TsTracks, AddTsTrack(id) PROVE MadeInv'
  BY <1>1, <1>6 DEF AddTsTrack
<1>7. CASE UNCHANGED tsMuxerVars
  BY <1>1, <1>7 DEF tsMuxerVars
<1>. QED
  BY <1>3, <1>4, <1>5, <1>6, <1>7 DEF TsMuxerNext

(* However often a sample is written, its PES has the parameter sets or the    *)
(* ADTS header once, and the pieces the caller gave: ConvertedOnce.            *)
THEOREM SamplesAreConvertedOnce == TsMuxerSpec => []ConvertedOnce
<1>1. TsMuxerInit => MadeInv
  <2>1. <<>> \in Seq(Elements(<<>>)) /\ Len(<<>>) = 0 /\ 1..0 = {}
    OBVIOUS
  <2>2. DOMAIN NoTsFile = {"packets", "pmt", "pes"} /\ NoTsFile.pes = <<>>
    BY DEF NoTsFile
  <2>. QED
    BY <2>1, <2>2 DEF TsMuxerInit, MadeInv, SamplesMade
<1>2. MadeInv /\ [TsMuxerNext]_tsMuxerVars => MadeInv'
  BY MadeStep
<1>3. MadeInv => ConvertedOnce
  BY PesUnitsAre, Zenon DEF MadeInv, ConvertedOnce
<1>. QED
  BY <1>1, <1>2, <1>3, PTL DEF TsMuxerSpec

-----------------------------------------------------------------------------
(* SnyDemuxer.                                                                 *)

(* Converted data: units of the file and what is added to them.                *)
Tokens == (DemuxUnits \cup {"adts"}) \X Nat

(* The parameter sets of a description.                                        *)
SetsOf(codec, desc) ==
  (IF codec = "hevc" THEN <<<<"vps", desc>>>> ELSE <<>>) \o <<<<"sps", desc>>, <<"pps", desc>>>>

(* What is handed out for a sample of a track.                                 *)
DataOf(track, sample) ==
  IF track.kind = "video" THEN AccessUnit(track.codec, SetsOf(track.codec, sample.desc), sample)
  ELSE AudioFrame(track.codec, sample)

(* The units that fit are a prefix of the units.                               *)
LEMMA WholeUnitsAre ==
  ASSUME NEW units \in Seq(DemuxUnits)
  PROVE  /\ WholeUnits(units) \in Seq(DemuxUnits)
         /\ \A i \in 1..Len(WholeUnits(units)) : WholeUnits(units)[i] = units[i]
<1>. DEFINE I == {i \in 1..Len(units) : units[i] = "cut"}
            cut == IF I # {} THEN Min(I) ELSE 0
<1>1. Len(units) \in Nat /\ I \in SUBSET (1..Len(units))
  OBVIOUS
<1>2. cut \in 0..Len(units)
  <2>1. CASE I = {}
    BY <1>1, <2>1
  <2>2. CASE I # {}
    <3>. HIDE DEF I
    <3>1. Min(I) \in I
      BY <1>1, <2>2, MinIsLeast
    <3>2. Min(I) \in 1..Len(units) /\ cut = Min(I)
      BY <1>1, <2>2, <3>1
    <3>. QED  BY <1>1, <3>2
  <2>. QED  BY <2>1, <2>2
<1>3. WholeUnits(units) = IF cut = 0 THEN units ELSE SubSeq(units, 1, cut - 1)
  BY Zenon DEF WholeUnits, SelectInSeq
<1>. HIDE DEF cut
<1>4. ASSUME cut # 0
      PROVE  /\ SubSeq(units, 1, cut - 1) \in Seq(DemuxUnits)
             /\ Len(SubSeq(units, 1, cut - 1)) = cut - 1
             /\ \A i \in 1..cut - 1 : SubSeq(units, 1, cut - 1)[i] = units[i]
  <2>1. \A i \in 1..cut - 1 : units[i] \in DemuxUnits
    BY <1>1, <1>2
  <2>. QED  BY <1>1, <1>2, <1>4, <2>1
<1>. QED  BY <1>3, <1>4

(* The parts of an access unit: a delimiter, parameter sets and units.         *)
Joined(data, first, sets, rest) ==
  /\ first \in Seq(Tokens) /\ sets \in Seq(Tokens) /\ rest \in Seq(Tokens)
  /\ data = first \o sets \o rest
  /\ Len(first) \in {0, 1} /\ \A i \in 1..Len(first) : first[i] = <<"aud", 0>>
  /\ \A i \in 1..Len(sets) : IsParameterSet(sets[i])
  /\ \A i \in 1..Len(rest) : rest[i][2] = 0

(* Where the parts lie in it.                                                  *)
PartsLie(data, first, sets, rest, f, s, r) ==
  /\ f = Len(first) /\ s = Len(sets) /\ r = Len(rest)
  /\ data \in Seq(Tokens) /\ Len(data) = f + s + r
  /\ f \in Nat /\ s \in Nat /\ r \in Nat
  /\ \A i \in 1..f : data[i] = <<"aud", 0>>
  /\ \A i \in 1..s : data[f + i] = sets[i]
  /\ \A i \in 1..r : data[f + s + i] = rest[i]
  /\ {i \in 1..Len(data) : IsParameterSet(data[i])} = f + 1..f + s
  /\ Cardinality(f + 1..f + s) = s

(* The parts of a joined access unit lie one behind the other, and nothing     *)
(* else in it is a parameter set.                                              *)
LEMMA JoinedIs ==
  ASSUME NEW data, NEW first, NEW sets, NEW rest, Joined(data, first, sets, rest)
  PROVE  PartsLie(data, first, sets, rest, Len(first), Len(sets), Len(rest))
<1>. DEFINE f == Len(first)
            s == Len(sets)
            r == Len(rest)
            all == {i \in 1..Len(data) : IsParameterSet(data[i])}
<1>1. /\ first \in Seq(Tokens) /\ sets \in Seq(Tokens) /\ rest \in Seq(Tokens)
      /\ data = (first \o sets) \o rest
      /\ \A i \in 1..f : first[i] = <<"aud", 0>>
      /\ f \in Nat /\ s \in Nat /\ r \in Nat
  BY DEF Joined
<1>2. /\ first \o sets \in Seq(Tokens) /\ Len(first \o sets) = f + s
      /\ \A i \in 1..f : (first \o sets)[i] = first[i]
      /\ \A i \in 1..s : (first \o sets)[f + i] = sets[i]
  <2>1. first \in Seq(Tokens) /\ sets \in Seq(Tokens)
    BY <1>1
  <2>. QED  BY <2>1, JoinOf
<1>. DEFINE both == first \o sets
<1>. HIDE DEF both, f, s, r
<1>3. /\ data \in Seq(Tokens) /\ Len(data) = f + s + r
      /\ \A i \in 1..f + s : data[i] = both[i]
      /\ \A i \in 1..r : data[(f + s) + i] = rest[i]
  <2>1. data = both \o rest /\ both \in Seq(Tokens) /\ Len(both) = f + s /\ Len(rest) = r
    BY <1>1, <1>2 DEF both, r
  <2>2. both \in Seq(Tokens) /\ rest \in Seq(Tokens)
    BY <1>1, <2>1
  <2>3. /\ both \o rest \in Seq(Tokens) /\ Len(both \o rest) = Len(both) + Len(rest)
        /\ \A i \in 1..Len(both) : (both \o rest)[i] = both[i]
        /\ \A i \in 1..Len(rest) : (both \o rest)[Len(both) + i] = rest[i]
    BY <2>2, JoinOf
  <2>4. /\ data \in Seq(Tokens) /\ Len(data) = Len(both) + Len(rest)
        /\ \A i \in 1..Len(both) : data[i] = both[i]
        /\ \A i \in 1..Len(rest) : data[Len(both) + i] = rest[i]
    BY <2>1, <2>3, Zenon
  <2>5. Len(both) = f + s /\ Len(rest) = r
    BY <2>1
  <2>. QED  BY <2>4, <2>5, Zenon
<1>4. /\ \A i \in 1..f : data[i] = <<"aud", 0>>
      /\ \A i \in 1..s : data[f + i] = sets[i]
  <2>1. \A i \in 1..f : i \in 1..f + s
    BY <1>1
  <2>2. \A i \in 1..s : f + i \in 1..f + s
    BY <1>1
  <2>. QED  BY <1>1, <1>2, <1>3, <2>1, <2>2 DEF both
<1>5. all = f + 1..f + s
  <2>1. ASSUME NEW i \in 1..Len(data) PROVE IsParameterSet(data[i]) <=> i \in f + 1..f + s
    <3>1. CASE i \in 1..f
      <4>1. data[i] = <<"aud", 0>>
        BY <1>4, <3>1
      <4>3. i \notin f + 1..f + s
        BY <1>1, <3>1
      <4>2. ~IsParameterSet(<<"aud", 0>>)
        BY DEF IsParameterSet
      <4>. QED  BY <4>1, <4>2, <4>3
    <3>2. CASE i \in f + 1..f + s
      <4>. DEFINE k == i - f
      <4>1. k \in 1..s /\ f + k = i
        BY <1>1, <3>2
      <4>2. IsParameterSet(sets[k])
        BY <4>1 DEF Joined, s
      <4>3. data[f + k] = sets[k]
        BY <4>1, <1>4
      <4>. QED  BY <4>1, <4>2, <4>3, <3>2
    <3>3. CASE i > f + s
      <4>. DEFINE k == i - (f + s)
      <4>1. k \in 1..r /\ (f + s) + k = i /\ i \notin f + 1..f + s
        BY <1>1, <1>3, <3>3
      <4>2. rest[k][2] = 0
        BY <4>1 DEF Joined, r
      <4>3. data[(f + s) + k] = rest[k]
        BY <4>1, <1>3
      <4>4. ~IsParameterSet(data[i])
        BY <4>1, <4>2, <4>3 DEF IsParameterSet
      <4>. QED  BY <4>1, <4>4
    <3>. QED  BY <1>1, <1>3, <3>1, <3>2, <3>3
  <2>2. \A i \in f + 1..f + s : i \in 1..Len(data)
    BY <1>1, <1>3
  <2>. QED  BY <2>1, <2>2
<1>6. Cardinality(f + 1..f + s) = s
  <2>. DEFINE a == f + 1
              b == f + s
  <2>1. a \in Int /\ b \in Int /\ (a > b => s = 0) /\ (~(a > b) => b - a + 1 = s)
    BY <1>1
  <2>. HIDE DEF a, b
  <2>2. Cardinality(a..b) = IF a > b THEN 0 ELSE b - a + 1
    BY <2>1, FS_Interval
  <2>. QED  BY <2>1, <2>2 DEF a, b
<1>7. PartsLie(data, first, sets, rest, f, s, r)
  BY <1>1, <1>3, <1>4, <1>5, <1>6 DEF f, s, r, PartsLie
<1>. QED  BY <1>7 DEF f, s, r

(* The parameter sets of a description, whatever they were made for.           *)
AreSets(sets, codec, desc) ==
  /\ sets \in Seq(Tokens)
  /\ Len(sets) = IF codec = "hevc" THEN 3 ELSE 2
  /\ \A i \in 1..Len(sets) : sets[i][1] \in {"vps", "sps", "pps"} /\ sets[i][2] = desc
  /\ \A i \in 1..Len(sets) : IsParameterSet(sets[i])
  /\ \A kind \in {"sps", "pps"} : \E i \in 1..Len(sets) : sets[i] = <<kind, desc>>

(* A sequence of one and a sequence of two make one of three.                  *)
LEMMA OneAndTwo ==
  ASSUME NEW S, NEW one \in Seq(S), NEW both \in Seq(S), Len(one) = 1, Len(both) = 2
  PROVE  /\ one \o both \in Seq(S) /\ Len(one \o both) = 3
         /\ (one \o both)[1] = one[1] /\ (one \o both)[2] = both[1] /\ (one \o both)[3] = both[2]
<1>. DEFINE n == Len(one)
            m == Len(both)
            all == one \o both
<1>1. /\ all \in Seq(S) /\ Len(all) = n + m
      /\ \A i \in 1..n + m : all[i] = IF i <= n THEN one[i] ELSE both[i - n]
  BY ConcatProperties
<1>2. n = 1 /\ m = 2
  OBVIOUS
<1>. HIDE DEF n, m, all
<1>3. Len(all) = 3 /\ \A i \in 1..3 : all[i] = IF i <= 1 THEN one[i] ELSE both[i - 1]
  BY <1>1, <1>2
<1>4. all[1] = one[1] /\ all[2] = both[1] /\ all[3] = both[2]
  BY <1>3
<1>. QED  BY <1>1, <1>3, <1>4 DEF all

(* The parameter sets of a description, each with its number.                  *)
LEMMA SetsOfIs ==
  ASSUME NEW codec, NEW desc \in Nat, desc # 0
  PROVE  AreSets(SetsOf(codec, desc), codec, desc)
<1>. DEFINE sets == SetsOf(codec, desc)
            both == <<<<"sps", desc>>, <<"pps", desc>>>>
<1>1. /\ <<"vps", desc>> \in Tokens /\ <<"sps", desc>> \in Tokens /\ <<"pps", desc>> \in Tokens
  BY DEF Tokens, DemuxUnits
<1>2. /\ sets \in Seq(Tokens)
      /\ Len(sets) = IF codec = "hevc" THEN 3 ELSE 2
      /\ \A i \in 1..Len(sets) : sets[i][1] \in {"vps", "sps", "pps"} /\ sets[i][2] = desc
      /\ \A kind \in {"sps", "pps"} : \E i \in 1..Len(sets) : sets[i] = <<kind, desc>>
  <2>1. CASE codec = "hevc"
    <3>. DEFINE one == <<<<"vps", desc>>>>
    <3>1. sets = one \o both
      BY <2>1 DEF SetsOf
    <3>6. one \in Seq(Tokens) /\ Len(one) = 1 /\ one[1] = <<"vps", desc>>
      BY <1>1
    <3>7. both \in Seq(Tokens) /\ Len(both) = 2 /\ both[1] = <<"sps", desc>> /\ both[2] = <<"pps", desc>>
      BY <1>1
    <3>. HIDE DEF sets, one, both
    <3>8. one \in Seq(Tokens) /\ both \in Seq(Tokens) /\ Len(one) = 1 /\ Len(both) = 2
      BY <3>6, <3>7
    <3>9. /\ Len(one \o both) = 3
          /\ (one \o both)[1] = one[1] /\ (one \o both)[2] = both[1] /\ (one \o both)[3] = both[2]
      BY <3>8, OneAndTwo
    <3>2. Len(sets) = 3 /\ sets[1] = <<"vps", desc>> /\ sets[2] = <<"sps", desc>> /\ sets[3] = <<"pps", desc>>
      BY <3>1, <3>6, <3>7, <3>9
    <3>3. sets \in Seq(Tokens)
      BY <3>1, <3>6, <3>7
    <3>. HIDE DEF sets
    <3>4. \A i \in 1..Len(sets) : i = 1 \/ i = 2 \/ i = 3
      BY <3>2
    <3>5. 2 \in 1..Len(sets) /\ 3 \in 1..Len(sets)
      BY <3>2
    <3>. QED  BY <2>1, <3>2, <3>3, <3>4, <3>5
  <2>2. CASE codec # "hevc"
    <3>1. sets = both
      BY <1>1, <2>2 DEF SetsOf
    <3>2. Len(sets) = 2 /\ sets[1] = <<"sps", desc>> /\ sets[2] = <<"pps", desc>>
      BY <3>1
    <3>3. sets \in Seq(Tokens)
      BY <1>1, <3>1
    <3>. HIDE DEF sets
    <3>4. \A i \in 1..Len(sets) : i = 1 \/ i = 2
      BY <3>2
    <3>5. 2 \in 1..Len(sets) /\ 1 \in 1..Len(sets)
      BY <3>2
    <3>. QED  BY <2>2, <3>2, <3>3, <3>4, <3>5
  <2>. QED  BY <2>1, <2>2
<1>. HIDE DEF sets
<1>3. AreSets(sets, codec, desc)
  BY <1>2 DEF IsParameterSet, AreSets
<1>. QED  BY <1>3 DEF sets

(* The units of a sample as they are handed out.                               *)
TokensOf(sample) == [i \in 1..Len(WholeUnits(sample.units)) |-> <<sample.units[i], 0>>]

(* The units handed out are the whole ones, with number 0.                     *)
LEMMA TokensAre ==
  ASSUME NEW sample \in MediaSamples
  PROVE  /\ TokensOf(sample) \in Seq(Tokens)
         /\ Len(TokensOf(sample)) = Len(WholeUnits(sample.units))
         /\ Len(WholeUnits(sample.units)) \in Nat
         /\ \A i \in 1..Len(TokensOf(sample)) : TokensOf(sample)[i] = <<WholeUnits(sample.units)[i], 0>>
<1>. DEFINE whole == WholeUnits(sample.units)
            L == Len(whole)
<1>1. sample.units \in Seq(DemuxUnits)
  BY DEF MediaSamples
<1>2. whole \in Seq(DemuxUnits) /\ (\A i \in 1..L : whole[i] = sample.units[i])
  BY <1>1, WholeUnitsAre
<1>3. L \in Nat /\ \A i \in 1..L : whole[i] \in DemuxUnits
  BY <1>2
<1>. HIDE DEF L
<1>4. \A i \in 1..L : <<sample.units[i], 0>> \in Tokens
  BY <1>2, <1>3 DEF Tokens
<1>5. TokensOf(sample) = [i \in 1..L |-> <<sample.units[i], 0>>]
  BY DEF TokensOf, L
<1>. QED  BY <1>2, <1>3, <1>4, <1>5 DEF L

(* What KeySampleCarriesParameterSets says of one video sample.                *)
Carries(data, track, sample) ==
  LET units == WholeUnits(sample.units)
      added == Len(data) - Len(units)
      sets == {i \in 1..Len(data) : IsParameterSet(data[i])}
  IN  /\ \A i \in 1..added : data[i] = <<"aud", 0>> \/ i \in sets
      /\ \A i \in 1..Len(units) :
           \/ data[added + i] = <<units[i], 0>>
           \/ i = 1 /\ data[1] = <<units[1], 0>> /\ units[1] = "aud"
      /\ sample.sync /\ units # <<>> =>
           /\ \A kind \in {"sps", "pps"} : \E i \in sets : data[i] = <<kind, sample.desc>>
           /\ Cardinality(sets) = IF track.codec = "hevc" THEN 3 ELSE 2
           /\ \A i \in sets : \A j \in 1..Len(data) : data[j][1] \in {"idr", "slice"} => i < j
      /\ ~sample.sync => sets = {}

(* A delimiter taken from the units in front, or added before all of them.     *)
LEMMA AccessUnitIs ==
  ASSUME NEW track, NEW sample \in MediaSamples, sample.desc # 0,
         TokensOf(sample) # <<>>
  PROVE  LET units == TokensOf(sample)
             sets == IF sample.sync THEN SetsOf(track.codec, sample.desc) ELSE <<>>
             data == AccessUnit(track.codec, SetsOf(track.codec, sample.desc), sample)
         IN  \/ units[1][1] = "aud" /\ Joined(data, <<units[1]>>, sets, Tail(units))
             \/ \E first : Joined(data, first, sets, units)
<1>. DEFINE units == TokensOf(sample)
            sets == IF sample.sync THEN SetsOf(track.codec, sample.desc) ELSE <<>>
            data == AccessUnit(track.codec, SetsOf(track.codec, sample.desc), sample)
            delimited == track.codec = "avc" /\ units[1][1] = "aud"
            first == IF track.codec = "avc" THEN <<<<"aud", 0>>>> ELSE <<>>
<1>1. /\ units \in Seq(Tokens) /\ Len(units) \in Nat \ {0}
      /\ \A i \in 1..Len(units) : units[i] = <<WholeUnits(sample.units)[i], 0>>
  BY TokensAre
<1>2. /\ sets \in Seq(Tokens) /\ \A i \in 1..Len(sets) : IsParameterSet(sets[i])
  <2>1. sample.desc \in Nat
    BY DEF MediaSamples
  <2>2. AreSets(SetsOf(track.codec, sample.desc), track.codec, sample.desc)
    BY <2>1, SetsOfIs
  <2>. QED  BY <2>2 DEF AreSets
<1>3. data = IF delimited THEN <<units[1]>> \o sets \o Tail(units)
             ELSE first \o sets \o units
  <2>1. units # <<>>
    BY <1>1
  <2>. QED  BY <2>1, Zenon DEF AccessUnit, TokensOf
<1>4. \A i \in 1..Len(units) : units[i][2] = 0
  BY <1>1
<1>. HIDE DEF units, sets, data
<1>5. CASE delimited
  <2>1. units[1] = <<"aud", 0>> /\ units[1] \in Tokens
    BY <1>1, <1>5
  <2>2. /\ <<units[1]>> \in Seq(Tokens) /\ Len(<<units[1]>>) = 1 /\ <<units[1]>>[1] = <<"aud", 0>>
    BY <2>1
  <2>3. /\ Tail(units) \in Seq(Tokens) /\ Len(Tail(units)) = Len(units) - 1
        /\ \A i \in 1..Len(Tail(units)) : Tail(units)[i] = units[i + 1]
    BY <1>1
  <2>4. \A i \in 1..Len(Tail(units)) : Tail(units)[i][2] = 0
    BY <1>1, <1>4, <2>3
  <2>5. Joined(data, <<units[1]>>, sets, Tail(units))
    BY <1>2, <1>3, <1>5, <2>2, <2>3, <2>4 DEF Joined
  <2>. QED  BY <1>5, <2>5 DEF units, sets, data
<1>6. CASE ~delimited
  <2>1. /\ first \in Seq(Tokens) /\ Len(first) \in {0, 1}
        /\ \A i \in 1..Len(first) : first[i] = <<"aud", 0>>
    <3>1. <<"aud", 0>> \in Tokens
      BY DEF Tokens, DemuxUnits
    <3>. QED  BY <3>1
  <2>. HIDE DEF first
  <2>2. Joined(data, first, sets, units)
    BY <1>1, <1>2, <1>3, <1>4, <1>6, <2>1 DEF Joined
  <2>. QED  BY <2>2 DEF units, sets, data
<1>. QED  BY <1>5, <1>6

(* A video sample converted with the parameter sets of its own description is  *)
(* what the property asks for.                                                 *)
LEMMA SampleCarries ==
  ASSUME NEW track, NEW sample \in MediaSamples, sample.desc # 0
  PROVE  Carries(AccessUnit(track.codec, SetsOf(track.codec, sample.desc), sample), track, sample)
<1>. DEFINE units == TokensOf(sample)
            whole == WholeUnits(sample.units)
            made == SetsOf(track.codec, sample.desc)
            sets == IF sample.sync THEN made ELSE <<>>
            data == AccessUnit(track.codec, made, sample)
            L == Len(whole)
            added == Len(data) - L
            all == {i \in 1..Len(data) : IsParameterSet(data[i])}
<1>1. /\ units \in Seq(Tokens) /\ Len(units) = L /\ L \in Nat
      /\ \A i \in 1..L : units[i] = <<whole[i], 0>>
      /\ sample.units \in Seq(DemuxUnits) /\ whole \in Seq(DemuxUnits)
  <2>1. sample.units \in Seq(DemuxUnits)
    BY DEF MediaSamples
  <2>. QED  BY <2>1, TokensAre, WholeUnitsAre
<1>2. /\ sample.desc \in Nat /\ sample.sync \in BOOLEAN
      /\ made \in Seq(Tokens) /\ Len(made) = IF track.codec = "hevc" THEN 3 ELSE 2
      /\ \A i \in 1..Len(made) : made[i][1] \in {"vps", "sps", "pps"} /\ made[i][2] = sample.desc
      /\ \A kind \in {"sps", "pps"} : \E i \in 1..Len(made) : made[i] = <<kind, sample.desc>>
  <2>1. sample.desc \in Nat /\ sample.sync \in BOOLEAN
    BY DEF MediaSamples
  <2>2. AreSets(made, track.codec, sample.desc)
    BY <2>1, SetsOfIs
  <2>. QED  BY <2>1, <2>2 DEF AreSets
<1>3. CASE units = <<>>
  <2>1. data = <<>> /\ L = 0 /\ whole = <<>>
    <3>1. data = <<>>
      BY <1>3, Zenon DEF AccessUnit, TokensOf
    <3>2. L = 0
      BY <1>1, <1>3
    <3>. QED  BY <1>1, <3>1, <3>2
  <2>. HIDE DEF data, whole
  <2>2. Len(data) = 0 /\ Len(whole) = 0
    BY <2>1
  <2>. QED  BY <2>1, <2>2 DEF Carries, data, whole
<1>4. CASE units # <<>>
  <2>. DEFINE Shape(first, rest) ==
         /\ \A i \in 1..added : data[i] = <<"aud", 0>> \/ i \in all
         /\ \A i \in 1..L :
              \/ data[added + i] = <<whole[i], 0>>
              \/ i = 1 /\ data[1] = <<whole[1], 0>> /\ whole[1] = "aud"
         /\ Joined(data, first, sets, rest)
  <2>1. L > 0 /\ units[1] = <<whole[1], 0>>
    BY <1>1, <1>4
  <2>2. ASSUME units[1][1] = "aud", Joined(data, <<units[1]>>, sets, Tail(units))
        PROVE  Shape(<<units[1]>>, Tail(units))
    <3>. DEFINE s == Len(sets)
                tail == Tail(units)
                one == <<units[1]>>
    <3>1. /\ Len(tail) = L - 1 /\ \A i \in 1..L - 1 : tail[i] = units[i + 1]
      BY <1>1, <2>1
    <3>2. Len(one) = 1
      OBVIOUS
    <3>. HIDE DEF data, sets, units, whole, L, tail, one
    <3>3. /\ Len(data) = Len(one) + s + Len(tail)
          /\ s \in Nat
          /\ \A i \in 1..Len(one) : data[i] = <<"aud", 0>>
          /\ \A i \in 1..Len(tail) : data[Len(one) + s + i] = tail[i]
          /\ all = Len(one) + 1..Len(one) + s
      <4>1. Joined(data, one, sets, tail)
        BY <2>2 DEF tail, one
      <4>2. PartsLie(data, one, sets, tail, Len(one), Len(sets), Len(tail))
        BY <4>1, JoinedIs
      <4>. QED  BY <4>2 DEF PartsLie
    <3>4. added = s
      BY <1>1, <3>1, <3>2, <3>3
    <3>5. data[1] = <<"aud", 0>> /\ units[1] = <<whole[1], 0>> /\ whole[1] = "aud"
      BY <2>1, <2>2, <3>2, <3>3
    <3>6. ASSUME NEW i \in 1..added PROVE data[i] = <<"aud", 0>> \/ i \in all
      BY <3>2, <3>3, <3>4, <3>5
    <3>7. ASSUME NEW i \in 1..L, i # 1 PROVE data[added + i] = <<whole[i], 0>>
      <4>. DEFINE k == i - 1
      <4>1. k \in 1..L - 1 /\ k + 1 = i /\ 1 + s + k = s + i
        BY <1>1, <3>3, <3>7
      <4>. HIDE DEF k
      <4>2. data[1 + s + k] = tail[k] /\ tail[k] = units[k + 1]
        BY <3>1, <3>2, <3>3, <4>1
      <4>. QED  BY <1>1, <3>4, <4>1, <4>2
    <3>8. \A i \in 1..L : i = 1 \/ data[added + i] = <<whole[i], 0>>
      BY <3>7
    <3>. QED  BY <2>2, <3>5, <3>6, <3>8 DEF one, tail
  <2>3. ASSUME NEW first, Joined(data, first, sets, units) PROVE Shape(first, units)
    <3>. DEFINE s == Len(sets)
                f == Len(first)
    <3>. HIDE DEF data, sets, units, whole, L
    <3>3. /\ Len(data) = f + s + L
          /\ s \in Nat /\ f \in Nat
          /\ \A i \in 1..f : data[i] = <<"aud", 0>>
          /\ \A i \in 1..L : data[f + s + i] = units[i]
          /\ all = f + 1..f + s
      <4>1. PartsLie(data, first, sets, units, Len(first), Len(sets), Len(units))
        BY <2>3, JoinedIs
      <4>. QED  BY <1>1, <4>1 DEF PartsLie
    <3>4. added = f + s
      BY <1>1, <3>3
    <3>5. ASSUME NEW i \in 1..added PROVE data[i] = <<"aud", 0>> \/ i \in all
      <4>1. i \in 1..f \/ i \in f + 1..f + s
        BY <3>3, <3>4
      <4>. QED  BY <3>3, <4>1
    <3>6. \A i \in 1..L : data[added + i] = <<whole[i], 0>>
      BY <1>1, <3>3, <3>4
    <3>. QED  BY <2>3, <3>5, <3>6
  <2>4. \E first, rest : Shape(first, rest)
    <3>1. \/ units[1][1] = "aud" /\ Joined(data, <<units[1]>>, sets, Tail(units))
          \/ \E first : Joined(data, first, sets, units)
      BY <1>4, AccessUnitIs
    <3>. HIDE DEF Shape, data, sets, units
    <3>. QED  BY <2>2, <2>3, <3>1
  <2>5. PICK first, rest : Shape(first, rest)
    BY <2>4
  <2>. DEFINE f == Len(first)
              s == Len(sets)
              r == Len(rest)
  <2>. HIDE DEF data, sets, made, whole
  <2>6. /\ Joined(data, first, sets, rest)
        /\ Len(data) = f + s + r /\ f \in Nat /\ s \in Nat /\ r \in Nat
        /\ \A i \in 1..f : data[i] = <<"aud", 0>>
        /\ \A i \in 1..s : data[f + i] = sets[i]
        /\ \A i \in 1..r : data[f + s + i] = rest[i]
        /\ all = f + 1..f + s /\ Cardinality(all) = s
    <3>1. Joined(data, first, sets, rest)
      BY <2>5
    <3>2. PartsLie(data, first, sets, rest, Len(first), Len(sets), Len(rest))
      BY <3>1, JoinedIs
    <3>. QED  BY <3>1, <3>2 DEF PartsLie
  <2>. HIDE DEF all, f, s, r
  <2>7. ASSUME sample.sync
        PROVE  /\ \A kind \in {"sps", "pps"} : \E i \in all : data[i] = <<kind, sample.desc>>
               /\ Cardinality(all) = IF track.codec = "hevc" THEN 3 ELSE 2
               /\ \A i \in all : \A j \in 1..Len(data) : data[j][1] \in {"idr", "slice"} => i < j
    <3>1. sets = made
      BY <2>7 DEF sets
    <3>2. ASSUME NEW kind \in {"sps", "pps"} PROVE \E i \in all : data[i] = <<kind, sample.desc>>
      <4>1. PICK i \in 1..s : sets[i] = <<kind, sample.desc>>
        BY <1>2, <3>1 DEF s
      <4>2. f + i \in all /\ data[f + i] = sets[i]
        BY <2>6
      <4>. QED  BY <4>1, <4>2
    <3>3. ASSUME NEW j \in 1..Len(data), data[j][1] \in {"idr", "slice"} PROVE j > f + s
      <4>1. j \notin 1..f
        <5>1. ASSUME j \in 1..f PROVE FALSE
          <6>1. data[j] = <<"aud", 0>>
            BY <2>6, <5>1
          <6>. QED  BY <3>3, <6>1
        <5>. QED  BY <5>1
      <4>2. j \notin all
        BY <3>3 DEF IsParameterSet, all
      <4>. QED  BY <2>6, <4>1, <4>2
    <3>4. \A i \in all : i \in Int /\ i <= f + s
      BY <2>6
    <3>5. Cardinality(all) = IF track.codec = "hevc" THEN 3 ELSE 2
      BY <1>2, <2>6, <3>1 DEF s
    <3>6. \A i \in all : \A j \in 1..Len(data) : data[j][1] \in {"idr", "slice"} => i < j
      BY <2>6, <3>3, <3>4
    <3>. QED  BY <3>2, <3>5, <3>6
  <2>8. ASSUME ~sample.sync PROVE all = {}
    <3>1. s = 0
      BY <2>8 DEF sets, s
    <3>. QED  BY <2>6, <3>1
  <2>9. /\ \A i \in 1..added : data[i] = <<"aud", 0>> \/ i \in all
        /\ \A i \in 1..L :
             \/ data[added + i] = <<whole[i], 0>>
             \/ i = 1 /\ data[1] = <<whole[1], 0>> /\ whole[1] = "aud"
    BY <2>5
  <2>. QED  BY <2>7, <2>8, <2>9, Zenon DEF Carries, all, data, whole, made
<1>. QED  BY <1>3, <1>4

-----------------------------------------------------------------------------
(* The readers.                                                                *)

(* A queued sample.                                                            *)
QueuedAs(track, n) ==
  [n |-> n, dts |-> track.samples[n].dts, data |-> DataOf(track, track.samples[n]), freed |-> FALSE]

IsReader(reader) ==
  /\ DOMAIN reader = {"track", "fragmented", "selected", "eos", "samples", "index", "desc", "prefix"}
  /\ IsMediaTrack(reader.track)
  /\ reader.fragmented \in BOOLEAN /\ reader.selected \in BOOLEAN /\ reader.eos \in BOOLEAN
  /\ reader.index \in 1..Len(reader.track.samples) + 1
  /\ reader.desc \in Nat
  /\ reader.desc # 0 => reader.prefix = SetsOf(reader.track.codec, reader.desc)
  /\ \/ reader.samples = <<>>
     \/ /\ ~reader.eos
        /\ \E n \in 1..Len(reader.track.samples) :
             Readable(reader.track.samples[n]) /\ reader.samples = <<QueuedAs(reader.track, n)>>

(* The reader stands behind the sample it holds.                               *)
InPlace(reader) == reader.samples # <<>> => reader.samples[1].n = reader.index - 1

(* What the merge is about: the samples of a reader's track, whether it is     *)
(* selected and the first sample it has not handed out.                        *)
View(readers) ==
  [i \in 1..Len(readers) |-> [samples |-> readers[i].track.samples,
                              selected |-> readers[i].selected,
                              next |-> Position(readers[i])]]

Outs == [reader : Nat, n : Nat, dts : Int, data : Seq(Tokens)]

IsDue(view, from, i, n) ==
  /\ i \in DOMAIN view /\ n \in 1..Len(view[i].samples)
  /\ view[i].selected /\ from[i] <= n /\ Readable(view[i].samples[n])

SampleAt(view, i, n) == [reader |-> i, n |-> n, dts |-> view[i].samples[n].dts]

WasGiven(out, i, n) == \E k \in 1..Len(out) : out[k].reader = i /\ out[k].n = n

Merged(view, from, out, ended) ==
  /\ \A i \in DOMAIN view : /\ from[i] \in Nat \ {0}
                            /\ view[i].next \in from[i]..Len(view[i].samples) + 1
  /\ \A k \in 1..Len(out) : /\ IsDue(view, from, out[k].reader, out[k].n)
                            /\ out[k].n < view[out[k].reader].next
                            /\ out[k].dts = view[out[k].reader].samples[out[k].n].dts
  /\ \A k \in 1..Len(out) - 1 : Before(out[k], out[k + 1])
  /\ \A i \in DOMAIN view : \A n \in Nat : IsDue(view, from, i, n) =>
       IF n < view[i].next THEN WasGiven(out, i, n)
       ELSE ~ended /\ \A k \in 1..Len(out) : Before(out[k], SampleAt(view, i, n))

(* The samples handed out are those of the tracks.                             *)
OutsOk(readers, out) ==
  /\ out \in Seq(Outs)
  /\ \A k \in 1..Len(out) :
       LET track == readers[out[k].reader].track
       IN  /\ out[k].reader \in 1..Len(readers) /\ out[k].n \in 1..Len(track.samples)
           /\ Readable(track.samples[out[k].n])
           /\ out[k].data = DataOf(track, track.samples[out[k].n])

ReadersFrom(readers) ==
  /\ Len(readers) \in Nat /\ DOMAIN readers = 1..Len(readers)
  /\ \A i \in 1..Len(readers) : IsMediaTrack(readers[i].track)

AllReaders(readers) == \A i \in 1..Len(readers) : IsReader(readers[i])

StandIn(readers) == \A i \in 1..Len(readers) : InPlace(readers[i])

(* A reader holds a sample that was freed.                                     *)
DanglingIn(readers) ==
  \E i \in 1..Len(readers) : \E k \in 1..Len(readers[i].samples) : readers[i].samples[k].freed

(* As long as the step is kept, the readers stand behind what they hold, none  *)
(* of it is freed and what was handed out is the merge.                        *)
PlayedOk(readers, out, from, inStep, ended) ==
  /\ ReadersFrom(readers) /\ OutsOk(readers, out)
  /\ DanglingIn(readers) => ~inStep
  /\ ~DanglingIn(readers) => AllReaders(readers)
  /\ inStep => StandIn(readers) /\ Merged(View(readers), from, out, ended)

DemuxInv ==
  /\ DOMAIN demuxer = {"opened", "sample_readers_", "eos_", "moves"}
  /\ DOMAIN played = {"samples", "from", "inStep", "ended"}
  /\ demuxer.opened \in BOOLEAN /\ played.inStep \in BOOLEAN /\ played.ended \in BOOLEAN
  /\ ~demuxer.opened => played = NothingPlayed
  /\ PlayedOk(demuxer.sample_readers_, played.samples, played.from, played.inStep, played.ended)

(* The data of a sample is a sequence of tokens.                               *)
LEMMA DataIs ==
  ASSUME NEW track, NEW sample \in MediaSamples, sample.desc # 0
  PROVE  DataOf(track, sample) \in Seq(Tokens)
<1>1. CASE track.kind = "video"
  <2>. DEFINE data == AccessUnit(track.codec, SetsOf(track.codec, sample.desc), sample)
  <2>1. CASE TokensOf(sample) = <<>>
    <3>1. data = <<>>
      BY <2>1, Zenon DEF AccessUnit, TokensOf
    <3>. QED  BY <1>1, <3>1 DEF DataOf
  <2>2. CASE TokensOf(sample) # <<>>
    <3>1. \E first, sets, rest : Joined(data, first, sets, rest)
      BY <2>2, AccessUnitIs
    <3>2. data \in Seq(Tokens)
      BY <3>1, JoinedIs, Zenon DEF PartsLie
    <3>. QED  BY <1>1, <3>2 DEF DataOf
  <2>. QED  BY <2>1, <2>2
<1>2. CASE track.kind # "video"
  <2>. DEFINE units == [i \in 1..Len(sample.units) |-> <<sample.units[i], 0>>]
              first == IF track.codec = "mp4a" THEN <<<<"adts", 0>>>> ELSE <<>>
  <2>1. sample.units \in Seq(DemuxUnits)
    BY DEF MediaSamples
  <2>2. Len(sample.units) \in Nat /\ \A i \in 1..Len(sample.units) : sample.units[i] \in DemuxUnits
    BY <2>1
  <2>3. \A i \in 1..Len(sample.units) : <<sample.units[i], 0>> \in Tokens
    BY <2>2 DEF Tokens
  <2>4. units \in Seq(Tokens)
    BY <2>2, <2>3
  <2>5. first \in Seq(Tokens)
    <3>1. <<"adts", 0>> \in Tokens
      BY DEF Tokens
    <3>. QED  BY <3>1
  <2>. HIDE DEF units, first
  <2>6. first \o units \in Seq(Tokens)
    BY <2>4, <2>5
  <2>7. DataOf(track, sample) = first \o units
    BY <1>2, Zenon DEF DataOf, AudioFrame, first, units
  <2>. QED  BY <2>6, <2>7
<1>. QED  BY <1>1, <1>2

(* A call of GetSample keeps a reader one, and its place unless it skips.      *)
GetSampleKeeps(reader, after) ==
  /\ IsReader(after) /\ after.track = reader.track /\ after.selected = reader.selected
  /\ after.samples # <<>> \/ after.eos => Position(after) = Position(reader)
  /\ InPlace(reader) => InPlace(after)

(* Converting a sample queues it in place: the cached parameter sets are those *)
(* of its description, cached before or made now.                              *)
LEMMA ConvertIs ==
  ASSUME NEW reader, IsReader(reader), ~reader.eos, reader.samples = <<>>,
         reader.index <= Len(reader.track.samples), Readable(reader.track.samples[reader.index])
  PROVE  GetSampleKeeps(reader, Convert(reader, reader.track.samples[reader.index]))
<1>. DEFINE track == reader.track
            n == reader.index
            sample == track.samples[n]
            after == Convert(reader, sample)
            video == track.kind = "video"
            prefix == PrefixOf(reader, sample)
            queued == QueuedAs(track, n)
<1>1. /\ n \in 1..Len(track.samples) /\ track.samples \in Seq(MediaSamples)
      /\ sample \in MediaSamples /\ sample.desc \in Nat \ {0}
  <2>1. track.samples \in Seq(MediaSamples) /\ n \in 1..Len(track.samples) + 1
    BY DEF IsReader, IsMediaTrack
  <2>2. n \in 1..Len(track.samples)
    BY <2>1
  <2>3. sample \in MediaSamples
    BY <2>1, <2>2
  <2>4. sample.desc \in Nat /\ sample.desc # 0
    BY <2>3 DEF MediaSamples, Readable
  <2>. QED  BY <2>1, <2>2, <2>3, <2>4
<1>2. prefix = SetsOf(track.codec, sample.desc)
  <2>1. CASE sample.desc = reader.desc
    BY <1>1, <2>1 DEF PrefixOf, IsReader
  <2>2. CASE sample.desc # reader.desc
    BY <2>2, Zenon DEF PrefixOf, SetsOf
  <2>. QED  BY <2>1, <2>2
<1>3. queued = [n |-> n, dts |-> sample.dts, data |-> DataOf(track, sample), freed |-> FALSE]
  BY DEF QueuedAs
<1>. DEFINE data == IF video THEN AccessUnit(track.codec, prefix, sample)
                    ELSE AudioFrame(track.codec, sample)
            q == [n |-> n, dts |-> sample.dts, data |-> data, freed |-> FALSE]
<1>4. data = DataOf(track, sample)
  BY <1>2, Zenon DEF DataOf
<1>5. q = queued
  BY <1>3, <1>4
<1>6. after = [reader EXCEPT !.index = @ + 1, !.samples = Append(@, q),
                           !.desc = IF video THEN sample.desc ELSE @,
                           !.prefix = IF video THEN prefix ELSE @]
  BY Zenon DEF Convert
<1>. HIDE DEF q, after, sample, prefix, video, data, queued
<1>7. /\ DOMAIN after = DOMAIN reader
      /\ after.track = track /\ after.fragmented = reader.fragmented /\ after.selected = reader.selected
      /\ after.eos = reader.eos /\ after.index = n + 1
      /\ after.samples = Append(<<>>, q)
      /\ after.desc = (IF video THEN sample.desc ELSE reader.desc)
      /\ after.prefix = (IF video THEN prefix ELSE reader.prefix)
  BY <1>6 DEF IsReader
<1>8. after.samples = <<queued>>
  BY <1>5, <1>7
<1>9. queued.n = n
  BY <1>3
<1>10. IsReader(after)
  <2>1. after.desc \in Nat /\ (after.desc # 0 => after.prefix = SetsOf(track.codec, after.desc))
    BY <1>1, <1>2, <1>7 DEF IsReader
  <2>2. after.index \in 1..Len(track.samples) + 1
    BY <1>1, <1>7
  <2>3. n \in 1..Len(track.samples) /\ Readable(track.samples[n]) /\ after.samples = <<QueuedAs(track, n)>>
    BY <1>1, <1>8 DEF queued
  <2>. QED  BY <1>7, <2>1, <2>2, <2>3 DEF IsReader
<1>11. after.samples # <<>> /\ after.samples[1] = queued
  BY <1>8
<1>12. Position(after) = n /\ Position(reader) = n
  BY <1>9, <1>11 DEF Position
<1>13. InPlace(after)
  BY <1>1, <1>7, <1>9, <1>11 DEF InPlace
<1>. QED  BY <1>7, <1>10, <1>12, <1>13 DEF GetSampleKeeps, after, sample

(* The four ways of GetSample: a queued sample, the end, a sample that is      *)
(* skipped and one that is converted.                                          *)
LEMMA GetSampleIs ==
  ASSUME NEW reader, IsReader(reader), ~reader.eos
  PROVE  GetSampleKeeps(reader, GetSample(reader))
<1>. DEFINE track == reader.track
            n == reader.index
            after == GetSample(reader)
<1>1. CASE reader.samples # <<>>
  <2>1. after = reader
    BY <1>1 DEF GetSample
  <2>. QED  BY <2>1 DEF GetSampleKeeps
<1>2. CASE reader.samples = <<>> /\ n > Len(track.samples)
  <2>1. after = [reader EXCEPT !.eos = TRUE]
    BY <1>2, Zenon DEF GetSample
  <2>. HIDE DEF after
  <2>2. /\ DOMAIN after = DOMAIN reader
        /\ after.track = track /\ after.fragmented = reader.fragmented /\ after.selected = reader.selected
        /\ after.eos = TRUE /\ after.index = n /\ after.samples = <<>>
        /\ after.desc = reader.desc /\ after.prefix = reader.prefix
    BY <1>2, <2>1 DEF IsReader
  <2>3. IsReader(after)
    BY <2>2 DEF IsReader
  <2>4. Position(after) = Len(track.samples) + 1 /\ Position(reader) = n
    BY <1>2, <2>2 DEF Position
  <2>5. n = Len(track.samples) + 1
    <3>1. n \in 1..Len(track.samples) + 1 /\ Len(track.samples) \in Nat
      BY DEF IsReader, IsMediaTrack
    <3>. QED  BY <1>2, <3>1
  <2>6. InPlace(after)
    BY <2>2 DEF InPlace
  <2>. QED  BY <2>2, <2>3, <2>4, <2>5, <2>6 DEF GetSampleKeeps, after
<1>3. CASE /\ reader.samples = <<>> /\ ~(n > Len(track.samples))
           /\ ~Readable(track.samples[n])
  <2>1. after = [reader EXCEPT !.index = @ + 1]
    BY <1>3, Zenon DEF GetSample, Readable
  <2>. HIDE DEF after
  <2>2. /\ DOMAIN after = DOMAIN reader
        /\ after.track = track /\ after.fragmented = reader.fragmented /\ after.selected = reader.selected
        /\ after.eos = reader.eos /\ after.index = n + 1 /\ after.samples = <<>>
        /\ after.desc = reader.desc /\ after.prefix = reader.prefix
    BY <1>3, <2>1 DEF IsReader
  <2>3. n + 1 \in 1..Len(track.samples) + 1
    <3>1. n \in 1..Len(track.samples) + 1 /\ Len(track.samples) \in Nat
      BY DEF IsReader, IsMediaTrack
    <3>. QED  BY <1>3, <3>1
  <2>4. IsReader(after)
    BY <2>2, <2>3 DEF IsReader
  <2>5. InPlace(after)
    BY <2>2 DEF InPlace
  <2>. QED  BY <2>2, <2>4, <2>5 DEF GetSampleKeeps, after
<1>4. CASE /\ reader.samples = <<>> /\ ~(n > Len(track.samples))
           /\ Readable(track.samples[n])
  <2>1. after = Convert(reader, track.samples[n])
    BY <1>4, Zenon DEF GetSample, Readable
  <2>2. n <= Len(track.samples)
    <3>1. n \in 1..Len(track.samples) + 1 /\ Len(track.samples) \in Nat
      BY DEF IsReader, IsMediaTrack
    <3>. QED  BY <1>4, <3>1
  <2>. HIDE DEF after
  <2>. QED  BY <1>4, <2>1, <2>2, ConvertIs DEF after
<1>. QED  BY <1>1, <1>2, <1>3, <1>4

(* Seeking keeps a reader one; it leaves a fragmented track's queue.           *)
LEMMA SampleIndexIs ==
  ASSUME NEW samples \in Seq(MediaSamples), NEW ts
  PROVE  SampleIndexFor(samples, ts) \in 0..Len(samples)
<1>. DEFINE I == {i \in 1..Len(samples) : samples[i].dts <= ts}
<1>1. Len(samples) \in Nat /\ I \in SUBSET (1..Len(samples))
  OBVIOUS
<1>2. SampleIndexFor(samples, ts) \in {0, IF I # {} THEN Max(I) ELSE 0}
  BY Zenon DEF SampleIndexFor, SelectLastInSeq
<1>. HIDE DEF I
<1>3. I # {} => Max(I) \in I
  BY <1>1, MaxIsGreatest
<1>4. ASSUME I # {} PROVE Max(I) \in 0..Len(samples)
  <2>1. Max(I) \in 1..Len(samples)
    BY <1>1, <1>3, <1>4
  <2>. QED  BY <1>1, <2>1
<1>. QED  BY <1>1, <1>2, <1>4

SeekKeeps(reader, sought) ==
  /\ IsReader(sought)
  /\ sought.track = reader.track
  /\ sought.samples = IF reader.fragmented THEN reader.samples ELSE <<>>

(* Seeking a fragmented track and one that is not.                             *)
LEMMA SeekReaderIs ==
  ASSUME NEW reader, IsReader(reader), NEW ts, NEW moved \in BOOLEAN
  PROVE  SeekKeeps(reader, SeekReader(reader, ts, moved))
<1>. DEFINE track == reader.track
            found == SampleIndexFor(track.samples, ts)
            last == Len(track.samples) + 1
            sought == SeekReader(reader, ts, moved)
<1>1. found \in 0..Len(track.samples) /\ Len(track.samples) \in Nat
  BY SampleIndexIs DEF IsReader, IsMediaTrack
<1>2. CASE reader.fragmented
  <2>. DEFINE index == IF ~moved THEN reader.index ELSE IF found = 0 THEN last ELSE found
  <2>1. sought = [reader EXCEPT !.eos = FALSE,
                    !.index = IF ~moved THEN @ ELSE IF found = 0 THEN last ELSE found]
    BY <1>2, Zenon DEF SeekReader
  <2>2. index \in 1..last
    BY <1>1 DEF IsReader
  <2>. HIDE DEF sought, found, last
  <2>3. /\ DOMAIN sought = DOMAIN reader
        /\ sought.track = track /\ sought.fragmented = reader.fragmented /\ sought.selected = reader.selected
        /\ sought.eos = FALSE /\ sought.index = index /\ sought.samples = reader.samples
        /\ sought.desc = reader.desc /\ sought.prefix = reader.prefix
    BY <2>1 DEF IsReader
  <2>. HIDE DEF index
  <2>4. IsReader(sought)
    BY <2>2, <2>3 DEF IsReader, last
  <2>. QED  BY <1>2, <2>3, <2>4 DEF sought, SeekKeeps
<1>3. CASE ~reader.fragmented
  <2>. DEFINE index == IF found = 0 THEN reader.index ELSE found
              eos == found = 0
  <2>1. sought = [reader EXCEPT !.eos = found = 0, !.samples = <<>>,
                    !.index = IF found = 0 THEN @ ELSE found]
    BY <1>3, Zenon DEF SeekReader
  <2>2. index \in 1..last /\ eos \in BOOLEAN
    BY <1>1 DEF IsReader
  <2>. HIDE DEF sought, found, last
  <2>3. /\ DOMAIN sought = DOMAIN reader
        /\ sought.track = track /\ sought.fragmented = reader.fragmented /\ sought.selected = reader.selected
        /\ sought.eos = eos /\ sought.index = index /\ sought.samples = <<>>
        /\ sought.desc = reader.desc /\ sought.prefix = reader.prefix
    BY <2>1 DEF IsReader
  <2>. HIDE DEF index, eos
  <2>4. IsReader(sought)
    BY <2>2, <2>3 DEF IsReader, last
  <2>. QED  BY <1>3, <2>3, <2>4 DEF sought, SeekKeeps
<1>4. reader.fragmented \in BOOLEAN
  BY DEF IsReader
<1>. QED  BY <1>2, <1>3, <1>4

(* The reader that offers the earliest sample.                                 *)
IsEarliest(readers, offering, r) ==
  /\ r \in offering
  /\ \A i \in offering :
       \/ readers[r].samples[1].dts < readers[i].samples[1].dts
       \/ readers[r].samples[1].dts = readers[i].samples[1].dts /\ r <= i

(* Among readers that offer there is an earliest one, by induction over their  *)
(* number.                                                                     *)
LEMMA EarliestIs ==
  ASSUME NEW n \in Nat, NEW readers, NEW offering \in SUBSET (1..n), offering # {},
         \A i \in offering : readers[i].samples[1].dts \in Int
  PROVE  IsEarliest(readers, offering, Earliest(readers, offering))
<1>. DEFINE Q(k) == \A T \in SUBSET (1..k) :
                      T \subseteq offering /\ T # {} => \E r \in T : IsEarliest(readers, T, r)
            R == {k \in Nat : Q(k)}
<1>1. 0 \in R
  <2>1. \A T \in SUBSET (1..0) : T = {}
    OBVIOUS
  <2>2. Q(0)
    BY <2>1
  <2>. HIDE DEF Q
  <2>. QED  BY <2>2
<1>2. ASSUME NEW k \in Nat, k \in R PROVE k + 1 \in R
  <2>1. ASSUME NEW T \in SUBSET (1..k + 1), T \subseteq offering, T # {}
        PROVE  \E r \in T : IsEarliest(readers, T, r)
    <3>. DEFINE U == T \ {k + 1}
    <3>1. U \in SUBSET (1..k) /\ U \subseteq offering
      BY <2>1
    <3>2. CASE U = {}
      <4>1. T = {k + 1}
        BY <2>1, <3>2
      <4>2. readers[k + 1].samples[1].dts = readers[k + 1].samples[1].dts /\ k + 1 <= k + 1
        OBVIOUS
      <4>3. IsEarliest(readers, T, k + 1)
        BY <4>1, <4>2 DEF IsEarliest
      <4>. QED  BY <4>1, <4>3
    <3>3. CASE U # {}
      <4>1. PICK r \in U : IsEarliest(readers, U, r)
        BY <1>2, <3>1, <3>3
      <4>2. CASE k + 1 \notin T
        <5>1. U = T
          BY <4>2
        <5>. QED  BY <4>1, <5>1
      <4>3. CASE k + 1 \in T
        <5>. DEFINE m == k + 1
                    D(i) == readers[i].samples[1].dts
        <5>1. /\ \A i \in T : D(i) \in Int /\ i \in Nat
              /\ r \in T /\ r < m /\ m \in T /\ \A i \in T : i = m \/ i \in U
          BY <2>1, <3>1, <4>3
        <5>2. \A i \in U : D(r) < D(i) \/ (D(r) = D(i) /\ r <= i)
          BY <4>1 DEF IsEarliest
        <5>3. \A i \in U : i < m
          BY <3>1
        <5>. HIDE DEF D, m, U
        <5>4. CASE D(m) < D(r)
          <6>1. \A i \in T : D(m) < D(i) \/ (D(m) = D(i) /\ m <= i)
            BY <5>1, <5>2, <5>4
          <6>. QED  BY <5>1, <6>1 DEF IsEarliest, D
        <5>5. CASE ~(D(m) < D(r))
          <6>1. \A i \in T : D(r) < D(i) \/ (D(r) = D(i) /\ r <= i)
            BY <5>1, <5>2, <5>5
          <6>. QED  BY <5>1, <6>1 DEF IsEarliest, D
        <5>. QED  BY <5>4, <5>5
      <4>. QED  BY <4>2, <4>3
    <3>. QED  BY <3>2, <3>3
  <2>2. Q(k + 1)
    BY <2>1
  <2>. HIDE DEF Q
  <2>. QED  BY <2>2
<1>3. Q(n)
  <2>1. Nat \subseteq R
    <3>. HIDE DEF R
    <3>. QED  BY <1>1, <1>2, SetInduction
  <2>. HIDE DEF Q
  <2>. QED  BY <2>1
<1>4. \E r \in offering : IsEarliest(readers, offering, r)
  BY <1>3
<1>. QED  BY <1>4, Zenon DEF Earliest, IsEarliest

(* Counting the readers that offered gives the number of one only if they come *)
(* first.                                                                      *)
LEMMA CountedIs ==
  ASSUME NEW n \in Nat, NEW offering \in SUBSET (1..n), NEW r \in offering
  PROVE  /\ Counted(offering, r) \in 1..n
         /\ (\A i \in 1..n \ offering : r < i) => Counted(offering, r) = r
<1>. DEFINE B == {i \in offering : i < r}
            a == r - 1
<1>1. r \in 1..n /\ a \in Nat /\ B \in SUBSET (1..a) /\ a + 1 = r
  <2>1. r \in 1..n /\ a \in Nat /\ a + 1 = r
    OBVIOUS
  <2>2. \A i \in offering : i < r => i \in 1..a
    BY <2>1
  <2>. QED  BY <2>1, <2>2
<1>. HIDE DEF a, B
<1>2. IsFiniteSet(1..a) /\ Cardinality(1..a) = a
  BY <1>1, FS_Interval
<1>3. IsFiniteSet(B) /\ Cardinality(B) <= a /\ Cardinality(B) \in Nat
  BY <1>1, <1>2, FS_Subset, FS_CardinalityType
<1>4. ASSUME \A i \in 1..n \ offering : r < i PROVE B = 1..a
  <2>1. \A i \in 1..a : i \in 1..n /\ i < r
    BY <1>1
  <2>2. \A i \in 1..a : i \in offering
    BY <1>1, <1>4, <2>1
  <2>. QED  BY <1>1, <2>1, <2>2 DEF B
<1>5. Counted(offering, r) = Cardinality(B) + 1
  BY DEF Counted, B
<1>. QED  BY <1>1, <1>2, <1>3, <1>4, <1>5

-----------------------------------------------------------------------------
(* The merge.                                                                  *)

(* What is handed out next: the earliest of the first samples that are left.   *)
Leads(view, offering, r) ==
  /\ r \in DOMAIN view /\ r \in offering
  /\ \A i \in offering :
       /\ i \in DOMAIN view /\ view[i].selected
       /\ view[i].next \in 1..Len(view[i].samples) /\ Readable(view[i].samples[view[i].next])
       /\ \/ view[r].samples[view[r].next].dts < view[i].samples[view[i].next].dts
          \/ view[r].samples[view[r].next].dts = view[i].samples[view[i].next].dts /\ r <= i
  /\ \A i \in DOMAIN view \ offering :
       ~view[i].selected \/ view[i].next = Len(view[i].samples) + 1

Views(view) ==
  \A i \in DOMAIN view :
    /\ i \in Nat /\ DOMAIN view[i] = {"samples", "selected", "next"}
    /\ view[i].samples \in Seq(MediaSamples) /\ view[i].next \in Nat
    /\ \A n \in 1..Len(view[i].samples) - 1 : view[i].samples[n].dts <= view[i].samples[n + 1].dts

(* The samples of a track follow one another.                                  *)
LEMMA DtsGrows ==
  ASSUME NEW samples \in Seq(MediaSamples),
         \A n \in 1..Len(samples) - 1 : samples[n].dts <= samples[n + 1].dts
  PROVE  \A m \in 1..Len(samples) : \A n \in m..Len(samples) : samples[m].dts <= samples[n].dts
<1>. DEFINE L == Len(samples)
            D(n) == samples[n].dts
<1>1. L \in Nat /\ \A n \in 1..L : D(n) \in Int
  <2>1. L \in Nat /\ \A n \in 1..L : samples[n] \in MediaSamples
    OBVIOUS
  <2>. QED  BY <2>1 DEF MediaSamples
<1>2. \A n \in 1..L - 1 : D(n) <= D(n + 1)
  OBVIOUS
<1>. HIDE DEF L, D
<1>3. ASSUME NEW m \in 1..L PROVE \A n \in m..L : D(m) <= D(n)
  <2>. DEFINE R == {k \in Nat : m + k <= L => D(m) <= D(m + k)}
  <2>1. 0 \in R
    BY <1>1
  <2>2. ASSUME NEW k \in Nat, k \in R PROVE k + 1 \in R
    <3>1. CASE m + (k + 1) <= L
      <4>1. m + k \in 1..L - 1 /\ m + (k + 1) = (m + k) + 1 /\ m + (k + 1) \in 1..L /\ m + k \in 1..L
        BY <1>1, <3>1
      <4>2. D(m) <= D(m + k)
        BY <1>1, <2>2, <4>1
      <4>. DEFINE n == m + k
      <4>. HIDE DEF n
      <4>3. D(n) <= D(n + 1)
        BY <1>2, <4>1 DEF n
      <4>4. D(m) <= D(n + 1)
        BY <1>1, <4>1, <4>2, <4>3 DEF n
      <4>. QED  BY <4>1, <4>4 DEF n
    <3>2. CASE ~(m + (k + 1) <= L)
      BY <3>2
    <3>. QED  BY <3>1, <3>2
  <2>3. Nat \subseteq R
    <3>. HIDE DEF R
    <3>. QED  BY <2>1, <2>2, SetInduction
  <2>4. ASSUME NEW n \in m..L PROVE D(m) <= D(n)
    <3>3. n - m \in Nat
      BY <1>1
    <3>1. n - m \in R
      BY <2>3, <3>3, Zenon
    <3>2. m + (n - m) = n /\ n <= L
      BY <1>1
    <3>. QED  BY <3>1, <3>2
  <2>. QED  BY <2>4
<1>. QED  BY <1>3 DEF L, D

(* It comes before every sample that is left.                                  *)
LEMMA LeadIsBefore ==
  ASSUME NEW view, Views(view), NEW from, NEW offering, NEW r, Leads(view, offering, r),
         NEW i, NEW n \in Nat, IsDue(view, from, i, n), n >= view[i].next,
         ~(i = r /\ n = view[r].next)
  PROVE  Before(SampleAt(view, r, view[r].next), SampleAt(view, i, n))
<1>. DEFINE D(j, m) == view[j].samples[m].dts
            p == view[r].next
            q == view[i].next
<1>1. i \in DOMAIN view /\ n \in 1..Len(view[i].samples) /\ view[i].selected
  BY DEF IsDue
<1>2. Len(view[i].samples) \in Nat /\ q \in Nat /\ p \in Nat /\ i \in Nat /\ r \in Nat
  BY <1>1 DEF Views, Leads
<1>3. i \in offering
  <2>1. q <= Len(view[i].samples)
    BY <1>1, <1>2
  <2>2. q # Len(view[i].samples) + 1
    BY <1>2, <2>1
  <2>. QED  BY <1>1, <2>2 DEF Leads
<1>4. /\ q \in 1..Len(view[i].samples) /\ p \in 1..Len(view[r].samples)
      /\ D(r, p) < D(i, q) \/ (D(r, p) = D(i, q) /\ r <= i)
  BY <1>3 DEF Leads
<1>5. D(i, q) <= D(i, n)
  <2>1. /\ view[i].samples \in Seq(MediaSamples)
        /\ \A m \in 1..Len(view[i].samples) - 1 : view[i].samples[m].dts <= view[i].samples[m + 1].dts
    BY <1>1 DEF Views
  <2>2. \A m \in 1..Len(view[i].samples) : \A k \in m..Len(view[i].samples) : D(i, m) <= D(i, k)
    BY <2>1, DtsGrows
  <2>. QED  BY <1>1, <1>2, <1>4, <2>2
<1>6. D(r, p) \in Int /\ D(i, q) \in Int /\ D(i, n) \in Int
  <2>1. ASSUME NEW j \in DOMAIN view, NEW m \in 1..Len(view[j].samples) PROVE D(j, m) \in Int
    <3>1. view[j].samples[m] \in MediaSamples
      BY DEF Views
    <3>. QED  BY <3>1 DEF MediaSamples
  <2>. QED  BY <1>1, <1>4, <2>1 DEF Leads
<1>. HIDE DEF D
<1>7. \/ D(r, p) < D(i, n)
      \/ D(r, p) = D(i, n) /\ r < i
      \/ D(r, p) = D(i, n) /\ r = i /\ p < n
  BY <1>2, <1>4, <1>5, <1>6
<1>. QED  BY <1>7 DEF D, Before, SampleAt

Advanced(more, view, r) ==
  /\ DOMAIN more = DOMAIN view
  /\ \A i \in DOMAIN view :
       /\ more[i].samples = view[i].samples /\ more[i].selected = view[i].selected
       /\ more[i].next = IF i = r THEN view[i].next + 1 ELSE view[i].next

IsNext(x, view, r) ==
  x \in Outs /\ x.reader = r /\ x.n = view[r].next /\ x.dts = view[r].samples[x.n].dts

(* Handing out the one that leads continues the merge.                         *)
LEMMA MergeGrows ==
  ASSUME NEW view, Views(view), NEW from, NEW out \in Seq(Outs), NEW ended \in BOOLEAN,
         Merged(view, from, out, ended),
         NEW offering, NEW r, Leads(view, offering, r), NEW x, IsNext(x, view, r),
         NEW more, Advanced(more, view, r)
  PROVE  Merged(more, from, Append(out, x), ended)
<1>. DEFINE all == Append(out, x)
            L == Len(out)
            p == view[r].next
<1>1. /\ L \in Nat /\ all \in Seq(Outs) /\ Len(all) = L + 1
      /\ \A k \in 1..L : all[k] = out[k]
      /\ all[L + 1] = x /\ x \in Outs
      /\ \A k \in 1..L : out[k] \in Outs
  BY DEF IsNext
<1>. HIDE DEF all, L
<1>2. \A i, n : IsDue(more, from, i, n) <=> IsDue(view, from, i, n)
  BY DEF IsDue, Advanced
<1>3. \A i \in DOMAIN view : from[i] \in Nat \ {0} /\ view[i].next \in from[i]..Len(view[i].samples) + 1
  BY DEF Merged
<1>4. /\ r \in DOMAIN view /\ p \in 1..Len(view[r].samples)
      /\ Len(view[r].samples) \in Nat /\ from[r] \in Nat /\ from[r] <= p
      /\ IsDue(view, from, r, p)
  <2>1. /\ r \in DOMAIN view /\ p \in 1..Len(view[r].samples)
        /\ view[r].selected /\ Readable(view[r].samples[p])
    BY DEF Leads
  <2>2. Len(view[r].samples) \in Nat
    BY <2>1 DEF Views
  <2>3. from[r] \in Nat /\ from[r] <= p
    BY <1>3, <2>1, <2>2
  <2>. QED  BY <2>1, <2>2, <2>3 DEF IsDue
<1>5. ASSUME NEW i \in DOMAIN more
      PROVE  from[i] \in Nat \ {0} /\ more[i].next \in from[i]..Len(more[i].samples) + 1
  <2>1. i \in DOMAIN view /\ more[i].samples = view[i].samples
    BY DEF Advanced
  <2>2. CASE i = r
    <3>1. more[r].next = p + 1
      BY <2>1, <2>2 DEF Advanced
    <3>. QED  BY <1>3, <1>4, <2>1, <2>2, <3>1
  <2>3. CASE i # r
    <3>1. more[i].next = view[i].next
      BY <2>1, <2>3 DEF Advanced
    <3>. QED  BY <1>3, <2>1, <3>1
  <2>. QED  BY <2>2, <2>3
<1>6. ASSUME NEW k \in 1..Len(all)
      PROVE  /\ IsDue(more, from, all[k].reader, all[k].n)
             /\ all[k].n < more[all[k].reader].next
             /\ all[k].dts = more[all[k].reader].samples[all[k].n].dts
  <2>1. CASE k \in 1..L
    <3>. DEFINE i == out[k].reader
                n == out[k].n
    <3>1. /\ IsDue(view, from, i, n) /\ n < view[i].next
          /\ out[k].dts = view[i].samples[n].dts /\ all[k] = out[k]
      BY <1>1, <2>1 DEF Merged, L
    <3>2. i \in DOMAIN view /\ n \in Nat /\ view[i].next \in Nat
      <4>1. i \in DOMAIN view
        BY <3>1 DEF IsDue
      <4>2. out[k] \in Outs
        BY <1>1, <2>1
      <4>. QED  BY <4>1, <4>2 DEF Outs, Views
    <3>3. more[i].samples = view[i].samples /\ more[i].next \in {view[i].next, view[i].next + 1}
      BY <3>2 DEF Advanced
    <3>. QED  BY <1>2, <3>1, <3>2, <3>3
  <2>2. CASE k = L + 1
    <3>1. all[k] = x /\ x.reader = r /\ x.n = p /\ x.dts = view[r].samples[p].dts
      BY <1>1, <2>2 DEF IsNext
    <3>2. more[r].samples = view[r].samples /\ more[r].next = p + 1
      BY <1>4 DEF Advanced
    <3>3. p < p + 1
      BY <1>4
    <3>. QED  BY <1>2, <1>4, <3>1, <3>2, <3>3
  <2>. QED  BY <1>1, <2>1, <2>2
<1>7. ASSUME NEW k \in 1..Len(all) - 1 PROVE Before(all[k], all[k + 1])
  <2>1. CASE k \in 1..L - 1
    <3>1. all[k] = out[k] /\ all[k + 1] = out[k + 1]
      BY <1>1, <2>1
    <3>. QED  BY <2>1, <3>1 DEF Merged, L
  <2>2. CASE k = L
    <3>1. k \in 1..L /\ all[k] = out[k] /\ all[k + 1] = x
      BY <1>1, <2>2
    <3>2. Before(out[k], SampleAt(view, r, p))
      <4>1. p \in Nat /\ ~(p < view[r].next)
        BY <1>4
      <4>. QED  BY <1>4, <3>1, <4>1 DEF Merged, L
    <3>. QED  BY <3>1, <3>2 DEF Before, SampleAt, IsNext
  <2>. QED  BY <1>1, <2>1, <2>2
<1>8. ASSUME NEW i \in DOMAIN more, NEW n \in Nat, IsDue(more, from, i, n)
      PROVE  IF n < more[i].next THEN WasGiven(all, i, n)
             ELSE ~ended /\ \A k \in 1..Len(all) : Before(all[k], SampleAt(more, i, n))
  <2>1. i \in DOMAIN view /\ IsDue(view, from, i, n) /\ view[i].next \in Nat
    BY <1>2, <1>8 DEF Advanced, Views
  <2>2. IF n < view[i].next THEN WasGiven(out, i, n)
        ELSE ~ended /\ \A k \in 1..L : Before(out[k], SampleAt(view, i, n))
    BY <2>1 DEF Merged, L
  <2>3. more[i].next = (IF i = r THEN view[i].next + 1 ELSE view[i].next)
    BY <2>1 DEF Advanced
  <2>4. SampleAt(more, i, n) = SampleAt(view, i, n)
    BY <2>1 DEF SampleAt, Advanced
  <2>5. CASE i = r /\ n = p
    <3>1. n < more[i].next
      BY <2>1, <2>3, <2>5
    <3>2. L + 1 \in 1..Len(all) /\ all[L + 1].reader = i /\ all[L + 1].n = n
      BY <1>1, <2>5 DEF IsNext
    <3>3. WasGiven(all, i, n)
      BY <3>2 DEF WasGiven
    <3>. QED  BY <3>1, <3>3
  <2>6. CASE n < view[i].next
    <3>1. n < more[i].next
      BY <2>1, <2>3, <2>6
    <3>2. PICK k \in 1..L : out[k].reader = i /\ out[k].n = n
      BY <2>2, <2>6 DEF WasGiven, L
    <3>3. k \in 1..Len(all) /\ all[k] = out[k]
      BY <1>1, <3>2
    <3>4. WasGiven(all, i, n)
      BY <3>2, <3>3 DEF WasGiven
    <3>. QED  BY <3>1, <3>4
  <2>7. CASE ~(n < view[i].next) /\ ~(i = r /\ n = p)
    <3>1. n >= view[i].next /\ ~(n < more[i].next)
      BY <2>1, <2>3, <2>7
    <3>2. ~ended /\ \A k \in 1..L : Before(out[k], SampleAt(view, i, n))
      BY <2>2, <2>7
    <3>3. Before(SampleAt(view, r, p), SampleAt(view, i, n))
      BY <2>1, <2>7, <3>1, LeadIsBefore
    <3>4. Before(x, SampleAt(view, i, n))
      BY <3>3 DEF Before, SampleAt, IsNext
    <3>5. ASSUME NEW k \in 1..Len(all) PROVE Before(all[k], SampleAt(more, i, n))
      <4>1. CASE k \in 1..L
        BY <1>1, <2>4, <3>2, <4>1
      <4>2. CASE k = L + 1
        BY <1>1, <2>4, <3>4, <4>2
      <4>. QED  BY <1>1, <4>1, <4>2
    <3>. QED  BY <3>1, <3>2, <3>5
  <2>. QED  BY <2>5, <2>6, <2>7
<1>. QED  BY <1>5, <1>6, <1>7, <1>8 DEF Merged, all

(* When every selected track is at its end, all its samples have been handed   *)
(* out.                                                                        *)
LEMMA MergeEnds ==
  ASSUME NEW view, Views(view), NEW from, NEW out, NEW ended, Merged(view, from, out, ended),
         \A i \in DOMAIN view : ~view[i].selected \/ view[i].next = Len(view[i].samples) + 1
  PROVE  Merged(view, from, out, TRUE)
<1>1. ASSUME NEW i \in DOMAIN view, NEW n \in Nat, IsDue(view, from, i, n)
      PROVE  n < view[i].next /\ WasGiven(out, i, n)
  <2>1. n \in 1..Len(view[i].samples) /\ view[i].selected /\ view[i].next = Len(view[i].samples) + 1
    BY <1>1 DEF IsDue
  <2>2. Len(view[i].samples) \in Nat
    BY DEF Views
  <2>3. n < view[i].next
    BY <2>1, <2>2
  <2>. QED  BY <1>1, <2>3 DEF Merged
<1>. QED  BY <1>1 DEF Merged

(* Nothing has been handed out yet.                                            *)
LEMMA MergeStarts ==
  ASSUME NEW view, Views(view), NEW from,
         \A i \in DOMAIN view :
           from[i] = view[i].next /\ view[i].next \in 1..Len(view[i].samples) + 1
  PROVE  Merged(view, from, <<>>, FALSE)
<1>1. ASSUME NEW i \in DOMAIN view
      PROVE  /\ from[i] \in Nat \ {0} /\ view[i].next \in from[i]..Len(view[i].samples) + 1
             /\ \A n \in Nat : IsDue(view, from, i, n) => ~(n < view[i].next)
  <2>1. Len(view[i].samples) \in Nat
    BY DEF Views
  <2>. QED  BY <2>1 DEF IsDue
<1>2. Len(<<>>) = 0
  OBVIOUS
<1>. QED  BY <1>1, <1>2 DEF Merged

-----------------------------------------------------------------------------
(* The readers' steps.                                                         *)

(* A reader that holds something holds one sample of its track.                *)
LEMMA QueueIs ==
  ASSUME NEW reader, IsReader(reader), reader.samples # <<>>
  PROVE  /\ ~reader.eos
         /\ reader.samples[1].n \in 1..Len(reader.track.samples)
         /\ reader.samples[1] = QueuedAs(reader.track, reader.samples[1].n)
         /\ reader.samples = <<reader.samples[1]>>
         /\ Readable(reader.track.samples[reader.samples[1].n])
<1>1. PICK n \in 1..Len(reader.track.samples) :
        Readable(reader.track.samples[n]) /\ reader.samples = <<QueuedAs(reader.track, n)>>
  BY DEF IsReader
<1>2. ~reader.eos
  BY DEF IsReader
<1>. DEFINE q == QueuedAs(reader.track, n)
<1>3. q.n = n
  BY DEF QueuedAs
<1>. HIDE DEF q
<1>4. reader.samples = <<q>> /\ reader.samples[1] = q
  BY <1>1 DEF q
<1>. QED  BY <1>1, <1>2, <1>3, <1>4 DEF q

(* The fields of a queued sample.                                              *)
LEMMA QueuedIs ==
  ASSUME NEW track, IsMediaTrack(track), NEW n \in 1..Len(track.samples), Readable(track.samples[n])
  PROVE  LET q == QueuedAs(track, n)
         IN  /\ q.n = n /\ n \in Nat /\ ~q.freed
             /\ q.dts = track.samples[n].dts /\ q.dts \in Int
             /\ q.data = DataOf(track, track.samples[n]) /\ q.data \in Seq(Tokens)
<1>. DEFINE sample == track.samples[n]
<1>1. sample \in MediaSamples /\ n \in Nat
  <2>1. track.samples \in Seq(MediaSamples)
    BY DEF IsMediaTrack
  <2>. QED  BY <2>1
<1>2. sample.dts \in Int /\ sample.desc # 0
  BY <1>1 DEF MediaSamples, Readable
<1>3. DataOf(track, sample) \in Seq(Tokens)
  BY <1>1, <1>2, DataIs
<1>. QED  BY <1>1, <1>2, <1>3 DEF QueuedAs

(* Where a reader stands.                                                      *)
LEMMA PositionIs ==
  ASSUME NEW reader, IsReader(reader)
  PROVE  /\ Position(reader) \in 1..Len(reader.track.samples) + 1
         /\ Len(reader.track.samples) \in Nat
         /\ reader.samples # <<>> => Position(reader) = reader.samples[1].n
         /\ reader.eos => Position(reader) = Len(reader.track.samples) + 1
         /\ reader.samples = <<>> /\ ~reader.eos => Position(reader) = reader.index
<1>1. Len(reader.track.samples) \in Nat
  BY DEF IsReader, IsMediaTrack
<1>2. reader.index \in 1..Len(reader.track.samples) + 1
  BY DEF IsReader
<1>3. CASE reader.samples # <<>>
  <2>1. ~reader.eos /\ reader.samples[1].n \in 1..Len(reader.track.samples)
    BY <1>3, QueueIs
  <2>. QED  BY <1>1, <1>3, <2>1 DEF Position
<1>4. CASE reader.samples = <<>>
  BY <1>1, <1>2, <1>4 DEF Position
<1>. QED  BY <1>3, <1>4

(* The view of some readers, field by field.                                   *)
LEMMA ViewIs ==
  ASSUME NEW readers, ReadersFrom(readers), AllReaders(readers)
  PROVE  /\ Views(View(readers)) /\ DOMAIN View(readers) = 1..Len(readers)
         /\ \A i \in 1..Len(readers) :
              /\ View(readers)[i].samples = readers[i].track.samples
              /\ View(readers)[i].selected = readers[i].selected
              /\ View(readers)[i].next = Position(readers[i])
              /\ View(readers)[i].next \in 1..Len(View(readers)[i].samples) + 1
<1>. DEFINE view == View(readers)
<1>1. /\ DOMAIN view = 1..Len(readers) /\ Len(readers) \in Nat
      /\ \A i \in 1..Len(readers) :
           view[i] = [samples |-> readers[i].track.samples, selected |-> readers[i].selected,
                      next |-> Position(readers[i])]
  BY DEF View, ReadersFrom
<1>2. \A i \in 1..Len(readers) :
        /\ Position(readers[i]) \in 1..Len(readers[i].track.samples) + 1
        /\ Len(readers[i].track.samples) \in Nat
  BY PositionIs DEF AllReaders
<1>3. ASSUME NEW i \in DOMAIN view
      PROVE  /\ i \in Nat /\ DOMAIN view[i] = {"samples", "selected", "next"}
             /\ view[i].samples \in Seq(MediaSamples) /\ view[i].next \in Nat
             /\ \A n \in 1..Len(view[i].samples) - 1 : view[i].samples[n].dts <= view[i].samples[n + 1].dts
  <2>1. i \in 1..Len(readers) /\ i \in Nat /\ IsMediaTrack(readers[i].track)
    BY <1>1 DEF ReadersFrom
  <2>2. Position(readers[i]) \in Nat
    BY <1>2, <2>1
  <2>. QED  BY <1>1, <2>1, <2>2 DEF IsMediaTrack
<1>4. Views(view)
  BY <1>3 DEF Views
<1>. HIDE DEF view
<1>5. ASSUME NEW i \in 1..Len(readers)
      PROVE  /\ view[i].samples = readers[i].track.samples
             /\ view[i].selected = readers[i].selected
             /\ view[i].next = Position(readers[i])
             /\ view[i].next \in 1..Len(view[i].samples) + 1
  BY <1>1, <1>2
<1>. QED  BY <1>1, <1>4, <1>5 DEF view

SameTracks(readers, more) ==
  Len(more) = Len(readers) /\ \A i \in 1..Len(readers) : more[i].track = readers[i].track

(* What was handed out only refers to the tracks.                              *)
LEMMA OutsStay ==
  ASSUME NEW readers, NEW more, SameTracks(readers, more), NEW out, OutsOk(readers, out)
  PROVE  OutsOk(more, out)
BY DEF OutsOk, SameTracks

(* Asking every reader for its sample.                                         *)
Asking(before, readers) ==
  readers = [i \in 1..Len(before) |-> IF Asked(before[i]) THEN GetSample(before[i]) ELSE before[i]]

Offering(before, readers) ==
  {i \in 1..Len(before) : Asked(before[i]) /\ readers[i].samples # <<>>}

AskedKeeps(before, readers) ==
  /\ ReadersFrom(readers) /\ AllReaders(readers) /\ SameTracks(before, readers)
  /\ \A i \in 1..Len(readers) : readers[i].selected = before[i].selected
  /\ StandIn(before) => StandIn(readers)
  /\ KeepsStep(readers, Offering(before, readers)) => View(readers) = View(before)

(* Asking moves no reader as long as the step is kept: whoever offers nothing  *)
(* has ended or was not asked.                                                 *)
LEMMA AskedIs ==
  ASSUME NEW before, ReadersFrom(before), AllReaders(before), NEW readers, Asking(before, readers)
  PROVE  AskedKeeps(before, readers)
<1>. DEFINE N == Len(before)
            offering == Offering(before, readers)
<1>1. /\ N \in Nat /\ DOMAIN readers = 1..N /\ Len(readers) = N
      /\ \A i \in 1..N : readers[i] = IF Asked(before[i]) THEN GetSample(before[i]) ELSE before[i]
  BY DEF ReadersFrom, Asking
<1>. HIDE DEF N
<1>2. ASSUME NEW i \in 1..N
      PROVE  /\ IsReader(readers[i]) /\ readers[i].track = before[i].track
             /\ readers[i].selected = before[i].selected
             /\ InPlace(before[i]) => InPlace(readers[i])
             /\ readers[i].samples # <<>> \/ readers[i].eos \/ ~Asked(before[i]) =>
                  Position(readers[i]) = Position(before[i])
  <2>1. IsReader(before[i])
    BY DEF AllReaders, N
  <2>2. CASE Asked(before[i])
    <3>1. GetSampleKeeps(before[i], GetSample(before[i]))
      BY <2>1, <2>2, GetSampleIs DEF Asked
    <3>. QED  BY <1>1, <2>2, <3>1 DEF GetSampleKeeps
  <2>3. CASE ~Asked(before[i])
    BY <1>1, <2>1, <2>3
  <2>. QED  BY <2>2, <2>3
<1>3. ReadersFrom(readers) /\ AllReaders(readers) /\ SameTracks(before, readers)
  <2>1. \A i \in 1..N : IsMediaTrack(readers[i].track)
    BY <1>2 DEF IsReader
  <2>. QED  BY <1>1, <1>2, <2>1 DEF ReadersFrom, AllReaders, SameTracks, N
<1>4. StandIn(before) => StandIn(readers)
  BY <1>1, <1>2 DEF StandIn, N
<1>5. ASSUME KeepsStep(readers, offering) PROVE View(readers) = View(before)
  <2>1. ASSUME NEW i \in 1..N PROVE Position(readers[i]) = Position(before[i])
    <3>1. CASE i \in offering
      BY <1>2, <3>1 DEF Offering
    <3>2. CASE i \notin offering
      <4>1. readers[i].eos \/ ~readers[i].selected
        BY <1>1, <1>5, <3>2 DEF KeepsStep
      <4>2. ~readers[i].selected => ~Asked(before[i])
        BY <1>2 DEF Asked
      <4>. QED  BY <1>2, <4>1, <4>2
    <3>. QED  BY <3>1, <3>2
  <2>2. \A i \in 1..N : readers[i].track.samples = before[i].track.samples /\ readers[i].selected = before[i].selected
    BY <1>2
  <2>. QED  BY <1>1, <2>1, <2>2 DEF View, N
<1>6. \A i \in 1..Len(readers) : readers[i].selected = before[i].selected
  BY <1>1, <1>2
<1>. QED  BY <1>3, <1>4, <1>5, <1>6 DEF AskedKeeps

(* As long as the step is kept, the reader counted is the one that leads.      *)
LEMMA OfferingLeads ==
  ASSUME NEW before, NEW readers, AskedKeeps(before, readers),
         NEW offering, offering = Offering(before, readers), offering # {},
         KeepsStep(readers, offering)
  PROVE  /\ Counted(offering, Earliest(readers, offering)) \in offering
         /\ Leads(View(readers), offering, Counted(offering, Earliest(readers, offering)))
<1>. DEFINE N == Len(readers)
            view == View(readers)
            r == Earliest(readers, offering)
<1>1. /\ ReadersFrom(readers) /\ AllReaders(readers) /\ N \in Nat /\ N = Len(before)
      /\ \A i \in 1..N : readers[i].selected = before[i].selected
      /\ offering \in SUBSET (1..N)
      /\ \A i \in offering : readers[i].samples # <<>> /\ before[i].selected
  BY DEF AskedKeeps, ReadersFrom, SameTracks, Offering, Asked
<1>2. /\ Views(view) /\ DOMAIN view = 1..N
      /\ \A i \in 1..N : /\ view[i].samples = readers[i].track.samples
                         /\ view[i].selected = readers[i].selected
                         /\ view[i].next = Position(readers[i])
  BY <1>1, ViewIs
<1>. HIDE DEF view, N
<1>3. ASSUME NEW i \in offering
      PROVE  /\ i \in DOMAIN view /\ view[i].selected
             /\ view[i].next \in 1..Len(view[i].samples)
             /\ Readable(view[i].samples[view[i].next])
             /\ readers[i].samples[1].dts = view[i].samples[view[i].next].dts
             /\ readers[i].samples[1].dts \in Int
  <2>1. i \in 1..N /\ readers[i].samples # <<>> /\ readers[i].selected
    BY <1>1
  <2>2. IsReader(readers[i])
    BY <1>1, <2>1 DEF AllReaders, N
  <2>. DEFINE q == readers[i].samples[1]
              n == q.n
  <2>3. /\ n \in 1..Len(readers[i].track.samples) /\ q = QueuedAs(readers[i].track, n)
        /\ Readable(readers[i].track.samples[n])
    BY <2>1, <2>2, QueueIs
  <2>4. Position(readers[i]) = n
    BY <2>1, <2>2, PositionIs
  <2>5. IsMediaTrack(readers[i].track)
    BY <2>2 DEF IsReader
  <2>. HIDE DEF n
  <2>6. q.dts = readers[i].track.samples[n].dts /\ q.dts \in Int
    BY <2>3, <2>5, QueuedIs
  <2>. QED  BY <1>2, <2>1, <2>3, <2>4, <2>6
<1>4. IsEarliest(readers, offering, r)
  BY <1>1, <1>3, EarliestIs
<1>5. r \in offering
  BY <1>4 DEF IsEarliest
<1>6. Counted(offering, r) = r
  <2>1. \A i \in 1..N \ offering : r < i
    BY <1>5 DEF KeepsStep, N
  <2>. HIDE DEF r
  <2>. QED  BY <1>1, <1>5, <2>1, CountedIs
<1>7. ASSUME NEW i \in DOMAIN view \ offering
      PROVE  ~view[i].selected \/ view[i].next = Len(view[i].samples) + 1
  <2>1. i \in 1..N /\ (readers[i].eos \/ ~readers[i].selected)
    BY <1>2 DEF KeepsStep, N
  <2>2. IsReader(readers[i])
    BY <1>1, <2>1 DEF AllReaders, N
  <2>3. readers[i].eos => Position(readers[i]) = Len(readers[i].track.samples) + 1
    BY <2>2, PositionIs
  <2>. QED  BY <1>2, <2>1, <2>3
<1>. HIDE DEF r
<1>8. Leads(view, offering, r)
  <2>1. r \in DOMAIN view
    BY <1>3, <1>5
  <2>2. \A i \in offering :
          \/ view[r].samples[view[r].next].dts < view[i].samples[view[i].next].dts
          \/ view[r].samples[view[r].next].dts = view[i].samples[view[i].next].dts /\ r <= i
    BY <1>3, <1>4, <1>5 DEF IsEarliest
  <2>. QED  BY <1>3, <1>5, <1>7, <2>1, <2>2 DEF Leads
<1>. QED  BY <1>5, <1>6, <1>8 DEF r, view

(* A queued sample is taken from its reader.                                   *)
Taken(readers, r) == [readers EXCEPT ![r].samples = Tail(@)]

(* Nothing is left of one sample.                                              *)
LEMMA TailOfOne ==
  ASSUME NEW q
  PROVE  Tail(<<q>>) = <<>>
<1>. DEFINE s == <<q>>
            n == Len(s)
<1>1. s \in Seq({q}) /\ n = 1
  OBVIOUS
<1>. HIDE DEF s
<1>2. Tail(s) \in Seq({q}) /\ Len(Tail(s)) = n - 1
  BY <1>1
<1>3. Len(Tail(s)) = 0
  BY <1>1, <1>2
<1>4. Tail(s) = <<>>
  BY <1>2, <1>3, EmptySeq
<1>. QED  BY <1>4 DEF s

TakenKeeps(readers, r, more, x) ==
  /\ ReadersFrom(more) /\ AllReaders(more) /\ SameTracks(readers, more)
  /\ StandIn(readers) => StandIn(more)
  /\ InPlace(readers[r]) => Advanced(View(more), View(readers), r)
  /\ IsNext(x, View(readers), r)
  /\ x.n \in 1..Len(readers[r].track.samples) /\ Readable(readers[r].track.samples[x.n])
  /\ x.data = DataOf(readers[r].track, readers[r].track.samples[x.n])

(* The reader a sample is taken from stands one further.                       *)
LEMMA TakenIs ==
  ASSUME NEW readers, ReadersFrom(readers), AllReaders(readers),
         NEW r \in 1..Len(readers), readers[r].samples # <<>>
  PROVE  TakenKeeps(readers, r, Taken(readers, r), HandedOut(r, readers[r].samples[1]))
<1>. DEFINE N == Len(readers)
            reader == readers[r]
            q == reader.samples[1]
            more == Taken(readers, r)
            left == [reader EXCEPT !.samples = Tail(@)]
            x == HandedOut(r, q)
            track == reader.track
            n == q.n
<1>1. /\ N \in Nat /\ DOMAIN readers = 1..N /\ \A i \in 1..N : IsReader(readers[i])
  BY DEF ReadersFrom, AllReaders
<1>2. IsReader(reader) /\ reader.samples # <<>> /\ r \in 1..N
  BY <1>1
<1>3. /\ ~reader.eos /\ n \in 1..Len(track.samples) /\ q = QueuedAs(track, n)
      /\ reader.samples = <<q>> /\ Readable(track.samples[n])
  BY <1>2, QueueIs
<1>4. /\ DOMAIN more = 1..N /\ more[r] = left
      /\ \A i \in 1..N : i # r => more[i] = readers[i]
  BY <1>1, <1>2 DEF Taken
<1>5. Tail(reader.samples) = <<>>
  <2>1. Tail(<<q>>) = <<>>
    <3>. HIDE DEF q
    <3>. QED  BY TailOfOne
  <2>. QED  BY <1>3, <2>1
<1>. HIDE DEF q, N, reader
<1>6. /\ DOMAIN left = DOMAIN reader
      /\ left.track = track /\ left.fragmented = reader.fragmented /\ left.selected = reader.selected
      /\ left.eos = reader.eos /\ left.index = reader.index /\ left.samples = <<>>
      /\ left.desc = reader.desc /\ left.prefix = reader.prefix
  BY <1>2, <1>5 DEF IsReader
<1>. HIDE DEF left
<1>7. IsReader(left)
  BY <1>2, <1>6 DEF IsReader
<1>8. Len(more) = N
  <2>1. more = [i \in 1..N |-> more[i]]
    BY <1>1, <1>4 DEF Taken
  <2>. HIDE DEF more
  <2>. QED  BY <1>1, <2>1
<1>. HIDE DEF more
<1>9. ASSUME NEW i \in 1..N
      PROVE  /\ IsReader(more[i]) /\ more[i].track = readers[i].track
             /\ more[i].selected = readers[i].selected
             /\ InPlace(readers[i]) => InPlace(more[i])
  <2>1. CASE i = r
    BY <1>4, <1>6, <1>7, <2>1 DEF InPlace, reader
  <2>2. CASE i # r
    BY <1>1, <1>4, <2>2
  <2>. QED  BY <2>1, <2>2
<1>10. ReadersFrom(more) /\ AllReaders(more) /\ SameTracks(readers, more)
  <2>1. \A i \in 1..N : IsMediaTrack(more[i].track)
    BY <1>9 DEF IsReader
  <2>. QED  BY <1>1, <1>4, <1>8, <1>9, <2>1 DEF ReadersFrom, AllReaders, SameTracks, N
<1>11. StandIn(readers) => StandIn(more)
  BY <1>8, <1>9 DEF StandIn, N
<1>12. /\ DOMAIN View(readers) = 1..N /\ DOMAIN View(more) = 1..N
       /\ \A i \in 1..N : /\ View(readers)[i].samples = readers[i].track.samples
                          /\ View(readers)[i].selected = readers[i].selected
                          /\ View(readers)[i].next = Position(readers[i])
                          /\ View(more)[i].samples = more[i].track.samples
                          /\ View(more)[i].selected = more[i].selected
                          /\ View(more)[i].next = Position(more[i])
  BY <1>1, <1>8, <1>10, ViewIs DEF N
<1>13. Position(reader) = n /\ Position(left) = reader.index /\ Position(more[r]) = reader.index
  BY <1>2, <1>3, <1>4, <1>6, <1>7, PositionIs DEF q
<1>14. ASSUME InPlace(reader) PROVE Advanced(View(more), View(readers), r)
  <2>1. reader.index = n + 1
    <3>1. n = reader.index - 1
      BY <1>2, <1>14 DEF InPlace, q
    <3>2. reader.index \in Int
      BY <1>2 DEF IsReader
    <3>. QED  BY <3>1, <3>2
  <2>2. ASSUME NEW i \in 1..N
        PROVE  Position(more[i]) = IF i = r THEN Position(readers[i]) + 1 ELSE Position(readers[i])
    <3>1. CASE i = r
      BY <1>13, <2>1, <3>1 DEF reader
    <3>2. CASE i # r
      BY <1>4, <3>2
    <3>. QED  BY <3>1, <3>2
  <2>. QED  BY <1>9, <1>12, <2>2 DEF Advanced
<1>15. /\ x.reader = r /\ x.n = n /\ x.dts = q.dts /\ x.data = q.data
       /\ DOMAIN x = {"reader", "n", "dts", "data"}
       /\ x = [reader |-> r, n |-> n, dts |-> q.dts, data |-> q.data]
  BY DEF HandedOut
<1>16. /\ n \in Nat /\ q.dts = track.samples[n].dts /\ q.dts \in Int
       /\ q.data = DataOf(track, track.samples[n]) /\ q.data \in Seq(Tokens)
  <2>1. IsMediaTrack(track)
    BY <1>2 DEF IsReader
  <2>. DEFINE m == n
  <2>. HIDE DEF m
  <2>2. /\ m \in 1..Len(track.samples) /\ Readable(track.samples[m]) /\ q = QueuedAs(track, m)
    BY <1>3 DEF m
  <2>3. /\ m \in Nat /\ q.dts = track.samples[m].dts /\ q.dts \in Int
        /\ q.data = DataOf(track, track.samples[m]) /\ q.data \in Seq(Tokens)
    BY <2>1, <2>2, QueuedIs
  <2>. QED  BY <2>3 DEF m
<1>17. x \in Outs
  <2>1. r \in Nat
    BY <1>1, <1>2
  <2>. QED  BY <1>15, <1>16, <2>1 DEF Outs
<1>. HIDE DEF x, n
<1>18. IsNext(x, View(readers), r)
  <2>1. View(readers)[r].next = n /\ View(readers)[r].samples = track.samples
    BY <1>2, <1>12, <1>13 DEF reader
  <2>. QED  BY <1>15, <1>16, <1>17, <2>1 DEF IsNext
<1>19. /\ x.n \in 1..Len(track.samples) /\ Readable(track.samples[x.n])
       /\ x.data = DataOf(track, track.samples[x.n])
  BY <1>3, <1>15, <1>16
<1>20. TakenKeeps(readers, r, more, x)
  BY <1>10, <1>11, <1>14, <1>18, <1>19 DEF TakenKeeps, reader
<1>. QED  BY <1>20 DEF more, x, q, reader

(* What the readers hold is not freed.                                         *)
LEMMA NoneIsFreed ==
  ASSUME NEW readers, AllReaders(readers)
  PROVE  ~DanglingIn(readers)
<1>. SUFFICES ASSUME NEW i \in 1..Len(readers), NEW k \in 1..Len(readers[i].samples)
              PROVE  ~readers[i].samples[k].freed
  BY DEF DanglingIn
<1>. DEFINE s == readers[i].samples
            q == s[1]
<1>1. IsReader(readers[i])
  BY DEF AllReaders
<1>2. s # <<>>
  <2>1. ASSUME s = <<>> PROVE FALSE
    <3>1. Len(s) = 0
      BY <2>1
    <3>. QED  BY <3>1
  <2>. QED  BY <2>1
<1>3. s = <<q>> /\ q = QueuedAs(readers[i].track, q.n)
  BY <1>1, <1>2, QueueIs
<1>4. ~q.freed
  <2>. DEFINE n == q.n
  <2>. HIDE DEF n
  <2>1. q = QueuedAs(readers[i].track, n)
    BY <1>3 DEF n
  <2>. QED  BY <2>1 DEF QueuedAs
<1>5. k = 1
  <2>. DEFINE m == Len(s)
  <2>1. m = 1 /\ k \in 1..m
    <3>1. Len(<<q>>) = 1
      OBVIOUS
    <3>. QED  BY <1>3, <3>1
  <2>. QED  BY <2>1
<1>. QED  BY <1>4, <1>5

(* The end of the tracks.                                                      *)
LEMMA EndKeeps ==
  ASSUME NEW before, NEW readers, NEW out, NEW from, NEW inStep \in BOOLEAN, NEW ended \in BOOLEAN,
         PlayedOk(before, out, from, inStep, ended), ~DanglingIn(before), Asking(before, readers),
         Offering(before, readers) = {}
  PROVE  PlayedOk(readers, out, from, inStep /\ KeepsStep(readers, {}), TRUE)
<1>. DEFINE step == inStep /\ KeepsStep(readers, {})
            view == View(readers)
<1>1. ReadersFrom(before) /\ AllReaders(before) /\ OutsOk(before, out)
  BY DEF PlayedOk
<1>2. AskedKeeps(before, readers)
  BY <1>1, AskedIs
<1>3. ReadersFrom(readers) /\ AllReaders(readers) /\ SameTracks(before, readers)
  BY <1>2 DEF AskedKeeps
<1>4. OutsOk(readers, out)
  BY <1>1, <1>3, OutsStay
<1>5. ~DanglingIn(readers)
  BY <1>3, NoneIsFreed
<1>6. ASSUME step PROVE StandIn(readers) /\ Merged(view, from, out, TRUE)
  <2>1. StandIn(before) /\ Merged(View(before), from, out, ended)
    BY <1>6 DEF PlayedOk
  <2>2. view = View(before) /\ StandIn(readers)
    BY <1>2, <1>6, <2>1 DEF AskedKeeps
  <2>3. /\ Views(view) /\ DOMAIN view = 1..Len(readers)
        /\ \A i \in 1..Len(readers) : /\ view[i].samples = readers[i].track.samples
                                      /\ view[i].selected = readers[i].selected
                                      /\ view[i].next = Position(readers[i])
    BY <1>3, ViewIs
  <2>. HIDE DEF view
  <2>4. ASSUME NEW i \in DOMAIN view
        PROVE  ~view[i].selected \/ view[i].next = Len(view[i].samples) + 1
    <3>1. i \in 1..Len(readers) /\ IsReader(readers[i])
      BY <1>3, <2>3 DEF AllReaders
    <3>2. readers[i].eos \/ ~readers[i].selected
      BY <1>6, <3>1 DEF KeepsStep
    <3>3. readers[i].eos => Position(readers[i]) = Len(readers[i].track.samples) + 1
      BY <3>1, PositionIs
    <3>. QED  BY <2>3, <3>1, <3>2, <3>3
  <2>5. Merged(view, from, out, ended)
    BY <2>1, <2>2
  <2>6. Merged(view, from, out, TRUE)
    BY <2>3, <2>4, <2>5, MergeEnds
  <2>. QED  BY <2>2, <2>6
<1>. HIDE DEF step
<1>. QED  BY <1>3, <1>4, <1>5, <1>6 DEF PlayedOk, step

(* A sample is handed out.                                                     *)
LEMMA HandingKeeps ==
  ASSUME NEW before, NEW readers, NEW out, NEW from, NEW inStep \in BOOLEAN, NEW ended \in BOOLEAN,
         PlayedOk(before, out, from, inStep, ended), ~DanglingIn(before), Asking(before, readers),
         NEW offering, offering = Offering(before, readers), offering # {},
         NEW r, r = Counted(offering, Earliest(readers, offering)), r \in 1..Len(readers),
         readers[r].samples # <<>>
  PROVE  PlayedOk(Taken(readers, r), Append(out, HandedOut(r, readers[r].samples[1])), from,
                inStep /\ KeepsStep(readers, offering), ended)
<1>. DEFINE step == inStep /\ KeepsStep(readers, offering)
            more == Taken(readers, r)
            x == HandedOut(r, readers[r].samples[1])
            all == Append(out, x)
<1>1. ReadersFrom(before) /\ AllReaders(before) /\ OutsOk(before, out)
  BY DEF PlayedOk
<1>2. AskedKeeps(before, readers)
  BY <1>1, AskedIs
<1>3. ReadersFrom(readers) /\ AllReaders(readers) /\ SameTracks(before, readers)
  BY <1>2 DEF AskedKeeps
<1>4. TakenKeeps(readers, r, more, x)
  BY <1>3, TakenIs
<1>. HIDE DEF more, x
<1>5. ReadersFrom(more) /\ AllReaders(more) /\ SameTracks(readers, more)
  BY <1>4 DEF TakenKeeps
<1>6. OutsOk(readers, out)
  BY <1>1, <1>3, OutsStay
<1>7. OutsOk(readers, all)
  <2>1. /\ out \in Seq(Outs) /\ x \in Outs /\ x.reader = r
    BY <1>4, <1>6 DEF OutsOk, TakenKeeps, IsNext
  <2>. DEFINE L == Len(out)
  <2>2. /\ all \in Seq(Outs) /\ L \in Nat /\ Len(all) = L + 1 /\ all[L + 1] = x
        /\ \A k \in 1..L : all[k] = out[k]
    BY <2>1
  <2>. HIDE DEF all, L
  <2>. DEFINE Good(y) == /\ y.reader \in 1..Len(readers)
                         /\ y.n \in 1..Len(readers[y.reader].track.samples)
                         /\ Readable(readers[y.reader].track.samples[y.n])
                         /\ y.data = DataOf(readers[y.reader].track, readers[y.reader].track.samples[y.n])
  <2>3. Good(x)
    BY <1>4, <2>1 DEF TakenKeeps
  <2>4. \A k \in 1..L : Good(out[k])
    BY <1>6 DEF OutsOk, L
  <2>. HIDE DEF Good
  <2>5. \A k \in 1..Len(all) : Good(all[k])
    BY <2>2, <2>3, <2>4
  <2>. QED  BY <2>2, <2>5 DEF OutsOk, Good
<1>8. OutsOk(more, all)
  BY <1>5, <1>7, OutsStay
<1>9. ~DanglingIn(more)
  BY <1>5, NoneIsFreed
<1>10. ASSUME step PROVE StandIn(more) /\ Merged(View(more), from, all, ended)
  <2>1. StandIn(before) /\ Merged(View(before), from, out, ended)
    BY <1>10 DEF PlayedOk
  <2>2. View(readers) = View(before) /\ StandIn(readers)
    BY <1>2, <1>10, <2>1 DEF AskedKeeps
  <2>3. StandIn(more) /\ InPlace(readers[r])
    BY <1>4, <2>2 DEF TakenKeeps, StandIn
  <2>4. Leads(View(readers), offering, r)
    BY <1>2, <1>10, OfferingLeads
  <2>5. Advanced(View(more), View(readers), r) /\ IsNext(x, View(readers), r)
    BY <1>4, <2>3 DEF TakenKeeps
  <2>. DEFINE view == View(readers)
              after == View(more)
  <2>6. Views(view)
    BY <1>3, ViewIs
  <2>7. out \in Seq(Outs) /\ Merged(view, from, out, ended)
    BY <1>6, <2>1, <2>2 DEF OutsOk
  <2>. HIDE DEF view, after
  <2>8. Leads(view, offering, r) /\ Advanced(after, view, r) /\ IsNext(x, view, r)
    BY <2>4, <2>5 DEF view, after
  <2>9. Merged(after, from, Append(out, x), ended)
    BY <2>6, <2>7, <2>8, MergeGrows
  <2>. QED  BY <2>3, <2>9 DEF after
<1>. HIDE DEF step, all
<1>11. PlayedOk(more, all, from, step, ended)
  BY <1>5, <1>8, <1>9, <1>10 DEF PlayedOk
<1>. QED  BY <1>11 DEF more, all, step, x

(* A queued sample is freed: that happens out of step only.                    *)
Freed(readers, r) == [readers EXCEPT ![r].samples[1].freed = TRUE]

(* The first of one sample is freed.                                           *)
LEMMA FreedFirst ==
  ASSUME NEW s, s = [k \in 1..1 |-> s[k]], DOMAIN s[1] = {"n", "dts", "data", "freed"},
         NEW f, f = [s EXCEPT ![1].freed = TRUE]
  PROVE  1 \in 1..Len(f) /\ f[1].freed = TRUE
<1>1. DOMAIN s = 1..1
  OBVIOUS
<1>2. DOMAIN f = 1..1 /\ f = [k \in DOMAIN f |-> f[k]]
  BY <1>1
<1>3. f[1].freed = TRUE
  BY <1>1
<1>4. f = [k \in 1..1 |-> f[k]]
  BY <1>2
<1>5. Len(f) = 1
  BY <1>2, <1>4
<1>. QED  BY <1>3, <1>5

(* Freeing a queued sample leaves the tracks and a dangling sample.            *)
LEMMA FreedIs ==
  ASSUME NEW readers, ReadersFrom(readers), AllReaders(readers),
         NEW r \in 1..Len(readers), readers[r].samples # <<>>
  PROVE  /\ ReadersFrom(Freed(readers, r)) /\ SameTracks(readers, Freed(readers, r))
         /\ DanglingIn(Freed(readers, r))
<1>. DEFINE N == Len(readers)
            reader == readers[r]
            s == reader.samples
            q == s[1]
            freed == [s EXCEPT ![1].freed = TRUE]
            left == [reader EXCEPT !.samples[1].freed = TRUE]
            more == Freed(readers, r)
<1>1. /\ N \in Nat /\ DOMAIN readers = 1..N /\ \A i \in 1..N : IsReader(readers[i])
      /\ \A i \in 1..N : IsMediaTrack(readers[i].track)
  BY DEF ReadersFrom, AllReaders
<1>2. IsReader(reader) /\ s # <<>> /\ r \in 1..N
  BY <1>1
<1>3. s = <<q>> /\ q = QueuedAs(reader.track, q.n)
  BY <1>2, QueueIs
<1>4. DOMAIN q = {"n", "dts", "data", "freed"}
  <2>. DEFINE n == q.n
  <2>. HIDE DEF n
  <2>1. q = QueuedAs(reader.track, n)
    BY <1>3 DEF n
  <2>. HIDE DEF q
  <2>. QED  BY <2>1 DEF QueuedAs
<1>5. /\ DOMAIN more = 1..N /\ more[r] = left
      /\ \A i \in 1..N : i # r => more[i] = readers[i]
  BY <1>1, <1>2 DEF Freed
<1>6. Len(more) = N
  <2>1. more = [i \in 1..N |-> more[i]]
    BY <1>1, <1>5 DEF Freed
  <2>. HIDE DEF more, N
  <2>. QED  BY <1>1, <2>1
<1>. HIDE DEF more
<1>7. left.track = reader.track /\ left.samples = freed
  <2>. HIDE DEF s
  <2>1. DOMAIN reader = {"track", "fragmented", "selected", "eos", "samples", "index", "desc", "prefix"}
    BY <1>2 DEF IsReader
  <2>. HIDE DEF reader
  <2>. QED  BY <2>1 DEF s
<1>. HIDE DEF left, s
<1>8. 1 \in 1..Len(freed) /\ freed[1].freed = TRUE
  <2>. HIDE DEF q
  <2>1. DOMAIN s = 1..1
    BY <1>3
  <2>2. s = [k \in 1..1 |-> s[k]]
    BY <1>3, <2>1
  <2>3. DOMAIN s[1] = {"n", "dts", "data", "freed"}
    BY <1>4 DEF q
  <2>. QED  BY <2>2, <2>3, FreedFirst
<1>. HIDE DEF freed
<1>9. ReadersFrom(more) /\ SameTracks(readers, more)
  <2>1. \A i \in 1..N : more[i].track = readers[i].track
    BY <1>5, <1>7
  <2>. QED  BY <1>1, <1>5, <1>6, <2>1 DEF ReadersFrom, SameTracks
<1>10. DanglingIn(more)
  BY <1>2, <1>5, <1>6, <1>7, <1>8 DEF DanglingIn
<1>. QED  BY <1>9, <1>10 DEF more

(* Freeing needs a count that names a reader without a sample: out of step.    *)
LEMMA FreeingKeeps ==
  ASSUME NEW before, NEW readers, NEW out, NEW from, NEW inStep \in BOOLEAN, NEW ended \in BOOLEAN,
         PlayedOk(before, out, from, inStep, ended), ~DanglingIn(before), Asking(before, readers),
         NEW offering, offering = Offering(before, readers), offering # {},
         NEW r, r = Counted(offering, Earliest(readers, offering)), readers[r].samples = <<>>,
         NEW last \in offering
  PROVE  PlayedOk(Freed(readers, last), out, from, inStep /\ KeepsStep(readers, offering), ended)
<1>. DEFINE step == inStep /\ KeepsStep(readers, offering)
            more == Freed(readers, last)
<1>1. ReadersFrom(before) /\ AllReaders(before) /\ OutsOk(before, out)
  BY DEF PlayedOk
<1>2. AskedKeeps(before, readers)
  BY <1>1, AskedIs
<1>3. ReadersFrom(readers) /\ AllReaders(readers) /\ SameTracks(before, readers)
  BY <1>2 DEF AskedKeeps
<1>4. \A i \in offering : i \in 1..Len(readers) /\ readers[i].samples # <<>>
  BY <1>3 DEF Offering, SameTracks
<1>5. ReadersFrom(more) /\ SameTracks(readers, more) /\ DanglingIn(more)
  BY <1>3, <1>4, FreedIs
<1>6. ~step
  <2>1. ASSUME step PROVE r \in offering
    BY <1>2, <2>1, OfferingLeads
  <2>. QED  BY <1>4, <2>1
<1>7. OutsOk(readers, out)
  BY <1>1, <1>3, OutsStay
<1>8. OutsOk(more, out)
  BY <1>5, <1>7, OutsStay
<1>. HIDE DEF step, more
<1>9. PlayedOk(more, out, from, step, ended)
  BY <1>5, <1>6, <1>8 DEF PlayedOk
<1>. QED  BY <1>9 DEF step, more

(* The readers have been moved or selected: nothing has been handed out since. *)
LEMMA StartKeeps ==
  ASSUME NEW readers, ReadersFrom(readers), AllReaders(readers), NEW from, NEW inStep \in BOOLEAN,
         inStep => /\ StandIn(readers)
                   /\ \A i \in 1..Len(readers) : from[i] = Position(readers[i])
  PROVE  PlayedOk(readers, <<>>, from, inStep, FALSE)
<1>. DEFINE view == View(readers)
<1>1. OutsOk(readers, <<>>)
  <2>1. <<>> \in Seq(Outs) /\ Len(<<>>) = 0
    OBVIOUS
  <2>. QED  BY <2>1 DEF OutsOk
<1>2. ~DanglingIn(readers)
  BY NoneIsFreed
<1>3. ASSUME inStep PROVE StandIn(readers) /\ Merged(view, from, <<>>, FALSE)
  <2>1. /\ Views(view) /\ DOMAIN view = 1..Len(readers)
        /\ \A i \in 1..Len(readers) : /\ view[i].next = Position(readers[i])
                                      /\ view[i].next \in 1..Len(view[i].samples) + 1
    BY ViewIs
  <2>. HIDE DEF view
  <2>2. \A i \in DOMAIN view : from[i] = view[i].next /\ view[i].next \in 1..Len(view[i].samples) + 1
    BY <1>3, <2>1
  <2>3. Merged(view, from, <<>>, FALSE)
    BY <2>1, <2>2, MergeStarts
  <2>. QED  BY <1>3, <2>3
<1>. QED  BY <1>1, <1>2, <1>3 DEF PlayedOk

(* The readers open() makes.                                                   *)
LEMMA ReaderTracksAre ==
  ASSUME NEW file \in DemuxFiles
  PROVE  /\ Len(ReaderTracks(file)) \in Nat
         /\ \A i \in 1..Len(ReaderTracks(file)) : IsMediaTrack(ReaderTracks(file)[i])
<1>. DEFINE tracks == file.tracks
            U == {tracks[n] : n \in 1..Len(tracks)}
            Found(kind, i) == {n \in 1..Len(tracks) :
                                 /\ tracks[n].kind = kind /\ tracks[n].codec \in Codecs
                                 /\ Cardinality({m \in 1..n : tracks[m].kind = kind}) = i}
            At(kind, i) == IF Found(kind, i) = {} THEN <<>>
                           ELSE <<tracks[CHOOSE n \in Found(kind, i) : TRUE]>>
            seqs == [i \in 1..kMaxTrackNumber |-> At("audio", i) \o At("video", i)]
<1>1. \A u \in U : IsMediaTrack(u)
  BY DemuxAssumption
<1>2. ASSUME NEW kind, NEW i PROVE At(kind, i) \in Seq(U)
  <2>1. CASE Found(kind, i) = {}
    BY <2>1
  <2>2. CASE Found(kind, i) # {}
    <3>. DEFINE n == CHOOSE n \in Found(kind, i) : TRUE
    <3>1. n \in Found(kind, i)
      BY <2>2
    <3>2. n \in 1..Len(tracks)
      BY <3>1
    <3>. HIDE DEF n
    <3>3. tracks[n] \in U
      BY <3>2
    <3>. HIDE DEF U, Found
    <3>4. <<tracks[n]>> \in Seq(U)
      BY <3>3
    <3>. QED  BY <2>2, <3>4 DEF n
  <2>. QED  BY <2>1, <2>2
<1>3. ReaderTracks(file) = FlattenSeq(seqs)
  BY Zenon DEF ReaderTracks
<1>. HIDE DEF U, At
<1>4. seqs \in [1..kMaxTrackNumber -> Seq(U)]
  <2>1. ASSUME NEW i \in 1..kMaxTrackNumber PROVE At("audio", i) \o At("video", i) \in Seq(U)
    BY <1>2, ConcatProperties
  <2>. QED  BY <2>1
<1>. HIDE DEF seqs
<1>5. kMaxTrackNumber \in Nat
  BY DEF kMaxTrackNumber
<1>6. FlattenSeq(seqs) \in Seq(U)
  BY <1>4, <1>5, FlattenLayout
<1>. DEFINE all == FlattenSeq(seqs)
<1>. HIDE DEF all
<1>7. Len(all) \in Nat /\ \A i \in 1..Len(all) : all[i] \in U
  BY <1>6 DEF all
<1>. QED  BY <1>1, <1>3, <1>7 DEF all

(* A new reader stands at the first sample of its track.                       *)
LEMMA NewReaderIs ==
  ASSUME NEW track, IsMediaTrack(track), NEW fragmented \in BOOLEAN
  PROVE  LET reader == NewReader(track, fragmented)
         IN  /\ IsReader(reader) /\ reader.track = track
             /\ Position(reader) = 1 /\ InPlace(reader)
<1>. DEFINE reader == NewReader(track, fragmented)
<1>1. Len(track.samples) \in Nat
  BY DEF IsMediaTrack
<1>2. /\ DOMAIN reader = {"track", "fragmented", "selected", "eos", "samples", "index", "desc", "prefix"}
      /\ reader.track = track /\ reader.fragmented = fragmented /\ reader.selected = TRUE
      /\ reader.eos = FALSE /\ reader.samples = <<>> /\ reader.index = 1 /\ reader.desc = 0
  BY DEF NewReader
<1>. HIDE DEF reader
<1>3. IsReader(reader)
  <2>1. reader.index \in 1..Len(reader.track.samples) + 1 /\ reader.desc \in Nat
    BY <1>1, <1>2
  <2>2. reader.selected \in BOOLEAN /\ reader.eos \in BOOLEAN /\ reader.fragmented \in BOOLEAN
    BY <1>2
  <2>3. IsMediaTrack(reader.track)
    BY <1>2
  <2>. QED  BY <1>2, <2>1, <2>2, <2>3 DEF IsReader
<1>4. Position(reader) = 1 /\ InPlace(reader)
  BY <1>2 DEF Position, InPlace
<1>. QED  BY <1>2, <1>3, <1>4 DEF reader

(* open().                                                                     *)
LEMMA OpenKeeps ==
  ASSUME NEW file \in DemuxFiles, DemuxInv, OpenDemuxer(file)
  PROVE  DemuxInv'
<1>. DEFINE tracks == ReaderTracks(file)
            made == [i \in 1..Len(tracks) |-> NewReader(tracks[i], file.fragmented)]
            from == [i \in 1..Len(made) |-> 1]
<1>1. /\ Len(tracks) \in Nat /\ \A i \in 1..Len(tracks) : IsMediaTrack(tracks[i])
      /\ file.fragmented \in BOOLEAN
  BY ReaderTracksAre, DemuxAssumption
<1>2. /\ demuxer' = [demuxer EXCEPT !.opened = TRUE, !.sample_readers_ = made]
      /\ played' = [played EXCEPT !.from = from] /\ ~demuxer.opened
  BY DEF OpenDemuxer
<1>. HIDE DEF tracks
<1>3. /\ DOMAIN made = 1..Len(tracks) /\ Len(made) = Len(tracks)
      /\ \A i \in 1..Len(made) : made[i] = NewReader(tracks[i], file.fragmented)
      /\ \A i \in 1..Len(made) : from[i] = 1
  BY <1>1
<1>. HIDE DEF made, from
<1>4. ASSUME NEW i \in 1..Len(made)
      PROVE  /\ IsReader(made[i]) /\ IsMediaTrack(made[i].track)
             /\ InPlace(made[i]) /\ from[i] = Position(made[i])
  <2>1. IsMediaTrack(tracks[i]) /\ made[i] = NewReader(tracks[i], file.fragmented)
    BY <1>1, <1>3
  <2>. DEFINE track == tracks[i]
              reader == NewReader(track, file.fragmented)
  <2>. HIDE DEF track
  <2>2. /\ IsReader(reader) /\ reader.track = track /\ Position(reader) = 1 /\ InPlace(reader)
    BY <1>1, <2>1, NewReaderIs DEF track
  <2>. QED  BY <1>3, <2>1, <2>2 DEF track
<1>5. ReadersFrom(made) /\ AllReaders(made) /\ StandIn(made)
  BY <1>1, <1>3, <1>4 DEF ReadersFrom, AllReaders, StandIn
<1>6. PlayedOk(made, <<>>, from, TRUE, FALSE)
  BY <1>4, <1>5, StartKeeps
<1>7. played = NothingPlayed
  BY <1>2 DEF DemuxInv
<1>8. /\ DOMAIN demuxer' = DOMAIN demuxer /\ demuxer'.opened = TRUE /\ demuxer'.sample_readers_ = made
  BY <1>2 DEF DemuxInv
<1>9. /\ DOMAIN played' = {"samples", "from", "inStep", "ended"}
      /\ played'.samples = <<>> /\ played'.from = from /\ played'.inStep = TRUE /\ played'.ended = FALSE
  BY <1>2, <1>7 DEF NothingPlayed
<1>. QED  BY <1>6, <1>8, <1>9 DEF DemuxInv

(* readSample, in its three outcomes.                                          *)
LEMMA ReadKeeps ==
  ASSUME DemuxInv, ReadMediaSample
  PROVE  DemuxInv'
<1>. DEFINE before == demuxer.sample_readers_
            readers == [i \in 1..Len(before) |-> IF Asked(before[i]) THEN GetSample(before[i])
                                                                     ELSE before[i]]
            offering == {i \in 1..Len(before) : Asked(before[i]) /\ readers[i].samples # <<>>}
            index == Counted(offering, Earliest(readers, offering))
            last == CHOOSE r \in offering : \A i \in offering : i <= r
            inStep == played.inStep /\ KeepsStep(readers, offering)
            out == played.samples
            x == HandedOut(index, readers[index].samples[1])
<1>1. /\ demuxer.opened /\ ~Dangling
      /\ \/ /\ offering = {}
            /\ demuxer' = [demuxer EXCEPT !.sample_readers_ = readers, !.eos_ = TRUE]
            /\ played' = [played EXCEPT !.inStep = inStep, !.ended = TRUE]
         \/ /\ offering # {} /\ readers[index].samples # <<>>
            /\ demuxer' = [demuxer EXCEPT !.sample_readers_ = Taken(readers, index)]
            /\ played' = [played EXCEPT !.inStep = inStep, !.samples = Append(@, x)]
         \/ /\ offering # {} /\ readers[index].samples = <<>>
            /\ demuxer' = [demuxer EXCEPT !.sample_readers_ = Freed(readers, last)]
            /\ played' = [played EXCEPT !.inStep = inStep]
  BY Zenon DEF ReadMediaSample, Taken, Freed
<1>2. /\ PlayedOk(before, out, played.from, played.inStep, played.ended)
      /\ played.inStep \in BOOLEAN /\ played.ended \in BOOLEAN
      /\ DOMAIN demuxer = {"opened", "sample_readers_", "eos_", "moves"}
      /\ DOMAIN played = {"samples", "from", "inStep", "ended"}
  BY DEF DemuxInv
<1>3. ~DanglingIn(before)
  BY <1>1 DEF Dangling, DanglingIn
<1>4. Asking(before, readers) /\ offering = Offering(before, readers)
  BY Zenon DEF Asking, Offering
<1>5. Len(readers) = Len(before) /\ Len(before) \in Nat /\ offering \in SUBSET (1..Len(before))
  <2>1. Len(before) \in Nat
    BY <1>2 DEF PlayedOk, ReadersFrom
  <2>. QED  BY <2>1
<1>. HIDE DEF before, readers, offering, last, index
<1>6. inStep \in BOOLEAN
  BY <1>2 DEF KeepsStep
<1>7. CASE /\ offering = {}
           /\ demuxer' = [demuxer EXCEPT !.sample_readers_ = readers, !.eos_ = TRUE]
           /\ played' = [played EXCEPT !.inStep = inStep, !.ended = TRUE]
  <2>1. PlayedOk(readers, out, played.from, inStep, TRUE)
    <3>1. PlayedOk(readers, out, played.from, played.inStep /\ KeepsStep(readers, {}), TRUE)
      BY <1>2, <1>3, <1>4, <1>7, EndKeeps
    <3>. QED  BY <1>7, <3>1
  <2>. HIDE DEF inStep
  <2>2. /\ DOMAIN demuxer' = DOMAIN demuxer /\ demuxer'.opened = demuxer.opened
        /\ demuxer'.sample_readers_ = readers
        /\ DOMAIN played' = DOMAIN played /\ played'.samples = out /\ played'.from = played.from
        /\ played'.inStep = inStep /\ played'.ended = TRUE
    BY <1>2, <1>7
  <2>. QED  BY <1>1, <1>2, <1>6, <2>1, <2>2 DEF DemuxInv
<1>8. ASSUME offering # {} PROVE last \in offering /\ index \in 1..Len(readers)
  <2>1. last \in offering
    <3>1. Max(offering) \in offering /\ \A i \in offering : i <= Max(offering)
      BY <1>5, <1>8, MaxIsGreatest
    <3>. QED  BY <3>1, Zenon DEF last
  <2>2. \A i \in offering : readers[i].samples[1].dts \in Int
    <3>1. ReadersFrom(before) /\ AllReaders(before)
      BY <1>2, <1>3 DEF PlayedOk
    <3>2. AskedKeeps(before, readers)
      BY <1>4, <3>1, AskedIs
    <3>3. ASSUME NEW i \in offering PROVE readers[i].samples[1].dts \in Int
      <4>1. readers[i].samples # <<>> /\ IsReader(readers[i])
        BY <1>4, <1>5, <3>2 DEF Offering, AskedKeeps, AllReaders
      <4>. DEFINE q == readers[i].samples[1]
                  n == q.n
                  track == readers[i].track
      <4>2. n \in 1..Len(track.samples) /\ q = QueuedAs(track, n) /\ Readable(track.samples[n])
        BY <4>1, QueueIs
      <4>3. IsMediaTrack(track)
        BY <4>1 DEF IsReader
      <4>. HIDE DEF n, track
      <4>. QED  BY <4>2, <4>3, QueuedIs
    <3>. QED  BY <3>3
  <2>3. IsEarliest(readers, offering, Earliest(readers, offering))
    BY <1>5, <1>8, <2>2, EarliestIs
  <2>. DEFINE r == Earliest(readers, offering)
  <2>4. r \in offering
    BY <2>3 DEF IsEarliest
  <2>. HIDE DEF r
  <2>5. Counted(offering, r) \in 1..Len(before)
    BY <1>5, <2>4, CountedIs
  <2>. QED  BY <1>5, <2>1, <2>5 DEF index, r
<1>9. CASE /\ offering # {} /\ readers[index].samples # <<>>
           /\ demuxer' = [demuxer EXCEPT !.sample_readers_ = Taken(readers, index)]
           /\ played' = [played EXCEPT !.inStep = inStep, !.samples = Append(@, x)]
  <2>1. PlayedOk(Taken(readers, index), Append(out, x), played.from, inStep, played.ended)
    BY <1>2, <1>3, <1>4, <1>8, <1>9, HandingKeeps DEF index
  <2>. HIDE DEF inStep, x
  <2>2. /\ DOMAIN demuxer' = DOMAIN demuxer /\ demuxer'.opened = demuxer.opened
        /\ demuxer'.sample_readers_ = Taken(readers, index)
        /\ DOMAIN played' = DOMAIN played /\ played'.samples = Append(out, x)
        /\ played'.from = played.from
        /\ played'.inStep = inStep /\ played'.ended = played.ended
    BY <1>2, <1>9
  <2>. HIDE DEF out
  <2>. QED  BY <1>1, <1>2, <1>6, <2>1, <2>2 DEF DemuxInv
<1>10. CASE /\ offering # {} /\ readers[index].samples = <<>>
            /\ demuxer' = [demuxer EXCEPT !.sample_readers_ = Freed(readers, last)]
            /\ played' = [played EXCEPT !.inStep = inStep]
  <2>1. PlayedOk(Freed(readers, last), out, played.from, inStep, played.ended)
    BY <1>2, <1>3, <1>4, <1>8, <1>10, FreeingKeeps DEF index
  <2>. HIDE DEF inStep
  <2>2. /\ DOMAIN demuxer' = DOMAIN demuxer /\ demuxer'.opened = demuxer.opened
        /\ demuxer'.sample_readers_ = Freed(readers, last)
        /\ DOMAIN played' = DOMAIN played /\ played'.samples = out /\ played'.from = played.from
        /\ played'.inStep = inStep /\ played'.ended = played.ended
    BY <1>2, <1>10
  <2>. QED  BY <1>1, <1>2, <1>6, <2>1, <2>2 DEF DemuxInv
<1>. QED  BY <1>1, <1>7, <1>9, <1>10

(* seek.                                                                       *)
LEMMA SeekKeepsAll ==
  ASSUME NEW ts, NEW moved \in BOOLEAN, DemuxInv, SeekDemuxer(ts, moved)
  PROVE  DemuxInv'
<1>. DEFINE before == demuxer.sample_readers_
            N == Len(before)
            readers == [i \in 1..N |-> SeekReader(before[i], ts, moved)]
            from == [i \in 1..N |-> Position([readers[i] EXCEPT !.samples = <<>>])]
            inStep == \A i \in 1..N : before[i].fragmented => before[i].samples = <<>>
<1>1. /\ demuxer.opened /\ ~Dangling
      /\ demuxer' = [demuxer EXCEPT !.sample_readers_ = readers, !.moves = @ + 1]
      /\ played' = [samples |-> <<>>, from |-> from, ended |-> FALSE, inStep |-> inStep]
  BY Zenon DEF SeekDemuxer
<1>2. /\ ReadersFrom(before) /\ AllReaders(before)
      /\ DOMAIN demuxer = {"opened", "sample_readers_", "eos_", "moves"}
  BY <1>1 DEF DemuxInv, PlayedOk, Dangling, DanglingIn
<1>3. /\ N \in Nat /\ DOMAIN readers = 1..N /\ Len(readers) = N
      /\ \A i \in 1..N : readers[i] = SeekReader(before[i], ts, moved)
      /\ \A i \in 1..N : from[i] = Position([readers[i] EXCEPT !.samples = <<>>])
  BY <1>2 DEF ReadersFrom
<1>4. inStep \in BOOLEAN
  OBVIOUS
<1>. HIDE DEF readers, from, N, before
<1>5. ASSUME NEW i \in 1..N
      PROVE  /\ IsReader(readers[i])
             /\ readers[i].samples = IF before[i].fragmented THEN before[i].samples ELSE <<>>
  <2>1. IsReader(before[i])
    BY <1>2 DEF AllReaders, N
  <2>2. SeekKeeps(before[i], SeekReader(before[i], ts, moved))
    BY <2>1, SeekReaderIs
  <2>. QED  BY <1>3, <2>2 DEF SeekKeeps
<1>6. ReadersFrom(readers) /\ AllReaders(readers)
  BY <1>3, <1>5 DEF ReadersFrom, AllReaders, IsReader
<1>7. ASSUME inStep
      PROVE  StandIn(readers) /\ \A i \in 1..Len(readers) : from[i] = Position(readers[i])
  <2>1. ASSUME NEW i \in 1..N PROVE InPlace(readers[i]) /\ from[i] = Position(readers[i])
    <3>. DEFINE reader == readers[i]
                left == [reader EXCEPT !.samples = <<>>]
    <3>1. reader.samples = <<>> /\ IsReader(reader)
      BY <1>5, <1>7
    <3>. HIDE DEF reader
    <3>2. left.samples = <<>> /\ left.eos = reader.eos /\ left.index = reader.index /\ left.track = reader.track
      BY <3>1 DEF IsReader
    <3>. HIDE DEF left
    <3>3. Position(left) = Position(reader) /\ InPlace(reader)
      BY <3>1, <3>2 DEF Position, InPlace
    <3>. QED  BY <1>3, <3>3 DEF reader, left
  <2>. QED  BY <1>3, <2>1 DEF StandIn
<1>. HIDE DEF inStep
<1>8. PlayedOk(readers, <<>>, from, inStep, FALSE)
  BY <1>4, <1>6, <1>7, StartKeeps
<1>9. /\ DOMAIN demuxer' = DOMAIN demuxer /\ demuxer'.opened = demuxer.opened
      /\ demuxer'.sample_readers_ = readers
      /\ DOMAIN played' = {"samples", "from", "inStep", "ended"}
      /\ played'.samples = <<>> /\ played'.from = from /\ played'.inStep = inStep /\ played'.ended = FALSE
  BY <1>1, <1>2
<1>. QED  BY <1>1, <1>2, <1>4, <1>8, <1>9 DEF DemuxInv

(* selectTrack and unselectTrack.                                              *)
LEMMA SelectKeepsAll ==
  ASSUME NEW id, NEW selected \in BOOLEAN, DemuxInv, SelectTrack(id, selected)
  PROVE  DemuxInv'
<1>. DEFINE before == demuxer.sample_readers_
            N == Len(before)
            I == {i \in 1..N : before[i].track.id = id}
            r == IF I # {} THEN Min(I) ELSE 0
            readers == [before EXCEPT ![r].selected = selected]
            from == [i \in 1..N |-> Position(before[i])]
            inStep == \A i \in 1..N : before[i].samples # <<>> =>
                        before[i].samples[1].n = before[i].index - 1
<1>1. /\ demuxer.opened /\ ~Dangling /\ r # 0
      /\ demuxer' = [demuxer EXCEPT !.sample_readers_[r].selected = selected, !.moves = @ + 1]
      /\ played' = [samples |-> <<>>, ended |-> FALSE, inStep |-> inStep, from |-> from]
  BY Zenon DEF SelectTrack, SelectInSeq
<1>2. /\ ReadersFrom(before) /\ AllReaders(before)
      /\ DOMAIN demuxer = {"opened", "sample_readers_", "eos_", "moves"}
  BY <1>1 DEF DemuxInv, PlayedOk, Dangling, DanglingIn
<1>3. N \in Nat /\ DOMAIN before = 1..N /\ \A i \in 1..N : IsReader(before[i])
  BY <1>2 DEF ReadersFrom, AllReaders
<1>4. r \in 1..N
  <2>1. I # {} /\ I \in SUBSET (1..N)
    BY <1>1
  <2>. HIDE DEF I
  <2>2. Min(I) \in I
    BY <1>3, <2>1, MinIsLeast
  <2>. QED  BY <2>1, <2>2
<1>. HIDE DEF r
<1>5. inStep <=> StandIn(before)
  BY DEF StandIn, InPlace
<1>6. inStep \in BOOLEAN
  OBVIOUS
<1>. HIDE DEF inStep
<1>7. /\ DOMAIN demuxer' = DOMAIN demuxer /\ demuxer'.opened = demuxer.opened
      /\ demuxer'.sample_readers_ = readers
      /\ DOMAIN played' = {"samples", "from", "inStep", "ended"}
      /\ played'.samples = <<>> /\ played'.from = from /\ played'.inStep = inStep /\ played'.ended = FALSE
  BY <1>1, <1>2
<1>. DEFINE chosen == [before[r] EXCEPT !.selected = selected]
<1>. HIDE DEF before, N
<1>8. /\ DOMAIN readers = 1..N /\ readers[r] = chosen
      /\ \A i \in 1..N : i # r => readers[i] = before[i]
  BY <1>3, <1>4
<1>9. Len(readers) = N
  <2>1. readers = [i \in 1..N |-> readers[i]]
    BY <1>3, <1>8
  <2>. HIDE DEF readers
  <2>. QED  BY <1>3, <2>1
<1>. HIDE DEF readers
<1>10. /\ IsReader(chosen) /\ Position(chosen) = Position(before[r])
       /\ InPlace(before[r]) => InPlace(chosen)
  <2>. DEFINE reader == before[r]
  <2>1. IsReader(reader)
    BY <1>3, <1>4
  <2>. HIDE DEF reader
  <2>. DEFINE left == [reader EXCEPT !.selected = selected]
  <2>2. /\ DOMAIN left = DOMAIN reader
        /\ left.track = reader.track /\ left.fragmented = reader.fragmented
        /\ left.selected = selected
        /\ left.eos = reader.eos /\ left.index = reader.index /\ left.samples = reader.samples
        /\ left.desc = reader.desc /\ left.prefix = reader.prefix
    BY <2>1 DEF IsReader
  <2>3. left = chosen
    BY DEF reader
  <2>. HIDE DEF left, chosen
  <2>4. IsReader(left)
    BY <2>1, <2>2 DEF IsReader
  <2>5. Position(left) = Position(reader) /\ (InPlace(reader) => InPlace(left))
    BY <2>2 DEF Position, InPlace
  <2>. QED  BY <2>3, <2>4, <2>5 DEF reader
<1>. HIDE DEF chosen
<1>11. ASSUME NEW i \in 1..N
       PROVE  /\ IsReader(readers[i]) /\ Position(readers[i]) = Position(before[i])
              /\ InPlace(before[i]) => InPlace(readers[i])
  <2>1. CASE i = r
    BY <1>8, <1>10, <2>1
  <2>2. CASE i # r
    BY <1>3, <1>8, <2>2
  <2>. QED  BY <2>1, <2>2
<1>12. ReadersFrom(readers) /\ AllReaders(readers)
  BY <1>3, <1>8, <1>9, <1>11 DEF ReadersFrom, AllReaders, IsReader
<1>13. ASSUME inStep
       PROVE  StandIn(readers) /\ \A i \in 1..Len(readers) : from[i] = Position(readers[i])
  BY <1>5, <1>9, <1>11, <1>13 DEF StandIn, N
<1>. HIDE DEF from
<1>14. PlayedOk(readers, <<>>, from, inStep, FALSE)
  BY <1>6, <1>12, <1>13, StartKeeps
<1>. QED  BY <1>1, <1>2, <1>6, <1>7, <1>14 DEF DemuxInv

(* Before open() nothing has been read.                                        *)
LEMMA DemuxInit == DemuxerInit => DemuxInv
<1>. SUFFICES ASSUME DemuxerInit PROVE DemuxInv
  OBVIOUS
<1>1. /\ DOMAIN demuxer = {"opened", "sample_readers_", "eos_", "moves"}
      /\ demuxer.opened = FALSE /\ demuxer.sample_readers_ = <<>>
      /\ DOMAIN played = {"samples", "from", "inStep", "ended"} /\ played = NothingPlayed
      /\ played.samples = <<>> /\ played.from = <<>> /\ played.inStep = TRUE /\ played.ended = FALSE
  BY DEF DemuxerInit, NotOpened, NothingPlayed
<1>2. Len(<<>>) = 0 /\ DOMAIN <<>> = 1..0
  OBVIOUS
<1>3. ReadersFrom(<<>>) /\ AllReaders(<<>>) /\ StandIn(<<>>)
  BY <1>2 DEF ReadersFrom, AllReaders, StandIn
<1>4. PlayedOk(<<>>, <<>>, <<>>, TRUE, FALSE)
  <2>. DEFINE none == <<>>
  <2>1. Len(none) = 0
    BY <1>2
  <2>. HIDE DEF none
  <2>2. \A i \in 1..Len(none) : none[i] = Position(none[i])
    BY <2>1
  <2>3. PlayedOk(none, <<>>, none, TRUE, FALSE)
    BY <1>3, <2>2, StartKeeps DEF none
  <2>. QED  BY <2>3 DEF none
<1>. QED  BY <1>1, <1>4 DEF DemuxInv

(* Every call keeps the invariant.                                             *)
LEMMA DemuxStep == DemuxInv /\ [DemuxerNext]_demuxerVars => DemuxInv'
<1>. SUFFICES ASSUME DemuxInv, [DemuxerNext]_demuxerVars PROVE DemuxInv'
  OBVIOUS
<1>1. CASE \E file \in DemuxFiles : OpenDemuxer(file)
  BY <1>1, OpenKeeps
<1>2. CASE ReadMediaSample
  BY <1>2, ReadKeeps
<1>3. CASE \E ts \in SeekPositions, moved \in BOOLEAN : SeekDemuxer(ts, moved)
  BY <1>3, SeekKeepsAll
<1>4. CASE \E id \in 1..2, selected \in BOOLEAN : SelectTrack(id, selected)
  BY <1>4, SelectKeepsAll
<1>5. CASE UNCHANGED demuxerVars
  <2>1. demuxer' = demuxer /\ played' = played
    BY <1>5 DEF demuxerVars
  <2>. QED  BY <2>1 DEF DemuxInv
<1>. QED  BY <1>1, <1>2, <1>3, <1>4, <1>5 DEF DemuxerNext

(* What the reader of a sample hands out.                                      *)
LEMMA InvGivesSets == DemuxInv => KeySampleCarriesParameterSets
<1>. SUFFICES ASSUME DemuxInv, NEW k \in 1..Len(played.samples),
                     demuxer.sample_readers_[played.samples[k].reader].track.kind = "video"
              PROVE  LET data == played.samples[k].data
                         track == demuxer.sample_readers_[played.samples[k].reader].track
                     IN  Carries(data, track, track.samples[played.samples[k].n])
  BY DEF KeySampleCarriesParameterSets, Carries
<1>. DEFINE readers == demuxer.sample_readers_
            out == played.samples[k]
            track == readers[out.reader].track
            sample == track.samples[out.n]
<1>1. /\ out.reader \in 1..Len(readers) /\ out.n \in 1..Len(track.samples)
      /\ Readable(sample) /\ out.data = DataOf(track, sample) /\ IsMediaTrack(track)
  BY DEF DemuxInv, PlayedOk, OutsOk, ReadersFrom
<1>2. track.kind = "video"
  OBVIOUS
<1>. HIDE DEF track, out
<1>3. sample \in MediaSamples /\ sample.desc # 0
  <2>1. track.samples \in Seq(MediaSamples)
    BY <1>1 DEF IsMediaTrack
  <2>. QED  BY <1>1, <2>1 DEF Readable
<1>4. out.data = AccessUnit(track.codec, SetsOf(track.codec, sample.desc), sample)
  BY <1>1, <1>2 DEF DataOf
<1>. HIDE DEF sample
<1>5. Carries(out.data, track, sample)
  BY <1>3, <1>4, SampleCarries
<1>. QED  BY <1>5 DEF sample, track, out

(* The merge of the view is the merge of the readers.                          *)
LEMMA InvGivesMerge == DemuxInv => MergedInOrder
<1>. SUFFICES ASSUME DemuxInv, played.inStep PROVE MergedInOrder
  BY DEF MergedInOrder
<1>. DEFINE readers == demuxer.sample_readers_
            out == played.samples
            from == played.from
            view == View(readers)
<1>1. /\ ReadersFrom(readers) /\ AllReaders(readers) /\ ~Dangling
      /\ Merged(view, from, out, played.ended)
  BY DEF DemuxInv, PlayedOk, Dangling, DanglingIn
<1>2. /\ DOMAIN view = 1..Len(readers)
      /\ \A i \in 1..Len(readers) : /\ view[i].samples = readers[i].track.samples
                                    /\ view[i].selected = readers[i].selected
                                    /\ view[i].next = Position(readers[i])
  BY <1>1, ViewIs
<1>. HIDE DEF view
<1>3. ASSUME NEW i \in 1..Len(readers), NEW n \in Samples(i)
      PROVE  /\ n \in Nat /\ (Due(i, n) <=> IsDue(view, from, i, n))
             /\ SampleAt(view, i, n) = [reader |-> i, n |-> n, dts |-> DtsOf(i, n)]
  <2>1. n \in Nat
    BY <1>1 DEF ReadersFrom, IsMediaTrack, Samples
  <2>. QED  BY <1>2, <2>1 DEF Samples, Due, IsDue, SampleAt, DtsOf
<1>4. ASSUME NEW k \in 1..Len(out)
      PROVE  /\ out[k].reader \in 1..Len(readers)
             /\ out[k].n \in Samples(out[k].reader) /\ Due(out[k].reader, out[k].n)
             /\ out[k].dts = DtsOf(out[k].reader, out[k].n)
  <2>1. /\ IsDue(view, from, out[k].reader, out[k].n)
        /\ out[k].dts = view[out[k].reader].samples[out[k].n].dts
    BY <1>1 DEF Merged
  <2>2. out[k].reader \in 1..Len(readers) /\ out[k].n \in Samples(out[k].reader)
    BY <1>2, <2>1 DEF IsDue, Samples
  <2>. QED  BY <1>2, <1>3, <2>1, <2>2 DEF DtsOf
<1>5. \A k \in 1..Len(out) - 1 : Before(out[k], out[k + 1])
  BY <1>1 DEF Merged
<1>6. ASSUME NEW i \in 1..Len(readers), NEW n \in Samples(i), Due(i, n), ~WasGiven(out, i, n)
      PROVE  /\ ~played.ended
             /\ \A k \in 1..Len(out) : Before(out[k], [reader |-> i, n |-> n, dts |-> DtsOf(i, n)])
  <2>1. n \in Nat /\ IsDue(view, from, i, n) /\ i \in DOMAIN view
    BY <1>2, <1>3, <1>6
  <2>2. IF n < view[i].next THEN WasGiven(out, i, n)
        ELSE ~played.ended /\ \A k \in 1..Len(out) : Before(out[k], SampleAt(view, i, n))
    BY <1>1, <2>1 DEF Merged
  <2>. QED  BY <1>3, <1>6, <2>2
<1>. QED  BY <1>1, <1>4, <1>5, <1>6, Zenon DEF MergedInOrder, WasGiven

(* From any seek or selection on, as long as the step is kept, readSample      *)
(* hands out the merge of the selected tracks: each sample once and in order,  *)
(* none skipped, none freed, and all of them by the time it reports the end;   *)
(* for all files and any number of readers and calls.                          *)
THEOREM MergeComesInOrder == DemuxerSpec => []MergedInOrder
<1>1. DemuxerSpec => []DemuxInv
  BY DemuxInit, DemuxStep, PTL DEF DemuxerSpec
<1>. QED  BY <1>1, InvGivesMerge, PTL

(* A sync sample of a video track carries the parameter sets of its own        *)
(* description, once and before its first slice, and any other sample none,    *)
(* whatever was read, sought or selected before; for all files.                *)
THEOREM KeySamplesDecode == DemuxerSpec => []KeySampleCarriesParameterSets
<1>1. DemuxerSpec => []DemuxInv
  BY DemuxInit, DemuxStep, PTL DEF DemuxerSpec
<1>. QED  BY <1>1, InvGivesSets, PTL
==============================================================================
