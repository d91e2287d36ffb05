----------------------------- MODULE SnyDemuxer -----------------------------
(* The mp4 demuxer of the library, sny::SnyDemuxer, with its sample readers.   *)
(*                                                                             *)
(* open() makes one reader per audio and video track it supports.  readSample  *)
(* asks every reader that is selected and not at its end for the sample at the *)
(* head of its queue (reading and converting one from the file when the queue  *)
(* is empty) and hands out the one with the smallest dts.  seek moves every    *)
(* reader.  A caller calls these operations from one thread, in any order.     *)
(*                                                                             *)
(* A track is a sequence of samples [dts, sync, desc, units]: desc is the      *)
(* sample description it refers to and units its NAL units in order ("cut" is  *)
(* a unit whose length exceeds what is left), empty when the sample has no     *)
(* data.  Converted data is a sequence of tokens <<kind, n>>.  Time scales are *)
(* left out: dts and the positions of seek are in one unit, and a sample lasts *)
(* until the dts of the next one.                                              *)
EXTENDS Integers, Sequences, FiniteSets, SequencesExt

CONSTANTS DemuxFiles,  \* the mp4 files: [fragmented, tracks]
          MaxMoves     \* bound: the calls of seek, selectTrack and unselectTrack

(* A decode time is the sum of the durations before it, which are unsigned.    *)
DemuxUnits == {"aud", "vps", "sps", "pps", "idr", "slice", "sei", "raw", "cut"}
MediaSamples == [dts : Int, sync : BOOLEAN, desc : Nat, units : Seq(DemuxUnits)]

IsMediaTrack(track) ==
  /\ track.samples \in Seq(MediaSamples)
  /\ \A n \in 1..Len(track.samples) - 1 : track.samples[n].dts <= track.samples[n + 1].dts

ASSUME DemuxAssumption ==
  /\ \A file \in DemuxFiles :
       /\ file.fragmented \in BOOLEAN /\ Len(file.tracks) \in Nat
       /\ \A n \in 1..Len(file.tracks) : IsMediaTrack(file.tracks[n])
  /\ MaxMoves \in Nat

VARIABLES demuxer,  \* the object: sample_readers_, eos_ and the file it has opened
          played    \* history since the last seek or selection

demuxerVars == <<demuxer, played>>

kMaxTrackNumber == 10
Codecs == {"avc", "hevc", "mp4a", "ac3"}

(* The readers open() makes: audio and video track i for every i below the     *)
(* limit, those of an unknown codec left out.                                  *)
ReaderTracks(file) ==
  LET tracks == file.tracks
      At(kind, i) ==
        LET found == {n \in 1..Len(tracks) :
                        /\ tracks[n].kind = kind /\ tracks[n].codec \in Codecs
                        /\ Cardinality({m \in 1..n : tracks[m].kind = kind}) = i}
        IN IF found = {} THEN <<>> ELSE <<tracks[CHOOSE n \in found : TRUE]>>
  IN FlattenSeq([i \in 1..kMaxTrackNumber |-> At("audio", i) \o At("video", i)])

NewReader(track, fragmented) ==
  [track |-> track, fragmented |-> fragmented, selected |-> TRUE, eos |-> FALSE,
   samples |-> <<>>, index |-> 1, desc |-> 0, prefix |-> <<>>]

NotOpened == [opened |-> FALSE, sample_readers_ |-> <<>>, eos_ |-> FALSE, moves |-> 0]
NothingPlayed == [samples |-> <<>>, from |-> <<>>, inStep |-> TRUE, ended |-> FALSE]

DemuxerInit == demuxer = NotOpened /\ played = NothingPlayed

OpenDemuxer(file) ==
  /\ ~demuxer.opened
  /\ LET tracks == ReaderTracks(file)
         made == [i \in 1..Len(tracks) |-> NewReader(tracks[i], file.fragmented)]
     IN /\ demuxer' = [demuxer EXCEPT !.opened = TRUE, !.sample_readers_ = made]
        /\ played' = [played EXCEPT !.from = [i \in 1..Len(made) |-> 1]]

-----------------------------------------------------------------------------
(* One reader.                                                                 *)

(* The units before the first one whose length does not fit.                   *)
WholeUnits(units) ==
  LET cut == SelectInSeq(units, LAMBDA u : u = "cut")
  IN IF cut = 0 THEN units ELSE SubSeq(units, 1, cut - 1)

(* Mutant: the parameter sets made once and kept.                              *)
PrefixOfFirst(reader, sample) ==
  IF reader.prefix # <<>> THEN reader.prefix
  ELSE (IF reader.track.codec = "hevc" THEN <<<<"vps", sample.desc>>>> ELSE <<>>)
       \o <<<<"sps", sample.desc>>, <<"pps", sample.desc>>>>

(* The parameter sets cached for the sample's description: remade whenever the *)
(* description is not the one they were made from.                             *)
PrefixOf(reader, sample) ==
  IF sample.desc = reader.desc THEN reader.prefix
  ELSE (IF reader.track.codec = "hevc" THEN <<<<"vps", sample.desc>>>> ELSE <<>>)
       \o <<<<"sps", sample.desc>>, <<"pps", sample.desc>>>>

(* The NAL units with start codes.  An AVC sample that does not begin with an  *)
(* access unit delimiter is given one; the parameter sets of a sync sample go  *)
(* behind the delimiter, or first when there is none.                          *)
AccessUnit(codec, prefix, sample) ==
  LET units == [i \in 1..Len(WholeUnits(sample.units)) |-> <<sample.units[i], 0>>]
      sets == IF sample.sync THEN prefix ELSE <<>>
      delimited == codec = "avc" /\ units[1][1] = "aud"
  IN IF units = <<>> THEN <<>>
     ELSE IF delimited THEN <<units[1]>> \o sets \o Tail(units)
     ELSE (IF codec = "avc" THEN <<<<"aud", 0>>>> ELSE <<>>) \o sets \o units

(* AAC samples get an ADTS header, AC-3 ones are taken as they are.            *)
AudioFrame(codec, sample) ==
  (IF codec = "mp4a" THEN <<<<"adts", 0>>>> ELSE <<>>)
  \o [i \in 1..Len(sample.units) |-> <<sample.units[i], 0>>]

(* The reader with the sample at its file position converted and queued.       *)
Convert(reader, sample) ==
  LET video == reader.track.kind = "video"
      prefix == PrefixOf(reader, sample)
      data == IF video THEN AccessUnit(reader.track.codec, prefix, sample)
                       ELSE AudioFrame(reader.track.codec, sample)
      queued == [n |-> reader.index, dts |-> sample.dts, data |-> data, freed |-> FALSE]
  IN [reader EXCEPT !.index = @ + 1, !.samples = Append(@, queued),
                    !.desc = IF video THEN sample.desc ELSE @,
                    !.prefix = IF video THEN prefix ELSE @]

(* GetSample: the reader afterwards; it has a sample to offer when its queue   *)
(* is not empty.  A sample without data or of a description that is not        *)
(* supported (desc 0) is skipped, and the call fails.                          *)
GetSample(reader) ==
  IF reader.samples # <<>> THEN reader
  ELSE IF reader.index > Len(reader.track.samples) THEN [reader EXCEPT !.eos = TRUE]
  ELSE LET sample == reader.track.samples[reader.index]
       IN IF sample.units = <<>> \/ sample.desc = 0
          THEN [reader EXCEPT !.index = @ + 1]
          ELSE Convert(reader, sample)

-----------------------------------------------------------------------------
(* Reading.                                                                    *)

Asked(reader) == reader.selected /\ ~reader.eos

(* The place of reader r in readSample's count, which only the readers that    *)
(* offered a sample advance.                                                   *)
Counted(offering, r) == Cardinality({i \in offering : i < r}) + 1

(* Mutant: a later sample of the same dts replaces an earlier one.             *)
EarliestOrLater(readers, offering) ==
  CHOOSE r \in offering : \A i \in offering :
    \/ readers[r].samples[1].dts < readers[i].samples[1].dts
    \/ readers[r].samples[1].dts = readers[i].samples[1].dts /\ i <= r

Earliest(readers, offering) ==
  CHOOSE r \in offering : \A i \in offering :
    \/ readers[r].samples[1].dts < readers[i].samples[1].dts
    \/ readers[r].samples[1].dts = readers[i].samples[1].dts /\ r <= i

(* A call in which every reader that offered nothing has ended, or is not      *)
(* selected, and stands behind those that did.                                 *)
KeepsStep(readers, offering) ==
  \A i \in 1..Len(readers) \ offering :
    /\ readers[i].eos \/ ~readers[i].selected
    /\ \A r \in offering : r < i

(* What was freed while queued is undefined to use: the caller stops there.    *)
Dangling == \E i \in 1..Len(demuxer.sample_readers_) :
              \E k \in 1..Len(demuxer.sample_readers_[i].samples) :
                demuxer.sample_readers_[i].samples[k].freed

HandedOut(index, queued) ==
  [reader |-> index, n |-> queued.n, dts |-> queued.dts, data |-> queued.data]

ReadMediaSample ==
  /\ demuxer.opened /\ ~Dangling
  /\ LET before == demuxer.sample_readers_
         Readers == 1..Len(before)
         readers == [i \in Readers |-> IF Asked(before[i]) THEN GetSample(before[i])
                                                           ELSE before[i]]
         offering == {i \in Readers : Asked(before[i]) /\ readers[i].samples # <<>>}
         index == Counted(offering, Earliest(readers, offering))
         last == CHOOSE r \in offering : \A i \in offering : i <= r
         inStep == played.inStep /\ KeepsStep(readers, offering)
     IN \/ /\ offering = {}
           /\ demuxer' = [demuxer EXCEPT !.sample_readers_ = readers, !.eos_ = TRUE]
           /\ played' = [played EXCEPT !.inStep = inStep, !.ended = TRUE]
        \/ /\ offering # {} /\ readers[index].samples # <<>>
           /\ demuxer' = [demuxer EXCEPT !.sample_readers_ =
                            [readers EXCEPT ![index].samples = Tail(@)]]
           /\ played' = [played EXCEPT !.inStep = inStep, !.samples =
                           Append(@, HandedOut(index, readers[index].samples[1]))]
        \/ /\ offering # {} /\ readers[index].samples = <<>>
           /\ demuxer' = [demuxer EXCEPT !.sample_readers_ =
                            [readers EXCEPT ![last].samples[1].freed = TRUE]]
           /\ played' = [played EXCEPT !.inStep = inStep]

-----------------------------------------------------------------------------
(* Moving.                                                                     *)

(* The number of the first sample a reader has not handed out; none is left of *)
(* one that has ended.                                                         *)
Position(reader) ==
  IF reader.samples # <<>> THEN reader.samples[1].n
  ELSE IF reader.eos THEN Len(reader.track.samples) + 1 ELSE reader.index

(* The sample that covers position ts, 0 when the track ends before it.        *)
SampleIndexFor(samples, ts) ==
  IF samples = <<>> \/ ts > samples[Len(samples)].dts THEN 0
  ELSE SelectLastInSeq(samples, LAMBDA s : s.dts <= ts)

(* OnSeek and the two Seek functions.  A fragmented track's reader keeps its   *)
(* queue; the linear reader behind it may refuse to move.                      *)
SeekReader(reader, ts, moved) ==
  LET found == SampleIndexFor(reader.track.samples, ts)
      last == Len(reader.track.samples) + 1
  IN IF reader.fragmented
     THEN [reader EXCEPT !.eos = FALSE,
             !.index = IF ~moved THEN @ ELSE IF found = 0 THEN last ELSE found]
     ELSE [reader EXCEPT !.eos = found = 0, !.samples = <<>>,
             !.index = IF found = 0 THEN @ ELSE found]

(* eos_ stays as it is.                                                        *)
SeekDemuxer(ts, moved) ==
  /\ demuxer.opened /\ demuxer.moves < MaxMoves /\ ~Dangling
  /\ LET before == demuxer.sample_readers_
         readers == [i \in 1..Len(before) |-> SeekReader(before[i], ts, moved)]
         From(i) == Position([readers[i] EXCEPT !.samples = <<>>])
     IN /\ demuxer' = [demuxer EXCEPT !.sample_readers_ = readers, !.moves = @ + 1]
        /\ played' = [samples |-> <<>>, from |-> [i \in 1..Len(before) |-> From(i)],
                      ended |-> FALSE,
                      inStep |-> \A i \in 1..Len(before) :
                                   before[i].fragmented => before[i].samples = <<>>]

(* selectTrack and unselectTrack: the first reader of the track.               *)
SelectTrack(id, selected) ==
  LET readers == demuxer.sample_readers_
      r == SelectInSeq(readers, LAMBDA x : x.track.id = id)
  IN /\ demuxer.opened /\ demuxer.moves < MaxMoves /\ ~Dangling
     /\ r # 0
     /\ demuxer' = [demuxer EXCEPT !.sample_readers_[r].selected = selected,
                                   !.moves = @ + 1]
     /\ played' = [samples |-> <<>>, ended |-> FALSE,
                   inStep |-> \A i \in 1..Len(readers) : readers[i].samples # <<>> =>
                                readers[i].samples[1].n = readers[i].index - 1,
                   from |-> [i \in 1..Len(readers) |-> Position(readers[i])]]

SeekPositions == {s.dts : s \in UNION {UNION {ToSet(t.samples) : t \in ToSet(f.tracks)}
                                         : f \in DemuxFiles}}

DemuxerNext ==
  \/ \E file \in DemuxFiles : OpenDemuxer(file)
  \/ ReadMediaSample
  \/ \E ts \in SeekPositions, moved \in BOOLEAN : SeekDemuxer(ts, moved)
  \/ \E id \in 1..2, selected \in BOOLEAN : SelectTrack(id, selected)

DemuxerSpec == DemuxerInit /\ [][DemuxerNext]_demuxerVars

-----------------------------------------------------------------------------
(* Properties.                                                                 *)

Readable(sample) == sample.units # <<>> /\ sample.desc # 0

(* Whether sample n of reader i is to be handed out: one of those a selected   *)
(* reader has from where it stood.                                             *)
Due(i, n) ==
  LET reader == demuxer.sample_readers_[i]
  IN reader.selected /\ played.from[i] <= n /\ Readable(reader.track.samples[n])

Samples(i) == 1..Len(demuxer.sample_readers_[i].track.samples)

DtsOf(i, n) == demuxer.sample_readers_[i].track.samples[n].dts

(* The order of the merge: by dts, then by reader, then as in the file.        *)
Before(x, y) ==
  \/ x.dts < y.dts
  \/ x.dts = y.dts /\ x.reader < y.reader
  \/ x.dts = y.dts /\ x.reader = y.reader /\ x.n < y.n

(* From the last seek or selection on, readSample hands out the merge of the   *)
(* selected tracks: every sample once, in the order of dts, none skipped, none *)
(* of before the seek and none that was freed; and once it has reported the    *)
(* end, all of them.  This is what readSample's index gives as long as every   *)
(* reader that offers nothing has ended and stands behind the others, and the  *)
(* readers of a fragmented file held no sample when they were moved.           *)
MergedInOrder ==
  LET out == played.samples
      HandedOver(i, n) == \E k \in 1..Len(out) : out[k].reader = i /\ out[k].n = n
  IN played.inStep =>
       /\ \A k \in 1..Len(out) :
            /\ out[k].reader \in 1..Len(demuxer.sample_readers_)
            /\ out[k].n \in Samples(out[k].reader) /\ Due(out[k].reader, out[k].n)
            /\ out[k].dts = DtsOf(out[k].reader, out[k].n)
       /\ \A k \in 1..Len(out) - 1 : Before(out[k], out[k + 1])
       /\ \A i \in 1..Len(demuxer.sample_readers_) : \A n \in Samples(i) :
            Due(i, n) /\ ~HandedOver(i, n) =>
              /\ ~played.ended
              /\ \A k \in 1..Len(out) : Before(out[k], [reader |-> i, n |-> n, dts |-> DtsOf(i, n)])
       /\ ~Dangling

(* A parameter set made from a sample description; the units of the file have  *)
(* number 0.                                                                   *)
IsParameterSet(token) == token[1] \in {"vps", "sps", "pps"} /\ token[2] # 0

(* A sync sample of a video track can be decoded alone: it carries the         *)
(* parameter sets of the description it refers to, once and before its first   *)
(* slice, although they are cached from an earlier sample; any other sample    *)
(* carries none; and every whole NAL unit of the file is in it, in order, with *)
(* nothing else but delimiters.                                                *)
KeySampleCarriesParameterSets ==
  \A k \in 1..Len(played.samples) :
    LET data == played.samples[k].data
        track == demuxer.sample_readers_[played.samples[k].reader].track
        sample == track.samples[played.samples[k].n]
        units == WholeUnits(sample.units)
        added == Len(data) - Len(units)
        sets == {i \in 1..Len(data) : IsParameterSet(data[i])}
    IN track.kind = "video" =>
         /\ \A i \in 1..added : data[i] = <<"aud", 0>> \/ i \in sets
         /\ \A i \in 1..Len(units) :
              \/ data[added + i] = <<units[i], 0>>
              \/ i = 1 /\ data[1] = <<units[1], 0>> /\ units[1] = "aud"
         /\ sample.sync /\ units # <<>> =>
              /\ \A kind \in {"sps", "pps"} : \E i \in sets : data[i] = <<kind, sample.desc>>
              /\ Cardinality(sets) = IF track.codec = "hevc" THEN 3 ELSE 2
              /\ \A i \in sets : \A j \in 1..Len(data) : data[j][1] \in {"idr", "slice"} => i < j
         /\ ~sample.sync => sets = {}
=============================================================================
