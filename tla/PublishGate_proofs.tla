-------------------------- MODULE PublishGate_proofs --------------------------
(* Proofs about PublishGate, for every stream, every way it is cut into blocks *)
(* and every cache size.                                                       *)
EXTENDS PublishGate, SequenceTheorems, TLAPS

-----------------------------------------------------------------------------
(* The inductive invariant.                                                    *)

(* The first message the handlers have not finished with, the replay aside.    *)
Here == IF next = 0 THEN cut + 1 ELSE next

Published ==
  /\ tracks # {} => published_ /\ named /\ tracks = coming
  /\ replaying # 0 => /\ tracks # {}
                      /\ next \in 1..Len(stream)
                      /\ stream[next].type \in MediaTypes
  /\ published_ /\ replaying = 0 /\ tracks # {} => cache = <<>>
  /\ ~published_ => video_count = Len(cache)
  /\ ~published_ /\ coming = {"video"} => Len(cache) <= HalfCache + 1
  /\ \A i \in 1..Len(cache) : stream[cache[i]].type \in MediaTypes

Announced ==
  /\ track_info_sent_ <=> forwarded # <<>>
  /\ track_info_sent_ => tracks # {} /\ Configured = tracks
  /\ \A i \in 1..Len(forwarded) : stream[forwarded[i]].type \in tracks

Place ==
  /\ next # 0 => next > cut
  /\ next = 0 /\ ~refused => cut = Len(stream)

Cached ==
  ~refused /\ (~published_ \/ replaying # 0) =>
    /\ Increasing(cache)
    /\ \A n \in 1..Len(stream) :
         InSeq(n, cache) <=> (n < Here /\ stream[n].type \in MediaTypes)

(* No configuration comes from a message that is still to be handled.          *)
NoneAhead == ~refused => \A kind \in MediaTypes : extradata[kind] < Done

(* A configuration that has found its track is used, or one before it.         *)
NoLaterThanFirst ==
  ~refused =>
    \A n \in 1..Len(stream) :
      n < Done /\ stream[n].content = "config" /\ stream[n].type \in tracks
        => extradata[stream[n].type] \in 1..n

IInv == /\ TypeOK /\ Published /\ Announced /\ Place
        /\ Cached /\ ForwardedInOrder /\ NoFrameLostAfterTracks
        /\ NoneAhead /\ NoLaterThanFirst

-----------------------------------------------------------------------------
(* What appending does to an increasing sequence.                              *)
LEMMA AppendIncreasing ==
  ASSUME NEW s \in Seq(Nat), NEW n \in Nat,
         Increasing(s), \A i \in 1..Len(s) : s[i] < n
  PROVE  /\ Increasing(Append(s, n))
         /\ \A k \in Nat : InSeq(k, Append(s, n)) <=> InSeq(k, s) \/ k = n
<1>1. /\ Len(Append(s, n)) = Len(s) + 1
      /\ \A i \in 1..Len(s) : Append(s, n)[i] = s[i]
      /\ Append(s, n)[Len(s) + 1] = n
  BY AppendProperties
<1>2. Len(s) \in Nat /\ \A i \in 1..Len(s) : s[i] \in Nat
  BY ElementOfSeq, LenProperties
<1>3. Increasing(Append(s, n))
  <2>. SUFFICES ASSUME NEW i \in 1..Len(s) + 1, NEW j \in 1..Len(s) + 1, i < j
                PROVE  Append(s, n)[i] < Append(s, n)[j]
    BY <1>1 DEF Increasing
  <2>1. i \in 1..Len(s) /\ (j = Len(s) + 1 \/ j \in 1..Len(s))
    BY <1>2
  <2>. QED  BY <2>1, <1>1 DEF Increasing
<1>4. ASSUME NEW k \in Nat, InSeq(k, Append(s, n))
      PROVE  InSeq(k, s) \/ k = n
  <2>1. PICK i \in 1..Len(s) + 1 : Append(s, n)[i] = k
    BY <1>1, <1>4 DEF InSeq
  <2>. QED  BY <2>1, <1>1, <1>2 DEF InSeq
<1>5. ASSUME NEW k \in Nat, InSeq(k, s) \/ k = n
      PROVE  InSeq(k, Append(s, n))
  <2>1. CASE k = n
    <3>1. Len(s) + 1 \in 1..Len(Append(s, n))
      BY <1>1, <1>2
    <3>. QED  BY <3>1, <2>1, <1>1 DEF InSeq
  <2>2. CASE InSeq(k, s)
    <3>1. PICK i \in 1..Len(s) : s[i] = k
      BY <2>2 DEF InSeq
    <3>2. i \in 1..Len(Append(s, n)) /\ Append(s, n)[i] = k
      BY <3>1, <1>1, <1>2
    <3>. QED  BY <3>2 DEF InSeq
  <2>. QED  BY <1>5, <2>1, <2>2
<1>. QED  BY <1>3, <1>4, <1>5

(* What handing a published message to its handler does.                       *)
LEMMA DeliverEffect ==
  ASSUME TypeOK, Announced, NEW n \in 1..Len(stream), Deliver(n)
  PROVE  /\ extradata' \in [MediaTypes -> 0..Len(stream)]
         /\ Configured' \subseteq tracks
         /\ track_info_sent_' \in BOOLEAN
         /\ forwarded' = forwarded \/ forwarded' = Append(forwarded, n)
         /\ forwarded' \in Seq(1..Len(stream))
         /\ track_info_sent_' <=> forwarded' # <<>>
         /\ track_info_sent_' => tracks # {} /\ Configured' = tracks
         /\ track_info_sent_ => track_info_sent_' /\ extradata' = extradata
         /\ \A i \in 1..Len(forwarded') : stream[forwarded'[i]].type \in tracks
         /\ stream[n].type \in tracks /\ stream[n].content = "frame" /\ forwarded' # <<>>
              => forwarded' = Append(forwarded, n)
<1>1. /\ forwarded \in Seq(1..Len(stream)) /\ tracks \subseteq coming
      /\ coming \subseteq MediaTypes
      /\ extradata \in [MediaTypes -> 0..Len(stream)]
      /\ Configured \subseteq tracks /\ track_info_sent_ \in BOOLEAN
  BY DEF TypeOK
<1>2. /\ Append(forwarded, n) \in Seq(1..Len(stream))
      /\ Append(forwarded, n) # <<>>
      /\ Len(Append(forwarded, n)) = Len(forwarded) + 1
      /\ \A i \in 1..Len(forwarded) : Append(forwarded, n)[i] = forwarded[i]
      /\ Append(forwarded, n)[Len(forwarded) + 1] = n
      /\ Len(forwarded) \in Nat
  <2>. DEFINE numbers == 1..Len(stream)
  <2>1. forwarded \in Seq(numbers) /\ n \in numbers
    BY <1>1
  <2>2. HIDE DEF numbers
  <2>. QED  BY ONLY <2>1, AppendProperties, LenProperties DEF numbers
<1>b. Len(stream) \in Nat /\ n \in 0..Len(stream)
  <2>. DEFINE size == Len(stream)
  <2>1. size \in Nat
    BY LenProperties DEF TypeOK
  <2>2. n \in 1..size
    OBVIOUS
  <2>3. HIDE DEF size
  <2>4. n \in 0..size
    BY ONLY <2>1, <2>2
  <2>. QED  BY <2>1, <2>4 DEF size
<1>u. extradata' = extradata => Configured' = Configured
  BY DEF Configured
<1>3. CASE Ignored(stream[n]) \/ Unusable(stream[n])
  <2>1. UNCHANGED trackVars
    BY <1>3 DEF Deliver
  <2>2. ~(stream[n].type \in tracks /\ stream[n].content = "frame")
    BY <1>3, <1>1 DEF Ignored, Unusable
  <2>. QED  BY <2>1, <2>2, <1>1, <1>u DEF trackVars, Announced
<1>4. CASE ~(Ignored(stream[n]) \/ Unusable(stream[n]))
  <2>1. stream[n].type \in tracks /\ stream[n].type \in MediaTypes
    BY <1>1, <1>4 DEF Ignored, Unusable
  <2>2. ConvertToSnyMediaSample(n)
    BY <1>4 DEF Deliver
  <2>3. CASE stream[n].content = "config" /\ stream[n].type \notin Configured
    <3>1. /\ extradata' = [extradata EXCEPT ![stream[n].type] = n]
          /\ track_info_sent_' = track_info_sent_ /\ forwarded' = forwarded
      BY <2>2, <2>3 DEF ConvertToSnyMediaSample, SetCodecExtradata
    <3>2. ~track_info_sent_
      BY <2>1, <2>3 DEF Announced
    <3>3. stream[n].content # "frame"
      BY <2>3
    <3>4. extradata' \in [MediaTypes -> 0..Len(stream)] /\ Configured' \subseteq tracks
      <4>1. extradata' \in [MediaTypes -> 0..Len(stream)]
        BY <3>1, <1>1, <1>b
      <4>2. \A kind \in MediaTypes : kind # stream[n].type => extradata'[kind] = extradata[kind]
        BY <3>1, <1>1
      <4>3. ASSUME NEW kind \in Configured' PROVE kind \in tracks
        <5>1. kind \in MediaTypes /\ extradata'[kind] # 0
          BY <4>3 DEF Configured
        <5>2. kind # stream[n].type => kind \in Configured
          BY <4>2, <5>1 DEF Configured
        <5>. QED  BY <1>1, <2>1, <5>2
      <4>. QED  BY <4>1, <4>3
    <3>. QED  BY <3>1, <3>2, <3>3, <3>4, <2>1, <1>1 DEF Announced
  <2>4. CASE ~(stream[n].content = "config" /\ stream[n].type \notin Configured)
    <3>1. SendFrame(n)
      BY <2>2, <2>4 DEF ConvertToSnyMediaSample
    <3>2. CASE track_info_sent_ \/ tracks \subseteq Configured
      <4>1. /\ track_info_sent_' = TRUE /\ forwarded' = Append(forwarded, n)
            /\ extradata' = extradata
        BY <3>1, <3>2 DEF SendFrame
      <4>2. tracks # {} /\ Configured = tracks
        BY <3>2, <2>1, <1>1 DEF Announced
      <4>3. \A i \in 1..Len(forwarded) + 1 : stream[Append(forwarded, n)[i]].type \in tracks
        BY <1>2, <2>1 DEF Announced
      <4>. QED  BY <4>1, <4>2, <4>3, <1>1, <1>2, <1>u
    <3>3. CASE ~(track_info_sent_ \/ tracks \subseteq Configured)
      <4>1. track_info_sent_' = FALSE /\ forwarded' = forwarded /\ extradata' = extradata
        BY <3>1, <3>3 DEF SendFrame
      <4>. QED  BY <4>1, <3>3, <1>1, <1>u DEF Announced
    <3>. QED  BY <3>2, <3>3
  <2>. QED  BY <2>3, <2>4
<1>. QED  BY <1>3, <1>4

(* Handing on the message d configures its track from d if it is the first     *)
(* configuration of the track, and from no other message.                      *)
LEMMA DeliverConfigures ==
  ASSUME TypeOK, NoneAhead, NoLaterThanFirst,
         NEW d \in 1..Len(stream), Deliver(d), ~refused, refused' = refused,
         stream' = stream, tracks' = tracks, Done = d, Done' \in Nat, d < Done',
         \A n \in 1..Len(stream) : d < n /\ n < Done' => stream[n].type \notin tracks
  PROVE  NoneAhead' /\ NoLaterThanFirst'
<1>1. /\ tracks \subseteq coming /\ coming \subseteq MediaTypes /\ Len(stream) \in Nat
      /\ extradata \in [MediaTypes -> 0..Len(stream)] /\ d \in Nat
  BY LenProperties DEF TypeOK
<1>2. /\ \A kind \in MediaTypes : extradata[kind] < d
      /\ \A n \in 1..Len(stream) :
           n < d /\ stream[n].content = "config" /\ stream[n].type \in tracks
             => extradata[stream[n].type] \in 1..n
  BY DEF NoneAhead, NoLaterThanFirst
<1>3. \/ extradata' = extradata
      \/ /\ stream[d].type \in MediaTypes /\ extradata[stream[d].type] = 0
         /\ extradata' = [extradata EXCEPT ![stream[d].type] = d]
  BY <1>1 DEF Deliver, Ignored, Unusable, ConvertToSnyMediaSample, SetCodecExtradata,
              SendFrame, Configured, trackVars
<1>4. stream[d].content = "config" /\ stream[d].type \in tracks
        => extradata'[stream[d].type] \in 1..d
  <2>. SUFFICES ASSUME stream[d].content = "config", stream[d].type \in tracks
                PROVE  extradata'[stream[d].type] \in 1..d
    OBVIOUS
  <2>1. ConvertToSnyMediaSample(d) /\ stream[d].type \in MediaTypes
    BY <1>1 DEF Deliver, Ignored, Unusable
  <2>2. CASE stream[d].type \in Configured
    <3>1. SendFrame(d)
      BY <2>1, <2>2 DEF ConvertToSnyMediaSample
    <3>2. extradata' = extradata /\ extradata[stream[d].type] # 0
      BY <2>2, <3>1 DEF SendFrame, Configured
    <3>3. extradata[stream[d].type] \in 0..Len(stream) /\ extradata[stream[d].type] < d
      BY <1>1, <1>2, <2>1
    <3>. QED  BY <3>2, <3>3, <1>1
  <2>3. CASE stream[d].type \notin Configured
    <3>1. extradata' = [extradata EXCEPT ![stream[d].type] = d]
      BY <2>1, <2>3 DEF ConvertToSnyMediaSample, SetCodecExtradata
    <3>2. extradata'[stream[d].type] = d
      BY <1>1, <2>1, <3>1
    <3>. QED  BY <3>2
  <2>. QED  BY <2>2, <2>3
<1>5. NoneAhead'
  <2>. SUFFICES ASSUME NEW kind \in MediaTypes PROVE extradata'[kind] < Done'
    BY DEF NoneAhead
  <2>1. extradata'[kind] = extradata[kind] \/ extradata'[kind] = d
    BY <1>1, <1>3
  <2>2. extradata[kind] \in Nat /\ extradata[kind] < d
    BY <1>1, <1>2
  <2>. QED  BY <2>1, <2>2, <1>1
<1>6. NoLaterThanFirst'
  <2>. SUFFICES ASSUME NEW n \in 1..Len(stream), n < Done',
                       stream[n].content = "config", stream[n].type \in tracks
                PROVE  extradata'[stream[n].type] \in 1..n
    BY DEF NoLaterThanFirst
  <2>1. n = d \/ n < d
    BY <1>1
  <2>2. CASE n < d
    <3>1. extradata[stream[n].type] \in 1..n /\ stream[n].type \in MediaTypes
      BY <2>2, <1>1, <1>2
    <3>2. extradata'[stream[n].type] = extradata[stream[n].type]
      BY <3>1, <1>1, <1>3
    <3>. QED  BY <3>1, <3>2
  <2>. QED  BY <2>1, <2>2, <1>4
<1>. QED  BY <1>5, <1>6

(* Handing on the message d keeps the order of what was forwarded, if the next *)
(* message to be handled is the next one of a kind that has a track.           *)
LEMMA DeliverKeepsOrder ==
  ASSUME IInv, NEW d \in 1..Len(stream), Deliver(d), ~refused, refused' = refused,
         stream' = stream, tracks' = tracks, Done = d, Done' \in Nat, d < Done',
         \A n \in 1..Len(stream) : d < n /\ n < Done' => stream[n].type \notin tracks
  PROVE  ForwardedInOrder' /\ NoFrameLostAfterTracks' /\ NoneAhead' /\ NoLaterThanFirst'
<1>1. /\ TypeOK /\ Announced /\ Increasing(forwarded)
      /\ \A i \in 1..Len(forwarded) : forwarded[i] < d
      /\ NoFrameLostAfterTracks
  BY DEF IInv, ForwardedInOrder
<1>2. /\ forwarded' = forwarded \/ forwarded' = Append(forwarded, d)
      /\ stream[d].type \in tracks /\ stream[d].content = "frame" /\ forwarded' # <<>>
           => forwarded' = Append(forwarded, d)
  BY <1>1, DeliverEffect
<1>3. /\ Len(stream) \in Nat /\ Len(forwarded) \in Nat /\ d \in Nat
      /\ forwarded \in Seq(Nat)
      /\ \A i \in 1..Len(forwarded) : forwarded[i] \in 1..Len(stream)
  <2>1. Len(stream) \in Nat /\ Len(forwarded) \in Nat
        /\ \A i \in 1..Len(forwarded) : forwarded[i] \in 1..Len(stream)
    BY <1>1, LenProperties, ElementOfSeq DEF TypeOK
  <2>2. forwarded \in Seq(Nat)
    BY <1>1, SeqMonotonic, 1..Len(stream) \subseteq Nat DEF TypeOK
  <2>. QED  BY <2>1, <2>2
<1>4. /\ Increasing(Append(forwarded, d))
      /\ \A k \in Nat : InSeq(k, Append(forwarded, d)) <=> InSeq(k, forwarded) \/ k = d
  BY <1>1, <1>3, AppendIncreasing
<1>5. /\ Len(Append(forwarded, d)) = Len(forwarded) + 1
      /\ \A i \in 1..Len(forwarded) : Append(forwarded, d)[i] = forwarded[i]
      /\ Append(forwarded, d)[Len(forwarded) + 1] = d
      /\ Append(forwarded, d) # <<>>
  <2>. DEFINE s == forwarded
  <2>1. s \in Seq(Nat) /\ d \in Nat /\ Len(s) \in Nat
    BY <1>3
  <2>. HIDE DEF s
  <2>2. /\ Len(Append(s, d)) = Len(s) + 1
        /\ \A i \in 1..Len(s) : Append(s, d)[i] = s[i]
        /\ Append(s, d)[Len(s) + 1] = d
        /\ Append(s, d) # <<>>
    BY <2>1, AppendProperties
  <2>. QED  BY <2>2 DEF s
<1>6. ForwardedInOrder'
  <2>1. Increasing(forwarded')
    BY <1>1, <1>2, <1>4
  <2>2. \A i \in 1..Len(forwarded') : forwarded'[i] < Done'
    <3>1. CASE forwarded' = forwarded
      BY <3>1, <1>1, <1>3
    <3>2. CASE forwarded' = Append(forwarded, d)
      <4>. SUFFICES ASSUME NEW i \in 1..Len(forwarded) + 1
                    PROVE  Append(forwarded, d)[i] < Done'
        BY <3>2, <1>5
      <4>1. i \in 1..Len(forwarded) \/ i = Len(forwarded) + 1
        BY <1>3
      <4>. QED  BY <4>1, <1>1, <1>3, <1>5
    <3>. QED  BY <3>1, <3>2, <1>2
  <2>. QED  BY <2>1, <2>2 DEF ForwardedInOrder, Increasing
<1>7. NoFrameLostAfterTracks'
  <2>. SUFFICES ASSUME forwarded' # <<>>, NEW n \in forwarded'[1]..Len(stream),
                       n < Done', stream[n].type \in tracks, stream[n].content = "frame"
                PROVE  InSeq(n, forwarded')
    BY DEF NoFrameLostAfterTracks, InSeq
  <2>1. forwarded # <<>> => Len(forwarded) >= 1 /\ forwarded'[1] = forwarded[1]
    <3>1. forwarded # <<>> => Len(forwarded) >= 1
      BY <1>3, EmptySeq
    <3>2. Len(forwarded) >= 1 => Append(forwarded, d)[1] = forwarded[1]
      BY <1>3, <1>5
    <3>. QED  BY <3>1, <3>2, <1>2
  <2>2. forwarded = <<>> => forwarded'[1] = d
    BY <1>2, <1>5, EmptySeq
  <2>3. n \in 1..Len(stream) /\ (forwarded = <<>> => n >= d)
    BY <2>1, <2>2, <1>3
  <2>4. n = d \/ n < d
    BY <2>3, <1>3
  <2>5. CASE n = d
    BY <2>5, <1>2, <1>3, <1>4
  <2>6. CASE n < d
    <3>1. InSeq(n, forwarded)
      BY <2>6, <2>3, <2>1, <1>1, <1>3 DEF NoFrameLostAfterTracks
    <3>2. InSeq(n, Append(forwarded, d))
      BY <3>1, <2>3, <1>3, <1>4
    <3>3. CASE forwarded' = forwarded
      BY <3>1, <3>3 DEF InSeq
    <3>4. CASE forwarded' = Append(forwarded, d)
      BY <3>2, <3>4 DEF InSeq
    <3>. QED  BY <3>3, <3>4, <1>2
  <2>. QED  BY <2>4, <2>5, <2>6
<1>8. NoneAhead' /\ NoLaterThanFirst'
  BY <1>1, DeliverConfigures DEF IInv
<1>. QED  BY <1>6, <1>7, <1>8

-----------------------------------------------------------------------------
LEMMA InitIInv == Init => IInv
<1>. SUFFICES ASSUME Init PROVE IInv
  OBVIOUS
<1>1. /\ \A S : <<>> \in Seq(S)
      /\ Len(<<>>) = 0
  BY EmptySeq
<1>2. TypeOK
  <2>1. /\ stream \in Seq(Messages) /\ cache \in Seq(1..Len(stream))
        /\ forwarded \in Seq(1..Len(stream))
    BY EmptySeq DEF Init
  <2>2. Len(stream) = 0 /\ Len(cache) = 0
    BY <1>1 DEF Init
  <2>3. /\ cut = 0 /\ next = 0 /\ replaying = 0 /\ video_count = 0 /\ audio_count = 0
        /\ coming = {} /\ tracks = {} /\ extradata \in [MediaTypes -> {0}]
    BY DEF Init
  <2>4. named \in BOOLEAN /\ published_ \in BOOLEAN /\ track_info_sent_ \in BOOLEAN
        /\ refused \in BOOLEAN
    BY DEF Init
  <2>5. Configured = {}
    BY <2>3 DEF Configured
  <2>. QED  BY <2>1, <2>2, <2>3, <2>4, <2>5 DEF TypeOK
<1>0. Announced /\ Place
  BY <1>1 DEF Init, Announced, Place
<1>3. Published
  BY <1>1, GateAssumption DEF Init, Published, GateAssumption, MediaTypes
<1>4. Cached /\ ForwardedInOrder /\ NoFrameLostAfterTracks
  BY <1>1 DEF Init, Cached, ForwardedInOrder, NoFrameLostAfterTracks, Increasing, InSeq
<1>5. NoneAhead /\ NoLaterThanFirst
  <2>1. Done = 1
    BY <1>1 DEF Init, Done
  <2>. QED  BY <2>1, <1>1 DEF Init, NoneAhead, NoLaterThanFirst
<1>. QED  BY <1>0, <1>2, <1>3, <1>4, <1>5 DEF IInv

LEMMA StepIInv == IInv /\ [Next]_vars => IInv'
<1>. SUFFICES ASSUME IInv, [Next]_vars PROVE IInv'
  OBVIOUS
<1>. USE GateAssumption DEF GateAssumption
<1>a. /\ TypeOK /\ Published /\ Announced /\ Place
      /\ Cached /\ ForwardedInOrder /\ NoFrameLostAfterTracks
      /\ NoneAhead /\ NoLaterThanFirst
  BY DEF IInv
<1>e. /\ extradata' = extradata => Configured' = Configured
      /\ extradata \in [MediaTypes -> 0..Len(stream)]
      /\ tracks = {} => \A kind \in MediaTypes : extradata[kind] = 0
  BY <1>a DEF Configured, TypeOK
<1>t. /\ Len(stream) \in Nat /\ cut \in Nat /\ next \in Nat /\ replaying \in Nat
      /\ Len(cache) \in Nat /\ Len(forwarded) \in Nat
      /\ \A i \in 1..Len(cache) : cache[i] \in 1..Len(stream)
      /\ \A i \in 1..Len(forwarded) : forwarded[i] \in 1..Len(stream)
  <2>1. Len(stream) \in Nat /\ Len(cache) \in Nat /\ Len(forwarded) \in Nat
    BY <1>a, LenProperties DEF TypeOK
  <2>2. /\ \A i \in 1..Len(cache) : cache[i] \in 1..Len(stream)
        /\ \A i \in 1..Len(forwarded) : forwarded[i] \in 1..Len(stream)
    BY <1>a, ElementOfSeq DEF TypeOK
  <2>. QED  BY <1>a, <2>1, <2>2 DEF TypeOK
<1>1. CASE AppendBlock
  <2>1. PICK block \in Blocks : stream' = stream \o block
    BY <1>1 DEF AppendBlock
  <2>2. block \in Seq(Messages)
    BY <2>1 DEF Blocks
  <2>3. /\ stream' \in Seq(Messages)
        /\ Len(stream') \in Nat /\ Len(stream) <= Len(stream')
        /\ \A i \in 1..Len(stream) : stream'[i] = stream[i]
    <3>1. stream \in Seq(Messages) /\ Len(block) \in Nat
      BY <2>2, <1>a, LenProperties DEF TypeOK
    <3>. QED  BY <3>1, <2>1, <2>2, ConcatProperties
  <2>4. /\ next = 0 /\ replaying = 0 /\ next' = cut + 1
        /\ UNCHANGED <<cut, refused, replaying, cache, video_count, audio_count, named, coming,
                       published_, tracks, extradata, track_info_sent_, forwarded>>
    BY <1>1, <1>a DEF AppendBlock, Published, cacheVars, publishVars, trackVars
  <2>5. cache \in Seq(1..Len(stream')) /\ forwarded \in Seq(1..Len(stream'))
    BY <1>a, <1>t, <2>3, SeqMonotonic, 1..Len(stream) \subseteq 1..Len(stream') DEF TypeOK
  <2>6. TypeOK'
    <3>1. extradata \in [MediaTypes -> 0..Len(stream')]
      BY <2>3, <1>e, <1>t
    <3>. QED  BY <2>3, <2>4, <2>5, <3>1, <1>a, <1>e, <1>t DEF TypeOK
  <2>7. Published' /\ Announced' /\ Place'
    BY <2>3, <2>4, <1>a, <1>e, <1>t DEF Published, Announced, Place
  <2>8. Cached'
    <3>. SUFFICES ASSUME ~refused, ~published_ PROVE Cached'
      BY <2>4 DEF Cached
    <3>1. /\ Increasing(cache)
          /\ \A n \in 1..Len(stream) :
               InSeq(n, cache) <=> (n < cut + 1 /\ stream[n].type \in MediaTypes)
          /\ cut = Len(stream)
      BY <2>4, <1>a DEF Cached, Here, Place
    <3>2. \A n \in 1..Len(stream') :
            InSeq(n, cache) <=> (n < cut + 1 /\ stream'[n].type \in MediaTypes)
      BY <3>1, <2>3, <1>t DEF InSeq
    <3>3. Here' = cut + 1
      BY <2>4, <1>t DEF Here
    <3>. QED  BY <3>1, <3>2, <3>3, <2>4 DEF Cached
  <2>9. ForwardedInOrder' /\ NoFrameLostAfterTracks' /\ NoneAhead' /\ NoLaterThanFirst'
    <3>1. Done = cut + 1 /\ Done' = cut + 1
      BY <2>4, <1>t DEF Done
    <3>2. ~refused => cut = Len(stream)
      BY <2>4, <1>a DEF Place
    <3>3. forwarded # <<>> => Len(forwarded) >= 1
      BY <1>a, <1>t, EmptySeq DEF TypeOK
    <3>4. NoFrameLostAfterTracks'
      BY <3>1, <3>2, <3>3, <2>3, <2>4, <1>a, <1>t DEF NoFrameLostAfterTracks
    <3>5. NoneAhead' /\ NoLaterThanFirst'
      BY <3>1, <3>2, <2>3, <2>4, <1>a, <1>t DEF NoneAhead, NoLaterThanFirst
    <3>6. ForwardedInOrder'
      BY <3>1, <2>4, <1>a DEF ForwardedInOrder
    <3>. QED  BY <3>4, <3>5, <3>6
  <2>. QED  BY <2>6, <2>7, <2>8, <2>9 DEF IInv
<1>2. CASE CallReturns
  <2>1. /\ next = Len(stream) + 1 /\ next' = 0 /\ cut' = Len(stream)
        /\ UNCHANGED <<stream, refused, replaying, cache, video_count, audio_count, named, coming,
                       published_, tracks, extradata, track_info_sent_, forwarded>>
    BY <1>2 DEF CallReturns, cacheVars, publishVars, trackVars
  <2>2. replaying = 0
    BY <2>1, <1>a, <1>t DEF Published
  <2>3. TypeOK'
    BY <2>1, <1>a, <1>e, <1>t DEF TypeOK
  <2>4. Published' /\ Announced' /\ Place'
    BY <2>1, <2>2, <1>a, <1>e, <1>t DEF Published, Announced, Place
  <2>5. Here' = Here /\ Done' = Done
    BY <2>1, <2>2, <1>t DEF Here, Done
  <2>. QED  BY <2>1, <2>3, <2>4, <2>5, <1>a
            DEF IInv, Cached, ForwardedInOrder, NoFrameLostAfterTracks, NoneAhead,
                NoLaterThanFirst
<1>3. CASE ReceiveCommand
  <2>1. /\ next \in 1..Len(stream) /\ replaying = 0 /\ stream[next].type = "command"
        /\ next' = next + 1 /\ named' \in BOOLEAN /\ (named => named')
        /\ UNCHANGED <<stream, cut, refused, replaying, cache, video_count, audio_count, coming,
                       published_, tracks, extradata, track_info_sent_, forwarded>>
    BY <1>3, <1>a DEF ReceiveCommand, Handles, Accept, cacheVars, trackVars, TypeOK
  <2>2. TypeOK'
    BY <2>1, <1>a, <1>e, <1>t DEF TypeOK
  <2>3. Published' /\ Announced' /\ Place'
    BY <2>1, <1>a, <1>e, <1>t DEF Published, Announced, Place
  <2>4. /\ Here = next /\ Here' = next + 1 /\ Done = next /\ Done' = next + 1
        /\ stream[next].type \notin MediaTypes /\ stream[next].type \notin tracks
    <3>1. Here = next /\ Here' = next + 1 /\ Done = next /\ Done' = next + 1
      BY <2>1, <1>t DEF Here, Done
    <3>2. "command" \notin MediaTypes /\ tracks \subseteq MediaTypes
      BY <1>a DEF MediaTypes, TypeOK
    <3>. QED  BY <3>1, <3>2, <2>1
  <2>5. Cached'
    BY <2>1, <2>4, <1>a, <1>t DEF Cached
  <2>6. ForwardedInOrder'
    BY <2>1, <2>4, <1>a, <1>t DEF ForwardedInOrder
  <2>7. NoFrameLostAfterTracks'
    <3>1. forwarded # <<>> => forwarded[1] \in Nat
      BY <1>a, <1>t, EmptySeq DEF TypeOK
    <3>. QED  BY <3>1, <2>1, <2>4, <1>a, <1>t DEF NoFrameLostAfterTracks
  <2>8. NoneAhead' /\ NoLaterThanFirst'
    BY <2>1, <2>4, <1>a, <1>e, <1>t DEF NoneAhead, NoLaterThanFirst
  <2>. QED  BY <2>2, <2>3, <2>5, <2>6, <2>7, <2>8 DEF IInv
<1>4. CASE SizeFail
  <2>1. /\ replaying = 0 /\ next' = 0 /\ refused' = TRUE
        /\ UNCHANGED <<stream, cut, replaying, cache, video_count, audio_count, named, coming,
                       published_, tracks, extradata, track_info_sent_, forwarded>>
    BY <1>4 DEF SizeFail, HandlesMedia, Handles, Refuse, cacheVars, publishVars, trackVars
  <2>2. TypeOK'
    BY <2>1, <1>a, <1>e, <1>t DEF TypeOK
  <2>3. Published' /\ Announced' /\ Place'
    BY <2>1, <1>a, <1>e, <1>t DEF Published, Announced, Place
  <2>. QED  BY <2>1, <2>2, <2>3 DEF IInv, Cached, ForwardedInOrder, NoFrameLostAfterTracks,
                                    NoneAhead, NoLaterThanFirst
<1>5. CASE CacheMessage
  <2>1. /\ next \in 1..Len(stream) /\ replaying = 0 /\ stream[next].type \in MediaTypes
        /\ ~published_ /\ ~CheckReadyToPublish(ComingWith(next))
        /\ coming' = ComingWith(next) /\ cache' = Append(cache, next)
        /\ video_count' = video_count + 1 /\ next' = next + 1
        /\ UNCHANGED <<stream, cut, refused, replaying, audio_count, named, published_,
                       tracks, extradata, track_info_sent_, forwarded>>
    BY <1>5 DEF CacheMessage, HandlesMedia, Handles, Accept, trackVars
  <2>2. /\ cache' \in Seq(1..Len(stream)) /\ Len(cache') = Len(cache) + 1
        /\ \A i \in 1..Len(cache) : cache'[i] = cache[i]
        /\ cache'[Len(cache) + 1] = next
    <3>1. cache \in Seq(1..Len(stream)) /\ next \in 1..Len(stream)
      BY <1>a, <2>1 DEF TypeOK
    <3>. QED  BY <3>1, <2>1, AppendProperties
  <2>3. coming' \subseteq MediaTypes /\ coming \subseteq coming'
    BY <2>1, <1>a DEF ComingWith, TypeOK
  <2>4. TypeOK'
    BY <2>1, <2>2, <2>3, <1>a, <1>e, <1>t DEF TypeOK
  <2>5. tracks = {} /\ ~track_info_sent_ /\ forwarded = <<>> /\ video_count = Len(cache)
    BY <2>1, <1>a DEF Published, Announced
  <2>6. Published'
    <3>1. coming' = {"video"} => video_count <= HalfCache
      BY <2>1, <1>a DEF CheckReadyToPublish, TypeOK
    <3>2. \A i \in 1..Len(cache') : stream[cache'[i]].type \in MediaTypes
      <4>. SUFFICES ASSUME NEW i \in 1..Len(cache) + 1
                    PROVE  stream[cache'[i]].type \in MediaTypes
        BY <2>2
      <4>1. i \in 1..Len(cache) \/ i = Len(cache) + 1
        BY <1>t
      <4>. QED  BY <4>1, <2>1, <2>2, <1>a DEF Published
    <3>. QED  BY <3>1, <3>2, <2>1, <2>2, <2>5, <1>t DEF Published
  <2>7. Announced' /\ Place'
    BY <2>1, <2>5, <1>a, <1>e, <1>t DEF Announced, Place
  <2>8. Cached'
    <3>. SUFFICES ASSUME ~refused
                  PROVE  /\ Increasing(cache')
                         /\ \A n \in 1..Len(stream) :
                              InSeq(n, cache') <=> (n < next + 1 /\ stream[n].type \in MediaTypes)
      <4>1. Here' = next + 1
        BY <2>1, <1>t DEF Here
      <4>. QED  BY <4>1, <2>1 DEF Cached, Increasing, InSeq
    <3>1. /\ Increasing(cache) /\ Here = next
          /\ \A n \in 1..Len(stream) :
               InSeq(n, cache) <=> (n < next /\ stream[n].type \in MediaTypes)
      BY <2>1, <1>a, <1>t DEF Cached, Here
    <3>2. \A i \in 1..Len(cache) : cache[i] < next
      BY <3>1, <1>t DEF InSeq
    <3>3. cache \in Seq(Nat) /\ next \in Nat
      BY <1>a, <1>t, SeqMonotonic, 1..Len(stream) \subseteq Nat DEF TypeOK
    <3>4. /\ Increasing(Append(cache, next))
          /\ \A k \in Nat : InSeq(k, Append(cache, next)) <=> InSeq(k, cache) \/ k = next
      BY <3>1, <3>2, <3>3, AppendIncreasing
    <3>5. Increasing(cache') /\ \A k \in Nat : InSeq(k, cache') <=> InSeq(k, cache) \/ k = next
      BY <3>4, <2>1
    <3>6. ASSUME NEW n \in 1..Len(stream)
          PROVE  InSeq(n, cache') <=> (n < next + 1 /\ stream[n].type \in MediaTypes)
      <4>1. InSeq(n, cache') <=> InSeq(n, cache) \/ n = next
        BY <3>5, <1>t
      <4>2. n < next + 1 <=> n < next \/ n = next
        BY <1>t
      <4>. QED  BY <4>1, <4>2, <3>1, <2>1
    <3>. QED  BY <3>5, <3>6
  <2>9. ForwardedInOrder' /\ NoFrameLostAfterTracks'
    BY <2>1, <2>5, EmptySeq DEF ForwardedInOrder, NoFrameLostAfterTracks, Increasing
  <2>10. NoneAhead' /\ NoLaterThanFirst'
    <3>1. Done' = next + 1
      BY <2>1, <1>t DEF Done
    <3>. QED  BY <3>1, <2>1, <2>5, <1>e, <1>t DEF NoneAhead, NoLaterThanFirst
  <2>. QED  BY <2>4, <2>6, <2>7, <2>8, <2>9, <2>10 DEF IInv
<1>6. CASE PublishStream
  <2>1. /\ next \in 1..Len(stream) /\ replaying = 0 /\ stream[next].type \in MediaTypes
        /\ ~published_ /\ published_' = TRUE /\ coming' = coming \cup {stream[next].type}
        /\ UNCHANGED <<stream, cut, cache, video_count, audio_count, named,
                       extradata, track_info_sent_, forwarded>>
    BY <1>6 DEF PublishStream, HandlesMedia, Handles, Refuse, inputVars, trackVars, ComingWith
  <2>2. \/ /\ named /\ tracks' = coming' /\ replaying' = 1 /\ UNCHANGED <<next, refused>>
        \/ /\ next' = 0 /\ refused' = TRUE /\ UNCHANGED <<tracks, replaying>>
    BY <1>6 DEF PublishStream, Refuse, inputVars
  <2>3. /\ tracks = {} /\ Configured = {} /\ ~track_info_sent_ /\ forwarded = <<>>
        /\ coming \subseteq MediaTypes
    BY <2>1, <1>a DEF Published, Announced, TypeOK
  <2>4. coming' \subseteq MediaTypes /\ stream[next].type \in coming'
    BY <2>1, <2>3
  <2>5. TypeOK'
    <3>1. /\ next' \in 0..Len(stream) + 1 /\ replaying' \in 0..Len(cache) + 1
          /\ tracks' \subseteq coming' /\ refused' \in BOOLEAN
      <4>1. refused \in BOOLEAN /\ next \in 0..Len(stream) + 1
        BY <1>a DEF TypeOK
      <4>2. CASE named /\ tracks' = coming' /\ replaying' = 1 /\ UNCHANGED <<next, refused>>
        BY <4>1, <4>2, <1>t
      <4>3. CASE next' = 0 /\ refused' = TRUE /\ UNCHANGED <<tracks, replaying>>
        BY <4>3, <2>1, <2>3, <1>t
      <4>. QED  BY <4>2, <4>3, <2>2
    <3>2. /\ stream \in Seq(Messages) /\ cut \in 0..Len(stream)
          /\ cache \in Seq(1..Len(stream)) /\ forwarded \in Seq(1..Len(stream))
          /\ video_count \in Nat /\ audio_count \in Nat /\ named \in BOOLEAN
          /\ track_info_sent_ \in BOOLEAN
      BY <1>a DEF TypeOK
    <3>. QED  BY <3>1, <3>2, <2>1, <2>3, <2>4, <1>e DEF TypeOK
  <2>6. Published' /\ Announced' /\ Place'
    <3>1. Published'
      <4>1. \A i \in 1..Len(cache) : stream[cache[i]].type \in MediaTypes
        BY <1>a DEF Published
      <4>2. /\ \A i \in 1..Len(cache') : stream'[cache'[i]].type \in MediaTypes
            /\ published_' = TRUE /\ named' = named
        BY <4>1, <2>1
      <4>3. CASE named /\ tracks' = coming' /\ replaying' = 1 /\ UNCHANGED <<next, refused>>
        BY <4>2, <4>3, <2>1, <2>4 DEF Published
      <4>4. CASE next' = 0 /\ refused' = TRUE /\ UNCHANGED <<tracks, replaying>>
        BY <4>2, <4>4, <2>1, <2>3 DEF Published
      <4>. QED  BY <4>3, <4>4, <2>2
    <3>2. Announced'
      <4>1. Len(forwarded) = 0 /\ forwarded' = <<>> /\ ~track_info_sent_'
        BY <2>1, <2>3, EmptySeq
      <4>. QED  BY <4>1, <2>1, <2>3 DEF Announced
    <3>3. Place'
      BY <2>1, <2>2, <1>a, <1>t DEF Place
    <3>. QED  BY <3>1, <3>2, <3>3
  <2>7. Cached'
    <3>1. CASE next' = 0 /\ refused' = TRUE
      BY <3>1 DEF Cached
    <3>2. CASE UNCHANGED <<next, refused>>
      <4>1. Here' = Here
        BY <3>2, <2>1 DEF Here
      <4>. QED  BY <4>1, <3>2, <2>1, <1>a DEF Cached
    <3>. QED  BY <3>1, <3>2, <2>2
  <2>8. ForwardedInOrder' /\ NoFrameLostAfterTracks'
    BY <2>1, <2>3, EmptySeq DEF ForwardedInOrder, NoFrameLostAfterTracks, Increasing
  <2>9. NoneAhead' /\ NoLaterThanFirst'
    <3>1. CASE refused'
      BY <3>1 DEF NoneAhead, NoLaterThanFirst
    <3>2. CASE ~refused'
      <4>1. /\ ~refused /\ next' = next /\ replaying' = 1 /\ tracks' = coming'
            /\ coming' \subseteq MediaTypes
        BY <3>2, <2>2, <2>4
      <4>2. /\ Increasing(cache) /\ Here = next
            /\ \A n \in 1..Len(stream) :
                 InSeq(n, cache) <=> (n < next /\ stream[n].type \in MediaTypes)
        BY <4>1, <2>1, <1>a, <1>t DEF Cached, Here
      <4>3. Done' \in Nat \ {0} /\ \A n \in 1..Len(stream) :
              n < Done' => stream[n].type \notin MediaTypes
        <5>1. CASE Len(cache) >= 1
          <6>1. Done' = cache[1] /\ 1 \in 1..Len(cache)
            BY <5>1, <4>1, <2>1, <1>t DEF Done
          <6>2. cache[1] < next
            BY <6>1, <4>2, <1>t DEF InSeq
          <6>3. ASSUME NEW n \in 1..Len(stream), n < cache[1], stream[n].type \in MediaTypes
                PROVE  FALSE
            <7>1. PICK j \in 1..Len(cache) : cache[j] = n
              BY <6>1, <6>2, <6>3, <4>2, <2>1, <1>t DEF InSeq
            <7>2. j = 1 \/ 1 < j
              BY <1>t
            <7>. QED  BY <7>1, <7>2, <6>1, <6>3, <4>2, <1>t DEF Increasing
          <6>. QED  BY <6>1, <6>3, <1>t
        <5>2. CASE ~(Len(cache) >= 1)
          <6>1. Done' = next
            BY <5>2, <4>1, <2>1, <1>t DEF Done
          <6>. QED  BY <6>1, <5>2, <4>2, <2>1, <1>t DEF InSeq
        <5>. QED  BY <5>1, <5>2
      <4>. QED  BY <4>1, <4>3, <2>1, <2>3, <1>e, <1>t DEF NoneAhead, NoLaterThanFirst
    <3>. QED  BY <3>1, <3>2
  <2>. QED  BY <2>5, <2>6, <2>7, <2>8, <2>9 DEF IInv
<1>7. CASE DeliverMessage
  <2>1. /\ next \in 1..Len(stream) /\ replaying = 0 /\ published_ /\ Deliver(next)
        /\ UNCHANGED <<stream, cut, replaying, cache, video_count, audio_count, named, coming,
                       published_, tracks>>
        /\ \/ next' = 0 /\ refused' = TRUE
           \/ next' = next + 1 /\ refused' = refused
    <3>1. /\ next \in 1..Len(stream) /\ replaying = 0 /\ published_ /\ Deliver(next)
          /\ UNCHANGED <<cacheVars, publishVars>>
      BY <1>7 DEF DeliverMessage, HandlesMedia, Handles
    <3>2. Refuse \/ Accept
      BY <1>7 DEF DeliverMessage
    <3>. QED  BY <3>1, <3>2 DEF Refuse, Accept, cacheVars, publishVars
  <2>2. /\ extradata' \in [MediaTypes -> 0..Len(stream)] /\ Configured' \subseteq tracks
        /\ track_info_sent_' \in BOOLEAN /\ forwarded' \in Seq(1..Len(stream))
        /\ track_info_sent_' <=> forwarded' # <<>>
        /\ track_info_sent_' => tracks # {} /\ Configured' = tracks
        /\ \A i \in 1..Len(forwarded') : stream[forwarded'[i]].type \in tracks
    BY <2>1, <1>a, DeliverEffect
  <2>3. TypeOK'
    <3>0. next' \in 0..Len(stream) + 1
      BY <2>1, <1>t
    <3>1. refused' \in BOOLEAN
      BY <2>1, <1>a DEF TypeOK
    <3>. QED  BY <3>0, <3>1, <2>1, <2>2, <1>a DEF TypeOK
  <2>4. Published'
    BY <2>1, <1>a DEF Published
  <2>5. Announced' /\ Cached'
    BY <2>1, <2>2 DEF Announced, Cached
  <2>6. Place'
    BY <2>1, <1>a, <1>t DEF Place
  <2>7. ForwardedInOrder' /\ NoFrameLostAfterTracks' /\ NoneAhead' /\ NoLaterThanFirst'
    <3>1. CASE refused'
      BY <3>1 DEF ForwardedInOrder, NoFrameLostAfterTracks, NoneAhead, NoLaterThanFirst
    <3>2. CASE ~refused'
      <4>1. ~refused /\ refused' = refused /\ next' = next + 1
        BY <3>2, <2>1
      <4>2. Done = next /\ Done' = next + 1
        BY <4>1, <2>1, <1>t DEF Done
      <4>3. \A n \in 1..Len(stream) : next < n /\ n < next + 1 => stream[n].type \notin tracks
        BY <1>t
      <4>. QED  BY <4>1, <4>2, <4>3, <2>1, <1>t, DeliverKeepsOrder
    <3>. QED  BY <3>1, <3>2
  <2>. QED  BY <2>3, <2>4, <2>5, <2>6, <2>7 DEF IInv
<1>8. CASE Replay
  <2>1. /\ replaying \in 1..Len(cache) /\ Deliver(cache[replaying])
        /\ replaying' = replaying + 1
        /\ UNCHANGED <<stream, cut, next, refused, cache, video_count, audio_count, named,
                       coming, published_, tracks>>
    BY <1>8 DEF Replay, inputVars, publishVars
  <2>2. /\ cache[replaying] \in 1..Len(stream) /\ tracks # {} /\ next \in 1..Len(stream)
        /\ tracks \subseteq MediaTypes
    BY <2>1, <1>a, <1>t DEF Published, TypeOK
  <2>3. /\ extradata' \in [MediaTypes -> 0..Len(stream)] /\ Configured' \subseteq tracks
        /\ track_info_sent_' \in BOOLEAN /\ forwarded' \in Seq(1..Len(stream))
        /\ track_info_sent_' <=> forwarded' # <<>>
        /\ track_info_sent_' => tracks # {} /\ Configured' = tracks
        /\ \A i \in 1..Len(forwarded') : stream[forwarded'[i]].type \in tracks
    BY <2>1, <2>2, <1>a, DeliverEffect
  <2>4. TypeOK'
    <3>1. replaying' \in 0..Len(cache) + 1
      BY <2>1, <1>t
    <3>. QED  BY <3>1, <2>1, <2>3, <1>a DEF TypeOK
  <2>5. Published'
    BY <2>1, <2>2, <1>a, <1>t DEF Published
  <2>6. Announced' /\ Place'
    BY <2>1, <2>3, <1>a DEF Announced, Place
  <2>7. Cached'
    <3>1. Here' = Here
      BY <2>1 DEF Here
    <3>. QED  BY <3>1, <2>1, <1>a, <1>t DEF Cached
  <2>8. ForwardedInOrder' /\ NoFrameLostAfterTracks' /\ NoneAhead' /\ NoLaterThanFirst'
    <3>1. CASE refused
      BY <3>1, <2>1
         DEF ForwardedInOrder, NoFrameLostAfterTracks, NoneAhead, NoLaterThanFirst
    <3>2. CASE ~refused
      <4>1. /\ Increasing(cache) /\ Here = next
            /\ \A n \in 1..Len(stream) :
                 InSeq(n, cache) <=> (n < next /\ stream[n].type \in MediaTypes)
        BY <3>2, <2>1, <2>2, <1>a, <1>t DEF Cached, Here
      <4>2. \A i \in 1..Len(cache) : cache[i] < next
        BY <4>1, <1>t DEF InSeq
      <4>3. Done = cache[replaying]
        BY <2>1 DEF Done
      <4>4. /\ Done' \in Nat /\ cache[replaying] < Done'
            /\ \A n \in 1..Len(stream) :
                 cache[replaying] < n /\ n < Done' => stream[n].type \notin tracks
        <5>1. CASE replaying = Len(cache)
          <6>1. Done' = next
            BY <5>1, <2>1, <2>2, <1>t DEF Done
          <6>2. ASSUME NEW n \in 1..Len(stream), cache[replaying] < n, n < next,
                       stream[n].type \in tracks
                PROVE  FALSE
            <7>1. PICK j \in 1..Len(cache) : cache[j] = n
              BY <6>2, <4>1, <2>2 DEF InSeq
            <7>2. j = replaying \/ j < replaying
              BY <5>1, <1>t
            <7>. QED  BY <7>1, <7>2, <6>2, <4>1, <2>1, <1>t DEF Increasing
          <6>. QED  BY <6>1, <6>2, <4>2, <2>1, <2>2, <1>t
        <5>2. CASE replaying < Len(cache)
          <6>1. Done' = cache[replaying + 1] /\ replaying + 1 \in 1..Len(cache)
            BY <5>2, <2>1, <1>t DEF Done
          <6>2. ASSUME NEW n \in 1..Len(stream), cache[replaying] < n,
                       n < cache[replaying + 1], stream[n].type \in tracks
                PROVE  FALSE
            <7>0. cache[replaying + 1] \in Nat /\ cache[replaying + 1] < next
              BY <6>1, <4>2, <1>t
            <7>1. PICK j \in 1..Len(cache) : cache[j] = n
              BY <7>0, <6>2, <4>1, <2>2, <1>t DEF InSeq
            <7>2. j = replaying \/ j < replaying \/ j = replaying + 1 \/ j > replaying + 1
              BY <1>t
            <7>. QED  BY <7>1, <7>2, <6>1, <6>2, <4>1, <2>1, <1>t DEF Increasing
          <6>3. cache[replaying] < cache[replaying + 1]
            BY <6>1, <4>1, <2>1, <1>t DEF Increasing
          <6>4. cache[replaying + 1] \in Nat
            BY <6>1, <1>t
          <6>. QED  BY <6>1, <6>2, <6>3, <6>4
        <5>. QED  BY <5>1, <5>2, <2>1, <1>t
      <4>. QED  BY <4>3, <4>4, <3>2, <2>1, <2>2, DeliverKeepsOrder
    <3>. QED  BY <3>1, <3>2
  <2>. QED  BY <2>4, <2>5, <2>6, <2>7, <2>8 DEF IInv
<1>9. CASE ReplayDone
  <2>1. /\ replaying = Len(cache) + 1 /\ cache' = <<>> /\ replaying' = 0
        /\ UNCHANGED <<stream, cut, next, refused, video_count, audio_count, named, coming,
                       published_, tracks, extradata, track_info_sent_, forwarded>>
    BY <1>9 DEF ReplayDone, inputVars, publishVars, trackVars
  <2>2. tracks # {} /\ next \in 1..Len(stream) /\ published_ /\ Len(cache') = 0
        /\ cache' \in Seq(1..Len(stream))
    BY <2>1, <1>a, <1>t, EmptySeq DEF Published
  <2>3. TypeOK'
    BY <2>1, <2>2, <1>a, <1>e DEF TypeOK
  <2>4. Published'
    BY <2>1, <2>2, <1>a DEF Published
  <2>5. Announced' /\ Place' /\ Cached'
    BY <2>1, <2>2, <1>a, <1>e DEF Announced, Place, Cached
  <2>6. Done = next /\ Done' = next
    BY <2>1, <2>2, <1>t DEF Done
  <2>7. ForwardedInOrder' /\ NoFrameLostAfterTracks'
    BY <2>1, <2>6, <1>a DEF ForwardedInOrder, NoFrameLostAfterTracks, Increasing, InSeq
  <2>8. NoneAhead' /\ NoLaterThanFirst'
    BY <2>1, <2>6, <1>a DEF NoneAhead, NoLaterThanFirst
  <2>. QED  BY <2>3, <2>4, <2>5, <2>7, <2>8 DEF IInv
<1>10. CASE UNCHANGED vars
  <2>1. UNCHANGED <<stream, cut, next, refused, replaying, cache, video_count, audio_count, named,
                    coming, published_, tracks, extradata, track_info_sent_, forwarded>>
    BY <1>10 DEF vars, inputVars, cacheVars, publishVars, trackVars
  <2>2. Here' = Here /\ Done' = Done
    BY <2>1 DEF Here, Done
  <2>3. TypeOK' /\ Published' /\ Announced' /\ Place'
    BY <2>1, <1>a, <1>e DEF TypeOK, Published, Announced, Place
  <2>4. Cached' /\ ForwardedInOrder' /\ NoFrameLostAfterTracks'
    BY <2>1, <2>2, <1>a DEF Cached, ForwardedInOrder, NoFrameLostAfterTracks, Increasing, InSeq
  <2>5. NoneAhead' /\ NoLaterThanFirst'
    BY <2>1, <2>2, <1>a DEF NoneAhead, NoLaterThanFirst
  <2>. QED  BY <2>3, <2>4, <2>5 DEF IInv
<1>. QED  BY <1>1, <1>2, <1>3, <1>4, <1>5, <1>6, <1>7, <1>8, <1>9, <1>10
          DEF Next, ParserStep, Finished
-----------------------------------------------------------------------------
(* The invariant holds in every reachable state.                               *)
LEMMA GateInvariant == Spec => []IInv
<1>1. Init => IInv
  BY InitIInv
<1>2. IInv /\ [Next]_vars => IInv'
  BY StepIInv
<1>. QED  BY <1>1, <1>2, PTL DEF Spec

(* Every state of a connection's publishing is well typed.                     *)
THEOREM TypeCorrect == Spec => []TypeOK
<1>1. IInv => TypeOK
  BY DEF IInv
<1>. QED  BY <1>1, GateInvariant, PTL

(* RtmpStream never calls onSample before onTrack, and never for a track it    *)
(* did not announce.                                                           *)
THEOREM TracksComeFirst == Spec => []TracksBeforeSamples
<1>1. IInv => TracksBeforeSamples
  BY DEF IInv, Published, Announced, TracksBeforeSamples
<1>. QED  BY <1>1, GateInvariant, PTL

(* SendFrame never reorders or repeats, the replay of the cache included.      *)
THEOREM SamplesLeaveInOrder == Spec => []ForwardedInOrder
<1>1. IInv => ForwardedInOrder
  BY DEF IInv
<1>. QED  BY <1>1, GateInvariant, PTL

(* After the first sample no frame of an announced track is dropped.           *)
THEOREM NoFrameIsLost == Spec => []NoFrameLostAfterTracks
<1>1. IInv => NoFrameLostAfterTracks
  BY DEF IInv
<1>. QED  BY <1>1, GateInvariant, PTL

(* What PublishStream replays is the stream as it came.                        *)
THEOREM CacheIsTheStream == Spec => []CacheHoldsTheStream
<1>1. ASSUME IInv PROVE CacheHoldsTheStream
  <2>1. TypeOK /\ Published /\ Cached
    BY <1>1 DEF IInv
  <2>2. ~published_ => Here = Done
    BY <2>1 DEF Here, Done, Published
  <2>. QED  BY <2>1, <2>2 DEF CacheHoldsTheStream, Published, Cached
<1>. QED  BY <1>1, GateInvariant, PTL

(* A track is configured from configurations of its kind only.                 *)
OwnConfigs == \A kind \in MediaTypes : extradata[kind] # 0 => extradata[kind] \in ConfigsOf(kind)

LEMMA ConfigsAreOwn == Spec => []OwnConfigs
<1>1. Init => OwnConfigs
  BY DEF Init, OwnConfigs
<1>2. ASSUME IInv, OwnConfigs, [Next]_vars PROVE OwnConfigs'
  <2>1. /\ stream \in Seq(Messages) /\ Len(stream) \in Nat
        /\ extradata \in [MediaTypes -> 0..Len(stream)]
        /\ cache \in Seq(1..Len(stream))
    BY <1>2, LenProperties DEF IInv, TypeOK
  <2>2. ASSUME NEW d \in 1..Len(stream), stream[d].type \in MediaTypes, Deliver(d),
               stream' = stream
        PROVE  OwnConfigs'
    <3>1. \/ extradata' = extradata
          \/ /\ extradata' = [extradata EXCEPT ![stream[d].type] = d]
             /\ stream[d].content = "config"
      BY <2>2 DEF Deliver, ConvertToSnyMediaSample, SetCodecExtradata, SendFrame, trackVars
    <3>2. ASSUME NEW kind \in MediaTypes, extradata'[kind] # 0
          PROVE  extradata'[kind] \in ConfigsOf(kind)
      <4>1. \/ extradata'[kind] = extradata[kind]
            \/ extradata'[kind] = d /\ kind = stream[d].type /\ stream[d].content = "config"
        BY <3>1, <2>1
      <4>. QED  BY <4>1, <3>2, <1>2, <2>2 DEF OwnConfigs, ConfigsOf
    <3>. QED  BY <3>2, <2>2 DEF OwnConfigs, ConfigsOf
  <2>3. CASE AppendBlock
    <3>1. PICK block \in Blocks : stream' = stream \o block
      BY <2>3 DEF AppendBlock
    <3>2. block \in Seq(Messages) /\ Len(block) \in Nat
      <4>1. block \in Seq(Messages)
        BY <3>1, GateAssumption DEF Blocks, GateAssumption
      <4>. QED  BY <4>1, LenProperties
    <3>3. /\ Len(stream') \in Nat /\ Len(stream) <= Len(stream')
          /\ \A i \in 1..Len(stream) : stream'[i] = stream[i]
      BY <3>1, <3>2, <2>1, ConcatProperties
    <3>4. extradata' = extradata
      BY <2>3 DEF AppendBlock, trackVars
    <3>. QED  BY <3>3, <3>4, <2>1, <1>2 DEF OwnConfigs, ConfigsOf
  <2>4. CASE \/ CallReturns \/ ReceiveCommand \/ SizeFail \/ CacheMessage \/ PublishStream
             \/ ReplayDone \/ UNCHANGED vars
    <3>1. stream' = stream /\ extradata' = extradata
      BY <2>4 DEF CallReturns, ReceiveCommand, SizeFail, CacheMessage, PublishStream,
                  ReplayDone, Accept, Refuse, vars, inputVars, trackVars
    <3>. QED  BY <3>1, <1>2 DEF OwnConfigs, ConfigsOf
  <2>5. CASE DeliverMessage
    <3>1. next \in 1..Len(stream) /\ stream[next].type \in MediaTypes /\ Deliver(next)
          /\ stream' = stream
      BY <2>5 DEF DeliverMessage, HandlesMedia, Handles, Accept, Refuse
    <3>. QED  BY <3>1, <2>2
  <2>6. CASE Replay
    <3>1. /\ replaying \in 1..Len(cache) /\ Deliver(cache[replaying]) /\ stream' = stream
          /\ cache[replaying] \in 1..Len(stream)
      BY <2>6, <2>1, ElementOfSeq DEF Replay, inputVars
    <3>2. stream[cache[replaying]].type \in MediaTypes
      BY <3>1, <1>2 DEF IInv, Published
    <3>. QED  BY <3>1, <3>2, <2>2
  <2>. QED  BY <1>2, <2>3, <2>4, <2>5, <2>6 DEF Next, ParserStep, Finished
<1>. QED  BY <1>1, <1>2, GateInvariant, PTL DEF Spec

(* ConvertToSnyMediaSample takes the first configuration of a track, in the    *)
(* order of the stream, whether it came live or through the replay.            *)
THEOREM FirstConfigurationCounts == Spec => []ConfiguredByTheFirst
<1>1. ASSUME IInv, OwnConfigs PROVE ConfiguredByTheFirst
  <2>. SUFFICES ASSUME ~refused, NEW kind \in tracks, NEW n \in ConfigsOf(kind), n < Done
                PROVE  extradata[kind] \in ConfigsOf(kind) /\ extradata[kind] <= n
    BY DEF ConfiguredByTheFirst
  <2>1. kind \in MediaTypes
    BY <1>1 DEF IInv, TypeOK
  <2>2. extradata[kind] \in 1..n /\ n \in Nat
    BY <1>1 DEF IInv, NoLaterThanFirst, ConfigsOf
  <2>. QED  BY <2>1, <2>2, <1>1 DEF OwnConfigs
<1>. QED  BY <1>1, GateInvariant, ConfigsAreOwn, PTL

(* Once onTrack has been called nothing changes the tracks it was called with, *)
(* and no later configuration takes the place of the one a track has.          *)
THEOREM TracksStayFinal == Spec => AnnouncedTracksAreFinal
<1>1. ASSUME IInv, [Next]_vars, track_info_sent_
      PROVE  track_info_sent_' /\ UNCHANGED <<tracks, extradata>>
  <2>1. TypeOK /\ Published /\ Announced
    BY <1>1 DEF IInv
  <2>2. tracks # {} /\ published_
    BY <1>1, <2>1 DEF Published, Announced
  <2>3. CASE AppendBlock \/ CallReturns \/ ReceiveCommand \/ SizeFail \/ CacheMessage
             \/ ReplayDone \/ UNCHANGED vars
    BY <2>3, <1>1 DEF AppendBlock, CallReturns, ReceiveCommand, SizeFail, CacheMessage,
                      ReplayDone, vars, publishVars, trackVars
  <2>4. CASE PublishStream
    BY <2>4, <2>2 DEF PublishStream
  <2>5. CASE DeliverMessage
    <3>1. next \in 1..Len(stream) /\ Deliver(next) /\ tracks' = tracks
      BY <2>5 DEF DeliverMessage, HandlesMedia, Handles, publishVars
    <3>. QED  BY <3>1, <2>1, <1>1, DeliverEffect
  <2>6. CASE Replay
    <3>1. replaying \in 1..Len(cache) /\ Deliver(cache[replaying]) /\ tracks' = tracks
      BY <2>6 DEF Replay, publishVars
    <3>2. cache[replaying] \in 1..Len(stream)
      BY <3>1, <2>1, ElementOfSeq DEF TypeOK
    <3>. QED  BY <3>1, <3>2, <2>1, <1>1, DeliverEffect
  <2>. QED  BY <1>1, <2>3, <2>4, <2>5, <2>6 DEF Next, ParserStep, Finished
<1>. QED  BY <1>1, GateInvariant, PTL DEF Spec, AnnouncedTracksAreFinal
=============================================================================
