---------------------------- MODULE FanOut_proofs ----------------------------
(* Proofs about the two components that implement InOrderFanOut: RtmpIngest,    *)
(* for every number of blocks and units and every set of awaited units, and     *)
(* MultiPublish, for every number of publishers and samples.                    *)
EXTENDS RtmpIngest, MultiPublish, RunLemmas, TLAPS

-----------------------------------------------------------------------------
(* RtmpIngest.                                                                *)

(* The inductive invariant.  NoBlockLost is not inductive: which blocks are in *)
(* the parse thread's hand depends on where it is, and whether the queue still *)
(* exists on how far the reactor has got with closing the connection.          *)

BlocksInOrder ==
  /\ taken <= received
  /\ incomming_data_ = [i \in 1..received - taken |-> taken + i]

InHand ==
  /\ (raw_data # 0) = (parser = "append")
  /\ raw_data # 0 => raw_data = remained + 1

Lifetime ==
  /\ conn = "none" => /\ parser = "none" /\ reactor = "idle"
                      /\ received = 0 /\ remained = 0 /\ incomming_data_ = <<>>
                      /\ consumed = 0
  /\ conn = "freed" => parser = "exited" /\ reactor = "idle"
  /\ conn = "open" => reactor \in {"idle", "notify_data"}
  /\ conn = "closing" => reactor \in {"notify_stop", "join"}
  /\ parser = "none" => conn = "none"

IInv ==
  /\ TypeOK
  /\ conn # "freed" => BlocksInOrder
  /\ InHand
  /\ Lifetime
  /\ ParsedWasReceived
  /\ NothingLeftUnparsed

-----------------------------------------------------------------------------
LEMMA InitIInv == Init => IInv
<1>. SUFFICES ASSUME Init PROVE IInv
  OBVIOUS
<1>. USE IngestAssumption DEF IngestAssumption
<1>1. TypeOK
  BY DEF Init, TypeOK
<1>2. BlocksInOrder
  BY EmptyRun DEF Init, BlocksInOrder, taken
<1>3. InHand /\ Lifetime /\ ParsedWasReceived
  BY DEF Init, InHand, Lifetime, ParsedWasReceived
<1>4. NothingLeftUnparsed
  BY DEF Init, NothingLeftUnparsed, Arrived
<1>. QED  BY <1>1, <1>2, <1>3, <1>4 DEF IInv

LEMMA StepIInv == IInv /\ [Next]_vars => IInv'
<1>. SUFFICES ASSUME IInv, [Next]_vars PROVE IInv'
  OBVIOUS
<1>. USE IngestAssumption DEF IngestAssumption
<1>a. TypeOK /\ InHand /\ Lifetime /\ ParsedWasReceived /\ NothingLeftUnparsed
      /\ (conn # "freed" => BlocksInOrder)
  BY DEF IInv
<1>f. /\ unit_end \in [1..NUnits -> 1..MaxBlocks]
      /\ received \in Nat /\ remained \in Nat /\ raw_data \in Nat /\ consumed \in Nat
  BY <1>a DEF TypeOK, UnitEnds
<1>1. CASE NewConnect
  <2>1. BlocksInOrder'
    BY <1>1, <1>a DEF NewConnect, BlocksInOrder, taken, queueVars, parseVars
  <2>2. TypeOK' /\ InHand' /\ Lifetime' /\ ParsedWasReceived'
    BY <1>1, <1>a DEF NewConnect, TypeOK, InHand, Lifetime, ParsedWasReceived,
       queueVars, parseVars, streamVars
  <2>3. NothingLeftUnparsed'
    BY <1>1, <1>a, <1>f DEF NewConnect, NothingLeftUnparsed, Lifetime, Arrived,
       queueVars, parseVars, streamVars
  <2>. QED  BY <2>1, <2>2, <2>3 DEF IInv
<1>2. CASE OnDataReceived
  <2>1. BlocksInOrder /\ conn' # "freed"
    BY <1>2, <1>a DEF OnDataReceived
  <2>2. TypeOK'
    BY <1>2, <1>a DEF OnDataReceived, TypeOK, parseVars, streamVars
  <2>3. taken \in Nat /\ taken' = taken
    BY <1>2, <1>f DEF OnDataReceived, taken, parseVars
  <2>4. BlocksInOrder'
    BY <1>2, <2>1, <2>3, <1>f, PushKeepsRun DEF OnDataReceived, BlocksInOrder
  <2>. QED
    BY <1>2, <1>a, <2>2, <2>4 DEF OnDataReceived, IInv, InHand, Lifetime,
       ParsedWasReceived, NothingLeftUnparsed, Arrived, parseVars, streamVars
<1>3. CASE NotifyData
  BY <1>3, <1>a DEF NotifyData, NotifyAll, IInv, TypeOK, BlocksInOrder, taken, InHand,
     Lifetime, ParsedWasReceived, NothingLeftUnparsed, Arrived, queueVars, parseVars, streamVars
<1>4. ASSUME NEW by \in {"peer", "timer"}, CloseStopAll(by) PROVE IInv'
  BY <1>4, <1>a DEF CloseStopAll, IInv, TypeOK, BlocksInOrder, taken, InHand,
     Lifetime, ParsedWasReceived, NothingLeftUnparsed, Arrived, queueVars, parseVars, streamVars
<1>5. CASE CloseNotify
  BY <1>5, <1>a DEF CloseNotify, NotifyAll, IInv, TypeOK, BlocksInOrder, taken, InHand,
     Lifetime, ParsedWasReceived, NothingLeftUnparsed, Arrived, queueVars, parseVars, streamVars
<1>6. CASE CloseJoin
  BY <1>6, <1>a DEF CloseJoin, IInv, TypeOK, InHand,
     Lifetime, ParsedWasReceived, NothingLeftUnparsed, Arrived, parseVars, streamVars
<1>7. CASE CheckStop
  BY <1>7, <1>a DEF CheckStop, IInv, TypeOK, BlocksInOrder, taken, InHand,
     Lifetime, ParsedWasReceived, NothingLeftUnparsed, Arrived, queueVars, parseVars, streamVars
<1>8. CASE PopBlock
  <2>1. CASE incomming_data_ = <<>>
    BY <1>8, <2>1, <1>a DEF PopBlock, IInv, TypeOK, BlocksInOrder, taken, InHand,
       Lifetime, ParsedWasReceived, NothingLeftUnparsed, Arrived, streamVars
  <2>2. CASE incomming_data_ # <<>>
    <3>1. BlocksInOrder /\ raw_data = 0 /\ taken = remained
      BY <1>8, <1>a DEF PopBlock, Lifetime, InHand, taken
    <3>2. /\ remained < received
          /\ Head(incomming_data_) = remained + 1
          /\ Tail(incomming_data_) = [i \in 1..received - (remained + 1) |-> (remained + 1) + i]
      <4>. HIDE IngestAssumption
      <4>. QED  BY <2>2, <3>1, <1>f, PopKeepsRun DEF BlocksInOrder
    <3>a. /\ raw_data' = Head(incomming_data_)
          /\ incomming_data_' = Tail(incomming_data_)
          /\ parser' = "append"
          /\ UNCHANGED <<conn, reactor, closed_by, is_stop_, received, remained,
                         handshake_state, consumed, unit_end, version_ok>>
      BY <1>8, <2>2 DEF PopBlock, streamVars
    <3>3. raw_data' = remained + 1 /\ taken' = remained + 1
      BY <3>a, <3>2, <1>f DEF taken
    <3>4. BlocksInOrder'
      <4>1. received' = received /\ taken' <= received'
        BY <3>a, <3>2, <3>3, <1>f
      <4>. QED  BY <3>a, <3>2, <3>3, <4>1 DEF BlocksInOrder
    <3>5. TypeOK'
      <4>1. Tail(incomming_data_) \in Seq(1..MaxBlocks)
        BY <2>2, <1>a, HeadTailProperties DEF TypeOK
      <4>2. raw_data' \in 0..MaxBlocks
        BY <1>a, <1>f, <3>2, <3>3 DEF TypeOK
      <4>. QED  BY <3>a, <1>a, <4>1, <4>2 DEF TypeOK
    <3>6. parser = "pop"
      BY <1>8 DEF PopBlock
    <3>7. InHand' /\ Lifetime' /\ ParsedWasReceived'
      BY <3>a, <3>3, <3>6, <1>a, <1>f DEF InHand, Lifetime, ParsedWasReceived
    <3>8. NothingLeftUnparsed'
      BY <3>a, <3>6, <1>a DEF NothingLeftUnparsed, Arrived
    <3>. QED  BY <3>4, <3>5, <3>7, <3>8 DEF IInv
  <2>. QED  BY <2>1, <2>2
<1>9. CASE EnterWait
  BY <1>9, <1>a DEF EnterWait, IInv, TypeOK, BlocksInOrder, taken, InHand,
     Lifetime, ParsedWasReceived, NothingLeftUnparsed, Arrived, queueVars, parseVars, streamVars
<1>10. CASE SpuriousWakeup
  BY <1>10, <1>a DEF SpuriousWakeup, IInv, TypeOK, BlocksInOrder, taken, InHand,
     Lifetime, ParsedWasReceived, NothingLeftUnparsed, Arrived, queueVars, parseVars, streamVars
<1>11. CASE AppendBlock
  <2>1. /\ raw_data = remained + 1 /\ taken = raw_data /\ conn # "freed"
        /\ taken' = raw_data
    BY <1>11, <1>a, <1>f DEF AppendBlock, InHand, Lifetime, taken
  <2>2. BlocksInOrder'
    BY <1>11, <1>a, <2>1 DEF AppendBlock, BlocksInOrder, queueVars
  <2>3. TypeOK' /\ InHand' /\ Lifetime' /\ NothingLeftUnparsed'
    BY <1>11, <1>a DEF AppendBlock, TypeOK, InHand, Lifetime, NothingLeftUnparsed,
       queueVars, streamVars
  <2>4. ParsedWasReceived'
    BY <1>11, <1>a, <1>f, <2>1 DEF AppendBlock, TypeOK, ParsedWasReceived, streamVars
  <2>. QED  BY <2>2, <2>3, <2>4 DEF IInv
<1>12. CASE ReceiveHandshakePacket
  <2>1. BlocksInOrder' /\ conn # "freed"
    BY <1>12, <1>a DEF ReceiveHandshakePacket, BlocksInOrder, taken, Lifetime, queueVars
  <2>2. consumed \in {0, 1} /\ (consumed = 0) = (handshake_state = "Uninitialized")
    BY <1>12, <1>a, <1>f DEF ReceiveHandshakePacket, TypeOK, ParsedWasReceived
  <2>3. TypeOK' /\ InHand' /\ Lifetime'
    BY <1>12, <1>a, <2>2 DEF ReceiveHandshakePacket, TypeOK, InHand, Lifetime,
       queueVars, streamVars
  <2>4. ParsedWasReceived'
    BY <1>12, <1>a, <1>f, <2>2 DEF ReceiveHandshakePacket, ParsedWasReceived, Arrived,
       TypeOK, streamVars
  <2>5. NothingLeftUnparsed'
    BY <1>12, <1>a, <1>f, <2>2 DEF ReceiveHandshakePacket, NothingLeftUnparsed, Arrived,
       TypeOK, streamVars
  <2>. QED  BY <2>1, <2>3, <2>4, <2>5 DEF IInv
<1>13. CASE ReceiveChunkPacket
  <2>1. BlocksInOrder' /\ conn # "freed"
    BY <1>13, <1>a DEF ReceiveChunkPacket, BlocksInOrder, taken, Lifetime, queueVars
  <2>2. consumed >= 2
    BY <1>13, <1>a, <1>f DEF ReceiveChunkPacket, TypeOK, ParsedWasReceived
  <2>3. TypeOK' /\ InHand' /\ Lifetime' /\ ParsedWasReceived'
    BY <1>13, <1>a, <1>f, <2>2 DEF ReceiveChunkPacket, TypeOK, InHand, Lifetime,
       ParsedWasReceived, Arrived, queueVars, streamVars
  <2>4. NothingLeftUnparsed'
    BY <1>13, <1>a, <1>f, <2>2 DEF ReceiveChunkPacket, NothingLeftUnparsed, Arrived, streamVars
  <2>. QED  BY <2>1, <2>3, <2>4 DEF IInv
<1>14. CASE UNCHANGED vars
  BY <1>14, <1>a DEF vars, IInv, TypeOK, BlocksInOrder, taken, InHand,
     Lifetime, ParsedWasReceived, NothingLeftUnparsed, Arrived, queueVars, parseVars, streamVars
<1>. QED
  BY <1>1, <1>2, <1>3, <1>4, <1>5, <1>6, <1>7, <1>8, <1>9, <1>10, <1>11, <1>12, <1>13, <1>14
     DEF Next, ReactorStep, ParserStep, PeerClose, IdleTimeout, Finished

THEOREM IngestInvariant == Spec => []IInv
  BY InitIInv, StepIInv, PTL DEF Spec

-----------------------------------------------------------------------------
(* The invariants the runs check on small instances.                           *)

(* Every variable of the ingest path keeps its type.                           *)
THEOREM TypeCorrect == Spec => []TypeOK
<1>1. IInv => TypeOK
  BY DEF IInv
<1>. QED  BY <1>1, IngestInvariant, PTL

(* No block the reactor reads is lost, duplicated or reordered on its way to   *)
(* the parse buffer, whatever the two threads' interleaving.                   *)
THEOREM NoBlockIsLost == Spec => []NoBlockLost
<1>1. IInv => NoBlockLost
  BY DEF IInv, BlocksInOrder, InHand, NoBlockLost
<1>. QED  BY <1>1, IngestInvariant, PTL

(* What is parsed is a prefix of what arrived, and the parse thread leaves no  *)
(* complete unit behind when it goes back to its queue.                        *)
THEOREM ParsesAllAndOnlyReceived == Spec => [](ParsedWasReceived /\ NothingLeftUnparsed)
<1>1. IInv => ParsedWasReceived /\ NothingLeftUnparsed
  BY DEF IInv
<1>. QED  BY <1>1, IngestInvariant, PTL

-----------------------------------------------------------------------------
(* Refinement: the ingest side implements InOrderFanOut with the parser as its *)
(* only sink.  A push is an offer, an append is a delivery.                    *)

LEMMA StepRefines == IInv /\ [Next]_vars => [Relay!RelayNext]_(Relay!relayVars)
<1>. SUFFICES ASSUME IInv, [Next]_vars
              PROVE  Relay!RelayNext \/ UNCHANGED <<received, remained>>
  BY DEF Relay!relayVars
<1>1. CASE OnDataReceived
  BY <1>1 DEF OnDataReceived, parseVars, Relay!RelayNext, Relay!Offer
<1>2. CASE AppendBlock
  <2>1. /\ raw_data = remained + 1 /\ raw_data <= received
        /\ remained \in Nat /\ received \in Nat
    BY <1>2, IngestAssumption DEF AppendBlock, IInv, TypeOK, InHand, BlocksInOrder, taken,
       Lifetime, IngestAssumption
  <2>2. remained' = remained + 1 /\ received' = received
    BY <1>2, <2>1 DEF AppendBlock, queueVars
  <2>3. [s \in {"parser"} |-> remained'] =
          [[s \in {"parser"} |-> remained] EXCEPT !["parser"] = @ + 1]
    BY <2>2
  <2>4. Relay!Deliver("parser")
    BY <2>1, <2>2, <2>3 DEF Relay!Deliver
  <2>. QED  BY <2>4 DEF Relay!RelayNext
<1>3. CASE \/ NewConnect \/ NotifyData \/ PeerClose \/ IdleTimeout \/ CloseNotify \/ CloseJoin
           \/ UNCHANGED vars
  BY <1>3 DEF NewConnect, NotifyData, PeerClose, IdleTimeout, CloseStopAll, CloseNotify,
     CloseJoin, vars, queueVars, parseVars
<1>4. CASE \/ CheckStop \/ PopBlock \/ EnterWait \/ SpuriousWakeup
           \/ ReceiveHandshakePacket \/ ReceiveChunkPacket
  BY <1>4 DEF CheckStop, PopBlock, EnterWait, SpuriousWakeup, ReceiveHandshakePacket,
     ReceiveChunkPacket, queueVars, parseVars
<1>. QED
  BY <1>1, <1>2, <1>3, <1>4 DEF Next, ReactorStep, ParserStep, Finished

(* The parse buffer gets the client's bytes as they were sent, for any number  *)
(* of blocks and any interleaving of the two threads.                          *)
THEOREM DeliversInOrder == Spec => ParserGetsTheStream
<1>1. Init => Relay!RelayInit
  BY DEF Init, Relay!RelayInit
<1>. QED  BY <1>1, StepRefines, IngestInvariant, PTL
            DEF Spec, ParserGetsTheStream, Relay!RelaySpec

-----------------------------------------------------------------------------
(* MultiPublish.                                                              *)

(* The inductive invariant: NoSampleLost, with where a publisher is while it   *)
(* holds a sample, and which publishers exist.                                 *)

QueuesInOrder ==
  matched => \A p \in Publishers :
               /\ takenBy(p) <= offered
               /\ samples[p] = [i \in 1..offered - takenBy(p) |-> takenBy(p) + i]

SampleInHand ==
  \A p \in Publishers : /\ (sample[p] # 0) = (publisher[p] = "write")
                        /\ sample[p] # 0 => sample[p] = wrote[p] + 1

PublishersLive ==
  /\ owner = "joined" => \A p \in Publishers : publisher[p] \in {"none", "exited"}
  /\ ~matched => \A p \in Publishers : /\ publisher[p] = "none" /\ samples[p] = <<>>
                                       /\ wrote[p] = 0
  /\ owner = "new" => \A p \in Publishers : publisher[p] = "none"

PublishInv == PublishTypeOK /\ QueuesInOrder /\ SampleInHand /\ PublishersLive

-----------------------------------------------------------------------------
LEMMA InitPublishInv == PublishInit => PublishInv
<1>. SUFFICES ASSUME PublishInit PROVE PublishInv
  OBVIOUS
<1>1. PublishTypeOK /\ SampleInHand /\ PublishersLive
  BY PublishAssumption DEF PublishAssumption, PublishInit, PublishTypeOK, SampleInHand,
     PublishersLive, Publishers
<1>2. \A p \in Publishers : takenBy(p) = 0
  BY DEF PublishInit, takenBy
<1>3. QueuesInOrder
  BY <1>2, EmptyRun DEF PublishInit, QueuesInOrder
<1>. QED  BY <1>1, <1>3 DEF PublishInv

LEMMA StepPublishInv == PublishInv /\ [PublishNext]_publishVars => PublishInv'
<1>. SUFFICES ASSUME PublishInv, [PublishNext]_publishVars PROVE PublishInv'
  OBVIOUS
<1>. USE PublishAssumption DEF PublishAssumption
<1>a. PublishTypeOK /\ QueuesInOrder /\ SampleInHand /\ PublishersLive
  BY DEF PublishInv
<1>f. \A p \in Publishers : wrote[p] \in Nat /\ sample[p] \in Nat /\ takenBy(p) \in Nat
  BY <1>a DEF PublishTypeOK, takenBy
<1>1. CASE OnTrack
  <2>1. PublishTypeOK'
    BY <1>1, <1>a DEF OnTrack, PublishTypeOK
  <2>2. QueuesInOrder'
    BY <1>1, <1>a DEF OnTrack, QueuesInOrder, takenBy
  <2>3. SampleInHand' /\ PublishersLive'
    BY <1>1, <1>a DEF OnTrack, PublishTypeOK, SampleInHand, PublishersLive
  <2>. QED  BY <2>1, <2>2, <2>3 DEF PublishInv
<1>2. CASE OnSample
  <2>1. PublishTypeOK'
    <3>1. offered + 1 \in 1..MaxSamples
      BY <1>2, <1>a DEF OnSample, PublishTypeOK
    <3>2. \A p \in Publishers : Append(samples[p], offered + 1) \in Seq(1..MaxSamples)
      BY <3>1, <1>a, AppendProperties DEF PublishTypeOK
    <3>3. samples' \in [Publishers -> Seq(1..MaxSamples)]
      BY <1>2, <3>2, <1>a DEF OnSample, PublishTypeOK
    <3>4. cursor' \in 1..NPublishers + 1
      BY <1>2 DEF OnSample
    <3>. QED  BY <1>2, <1>a, <3>1, <3>3, <3>4 DEF OnSample, PublishTypeOK
  <2>2. SampleInHand' /\ PublishersLive'
    BY <1>2, <1>a DEF OnSample, SampleInHand, PublishersLive
  <2>3. QueuesInOrder'
    <3>. SUFFICES ASSUME matched, NEW p \in Publishers
                  PROVE  /\ takenBy(p) <= offered + 1
                         /\ Append(samples[p], offered + 1)
                              = [i \in 1..(offered + 1) - takenBy(p) |-> takenBy(p) + i]
      BY <1>2, <1>f DEF OnSample, QueuesInOrder, takenBy
    <3>1. /\ takenBy(p) <= offered /\ offered \in Nat
          /\ samples[p] = [i \in 1..offered - takenBy(p) |-> takenBy(p) + i]
      BY <1>a DEF QueuesInOrder, PublishTypeOK
    <3>. QED  BY <3>1, <1>f, PushKeepsRun
  <2>. QED  BY <2>1, <2>2, <2>3 DEF PublishInv
<1>3. CASE StopAll
  <2>1. PublishTypeOK'
    BY <1>3, <1>a DEF StopAll, PublishTypeOK
  <2>2. QueuesInOrder'
    BY <1>3, <1>a DEF StopAll, QueuesInOrder, takenBy
  <2>3. SampleInHand' /\ PublishersLive'
    BY <1>3, <1>a DEF StopAll, PublishTypeOK, SampleInHand, PublishersLive
  <2>. QED  BY <2>1, <2>2, <2>3 DEF PublishInv
<1>4. CASE NotifyNext
  <2>1. PublishTypeOK'
    <3>1. cursor' \in 1..NPublishers + 1
      BY <1>4 DEF NotifyNext, Publishers
    <3>. QED  BY <1>4, <1>a, <3>1 DEF NotifyNext, PublishTypeOK
  <2>2. QueuesInOrder'
    BY <1>4, <1>a DEF NotifyNext, QueuesInOrder, takenBy
  <2>3. SampleInHand' /\ PublishersLive'
    BY <1>4, <1>a DEF NotifyNext, PublishTypeOK, SampleInHand, PublishersLive
  <2>. QED  BY <2>1, <2>2, <2>3 DEF PublishInv
<1>5. CASE NotifyDone
  <2>1. PublishTypeOK'
    BY <1>5, <1>a DEF NotifyDone, PublishTypeOK, threadVars
  <2>2. QueuesInOrder'
    BY <1>5, <1>a DEF NotifyDone, QueuesInOrder, takenBy, threadVars
  <2>3. SampleInHand' /\ PublishersLive'
    BY <1>5, <1>a DEF NotifyDone, PublishTypeOK, SampleInHand, PublishersLive, threadVars
  <2>. QED  BY <2>1, <2>2, <2>3 DEF PublishInv
<1>6. CASE Join
  <2>1. PublishTypeOK'
    BY <1>6, <1>a DEF Join, PublishTypeOK, threadVars
  <2>2. QueuesInOrder'
    BY <1>6, <1>a DEF Join, QueuesInOrder, takenBy, threadVars
  <2>3. SampleInHand' /\ PublishersLive'
    BY <1>6, <1>a DEF Join, PublishTypeOK, SampleInHand, PublishersLive, threadVars
  <2>. QED  BY <2>1, <2>2, <2>3 DEF PublishInv
<1>7. ASSUME NEW p \in Publishers, CreateMuxer(p) PROVE PublishInv'
  <2>1. PICK opened \in BOOLEAN :
          publisher' = [publisher EXCEPT ![p] = IF opened THEN "check" ELSE "exited"]
    BY <1>7 DEF CreateMuxer
  <2>2. PublishTypeOK'
    BY <1>7, <2>1, <1>a DEF CreateMuxer, PublishTypeOK, callerVars
  <2>3. QueuesInOrder'
    BY <1>7, <1>a DEF CreateMuxer, QueuesInOrder, takenBy, callerVars
  <2>4. SampleInHand' /\ PublishersLive'
    BY <1>7, <2>1, <1>a DEF CreateMuxer, PublishTypeOK, SampleInHand, PublishersLive, callerVars
  <2>. QED  BY <2>2, <2>3, <2>4 DEF PublishInv
<1>8. ASSUME NEW p \in Publishers, CheckPublisherStop(p) PROVE PublishInv'
  <2>1. PublishTypeOK'
    BY <1>8, <1>a DEF CheckPublisherStop, PublishTypeOK, callerVars
  <2>2. QueuesInOrder'
    BY <1>8, <1>a DEF CheckPublisherStop, QueuesInOrder, takenBy, callerVars
  <2>3. SampleInHand' /\ PublishersLive'
    BY <1>8, <1>a DEF CheckPublisherStop, PublishTypeOK, SampleInHand, PublishersLive, callerVars
  <2>. QED  BY <2>1, <2>2, <2>3 DEF PublishInv
<1>9. ASSUME NEW p \in Publishers, PopSample(p) PROVE PublishInv'
  <2>. matched
    BY <1>9, <1>a DEF PopSample, PublishersLive
  <2>1. CASE samples[p] = <<>>
    <3>1. /\ publisher' = [publisher EXCEPT ![p] = "enter_wait"]
          /\ UNCHANGED <<sample, samples, callerVars, publisher_stop, cv_, wrote>>
          /\ publisher[p] = "pop"
      BY <1>9, <2>1 DEF PopSample
    <3>2. PublishTypeOK'
      BY <3>1, <1>a DEF PublishTypeOK, callerVars
    <3>3. QueuesInOrder'
      BY <3>1, <1>a DEF QueuesInOrder, takenBy, callerVars
    <3>4. SampleInHand' /\ PublishersLive'
      BY <3>1, <1>a DEF PublishTypeOK, SampleInHand, PublishersLive, callerVars
    <3>. QED  BY <3>2, <3>3, <3>4 DEF PublishInv
  <2>2. CASE samples[p] # <<>>
    <3>1. /\ sample' = [sample EXCEPT ![p] = Head(samples[p])]
          /\ samples' = [samples EXCEPT ![p] = Tail(@)]
          /\ publisher' = [publisher EXCEPT ![p] = "write"]
          /\ UNCHANGED <<matched, owner, cursor, offered, publisher_stop, cv_, wrote>>
          /\ publisher[p] = "pop"
      BY <1>9, <2>2 DEF PopSample, callerVars
    <3>2. takenBy(p) = wrote[p] /\ offered \in Nat
      <4>1. sample[p] = 0
        BY <3>1, <1>a DEF SampleInHand
      <4>. QED  BY <4>1, <1>a DEF PublishTypeOK, takenBy
    <3>3. /\ wrote[p] < offered
          /\ Head(samples[p]) = wrote[p] + 1
          /\ Tail(samples[p]) = [i \in 1..offered - (wrote[p] + 1) |-> (wrote[p] + 1) + i]
      <4>1. /\ wrote[p] <= offered /\ wrote[p] \in Nat
            /\ samples[p] = [i \in 1..offered - wrote[p] |-> wrote[p] + i]
        BY <3>2, <1>a, <1>f DEF QueuesInOrder
      <4>. QED  BY <2>2, <3>2, <4>1, PopKeepsRun
    <3>4. Tail(samples[p]) \in Seq(1..MaxSamples)
      BY <2>2, <1>a, HeadTailProperties DEF PublishTypeOK
    <3>5. PublishTypeOK'
      BY <3>1, <3>3, <3>4, <1>a, <1>f DEF PublishTypeOK
    <3>6. SampleInHand' /\ PublishersLive'
      <4>1. /\ sample' = [sample EXCEPT ![p] = wrote[p] + 1] /\ wrote[p] \in Nat
            /\ sample \in [Publishers -> 0..MaxSamples]
            /\ publisher \in [Publishers -> {"none", "create", "check", "pop", "write",
                                            "enter_wait", "waiting", "exited"}]
        <5>1. sample' = [sample EXCEPT ![p] = wrote[p] + 1]
          BY <3>1, <3>3
        <5>. QED  BY <5>1, <1>a DEF PublishTypeOK
      <4>2. SampleInHand'
        BY <3>1, <4>1, <1>a DEF SampleInHand
      <4>3. PublishersLive'
        BY <3>1, <4>1, <1>a DEF PublishersLive
      <4>. QED  BY <4>2, <4>3
    <3>7. /\ takenBy(p)' = wrote[p] + 1 /\ samples'[p] = Tail(samples[p])
          /\ \A q \in Publishers : q # p => takenBy(q)' = takenBy(q) /\ samples'[q] = samples[q]
      BY <3>1, <3>3, <1>a, <1>f DEF takenBy, PublishTypeOK
    <3>8. QueuesInOrder'
      <4>. SUFFICES ASSUME NEW q \in Publishers
                    PROVE  /\ takenBy(q)' <= offered
                           /\ samples'[q] = [i \in 1..offered - takenBy(q)' |-> takenBy(q)' + i]
        BY <3>1 DEF QueuesInOrder
      <4>1. CASE q = p
        BY <4>1, <3>3, <3>7, <3>2, <1>f
      <4>2. CASE q # p
        BY <4>2, <3>7, <1>a DEF QueuesInOrder
      <4>. QED  BY <4>1, <4>2
    <3>. QED  BY <3>5, <3>6, <3>8 DEF PublishInv
  <2>. QED  BY <2>1, <2>2
<1>10. ASSUME NEW p \in Publishers, WriteSample(p) PROVE PublishInv'
  <2>1. /\ sample[p] = wrote[p] + 1 /\ sample[p] # 0
    BY <1>10, <1>a DEF WriteSample, SampleInHand
  <2>2. \A q \in Publishers : takenBy(q)' = takenBy(q)
    BY <1>10, <2>1, <1>a, <1>f DEF WriteSample, takenBy, PublishTypeOK
  <2>3. QueuesInOrder'
    BY <1>10, <2>2, <1>a DEF WriteSample, QueuesInOrder, callerVars
  <2>4. PublishTypeOK' /\ SampleInHand'
    BY <1>10, <1>a DEF WriteSample, PublishTypeOK, SampleInHand, callerVars
  <2>5. PublishersLive'
    BY <1>10, <1>a DEF WriteSample, PublishTypeOK, PublishersLive, callerVars
  <2>. QED  BY <2>3, <2>4, <2>5 DEF PublishInv
<1>11. ASSUME NEW p \in Publishers, PublisherWait(p) PROVE PublishInv'
  <2>1. PublishTypeOK'
    BY <1>11, <1>a DEF PublisherWait, PublishTypeOK, callerVars
  <2>2. QueuesInOrder'
    BY <1>11, <1>a DEF PublisherWait, QueuesInOrder, takenBy, callerVars
  <2>3. SampleInHand' /\ PublishersLive'
    BY <1>11, <1>a DEF PublisherWait, PublishTypeOK, SampleInHand, PublishersLive, callerVars
  <2>. QED  BY <2>1, <2>2, <2>3 DEF PublishInv
<1>12. ASSUME NEW p \in Publishers, PublisherWakesUp(p) PROVE PublishInv'
  <2>1. PublishTypeOK'
    BY <1>12, <1>a DEF PublisherWakesUp, PublishTypeOK, callerVars
  <2>2. QueuesInOrder'
    BY <1>12, <1>a DEF PublisherWakesUp, QueuesInOrder, takenBy, callerVars
  <2>3. SampleInHand' /\ PublishersLive'
    BY <1>12, <1>a DEF PublisherWakesUp, PublishTypeOK, SampleInHand, PublishersLive, callerVars
  <2>. QED  BY <2>1, <2>2, <2>3 DEF PublishInv
<1>13. CASE UNCHANGED publishVars
  BY <1>13, <1>a DEF publishVars, callerVars, threadVars, PublishInv, PublishTypeOK,
     QueuesInOrder, takenBy, SampleInHand, PublishersLive
<1>. QED
  BY <1>1, <1>2, <1>3, <1>4, <1>5, <1>6, <1>7, <1>8, <1>9, <1>10, <1>11, <1>12, <1>13
     DEF PublishNext, OwnerStep, PublisherStep, PublishFinished

THEOREM PublishInvariant == PublishSpec => []PublishInv
  BY InitPublishInv, StepPublishInv, PTL DEF PublishSpec

-----------------------------------------------------------------------------
(* The invariants the runs check on small instances.                           *)

(* Every variable of the forwarding side keeps its type.                       *)
THEOREM PublishTypeCorrect == PublishSpec => []PublishTypeOK
<1>1. PublishInv => PublishTypeOK
  BY DEF PublishInv
<1>. QED  BY <1>1, PublishInvariant, PTL

(* No publisher's queue ever loses, repeats or reorders a sample.              *)
THEOREM NoSampleIsLost == PublishSpec => []NoSampleLost
<1>1. PublishInv => NoSampleLost
  BY DEF PublishInv, QueuesInOrder, SampleInHand, PublishersLive, NoSampleLost
<1>. QED  BY <1>1, PublishInvariant, PTL

-----------------------------------------------------------------------------
(* Refinement: the forwarding side implements InOrderFanOut.  A write is a     *)
(* delivery of the sample after the last one written, an onSample is an offer, *)
(* and every other step leaves what was offered and written alone.             *)

LEMMA StepForwards ==
  PublishInv /\ [PublishNext]_publishVars => [Forwarding!RelayNext]_(Forwarding!relayVars)
<1>. SUFFICES ASSUME PublishInv, [PublishNext]_publishVars
              PROVE  Forwarding!RelayNext \/ UNCHANGED <<offered, wrote>>
  BY DEF Forwarding!relayVars
<1>1. CASE OnSample
  BY <1>1 DEF OnSample, Forwarding!RelayNext, Forwarding!Offer
<1>2. ASSUME NEW p \in Publishers, WriteSample(p) PROVE Forwarding!RelayNext
  <2>1. /\ matched /\ sample[p] = wrote[p] + 1 /\ sample[p] # 0
    BY <1>2 DEF WriteSample, PublishInv, SampleInHand, PublishersLive
  <2>2. sample[p] <= offered
    BY <2>1 DEF PublishInv, QueuesInOrder, takenBy
  <2>3. wrote[p] < offered
    BY <2>1, <2>2, PublishAssumption DEF PublishInv, PublishTypeOK, PublishAssumption
  <2>4. wrote' = [wrote EXCEPT ![p] = wrote[p] + 1] /\ offered' = offered
    BY <1>2, <2>1 DEF WriteSample, callerVars
  <2>5. Forwarding!Deliver(p)
    BY <2>3, <2>4 DEF Forwarding!Deliver
  <2>. QED  BY <2>5 DEF Forwarding!RelayNext
<1>3. CASE OnTrack \/ StopAll \/ NotifyNext \/ NotifyDone \/ Join \/ UNCHANGED publishVars
  BY <1>3 DEF OnTrack, StopAll, NotifyNext, NotifyDone, Join, publishVars, callerVars, threadVars
<1>4. ASSUME NEW p \in Publishers,
             \/ CreateMuxer(p) \/ CheckPublisherStop(p) \/ PopSample(p)
             \/ PublisherWait(p) \/ PublisherWakesUp(p)
      PROVE  UNCHANGED <<offered, wrote>>
  BY <1>4 DEF CreateMuxer, CheckPublisherStop, PopSample, PublisherWait, PublisherWakesUp,
     callerVars
<1>. QED
  BY <1>1, <1>2, <1>3, <1>4 DEF PublishNext, OwnerStep, PublisherStep, PublishFinished

(* Each url gets the samples of the stream, each once and in order, for any    *)
(* number of publishers and any interleaving of their threads.                 *)
THEOREM ForwardsInOrder == PublishSpec => EachUrlGetsTheStream
<1>1. PublishInit => Forwarding!RelayInit
  BY DEF PublishInit, Forwarding!RelayInit
<1>. QED  BY <1>1, StepForwards, PublishInvariant, PTL
            DEF PublishSpec, EachUrlGetsTheStream, Forwarding!RelaySpec
==============================================================================
