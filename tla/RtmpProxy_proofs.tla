-------------------------- MODULE RtmpProxy_proofs --------------------------
(* Proofs about RtmpProxy, for every set of connections and every              *)
(* configuration.                                                              *)
EXTENDS RtmpProxy, TLAPS

-----------------------------------------------------------------------------
(* The inductive invariant.  That a callback finds its entry depends on the    *)
(* order in which the reactor opens and closes a connection: no data reaches a *)
(* parse thread before AddPublish, so it cannot be in a callback then, and     *)
(* from JoinParser to JoinPublishers the parse thread has ended.               *)

Opening(c) == reactor = "add_publish" /\ current = c

StreamsRegistered ==
  \A c \in Conns : c \in rtmp_streams_ => c \in registry \/ Opening(c)

NothingToParseBeforeRegistration ==
  \A c \in Conns : c \in unparsed \/ InCallback(c) => c \in rtmp_streams_ /\ c \in registry

HandlerInPlace ==
  /\ reactor = "add_publish" => /\ current \in rtmp_streams_ /\ current \notin registry
                                /\ publisher[current] = "none"
  /\ reactor \in {"notify_data", "notify_parser", "join_parser"} => current \in rtmp_streams_
  /\ reactor \in {"remove_publish", "notify_publishers", "join_publishers"}
       => current \notin rtmp_streams_
  /\ reactor \in {"notify_publishers", "join_publishers"} => current \in registry

Accepted ==
  \A c \in Conns : c \notin accepted => /\ parser[c] = "none" /\ publisher[c] = "none"
                                        /\ c \notin rtmp_streams_ /\ c \notin unparsed
                                        /\ c \notin registry

IInv ==
  /\ TypeOK
  /\ StreamsRegistered
  /\ NothingToParseBeforeRegistration
  /\ HandlerInPlace
  /\ Accepted
  /\ NoOrphanPublisher
  /\ NoOrphanParser

-----------------------------------------------------------------------------
LEMMA InitIInv == Init => IInv
  BY ProxyAssumption DEF Init, IInv, TypeOK, StreamsRegistered, NothingToParseBeforeRegistration, HandlerInPlace,
     Accepted, NoOrphanPublisher, NoOrphanParser, Opening, InCallback

LEMMA StepIInv == IInv /\ [Next]_vars => IInv'
<1>. SUFFICES ASSUME IInv, [Next]_vars PROVE IInv'
  OBVIOUS
<1>. USE ProxyAssumption DEF IInv, TypeOK, StreamsRegistered, NothingToParseBeforeRegistration, HandlerInPlace,
     Accepted, NoOrphanPublisher, NoOrphanParser, Opening, InCallback
<1>1. CASE AddPublish
  BY <1>1 DEF AddPublish, MutexFree, serverVars, parserVars, publisherVars
<1>2. CASE NotifyData
  BY <1>2 DEF NotifyData, ParserTo, serverVars, parserVars, publisherVars
<1>3. CASE NotifyParser
  BY <1>3 DEF NotifyParser, ParserTo, serverVars, parserVars, publisherVars
<1>4. CASE JoinParser
  BY <1>4 DEF JoinParser, serverVars, parserVars, publisherVars
<1>5. CASE RemovePublish
  BY <1>5 DEF RemovePublish, MutexFree, serverVars, parserVars, publisherVars
<1>6. CASE NotifyPublishers
  BY <1>6 DEF NotifyPublishers, PublisherTo, serverVars, parserVars, publisherVars
<1>7. CASE JoinPublishers
  BY <1>7 DEF JoinPublishers, serverVars, parserVars, publisherVars
<1>8. ASSUME NEW c \in Conns, NewConnect(c) PROVE IInv'
  BY <1>8 DEF NewConnect, ParserTo, serverVars, parserVars, publisherVars
<1>9. ASSUME NEW c \in Conns, MessageReceived(c) PROVE IInv'
  BY <1>9 DEF MessageReceived, serverVars, parserVars, publisherVars
<1>10. ASSUME NEW c \in Conns, ConnectClose(c) PROVE IInv'
  BY <1>10 DEF ConnectClose, serverVars, parserVars, publisherVars
<1>11. ASSUME NEW c \in Conns, CheckStop(c) PROVE IInv'
  BY <1>11 DEF CheckStop, ParserTo, serverVars, parserVars, publisherVars
<1>12. ASSUME NEW c \in Conns, ParseData(c) PROVE IInv'
  BY <1>12 DEF ParseData, ParserTo, serverVars, parserVars, publisherVars
<1>13. ASSUME NEW c \in Conns, ParserWait(c) PROVE IInv'
  BY <1>13 DEF ParserWait, ParserTo, serverVars, parserVars, publisherVars
<1>14. ASSUME NEW c \in Conns, OnRtmpAppStreamName(c) PROVE IInv'
  BY <1>14 DEF OnRtmpAppStreamName, ParserTo, serverVars, parserVars, publisherVars
<1>15. ASSUME NEW c \in Conns, OnTrack(c) PROVE IInv'
  BY <1>15 DEF OnTrack, ParserTo, PublisherTo, serverVars, parserVars, publisherVars
<1>16. ASSUME NEW c \in Conns, FindPublish(c) PROVE IInv'
  BY <1>16 DEF FindPublish, ParserTo, serverVars, parserVars, publisherVars
<1>17. ASSUME NEW c \in Conns, OnSample(c) PROVE IInv'
  BY <1>17 DEF OnSample, ParserTo, PublisherTo, serverVars, parserVars, publisherVars
<1>18. ASSUME NEW c \in Conns, PublisherRun(c) PROVE IInv'
  BY <1>18 DEF PublisherRun, PublisherTo, serverVars, parserVars, publisherVars
<1>19. ASSUME NEW c \in Conns, PublisherWait(c) PROVE IInv'
  BY <1>19 DEF PublisherWait, PublisherTo, serverVars, parserVars, publisherVars
<1>20. ASSUME NEW c \in Conns, SpuriousWakeup(c) PROVE IInv'
  BY <1>20 DEF SpuriousWakeup, ParserTo, PublisherTo, serverVars, parserVars, publisherVars
<1>21. CASE UNCHANGED vars
  BY <1>21 DEF vars, serverVars, parserVars, publisherVars
<1>. HIDE DEF IInv
<1>. QED
  BY <1>1, <1>2, <1>3, <1>4, <1>5, <1>6, <1>7, <1>8, <1>9, <1>10, <1>11,
     <1>12, <1>13, <1>14, <1>15, <1>16, <1>17, <1>18, <1>19, <1>20, <1>21
     DEF Next, ReactorHandles, ParserStep, PublisherStep, Finished

THEOREM ProxyInvariant == Spec => []IInv
  BY InitIInv, StepIInv, PTL DEF Spec

-----------------------------------------------------------------------------
(* The invariants the runs check on small instances.                           *)

(* Every variable of the proxy keeps its type.                                 *)
THEOREM TypeCorrect == Spec => []TypeOK
<1>1. IInv => TypeOK
  BY DEF IInv
<1>. QED  BY <1>1, ProxyInvariant, PTL

(* However many connections open and close, a parse thread inside a callback   *)
(* finds the forwarding side of its connection, alive.                         *)
THEOREM CallbacksFindPublish == Spec => []CallbackFindsPublish
<1>1. IInv => CallbackFindsPublish
  BY DEF IInv, NothingToParseBeforeRegistration, CallbackFindsPublish
<1>. QED  BY <1>1, ProxyInvariant, PTL

(* No thread outlives the object it runs in.                                   *)
THEOREM NoThreadIsOrphaned == Spec => []NoThreadOrphaned
<1>1. IInv => NoThreadOrphaned
  BY DEF IInv, NoThreadOrphaned
<1>. QED  BY <1>1, ProxyInvariant, PTL
=============================================================================
