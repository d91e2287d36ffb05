------------------------------ MODULE RtmpProxy ------------------------------
(* The connections of the proxy and the locks and joins between their threads. *)
(*                                                                             *)
(* One reactor thread serves every connection: SnyRTMPServer keeps the streams *)
(* (rtmp_streams_, touched by the reactor only), SnyRTMPProxy the forwarding   *)
(* side of each (sny_multi_rtmp_publish_, guarded by mutex_).  Each connection *)
(* has a parse thread, which calls back into the proxy, and, once its tracks   *)
(* are known, publisher threads.  Closing a connection joins the parse thread, *)
(* then takes mutex_ and joins the publishers under it.                        *)
(*                                                                             *)
(* The queues inside a connection are those of RtmpIngest and MultiPublish;    *)
(* here only whether there is something to parse is kept, and one publisher    *)
(* thread stands for the publishers of a connection.                           *)
CONSTANTS Conns,       \* connection names, each used once
          Configured   \* the connections whose stream the configuration names

ASSUME ProxyAssumption == Configured \subseteq Conns

VARIABLES
  reactor,        \* where the reactor is inside the server's callbacks
  current,        \* the connection it is there for
  accepted,       \* the connections accepted so far
  rtmp_streams_,  \* the connections with an RtmpStream
  registry,       \* the connections in sny_multi_rtmp_publish_
  unparsed,       \* the connections with data the parse thread has not taken
  parser,         \* where each parse thread is
  parser_stop,    \* the connections whose parse thread has been told to stop
  announced,      \* the connections whose tracks have been announced
  publisher,      \* where each connection's publisher is
  publisher_stop  \* the connections whose publishers have been told to stop

serverVars == <<accepted, rtmp_streams_, registry>>
parserVars == <<parser, parser_stop, announced, unparsed>>
publisherVars == <<publisher, publisher_stop>>
vars == <<reactor, current, serverVars, parserVars, publisherVars>>

TypeOK ==
  /\ reactor \in {"idle", "add_publish", "notify_data", "notify_parser", "join_parser",
                  "remove_publish", "notify_publishers", "join_publishers"}
  /\ current \in Conns
  /\ accepted \subseteq Conns
  /\ rtmp_streams_ \subseteq Conns
  /\ registry \subseteq Conns
  /\ unparsed \subseteq Conns
  /\ parser \in [Conns -> {"none", "check", "pop", "enter_wait", "waiting", "app_stream_name",
                           "track", "find_publish", "sample", "exited"}]
  /\ parser_stop \subseteq Conns
  /\ announced \subseteq Conns
  /\ publisher \in [Conns -> {"none", "run", "enter_wait", "waiting", "exited"}]
  /\ publisher_stop \subseteq Conns

Init ==
  /\ reactor = "idle"
  /\ current \in Conns
  /\ accepted = {}
  /\ rtmp_streams_ = {}
  /\ registry = {}
  /\ unparsed = {}
  /\ parser = [c \in Conns |-> "none"]
  /\ parser_stop = {}
  /\ announced = {}
  /\ publisher = [c \in Conns |-> "none"]
  /\ publisher_stop = {}

(* Mutant: mutex_ taken before the parse thread is joined.                     *)
MutexTakenEarly ==
  reactor \notin {"notify_parser", "join_parser", "notify_publishers", "join_publishers"}

(* The proxy's mutex_ is held across steps only while the close handler stops  *)
(* and joins publishers.                                                       *)
MutexFree == reactor \notin {"notify_publishers", "join_publishers"}

ParserTo(c, place) == parser' = [parser EXCEPT ![c] = place]
PublisherTo(c, place) == publisher' = [publisher EXCEPT ![c] = place]

-----------------------------------------------------------------------------
(* The reactor.                                                                *)

(* The stream exists, and its parse thread runs, before the proxy hears of the *)
(* connection.                                                                 *)
NewConnect(c) ==
  /\ reactor = "idle" /\ c \notin accepted
  /\ accepted' = accepted \cup {c}
  /\ rtmp_streams_' = rtmp_streams_ \cup {c}
  /\ ParserTo(c, "check")
  /\ current' = c
  /\ reactor' = "add_publish"
  /\ UNCHANGED <<registry, parser_stop, announced, unparsed, publisherVars>>

AddPublish ==
  /\ reactor = "add_publish" /\ MutexFree
  /\ registry' = registry \cup {current}
  /\ reactor' = "idle"
  /\ UNCHANGED <<current, accepted, rtmp_streams_, parserVars, publisherVars>>

MessageReceived(c) ==
  /\ reactor = "idle" /\ c \in rtmp_streams_
  /\ unparsed' = unparsed \cup {c}
  /\ current' = c
  /\ reactor' = "notify_data"
  /\ UNCHANGED <<serverVars, parser, parser_stop, announced, publisherVars>>

NotifyData ==
  /\ reactor = "notify_data"
  /\ ParserTo(current, IF parser[current] = "waiting" THEN "check" ELSE parser[current])
  /\ reactor' = "idle"
  /\ UNCHANGED <<current, serverVars, parser_stop, announced, unparsed, publisherVars>>

ConnectClose(c) ==
  /\ reactor = "idle" /\ c \in rtmp_streams_
  /\ parser_stop' = parser_stop \cup {c}
  /\ current' = c
  /\ reactor' = "notify_parser"
  /\ UNCHANGED <<serverVars, parser, announced, unparsed, publisherVars>>

(* Mutant: the proxy told of the close before the parse thread is joined.      *)
NotifyParserNoJoin ==
  /\ reactor = "notify_parser"
  /\ ParserTo(current, IF parser[current] = "waiting" THEN "check" ELSE parser[current])
  /\ reactor' = "remove_publish"
  /\ UNCHANGED <<current, serverVars, parser_stop, announced, unparsed, publisherVars>>

NotifyParser ==
  /\ reactor = "notify_parser"
  /\ ParserTo(current, IF parser[current] = "waiting" THEN "check" ELSE parser[current])
  /\ reactor' = "join_parser"
  /\ UNCHANGED <<current, serverVars, parser_stop, announced, unparsed, publisherVars>>

JoinParser ==
  /\ reactor = "join_parser" /\ parser[current] = "exited"
  /\ rtmp_streams_' = rtmp_streams_ \ {current}
  /\ unparsed' = unparsed \ {current}
  /\ reactor' = "remove_publish"
  /\ UNCHANGED <<current, accepted, registry, parser, parser_stop, announced, publisherVars>>

(* From here to JoinPublishers the reactor holds mutex_.                       *)
RemovePublish ==
  /\ reactor = "remove_publish" /\ MutexFree
  /\ IF current \in registry
     THEN /\ publisher_stop' = publisher_stop \cup {current}
          /\ reactor' = "notify_publishers"
     ELSE /\ reactor' = "idle"
          /\ UNCHANGED publisher_stop
  /\ UNCHANGED <<current, serverVars, parserVars, publisher>>

NotifyPublishers ==
  /\ reactor = "notify_publishers"
  /\ PublisherTo(current, IF publisher[current] = "waiting" THEN "run" ELSE publisher[current])
  /\ reactor' = "join_publishers"
  /\ UNCHANGED <<current, serverVars, parserVars, publisher_stop>>

(* Mutant: the forwarding side removed without joining its publishers.         *)
JoinNoPublishers ==
  /\ reactor = "join_publishers"
  /\ registry' = registry \ {current}
  /\ reactor' = "idle"
  /\ UNCHANGED <<current, accepted, rtmp_streams_, parserVars, publisherVars>>

JoinPublishers ==
  /\ reactor = "join_publishers" /\ publisher[current] \in {"none", "exited"}
  /\ registry' = registry \ {current}
  /\ reactor' = "idle"
  /\ UNCHANGED <<current, accepted, rtmp_streams_, parserVars, publisherVars>>

-----------------------------------------------------------------------------
(* The parse thread of connection c.                                           *)

CheckStop(c) ==
  /\ parser[c] = "check"
  /\ ParserTo(c, IF c \in parser_stop THEN "exited" ELSE "pop")
  /\ UNCHANGED <<reactor, current, serverVars, parser_stop, announced, unparsed, publisherVars>>

(* Data may complete nothing the proxy hears of, the tracks of the stream, or  *)
(* a sample.                                                                   *)
ParseData(c) ==
  /\ parser[c] = "pop"
  /\ \/ /\ c \in unparsed
        /\ unparsed' = unparsed \ {c}
        /\ \/ ParserTo(c, "check")
           \/ c \notin announced /\ ParserTo(c, "app_stream_name")
           \/ c \in announced /\ ParserTo(c, "find_publish")
     \/ /\ c \notin unparsed
        /\ ParserTo(c, "enter_wait")
        /\ UNCHANGED unparsed
  /\ UNCHANGED <<reactor, current, serverVars, parser_stop, announced, publisherVars>>

ParserWait(c) ==
  /\ parser[c] = "enter_wait"
  /\ ParserTo(c, "waiting")
  /\ UNCHANGED <<reactor, current, serverVars, parser_stop, announced, unparsed, publisherVars>>

OnRtmpAppStreamName(c) ==
  /\ parser[c] = "app_stream_name" /\ MutexFree
  /\ ParserTo(c, "track")
  /\ UNCHANGED <<reactor, current, serverVars, parser_stop, announced, unparsed, publisherVars>>

(* Starts the publishers, under mutex_, if the configuration names the stream. *)
OnTrack(c) ==
  /\ parser[c] = "track" /\ MutexFree
  /\ announced' = announced \cup {c}
  /\ IF c \in registry \cap Configured THEN PublisherTo(c, "run") ELSE UNCHANGED publisher
  /\ ParserTo(c, "check")
  /\ UNCHANGED <<reactor, current, serverVars, parser_stop, unparsed, publisher_stop>>

(* The entry is looked up under mutex_ and used after mutex_ is released.      *)
FindPublish(c) ==
  /\ parser[c] = "find_publish" /\ MutexFree
  /\ ParserTo(c, IF c \in registry THEN "sample" ELSE "check")
  /\ UNCHANGED <<reactor, current, serverVars, parser_stop, announced, unparsed, publisherVars>>

OnSample(c) ==
  /\ parser[c] = "sample"
  /\ PublisherTo(c, IF publisher[c] = "waiting" THEN "run" ELSE publisher[c])
  /\ ParserTo(c, "check")
  /\ UNCHANGED <<reactor, current, serverVars, parser_stop, announced, unparsed, publisher_stop>>

-----------------------------------------------------------------------------
(* The publisher of connection c: it runs until it is told to stop or its      *)
(* muxer does not open, and sleeps when its queue is empty.                    *)
PublisherRun(c) ==
  /\ publisher[c] = "run"
  /\ \/ PublisherTo(c, "exited")
     \/ c \notin publisher_stop /\ PublisherTo(c, "enter_wait")
  /\ UNCHANGED <<reactor, current, serverVars, parserVars, publisher_stop>>

PublisherWait(c) ==
  /\ publisher[c] = "enter_wait"
  /\ PublisherTo(c, "waiting")
  /\ UNCHANGED <<reactor, current, serverVars, parserVars, publisher_stop>>

SpuriousWakeup(c) ==
  \/ /\ parser[c] = "waiting"
     /\ ParserTo(c, "check")
     /\ UNCHANGED <<reactor, current, serverVars, parser_stop, announced, unparsed, publisherVars>>
  \/ /\ publisher[c] = "waiting"
     /\ PublisherTo(c, "run")
     /\ UNCHANGED <<reactor, current, serverVars, parserVars, publisher_stop>>

-----------------------------------------------------------------------------
ReactorHandles == AddPublish \/ NotifyData \/ NotifyParser \/ JoinParser
                  \/ RemovePublish \/ NotifyPublishers \/ JoinPublishers

ParserStep(c) == CheckStop(c) \/ ParseData(c) \/ ParserWait(c) \/ OnRtmpAppStreamName(c)
                 \/ OnTrack(c) \/ FindPublish(c) \/ OnSample(c)

PublisherStep(c) == PublisherRun(c) \/ PublisherWait(c)

Finished == accepted = Conns /\ registry = {} /\ reactor = "idle" /\ UNCHANGED vars

Next == \/ ReactorHandles
        \/ \E c \in Conns : \/ NewConnect(c) \/ MessageReceived(c) \/ ConnectClose(c)
                            \/ ParserStep(c) \/ PublisherStep(c) \/ SpuriousWakeup(c)
        \/ Finished

Spec == Init /\ [][Next]_vars

(* Every thread keeps running, and a thread that can take mutex_ takes it;     *)
(* nobody has to connect, send or close.                                       *)
FairSpec == /\ Spec
            /\ WF_vars(ReactorHandles)
            /\ \A c \in Conns : WF_vars(ParserStep(c)) /\ WF_vars(PublisherStep(c))

-----------------------------------------------------------------------------
(* What must hold.                                                             *)

InCallback(c) == parser[c] \in {"app_stream_name", "track", "find_publish", "sample"}

(* A callback of a parse thread always finds the forwarding side of its        *)
(* connection, and it is not destroyed while the callback uses it without      *)
(* mutex_: the reactor registers it before it can deliver data, and removes it *)
(* only after joining the parse thread.                                        *)
CallbackFindsPublish == \A c \in Conns : InCallback(c) => c \in registry

(* No publisher thread outlives the object it runs in.                         *)
NoOrphanPublisher ==
  \A c \in Conns : publisher[c] \notin {"none", "exited"} => c \in registry

(* A stream that is destroyed has no parse thread running in it.               *)
NoOrphanParser ==
  \A c \in Conns : parser[c] \notin {"none", "exited"} => c \in rtmp_streams_

(* No thread outlives the object it runs in, in whatever order connections     *)
(* close while data and callbacks are still being handled.                     *)
NoThreadOrphaned == NoOrphanPublisher /\ NoOrphanParser

(* A thread that sleeps although it has been told, and notified, to stop.      *)
MissedStop ==
  \/ reactor = "join_parser" /\ parser[current] = "waiting"
  \/ reactor = "join_publishers" /\ publisher[current] = "waiting"

(* No order of the lock and the joins blocks the reactor: a handler comes back *)
(* unless a thread it joins has missed its stop notification.                  *)
ReactorComesBack == (reactor # "idle") ~> (reactor = "idle" \/ MissedStop)

(* A callback gets through mutex_ unless the reactor holds it for ever.        *)
CallbackReturns ==
  \A c \in Conns : InCallback(c) ~> (~InCallback(c) \/ MissedStop)
=============================================================================
