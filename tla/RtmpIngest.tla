----------------------------- MODULE RtmpIngest -----------------------------
(* How the bytes of one publishing connection reach the RTMP parser.           *)
(*                                                                             *)
(* Two threads share a connection's pvd::RtmpStream: the reactor (the thread   *)
(* that runs the uv event loop) appends every block it reads from the socket   *)
(* to incomming_data_ and notifies cv_; the stream's parse thread pops one     *)
(* block at a time, appends it to _remained_data and parses what is complete.  *)
(* Closing the connection destroys the stream on the reactor, which stops the  *)
(* parse thread and joins it.                                                  *)
(*                                                                             *)
(* Blocks are numbered in the order the socket delivers them.  The client's    *)
(* protocol units (C0C1, C2, then the RTMP messages) are numbered too: unit u  *)
(* is complete once block unit_end[u] has been appended, so a unit may span    *)
(* several blocks and a block may complete several units.  Critical sections   *)
(* of mutex_ are single steps; everything the code does between two of them    *)
(* is a step of its own.                                                       *)
EXTENDS Naturals, Sequences

CONSTANTS MaxBlocks,  \* bound: blocks the client sends on the connection
          NUnits,     \* bound: protocol units in the client's stream
          Awaited     \* units whose answer the client waits for before it goes on

ASSUME IngestAssumption ==
  /\ MaxBlocks \in Nat
  /\ NUnits \in Nat
  /\ NUnits >= 2
  /\ Awaited \subseteq 1..NUnits

VARIABLES
  conn,             \* the connection, as the reactor's registry sees it
  reactor,          \* where the reactor is inside this connection's handlers
  parser,           \* where the parse thread is inside onThreadProc
  closed_by,        \* who closed the connection, "nobody" while it is up
  is_stop_,         \* AThread::is_stop_ of the parse thread
  received,         \* the number of blocks OnDataReceived was called with
  incomming_data_,  \* the queue the two threads share
  raw_data,         \* the block popped and not yet appended, 0 for nullptr
  remained,         \* the last block appended to _remained_data
  handshake_state,  \* _handshake_state between two parse calls
  consumed,         \* the last unit parsed and cut off _remained_data
  unit_end,         \* where each unit of this client's stream ends
  version_ok        \* whether C0 carries RTMP_HANDSHAKE_VERSION

queueVars == <<received, incomming_data_>>
parseVars == <<raw_data, remained, handshake_state, consumed>>
streamVars == <<unit_end, version_ok>>
vars == <<conn, reactor, parser, closed_by, is_stop_, queueVars, parseVars, streamVars>>

-----------------------------------------------------------------------------
(* The stream a client can send: units end in order, and a unit that follows   *)
(* an awaited one starts in a later block.                                     *)
UnitEnds ==
  {f \in [1..NUnits -> 1..MaxBlocks] :
     \A u \in 1..NUnits - 1 : /\ f[u] <= f[u + 1]
                              /\ u \in Awaited => f[u] < f[u + 1]}

(* A client that waits for the answer to a unit sends nothing more before the  *)
(* unit has been handled.                                                      *)
ClientMaySend ==
  \A u \in Awaited : unit_end[u] <= received => consumed >= u

Arrived(u) == u <= NUnits /\ unit_end[u] <= remained

TypeOK ==
  /\ conn \in {"none", "open", "closing", "freed"}
  /\ reactor \in {"idle", "notify_data", "notify_stop", "join"}
  /\ parser \in {"none", "check", "pop", "enter_wait", "waiting",
                 "append", "parse", "exited"}
  /\ closed_by \in {"nobody", "peer", "timer"}
  /\ is_stop_ \in BOOLEAN
  /\ received \in 0..MaxBlocks
  /\ incomming_data_ \in Seq(1..MaxBlocks)
  /\ raw_data \in 0..MaxBlocks
  /\ remained \in 0..MaxBlocks
  /\ handshake_state \in {"Uninitialized", "S2", "Complete"}
  /\ consumed \in 0..NUnits
  /\ unit_end \in UnitEnds
  /\ version_ok \in BOOLEAN

Init ==
  /\ conn = "none"
  /\ reactor = "idle"
  /\ parser = "none"
  /\ closed_by = "nobody"
  /\ is_stop_ = TRUE
  /\ received = 0
  /\ incomming_data_ = <<>>
  /\ raw_data = 0
  /\ remained = 0
  /\ handshake_state = "Uninitialized"
  /\ consumed = 0
  /\ unit_end \in UnitEnds
  /\ version_ok \in BOOLEAN

-----------------------------------------------------------------------------
(* The reactor thread.                                                         *)

(* SThread::start returns only once the new thread runs.                       *)
NewConnect ==
  /\ reactor = "idle" /\ conn = "none"
  /\ conn' = "open"
  /\ parser' = "check"
  /\ is_stop_' = FALSE
  /\ UNCHANGED <<reactor, closed_by, queueVars, parseVars, streamVars>>

(* Mutant: the block pushed at the front of the queue.                         *)
OnDataReceivedFront ==
  /\ reactor = "idle" /\ conn = "open"
  /\ received < MaxBlocks
  /\ ClientMaySend
  /\ received' = received + 1
  /\ incomming_data_' = <<received + 1>> \o incomming_data_
  /\ reactor' = "notify_data"
  /\ UNCHANGED <<conn, parser, closed_by, is_stop_, parseVars, streamVars>>

OnDataReceived ==
  /\ reactor = "idle" /\ conn = "open"
  /\ received < MaxBlocks
  /\ ClientMaySend
  /\ received' = received + 1
  /\ incomming_data_' = Append(incomming_data_, received + 1)
  /\ reactor' = "notify_data"
  /\ UNCHANGED <<conn, parser, closed_by, is_stop_, parseVars, streamVars>>

(* notify_all reaches a thread blocked in wait() and is forgotten otherwise.   *)
NotifyAll == parser' = IF parser = "waiting" THEN "check" ELSE parser

(* Mutant: no notification after the push.                                     *)
NotifyDataMissing ==
  /\ reactor = "notify_data"
  /\ reactor' = "idle"
  /\ UNCHANGED <<conn, parser, closed_by, is_stop_, queueVars, parseVars, streamVars>>

NotifyData ==
  /\ reactor = "notify_data"
  /\ NotifyAll
  /\ reactor' = "idle"
  /\ UNCHANGED <<conn, closed_by, is_stop_, queueVars, parseVars, streamVars>>

(* The close handler: erasing the stream destroys it, and ~RtmpStream calls    *)
(* stop().                                                                     *)
CloseStopAll(by) ==
  /\ reactor = "idle" /\ conn = "open"
  /\ conn' = "closing"
  /\ closed_by' = by
  /\ is_stop_' = TRUE
  /\ reactor' = "notify_stop"
  /\ UNCHANGED <<parser, queueVars, parseVars, streamVars>>

PeerClose == CloseStopAll("peer")

(* The server's idle timer closes a connection on which nothing arrives.  It   *)
(* runs for kRTMPTimeoutSec (60 s), long after the parse thread has done what  *)
(* it can and while the client has nothing it may send.                        *)
IdleTimeout ==
  /\ parser = "waiting"
  /\ ~ClientMaySend \/ received = MaxBlocks
  /\ CloseStopAll("timer")

(* Mutant: stop() joins without waking the thread.                             *)
CloseNotifyMissing ==
  /\ reactor = "notify_stop"
  /\ reactor' = "join"
  /\ UNCHANGED <<conn, parser, closed_by, is_stop_, queueVars, parseVars, streamVars>>

CloseNotify ==
  /\ reactor = "notify_stop"
  /\ NotifyAll
  /\ reactor' = "join"
  /\ UNCHANGED <<conn, closed_by, is_stop_, queueVars, parseVars, streamVars>>

(* waitAll joins the thread, then the stream and what it holds are destroyed.  *)
CloseJoin ==
  /\ reactor = "join"
  /\ parser = "exited"
  /\ conn' = "freed"
  /\ incomming_data_' = <<>>
  /\ reactor' = "idle"
  /\ UNCHANGED <<parser, closed_by, is_stop_, received, parseVars, streamVars>>

-----------------------------------------------------------------------------
(* The parse thread.                                                           *)

CheckStop ==
  /\ parser = "check"
  /\ parser' = IF is_stop_ THEN "exited" ELSE "pop"
  /\ UNCHANGED <<conn, reactor, closed_by, is_stop_, queueVars, parseVars, streamVars>>

(* Mutant: the newest block popped first.                                      *)
PopBlockBack ==
  /\ parser = "pop"
  /\ \/ /\ incomming_data_ # <<>>
        /\ raw_data' = incomming_data_[Len(incomming_data_)]
        /\ incomming_data_' = SubSeq(incomming_data_, 1, Len(incomming_data_) - 1)
        /\ parser' = "append"
     \/ /\ incomming_data_ = <<>>
        /\ parser' = "enter_wait"
        /\ UNCHANGED <<raw_data, incomming_data_>>
  /\ UNCHANGED <<conn, reactor, closed_by, is_stop_, received, remained,
                 handshake_state, consumed, streamVars>>

PopBlock ==
  /\ parser = "pop"
  /\ \/ /\ incomming_data_ # <<>>
        /\ raw_data' = Head(incomming_data_)
        /\ incomming_data_' = Tail(incomming_data_)
        /\ parser' = "append"
     \/ /\ incomming_data_ = <<>>
        /\ parser' = "enter_wait"
        /\ UNCHANGED <<raw_data, incomming_data_>>
  /\ UNCHANGED <<conn, reactor, closed_by, is_stop_, received, remained,
                 handshake_state, consumed, streamVars>>

(* wait() without a predicate: the queue and the stop flag are not read again  *)
(* under the lock it takes.                                                    *)
EnterWait ==
  /\ parser = "enter_wait"
  /\ parser' = "waiting"
  /\ UNCHANGED <<conn, reactor, closed_by, is_stop_, queueVars, parseVars, streamVars>>

SpuriousWakeup ==
  /\ parser = "waiting"
  /\ parser' = "check"
  /\ UNCHANGED <<conn, reactor, closed_by, is_stop_, queueVars, parseVars, streamVars>>

AppendBlock ==
  /\ parser = "append"
  /\ remained' = raw_data
  /\ raw_data' = 0
  /\ parser' = "parse"
  /\ UNCHANGED <<conn, reactor, closed_by, is_stop_, queueVars, handshake_state,
                 consumed, streamVars>>

(* Mutant: one parse call per block, whatever else is complete.                *)
HandshakeOncePerBlock ==
  /\ parser = "parse" /\ handshake_state # "Complete"
  /\ parser' = "check"
  /\ IF Arrived(consumed + 1) /\ (handshake_state = "Uninitialized" => version_ok)
     THEN /\ handshake_state' = IF handshake_state = "S2" THEN "Complete" ELSE "S2"
          /\ consumed' = consumed + 1
     ELSE UNCHANGED <<handshake_state, consumed>>
  /\ UNCHANGED <<conn, reactor, closed_by, is_stop_, queueVars, raw_data, remained, streamVars>>

(* C0C1 is answered with S0S1S2, C2 completes the handshake.  Incomplete data  *)
(* and a wrong version both leave the data where it is.                        *)
ReceiveHandshakePacket ==
  /\ parser = "parse" /\ handshake_state # "Complete"
  /\ LET accepted == /\ Arrived(consumed + 1)
                     /\ handshake_state = "Uninitialized" => version_ok
     IN  \/ /\ accepted
            /\ handshake_state' = IF handshake_state = "S2" THEN "Complete" ELSE "S2"
            /\ consumed' = consumed + 1
            /\ UNCHANGED parser
         \/ /\ ~accepted
            /\ parser' = "check"
            /\ UNCHANGED <<handshake_state, consumed>>
  /\ UNCHANGED <<conn, reactor, closed_by, is_stop_, queueVars, raw_data, remained, streamVars>>

(* All the messages that are complete are handled in one call; the call after  *)
(* it needs more data.                                                         *)
ReceiveChunkPacket ==
  /\ parser = "parse" /\ handshake_state = "Complete"
  /\ LET ready == {u \in 1..NUnits : u > consumed /\ Arrived(u)}
     IN  \/ /\ ready # {}
            /\ \E last \in ready : /\ \A u \in ready : u <= last
                                   /\ consumed' = last
            /\ UNCHANGED parser
         \/ /\ ready = {}
            /\ parser' = "check"
            /\ UNCHANGED consumed
  /\ UNCHANGED <<conn, reactor, closed_by, is_stop_, queueVars, raw_data, remained,
                 handshake_state, streamVars>>

-----------------------------------------------------------------------------
ReactorStep == NewConnect \/ OnDataReceived \/ NotifyData \/ PeerClose
               \/ IdleTimeout \/ CloseNotify \/ CloseJoin

ParserStep == CheckStop \/ PopBlock \/ EnterWait \/ AppendBlock
              \/ ReceiveHandshakePacket \/ ReceiveChunkPacket

(* The stream has been destroyed and the reactor is back in its loop.          *)
Finished == conn = "freed" /\ UNCHANGED vars

Next == ReactorStep \/ ParserStep \/ SpuriousWakeup \/ Finished

Spec == Init /\ [][Next]_vars

(* Both threads keep running and the idle timer runs out; no one has to        *)
(* connect, send, close or wake up for no reason.                              *)
FairSpec == /\ Spec
            /\ WF_vars(ParserStep)
            /\ WF_vars(NotifyData \/ CloseNotify \/ CloseJoin)
            /\ WF_vars(IdleTimeout)

-----------------------------------------------------------------------------
(* What must hold.                                                             *)

(* The last block the parse thread has taken off the queue.                    *)
taken == IF raw_data # 0 THEN raw_data ELSE remained

(* No block is lost, duplicated or reordered between the socket and the parse  *)
(* buffer: what has been appended, the block in the parse thread's hand and    *)
(* the queue are together exactly what the reactor received, in order          *)
(* (OnDataReceived pushes at the back, onThreadProc pops at the front).        *)
NoBlockLost ==
  conn \in {"open", "closing"} =>
    /\ taken <= received
    /\ incomming_data_ = [i \in 1..received - taken |-> taken + i]
    /\ raw_data # 0 => raw_data = remained + 1

(* The promise of the ingest side: the parse buffer gets the blocks the socket *)
(* delivered, all of them in order, none twice.                                *)
Relay == INSTANCE InOrderFanOut
         WITH Sinks <- {"parser"}, offered <- received,
              delivered <- [s \in {"parser"} |-> remained]

ParserGetsTheStream == Relay!RelaySpec

(* What has been parsed is a prefix of what has arrived, however the client's  *)
(* units are cut into blocks, and the handshake state says how long it is.     *)
ParsedWasReceived ==
  /\ consumed > 0 => unit_end[consumed] <= remained
  /\ (handshake_state = "Uninitialized") = (consumed = 0)
  /\ (handshake_state = "S2") = (consumed = 1)

(* The parse thread forgets nothing it could parse: when it goes back to its   *)
(* queue, no complete unit is left in _remained_data (the inner loop of        *)
(* onThreadProc runs until a call needs more data or fails).                   *)
NothingLeftUnparsed ==
  parser \in {"check", "pop", "enter_wait", "waiting", "append", "exited"}
    => (consumed < NUnits /\ Arrived(consumed + 1) => consumed = 0 /\ ~version_ok)

(* A block that arrives while the parse thread sleeps is appended to the parse *)
(* buffer unless the connection is closed first (notify_all after the push).   *)
WokenThreadDrains ==
  \A b \in 1..MaxBlocks :
    (parser = "waiting" /\ reactor = "notify_data" /\ received = b)
      ~> (remained >= b \/ is_stop_)

(* The window in which a notification is lost: the parse thread has seen an    *)
(* empty queue and no stop flag, and has not reached the wait.                 *)
AboutToSleep ==
  parser = "enter_wait" \/ (parser = "pop" /\ incomming_data_ = <<>>)

(* Closing a connection completes whenever stop() does not notify inside that  *)
(* window: the parse thread is woken or reads the flag, exits, and the         *)
(* reactor's join returns.                                                     *)
CloseCompletes ==
  (reactor = "notify_stop" /\ ~AboutToSleep) ~> (conn = "freed")

(* README, Network Module: the parse thread exists so that the reactor is not  *)
(* held up; the reactor always gets back to its loop.                          *)
ReactorReturns == (reactor # "idle") ~> (reactor = "idle")
=============================================================================
