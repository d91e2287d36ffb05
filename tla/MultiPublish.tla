---------------------------- MODULE MultiPublish ----------------------------
(* The forwarding side of one connection, app::SnyMultiRTMPPublish.            *)
(*                                                                             *)
(* The connection's parse thread calls onTrack once and then onSample for      *)
(* every sample of the stream.  onTrack looks the stream up in the             *)
(* configuration and starts one publisher thread per publish_url; onSample     *)
(* appends the sample to the queue of every publisher and notifies them.  Each *)
(* publisher opens its muxer and writes its queue to it.  When the connection  *)
(* has closed, and its parse thread is gone, the reactor stops the publishers  *)
(* and joins them.                                                             *)
(*                                                                             *)
(* Samples are numbered in the order of the onSample calls.                    *)
EXTENDS Naturals, Sequences

CONSTANTS NPublishers,  \* publish_items_ of the configured stream
          MaxSamples    \* bound: samples of the stream

ASSUME PublishAssumption == NPublishers \in Nat /\ MaxSamples \in Nat

Publishers == 1..NPublishers

VARIABLES
  matched,    \* whether the configuration names the connection's app and stream
  owner,      \* where the calling thread is: the parse thread, then the reactor
  cursor,     \* the publisher whose cv_ entry the notify loop visits next
  offered,    \* the number of samples onSample was called with
  publisher,  \* where each publisher thread is inside onThreadProc
  publisher_stop, \* AThread::is_stop_ of each publisher thread
  samples,    \* the queue of each publisher
  sample,     \* the sample each publisher has popped and not written, 0 for none
  cv_,        \* the publishers that have an entry in the map of condition variables
  wrote       \* the last sample each publisher has written to its url

callerVars == <<matched, owner, cursor, offered>>
threadVars == <<publisher, publisher_stop, samples, sample, cv_, wrote>>
publishVars == <<callerVars, threadVars>>

PublishTypeOK ==
  /\ matched \in BOOLEAN
  /\ owner \in {"new", "idle", "notify_sample", "notify_stop", "join", "joined"}
  /\ cursor \in 1..NPublishers + 1
  /\ offered \in 0..MaxSamples
  /\ publisher \in [Publishers -> {"none", "create", "check", "pop", "write",
                                   "enter_wait", "waiting", "exited"}]
  /\ publisher_stop \in [Publishers -> BOOLEAN]
  /\ samples \in [Publishers -> Seq(1..MaxSamples)]
  /\ sample \in [Publishers -> 0..MaxSamples]
  /\ cv_ \subseteq Publishers
  /\ wrote \in [Publishers -> 0..MaxSamples]

PublishInit ==
  /\ matched \in BOOLEAN
  /\ owner = "new"
  /\ cursor = 1
  /\ offered = 0
  /\ publisher = [p \in Publishers |-> "none"]
  /\ publisher_stop = [p \in Publishers |-> TRUE]
  /\ samples = [p \in Publishers |-> <<>>]
  /\ sample = [p \in Publishers |-> 0]
  /\ cv_ = {}
  /\ wrote = [p \in Publishers |-> 0]

-----------------------------------------------------------------------------
(* The calls of the parse thread and of the reactor.                           *)

(* A stream the configuration does not name gets no queue and no thread.       *)
OnTrack ==
  /\ owner = "new"
  /\ owner' = "idle"
  /\ IF matched
     THEN /\ publisher' = [p \in Publishers |-> "create"]
          /\ publisher_stop' = [p \in Publishers |-> FALSE]
     ELSE UNCHANGED <<publisher, publisher_stop>>
  /\ UNCHANGED <<matched, cursor, offered, samples, sample, cv_, wrote>>

OnSample ==
  /\ owner = "idle" /\ offered < MaxSamples
  /\ offered' = offered + 1
  /\ samples' = IF matched
                THEN [p \in Publishers |-> Append(samples[p], offered + 1)]
                ELSE samples
  /\ owner' = "notify_sample"
  /\ cursor' = 1
  /\ UNCHANGED <<matched, publisher, publisher_stop, sample, cv_, wrote>>

(* The parse thread has been joined; the close handler calls stop().           *)
StopAll ==
  /\ owner \in {"new", "idle"}
  /\ publisher_stop' = [p \in Publishers |-> TRUE]
  /\ owner' = "notify_stop"
  /\ cursor' = 1
  /\ UNCHANGED <<matched, offered, publisher, samples, sample, cv_, wrote>>

(* Mutant: only the first publisher notified.                                  *)
NotifyFirst ==
  /\ owner \in {"notify_sample", "notify_stop"} /\ cursor \in Publishers
  /\ publisher' = IF cursor = 1 /\ cursor \in cv_ /\ publisher[cursor] = "waiting"
                  THEN [publisher EXCEPT ![cursor] = "check"]
                  ELSE publisher
  /\ cursor' = cursor + 1
  /\ UNCHANGED <<matched, owner, offered, publisher_stop, samples, sample, cv_, wrote>>

(* One turn of "for (auto& item : cv_) item.second.notify_all()": a publisher  *)
(* without an entry, or not blocked in wait(), hears nothing.                  *)
NotifyNext ==
  /\ owner \in {"notify_sample", "notify_stop"} /\ cursor \in Publishers
  /\ publisher' = IF cursor \in cv_ /\ publisher[cursor] = "waiting"
                  THEN [publisher EXCEPT ![cursor] = "check"]
                  ELSE publisher
  /\ cursor' = cursor + 1
  /\ UNCHANGED <<matched, owner, offered, publisher_stop, samples, sample, cv_, wrote>>

NotifyDone ==
  /\ owner \in {"notify_sample", "notify_stop"} /\ cursor \notin Publishers
  /\ owner' = IF owner = "notify_sample" THEN "idle" ELSE "join"
  /\ UNCHANGED <<matched, cursor, offered, threadVars>>

(* waitAll returns when every publisher thread has ended; the object goes.     *)
Join ==
  /\ owner = "join"
  /\ \A p \in Publishers : publisher[p] \in {"none", "exited"}
  /\ owner' = "joined"
  /\ UNCHANGED <<matched, cursor, offered, threadVars>>

-----------------------------------------------------------------------------
(* The publisher threads.                                                      *)

(* createRtmpMuxer connects to the url and writes the header; a publisher      *)
(* whose muxer does not open ends at once.                                     *)
CreateMuxer(p) ==
  /\ publisher[p] = "create"
  /\ \E opened \in BOOLEAN :
       publisher' = [publisher EXCEPT ![p] = IF opened THEN "check" ELSE "exited"]
  /\ UNCHANGED <<callerVars, publisher_stop, samples, sample, cv_, wrote>>

CheckPublisherStop(p) ==
  /\ publisher[p] = "check"
  /\ publisher' = [publisher EXCEPT ![p] = IF publisher_stop[p] THEN "exited" ELSE "pop"]
  /\ UNCHANGED <<callerVars, publisher_stop, samples, sample, cv_, wrote>>

(* Mutant: the newest sample taken and the rest of the queue dropped.          *)
PopNewestSample(p) ==
  /\ publisher[p] = "pop"
  /\ \/ /\ samples[p] # <<>>
        /\ sample' = [sample EXCEPT ![p] = samples[p][Len(samples[p])]]
        /\ samples' = [samples EXCEPT ![p] = <<>>]
        /\ publisher' = [publisher EXCEPT ![p] = "write"]
     \/ /\ samples[p] = <<>>
        /\ publisher' = [publisher EXCEPT ![p] = "enter_wait"]
        /\ UNCHANGED <<sample, samples>>
  /\ UNCHANGED <<callerVars, publisher_stop, cv_, wrote>>

PopSample(p) ==
  /\ publisher[p] = "pop"
  /\ \/ /\ samples[p] # <<>>
        /\ sample' = [sample EXCEPT ![p] = Head(samples[p])]
        /\ samples' = [samples EXCEPT ![p] = Tail(@)]
        /\ publisher' = [publisher EXCEPT ![p] = "write"]
     \/ /\ samples[p] = <<>>
        /\ publisher' = [publisher EXCEPT ![p] = "enter_wait"]
        /\ UNCHANGED <<sample, samples>>
  /\ UNCHANGED <<callerVars, publisher_stop, cv_, wrote>>

WriteSample(p) ==
  /\ publisher[p] = "write"
  /\ wrote' = [wrote EXCEPT ![p] = sample[p]]
  /\ sample' = [sample EXCEPT ![p] = 0]
  /\ publisher' = [publisher EXCEPT ![p] = "check"]
  /\ UNCHANGED <<callerVars, publisher_stop, samples, cv_>>

(* cv_[id] creates the entry on the first wait; nothing is read again.         *)
PublisherWait(p) ==
  /\ publisher[p] = "enter_wait"
  /\ cv_' = cv_ \cup {p}
  /\ publisher' = [publisher EXCEPT ![p] = "waiting"]
  /\ UNCHANGED <<callerVars, publisher_stop, samples, sample, wrote>>

PublisherWakesUp(p) ==
  /\ publisher[p] = "waiting"
  /\ publisher' = [publisher EXCEPT ![p] = "check"]
  /\ UNCHANGED <<callerVars, publisher_stop, samples, sample, cv_, wrote>>

-----------------------------------------------------------------------------
OwnerStep == OnTrack \/ OnSample \/ StopAll \/ NotifyNext \/ NotifyDone \/ Join

PublisherStep(p) == CreateMuxer(p) \/ CheckPublisherStop(p) \/ PopSample(p)
                    \/ WriteSample(p) \/ PublisherWait(p)

PublishFinished == owner = "joined" /\ UNCHANGED publishVars

PublishNext == OwnerStep \/ (\E p \in Publishers : PublisherStep(p) \/ PublisherWakesUp(p))
        \/ PublishFinished

PublishSpec == PublishInit /\ [][PublishNext]_publishVars

(* Every thread keeps running, and the remote servers answer: connecting and   *)
(* writing end.  No one has to send another sample, or to close.               *)
FairPublishSpec == /\ PublishSpec
            /\ WF_publishVars(NotifyNext \/ NotifyDone \/ Join)
            /\ \A p \in Publishers : WF_publishVars(PublisherStep(p))

-----------------------------------------------------------------------------
(* What must hold.                                                             *)

(* The last sample a publisher has taken off its queue.                        *)
takenBy(p) == IF sample[p] # 0 THEN sample[p] ELSE wrote[p]

(* Every publisher's queue continues exactly where the publisher is: what it   *)
(* wrote, the sample in its hand and its queue are together the samples        *)
(* offered so far, in order, whether or not its muxer opened, and however the  *)
(* publishers interleave; a stream the configuration does not name is queued   *)
(* nowhere (onSample fills every queue in one critical section).               *)
NoSampleLost ==
  \A p \in Publishers :
    IF matched
    THEN /\ takenBy(p) <= offered
         /\ samples[p] = [i \in 1..offered - takenBy(p) |-> takenBy(p) + i]
         /\ sample[p] # 0 => sample[p] = wrote[p] + 1
    ELSE samples[p] = <<>> /\ wrote[p] = 0

(* The promise of the forwarding side: each url gets the stream's samples, all *)
(* of them in order, without a gap, none twice.                                *)
Forwarding == INSTANCE InOrderFanOut WITH Sinks <- Publishers, delivered <- wrote

EachUrlGetsTheStream == Forwarding!RelaySpec

(* A sample offered while a publisher sleeps is written by it, with everything *)
(* that was queued before, unless the connection is being closed.              *)
WokenPublisherWrites ==
  \A p \in Publishers, n \in 1..MaxSamples :
    (publisher[p] = "waiting" /\ owner = "notify_sample" /\ cursor <= p /\ offered = n)
      ~> (wrote[p] >= n \/ publisher_stop[p])

(* The window in which a publisher misses a notification: it has seen an empty *)
(* queue and no stop flag, and is not yet in the wait.                         *)
PublisherAboutToSleep(p) ==
  publisher[p] = "enter_wait" \/ (publisher[p] = "pop" /\ samples[p] = <<>>)

(* stop() returns whenever it does not notify inside that window: every        *)
(* publisher is woken or reads its flag, and ends.                             *)
StopCompletes ==
  (owner = "notify_stop" /\ cursor = 1 /\ \A p \in Publishers : ~PublisherAboutToSleep(p))
    ~> (owner = "joined")

(* README: a stream the configuration names is forwarded to its addresses.     *)
(* Every sample is written to every url that could be opened, while the        *)
(* connection is up.                                                           *)
SampleForwarded ==
  \A p \in Publishers, n \in 1..MaxSamples :
    (matched /\ offered >= n) ~> (wrote[p] >= n \/ publisher_stop[p] \/ publisher[p] = "exited")
=============================================================================
