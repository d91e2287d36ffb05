---------------------------- MODULE InOrderFanOut ----------------------------
(* What the two hand-over queues of the proxy promise: items are offered one   *)
(* after the other, and every sink gets all of them, each once and in the      *)
(* order they were offered, at its own pace.  Items are numbered, so what a    *)
(* sink has got is the number of the last one.                                 *)
EXTENDS Naturals

CONSTANT Sinks

VARIABLES offered, delivered

relayVars == <<offered, delivered>>

RelayInit == offered = 0 /\ delivered = [s \in Sinks |-> 0]

Offer == offered' = offered + 1 /\ UNCHANGED delivered

Deliver(s) ==
  /\ delivered[s] < offered
  /\ delivered' = [delivered EXCEPT ![s] = @ + 1]
  /\ UNCHANGED offered

RelayNext == Offer \/ \E s \in Sinks : Deliver(s)

RelaySpec == RelayInit /\ [][RelayNext]_relayVars
=============================================================================
