------------------------ MODULE MacFlightProperties ------------------------
(***************************************************************************)
(* What the send engine of MacFlight has to guarantee, and what the        *)
(* repository says of it.                                                  *)
(***************************************************************************)
EXTENDS MacFlight

\* Every field of the engine keeps to its range; in particular no counter of
\* the deferral ring passes the ring, and every flight has a neighbour as its hop.
TypeOK == mac \in State

----------------------------------------------------------------------------
\* A flight always ends

\* The timers and buffers that act on the live flight when they fire.  Which of
\* them do depends on its phase: a timeout finds its flag, the gap a chosen data
\* SF, a stashed frame its flight number.
Awake(S) ==
  LET f == S.flight
  IN \/ f.cts /\ "rtsTimeout" \in S.armed
     \/ f.ack /\ "ackTimeout" \in S.armed
     \/ f.sf /\ ~f.ack /\ "ctsToDataGap" \in S.armed
     \/ "retryBackoff" \in S.armed
     \/ S.nackWait = "live" \/ S.rtsDuty = "live" \/ S.lbtRts > 0
     \/ S.stash = "live" /\ S.armed \cap {"dutyDefer", "busyRetry"} # {}
     \/ IsBroadcast(S, f.msg) /\ "mBcastClear" \in S.armed

\* The two ways in which the code does strand a flight: its RTS is dropped (a full
\* deferral ring, or its duty deferral released for another flight), and a
\* broadcast made to await a CTS by a timeout that was not meant for it.
RtsDropped(S) == S.flight # None /\ S.flight.lost
AwaitingBroadcast(S) ==
  S.flight # None /\ IsBroadcast(S, S.flight.msg) /\ S.flight.cts

\* The single flight blocks the whole transmit queue (become_free returns while
\* _pending_tx is set), so no interleaving of answers, refusals, deferrals and
\* timers may leave it without anything that will still move it on.
FlightNotWedged ==
  mac.flight # None => Awake(mac) \/ RtsDropped(mac) \/ AwaitingBroadcast(mac)

\* An awaited ACK has its timeout running and its DATA in the stash: whatever
\* clears awaiting_ack (a refusal reported late, for an earlier flight) can
\* therefore re-issue the frame or end the flight.
AckWaitGuarded ==
  mac.flight # None =>
    (mac.flight.ack => "ackTimeout" \in mac.armed /\ mac.stash = "live")

----------------------------------------------------------------------------
\* The queue is served

Servers == {"queueWakeup", "cascadeRequeue", "deferredDrain"}

\* When the node is idle with items in its queue, something will call become_free
\* again, unless issue_send has just dropped the item it was given (stalled).
QueueServed ==
  (mac.flight = None /\ ~mac.rx /\ Queued(mac) # {}) =>
    mac.armed \cap Servers # {} \/ mac.postAck # None \/ mac.stalled

\* No way into the queue, the deferral list or the listen-before-talk ring (enqueue,
\* requeue, hold, drain, forward, a new flight number) passes the capacity of its array.
QueueBounded ==
  /\ Cardinality(Queued(mac)) <= QueueCap
  /\ Cardinality(Deferred(mac)) <= DeferCap
  /\ mac.lbtRts + mac.lbtOther <= LbtSlots

\* A node never has a flight of its own and an accepted inbound exchange at once:
\* become_free and handle_rts each check the other's half.
HalfDuplex == ~(mac.flight # None /\ mac.rx)

----------------------------------------------------------------------------
\* What the application is told

\* One message, at most one completion, and only once the carrier is gone (node.cpp:
\* "zero or one, never two"); send_acked only for a DATA handed to the radio, except
\* that an ACK names its flight by 4 bits of the counter (Alias).
OneOutcome ==
  \A m \in Msg :
    /\ mac.out[m] # {} => mac.at[m] = "gone"
    /\ mac.out[m] # {"acked", "failed"}
    /\ "acked" \in mac.out[m] => m \in mac.sent \/ Alias

\* A unicast DATA frame goes to the radio only in a flight of that message whose RTS
\* was handed over before (an aliased CTS may stand in for the answer to it): never
\* from a timer or a stash that another flight left behind.
DataAfterRts ==
  [][\A m \in mac'.sent \ mac.sent :
       /\ mac.flight # None /\ mac.flight.msg = m
       /\ IsBroadcast(mac, m) \/ mac.flight.asked \/ Alias]_vars

\* A carrier that was settled does not come back and is not reported again, and no
\* path back to the queue refunds the requeue budget of its message.
CarrierLife ==
  [][\A m \in Msg :
       /\ mac.at[m] = "gone" => mac'.at[m] = "gone" /\ mac'.out[m] = mac.out[m]
       /\ mac.requeues[m] <= mac'.requeues[m]]_vars

----------------------------------------------------------------------------
\* The inductive strengthening of these invariants

\* While the CTS is awaited, the RTS is under way or its timeout runs; otherwise
\* what moves the flight on goes by the two other flags.
Phase(S) ==
  LET f == S.flight
      rts == S.lbtRts > 0 \/ S.rtsDuty = "live"
      broadcast == IsBroadcast(S, f.msg)
  IN f # None =>
       /\ f.ack => "ackTimeout" \in S.armed /\ S.stash = "live"
       /\ f.cts =>
            \/ rts \/ f.lost \/ broadcast
            \/ S.armed \cap {"rtsTimeout", "retryBackoff"} # {}
       /\ ~f.cts =>
            \/ f.ack
            \/ "retryBackoff" \in S.armed \/ S.nackWait = "live"
            \/ f.sf /\ ("ctsToDataGap" \in S.armed \/ (broadcast /\ (rts \/ f.lost)))
            \/ S.stash = "live" /\ S.armed \cap {"dutyDefer", "busyRetry"} # {}
            \/ broadcast /\ "mBcastClear" \in S.armed

Halves(S) == ~(S.flight # None /\ S.rx)

RingFits(S) == S.lbtRts + S.lbtOther <= LbtSlots

\* Where the carriers of the flight and of the receive slot are, and what was told.
Settled(S) ==
  /\ S.flight # None => S.at[S.flight.msg] = "flight"
  /\ S.postAck \in Fwd => S.at[S.postAck] = "accepted"
  /\ \A m \in Msg :
       /\ S.out[m] # {} => S.at[m] = "gone"
       /\ S.out[m] # {"acked", "failed"}
       /\ "acked" \in S.out[m] => m \in S.sent \/ Alias

Served(S) ==
  (S.flight = None /\ ~S.rx /\ Queued(S) # {}) =>
    S.armed \cap Servers # {} \/ S.postAck # None \/ S.stalled

\* What every handler preserves, and what it has restored when it returns.
Coherent(S) == S \in State /\ RingFits(S) /\ Phase(S) /\ Halves(S) /\ Settled(S)

\* The inductive invariant: nothing but TypeOK, FlightNotWedged, AckWaitGuarded,
\* HalfDuplex, OneOutcome and QueueServed, with the phases told apart.
Inductive == Coherent(mac) /\ Served(mac)

----------------------------------------------------------------------------
\* Every send is settled

\* The timer wheel fires every armed timer; a duty window, a busy channel and the
\* hold of an item pass (the firing that changes nothing is not the one owed).
\* Nothing is assumed of the frames heard or of the application.
Fairness ==
  /\ WF_vars(FireRtsTimeout) /\ WF_vars(FireAckTimeout) /\ WF_vars(FireCtsToDataGap)
  /\ WF_vars(FireRetryBackoff) /\ WF_vars(FireMBcastClear) /\ WF_vars(FireQueueWakeup)
  /\ WF_vars(FireCascadeRequeue) /\ WF_vars(FireDeferredDrain)
  /\ WF_vars(FireDutyDefer) /\ WF_vars(FireBusyRetry) /\ WF_vars(FireRtsDuty)
  /\ WF_vars(FireNackWait) /\ WF_vars(FireLbtRts) /\ WF_vars(FireLbtOther)
  /\ WF_vars(PendingRxExpiry) /\ WF_vars(FirePostAck)
  /\ \A m \in Msg : WF_vars(Elapse(m))

LiveSpec == Spec /\ Fairness

InPlay(m) == mac.at[m] \in {"ready", "held", "flight", "deferred"}

\* A send the node took on is settled after finitely many retries, alternatives,
\* requeues, holds and drains, whatever the neighbours answer - unless the RTS of a
\* flight is dropped, or issue_send drops an item and leaves the queue unserved.
SendSettles ==
  \A m \in Dm \cup Fwd :
    InPlay(m) ~> (mac.at[m] = "gone" \/ RtsDropped(mac) \/ mac.stalled)

----------------------------------------------------------------------------
\* What the repository says of the engine and the code does not keep

\* node_carriers.h: a completion for a transit frame would "hand the companion a
\* completion for a send it never made".
NoForeignCompletion == \A m \in Fwd : mac.out[m] = {}

\* node_carriers.h: an M flight "cannot reach the two timeout requeue sites at all".
BroadcastNeverAwaits ==
  mac.flight # None =>
    (IsBroadcast(mac, mac.flight.msg) => ~mac.flight.cts /\ ~mac.flight.ack)

\* node_channel.cpp: after a purge "the armed RTS->DATA gap timer finds no
\* _pending_tx and goes inert" - so no M frame goes out unannounced.
BroadcastAnnounced ==
  [][\A m \in mac'.sent \ mac.sent :
       IsBroadcast(mac, m) => mac.flight.asked]_vars
=============================================================================
