----------------------------- MODULE MacFlight -----------------------------
(***************************************************************************)
(* The hop-by-hop send engine of one MeshRoute node (lib/core): the        *)
(* transmit queue, the single flight, its RTS / CTS / DATA / ACK exchange, *)
(* and every timer and buffer that has to bring the flight to an end.      *)
(*                                                                         *)
(* `mac` is the part of the C++ Node object those handlers share.  A       *)
(* handler is an operator over such a record that returns the SET of       *)
(* records it may leave: a call inside a handler is the union over what    *)
(* the callee may leave, so nested calls take effect in the order in which *)
(* the code makes them.  One action per timer, received frame or command.  *)
(***************************************************************************)
EXTENDS Naturals, FiniteSets

CONSTANTS
  Dm,              \* direct messages this node originates for its application
  Fwd,             \* transit messages it relays for others
  Chan,            \* channel posts, sent as fire-and-forget M broadcasts
  Notes,           \* protocol-internal messages it originates (custody notices, E2E acks)
  Hops,            \* neighbours usable as a next hop
  Gateways,        \* those of them that announced a layer schedule
  LbtEnabled,      \* lbt_enabled or nav_enabled: transmissions wait for a free channel
  DutyBudget,      \* whether a duty-cycle budget is configured
  Refusals,        \* whether the radio reports refused frames (the simulator's does)
  LbtSlots,        \* kLbtSlots: the ring of listen-before-talk deferrals
  QueueCap,        \* kTxQueueCap
  DeferCap,        \* cap_deferred_sends
  RtsMaxRetries,   \* rts_max_retries
  RequeueMax,      \* cascade_requeue_max
  LoadThreshold,   \* cascade_requeue_load_threshold
  MaxRedrains,     \* send_defer_max_redrains
  MaxAlts,         \* max_rt_candidates
  TxDeferRetries,  \* tx_defer_max_retries
  Inbound,         \* what neighbours may send here: transit messages, "local" ones
  MaxHolds,        \* bound: postponements of one message that use up no retry budget
  Alias,           \* whether a stale answer with an equal 4-bit counter can arrive
  None

Msg == Dm \cup Fwd \cup Chan \cup Notes

Flight == [msg: Msg, next: Hops, retries: Nat, tried: SUBSET Hops,
           cts: BOOLEAN,    \* awaiting_cts
           ack: BOOLEAN,    \* awaiting_ack
           sf: BOOLEAN,     \* chosen_data_sf # 0
           asked: BOOLEAN,  \* an RTS of this flight was handed to the radio
           lost: BOOLEAN]   \* its latest RTS was neither handed over nor stored

ASSUME ClassAssumption ==
  /\ Dm \cap Fwd = {} /\ Dm \cap Chan = {} /\ Dm \cap Notes = {}
  /\ Fwd \cap Chan = {} /\ Fwd \cap Notes = {} /\ Chan \cap Notes = {}
  /\ Gateways \subseteq Hops
  /\ Inbound \subseteq Fwd \cup {"local"}
  /\ "local" \notin Msg
  /\ {LbtEnabled, DutyBudget, Refusals, Alias} \subseteq BOOLEAN

ASSUME NoneAssumption == None \notin Flight /\ None \notin Msg \cup Inbound

ASSUME BoundAssumption ==
  /\ {LbtSlots, QueueCap, DeferCap, RtsMaxRetries, RequeueMax} \subseteq Nat
  /\ {LoadThreshold, MaxRedrains, MaxAlts, TxDeferRetries, MaxHolds} \subseteq Nat

VARIABLE mac

Place == {"new", "accepted", "ready", "held", "flight", "deferred", "gone"}

\* The one-shot timers of the data plane.  The deferral buffers (lbt, rtsDuty,
\* nackWait), rx and postAck own a timer each, armed exactly while they are set.
\* The code compares a flight number in a buffer only with that of the live
\* flight: a buffer is "live" when they are equal, else "stale".
Ref == {"none", "live", "stale"}

Timer == {"rtsTimeout", "ackTimeout", "ctsToDataGap", "retryBackoff", "mBcastClear",
          "queueWakeup", "cascadeRequeue", "deferredDrain", "dutyDefer", "busyRetry"}

State == [at: [Msg -> Place],
          requeues: [Msg -> Nat],      \* requeue_count
          redrains: [Msg -> Nat],      \* redrain_count
          holds: [Msg -> Nat],
          out: [Msg -> SUBSET {"acked", "failed"}],  \* completions pushed to the app
          sent: SUBSET Msg,            \* its DATA was handed to the radio
          bare: SUBSET Chan,           \* requeued without its is_channel_m mark
          flight: Flight \cup {None},  \* _pending_tx
          armed: SUBSET Timer,
          lbtRts: 0..LbtSlots,         \* slots of _deferred_lbt with an RTS of the flight
          lbtOther: 0..LbtSlots,       \* those with any other frame, or a stale RTS
          rtsDuty: Ref,                \* _rts_duty_defer
          nackWait: Ref,               \* _nack_wait
          stash: Ref,                  \* _tx_stash[DATA]
          left: Nat,                   \* its retries_left
          handed: BOOLEAN,             \* a DATA frame is with the radio, its outcome open
          rx: BOOLEAN,                 \* _pending_rx
          postAck: Inbound \cup {None},
          stalled: BOOLEAN]            \* issue_send dropped its item and armed nothing

Init ==
  mac = [at |-> [m \in Msg |-> "new"], requeues |-> [m \in Msg |-> 0],
         redrains |-> [m \in Msg |-> 0], holds |-> [m \in Msg |-> 0],
         out |-> [m \in Msg |-> {}], sent |-> {}, bare |-> {}, flight |-> None,
         armed |-> {}, lbtRts |-> 0, lbtOther |-> 0, rtsDuty |-> "none",
         nackWait |-> "none", stash |-> "none", left |-> 0, handed |-> FALSE,
         rx |-> FALSE, postAck |-> None, stalled |-> FALSE]

----------------------------------------------------------------------------
\* Helpers

Monus(a, b) == IF a > b THEN a - b ELSE 0

IsBroadcast(S, m) == m \in Chan \ S.bare
Ready(S)    == {m \in Msg : S.at[m] = "ready"}
Queued(S)   == {m \in Msg : S.at[m] \in {"ready", "held"}}
Deferred(S) == {m \in Msg : S.at[m] = "deferred"}
HasRoom(S)  == Cardinality(Queued(S)) < QueueCap

Arm(S, t)    == [S EXCEPT !.armed = @ \cup {t}]
Cancel(S, T) == [S EXCEPT !.armed = @ \ T]
Drop(S, m)   == [S EXCEPT !.at[m] = "gone"]

\* terminal_carrier_outcome with the generic outcome owed.  A channel post has
\* the generic type and is not a forward, so it is reported like a DM.
Fail(S, m) ==
  [S EXCEPT !.at[m] = "gone",
            !.out[m] = IF m \in Dm \cup Chan THEN @ \cup {"failed"} ELSE @]

FreshRetries(S, m) == Monus(RtsMaxRetries, S.requeues[m])

\* Variant: a requeued item forgets what it has used up.
BackToQueueRefunded(S, place) ==
  LET m == S.flight.msg
  IN [S EXCEPT !.at[m] = place, !.redrains[m] = 0, !.requeues[m] = 0, !.flight = None,
               !.bare = IF m \in Chan THEN @ \cup {m} ELSE @]

\* txitem_from_pending: the item keeps its requeue meta; the redrain count and
\* the is_channel_m mark are not among the fields it copies.
BackToQueue(S, place) ==
  LET m == S.flight.msg
  IN [S EXCEPT !.at[m] = place, !.redrains[m] = 0, !.flight = None,
               !.bare = IF m \in Chan THEN @ \cup {m} ELSE @]

----------------------------------------------------------------------------
\* The way of an RTS to the radio

\* Variant: a broadcast waits like a unicast.
StartRtsTimeoutAlike(S) == Arm(S, "rtsTimeout")

StartRtsTimeout(S) ==
  Arm(S, IF IsBroadcast(S, S.flight.msg) THEN "ctsToDataGap" ELSE "rtsTimeout")

\* The HAL takes the frame or its ring is full: the timeout is armed either way.
HandRts(S) ==
  StartRtsTimeout([S EXCEPT !.flight = [@ EXCEPT !.asked = TRUE, !.lost = FALSE]])

DeferRtsForDuty(S) ==
  [S EXCEPT !.rtsDuty = "live", !.flight = [@ EXCEPT !.lost = FALSE]]

LbtComplete(S) == {HandRts(S)} \cup (IF DutyBudget THEN {DeferRtsForDuty(S)} ELSE {})

\* Variant: no look for a free slot.
ScheduleLbtDeferUnbounded(S) ==
  [S EXCEPT !.lbtRts = @ + 1, !.flight = [@ EXCEPT !.lost = FALSE]]

ScheduleLbtDefer(S) ==
  IF S.lbtRts + S.lbtOther < LbtSlots
  THEN [S EXCEPT !.lbtRts = @ + 1, !.flight = [@ EXCEPT !.lost = FALSE]]
  ELSE [S EXCEPT !.flight = [@ EXCEPT !.lost = TRUE]]

\* The medium or the NAV is busy, or not.
TxInitiating(S) ==
  LbtComplete(S) \cup (IF LbtEnabled THEN {ScheduleLbtDefer(S)} ELSE {})

----------------------------------------------------------------------------
\* Queue service: defer_send, issue_send, become_free

\* Variant: the deferral list is not bounded.
DeferSendUncapped(S, m) ==
  IF S.redrains[m] >= MaxRedrains
  THEN {[Fail(S, m) EXCEPT !.stalled = TRUE]}
  ELSE {Arm([S EXCEPT !.at[m] = "deferred"], "deferredDrain")}

DeferSend(S, m) ==
  IF S.redrains[m] >= MaxRedrains \/ Cardinality(Deferred(S)) >= DeferCap
  THEN {[Fail(S, m) EXCEPT !.stalled = TRUE]}
  ELSE {Arm([S EXCEPT !.at[m] = "deferred"], "deferredDrain")}

\* No selectable next hop: a forwarder drops, an originator (and a gateway with
\* a cross-layer leg) defers.  Neither goes on to the next queued item.
NoRoute(S, m) ==
  DeferSend(S, m)
    \cup (IF m \in Fwd THEN {[Drop(S, m) EXCEPT !.stalled = TRUE]} ELSE {})

\* A new flight number: what the buffers still hold of an earlier flight is stale.
Outdate(ref) == IF ref = "live" THEN "stale" ELSE ref

NewFlightGen(S) ==
  [S EXCEPT !.lbtRts = 0, !.lbtOther = @ + S.lbtRts,
            !.rtsDuty = Outdate(@), !.nackWait = Outdate(@), !.stash = Outdate(@)]

Launch(S, m, h) ==
  LET data == IsBroadcast(S, m)
  IN TxInitiating(
       [NewFlightGen(S) EXCEPT
                 !.at[m] = "flight",
                 !.flight = [msg |-> m, next |-> h,
                             retries |-> FreshRetries(S, m), tried |-> {},
                             cts |-> ~data, ack |-> FALSE, sf |-> data,
                             asked |-> FALSE, lost |-> FALSE]])

IssueSend(S, m) ==
  LET T == [S EXCEPT !.nackWait = "none"]
  IN NoRoute(T, m) \cup UNION {Launch(T, m, h) : h \in Hops}

\* Ready unicast items that cannot go now: held by the DM origination floor or
\* by the schedule of a gateway next hop ...
MayHold(S) ==
  {m \in Ready(S) : /\ S.holds[m] < MaxHolds
                    /\ \/ m \in Dm
                       \/ Gateways # {} /\ ~IsBroadcast(S, m)}
\* ... or given up at the hand-off, too old for a gateway next hop (they never
\* transmit, so the flight number they take is not counted).
MayExpire(S) ==
  IF Gateways = {} THEN {} ELSE {m \in Ready(S) : ~IsBroadcast(S, m)}

PassOver(S, held, expired) ==
  [S EXCEPT
     !.at = [m \in Msg |-> IF m \in held THEN "held"
                           ELSE IF m \in expired THEN "gone" ELSE S.at[m]],
     !.holds = [m \in Msg |-> IF m \in held THEN S.holds[m] + 1 ELSE S.holds[m]],
     !.out = [m \in Msg |-> IF m \in expired /\ m \in Dm \cup Chan
                            THEN S.out[m] \cup {"failed"} ELSE S.out[m]]]

\* Variant: nothing wakes the queue up for its held items.
ServeQueueAsleep(S) ==
  IF Ready(S) # {} THEN UNION {IssueSend(S, m) : m \in Ready(S)} ELSE {S}

\* The item picked is the first one whose time has come; the order in which the
\* queue holds them is abstracted, any ready item may be the one.
ServeQueue(S) ==
  IF Ready(S) # {} THEN UNION {IssueSend(S, m) : m \in Ready(S)}
  ELSE IF Queued(S) # {} THEN {Arm(S, "queueWakeup")}
  ELSE {S}

\* Variant: an accepted inbound exchange does not hold the queue back.
BecomeFreeReceiving(S) ==
  IF S.flight # None \/ Queued(S) = {} THEN {S}
  ELSE ServeQueue([S EXCEPT !.stalled = FALSE])

BecomeFree(S) ==
  IF S.flight # None \/ S.rx \/ Queued(S) = {} THEN {S}
  ELSE LET T == [S EXCEPT !.stalled = FALSE]
       IN UNION {UNION {ServeQueue(PassOver(T, held, expired)) :
                          expired \in SUBSET (MayExpire(T) \ held)} :
                   held \in SUBSET MayHold(T)}

\* enqueue_data: a full queue refuses the item without a word.
EnqueueData(S, m) ==
  IF HasRoom(S)
  THEN UNION {BecomeFree([S EXCEPT !.at[m] = place]) : place \in {"ready", "held"}}
  ELSE BecomeFree(Drop(S, m))

Originate(S) ==  \* an internal message of this node's own, when there is one left
  {S} \cup UNION {EnqueueData(S, n) : n \in {k \in Notes : S.at[k] = "new"}}

----------------------------------------------------------------------------
\* The ends of a flight, and the ways to try again

GiveUp(S) == BecomeFree([Fail(S, S.flight.msg) EXCEPT !.flight = None])

\* Variant: every end of a flight is reported as a failure.
ReleaseFailed(S) == BecomeFree([Fail(S, S.flight.msg) EXCEPT !.flight = None])

Release(S) == BecomeFree([Drop(S, S.flight.msg) EXCEPT !.flight = None])

\* Giving up a transit message may owe its origin a custody notice.
CascadeTerminalGiveup(S) ==
  IF S.flight.msg \in Fwd THEN UNION {Originate(T) : T \in GiveUp(S)} ELSE GiveUp(S)

\* Handing the RTS over is refused to a flight too old for its gateway next hop.
CancelledAtHandOff(S) == IF S.flight.next \in Gateways THEN GiveUp(S) ELSE {}

TxRtsRetry(S) ==
  LET T == [S EXCEPT !.flight = [@ EXCEPT !.cts = TRUE, !.ack = FALSE, !.sf = FALSE]]
  IN TxInitiating(T) \cup CancelledAtHandOff(T)

\* cascade_terminal_cause, in its order; the age of the message is any.
MustGiveUp(S) ==
  LET r == S.requeues[S.flight.msg]
      depth == Cardinality(Queued(S))
  IN \/ r >= RequeueMax
     \/ depth >= QueueCap
     \/ r + 1 > Monus(RequeueMax, Monus(depth, LoadThreshold))

TryCascadeRequeue(S) ==
  CascadeTerminalGiveup(S)
    \cup (IF MustGiveUp(S) THEN {}
          ELSE {Arm([BackToQueue(S, "held") EXCEPT !.requeues[S.flight.msg] = @ + 1],
                    "cascadeRequeue")})

MarkTried(S) ==
  [S EXCEPT !.flight.tried = IF Cardinality(@) < MaxAlts
                             THEN @ \cup {S.flight.next} ELSE @]

\* Any hop not tried yet may be selectable at this moment, or none may be.
RetryVia(S, h) ==
  TxRtsRetry([S EXCEPT !.flight = [@ EXCEPT !.next = h,
                                            !.retries = FreshRetries(S, S.flight.msg)]])

TakeAlt(S) == UNION {RetryVia(S, h) : h \in Hops \ S.flight.tried}

ReprobeOneWayLink(S, from) ==
  LET m == S.flight.msg
  IN IF S.holds[m] < MaxHolds
     THEN RetryVia([S EXCEPT !.flight.tried = {}, !.holds[m] = @ + 1], from)
     ELSE {}

\* Without an alternative: probe a one-way link again, give up on it when it was
\* probed recently, or requeue.
CascadeToAlt(S) ==
  LET T == MarkTried(S)
  IN TakeAlt(T) \cup ReprobeOneWayLink(T, S.flight.next)
       \cup CascadeTerminalGiveup(T) \cup TryCascadeRequeue(T)

----------------------------------------------------------------------------
\* The way of the DATA (or M) frame to the radio

\* tx_with_retry stashes the frame, then defers it for the duty budget ...
Stash(S) == [S EXCEPT !.stash = "live", !.left = TxDeferRetries]
DutyDeferred(S) == IF DutyBudget THEN {Arm(Stash(S), "dutyDefer")} ELSE {}
\* ... or hands it to the HAL, which may refuse it.
Handed(S) == {Stash(S), [Stash(S) EXCEPT !.handed = Refusals,
                                         !.sent = @ \cup {S.flight.msg}]}

\* Variant: the ACK is awaited without a timeout.
AwaitAckForever(S) == [S EXCEPT !.flight.ack = TRUE]

AwaitAck(S) == Arm([S EXCEPT !.flight.ack = TRUE], "ackTimeout")

DoDataTx(S) ==
  IF S.flight = None THEN {S}
  ELSE IF S.flight.ack \/ ~S.flight.sf THEN {S}
  ELSE IF IsBroadcast(S, S.flight.msg)
  THEN DutyDeferred(S) \cup {Arm(T, "mBcastClear") : T \in Handed(S)}
  ELSE {[T EXCEPT !.flight.ack = FALSE] : T \in DutyDeferred(S)}
         \cup {AwaitAck(T) : T \in Handed(S)}

\* Variant: the flight number of the stash is not compared.
StashIsAny(S) == S.flight # None /\ S.stash # "none"

StashIsCurrent(S) == S.flight # None /\ S.stash = "live"

\* The duty wait is over, or the budget is still exceeded.
DutyDeferFire(S) ==
  IF ~StashIsCurrent(S) THEN {S}
  ELSE DutyDeferred(S) \cup {AwaitAck(T) : T \in Handed(S)}

\* on_tx_complete(refused) for the DATA tag: it clears the ACK wait of whatever
\* flight is live, and ends the flight when the refusals are used up.
DataRefused(S) ==
  LET T == [S EXCEPT !.handed = FALSE]
      U == IF T.flight = None THEN T
           ELSE Cancel([T EXCEPT !.flight.ack = FALSE], {"ackTimeout"})
      V == [U EXCEPT !.stash = "none"]
  IN IF U.stash = "none" THEN {U}
     ELSE IF U.left > 0 THEN {Arm([U EXCEPT !.left = @ - 1], "busyRetry")}
     ELSE IF StashIsCurrent(U) THEN Release(V)
     ELSE {V}

\* retry_stashed hands the bytes over whatever flight is live by now.
RetryStashed(S) ==
  IF S.stash = "none" THEN S
  ELSE LET T == [S EXCEPT !.handed = Refusals]
       IN IF StashIsCurrent(T)
          THEN AwaitAck([T EXCEPT !.sent = @ \cup {T.flight.msg}]) ELSE T

----------------------------------------------------------------------------
\* The timeouts of the flight

\* gateway_doorstep_hold: back to the queue until the gateway's window, without
\* a push when the queue is full; given up when the message is too old.
DoorstepHold(S) ==
  LET m == S.flight.msg
  IN IF S.flight.next \notin Gateways THEN {}
     ELSE GiveUp(S) \cup
          (IF S.holds[m] >= MaxHolds THEN {}
           ELSE IF HasRoom(S)
           THEN BecomeFree([BackToQueue(S, "held") EXCEPT !.holds[m] = @ + 1])
           ELSE Release(S))

\* Variant: a retry does not count.
RetrySameHopFree(S) == Arm(S, "retryBackoff")

\* A retry towards the same hop, or at once another one if the peer is silent.
RetrySameHop(S) ==
  Arm([S EXCEPT !.flight.retries = @ - 1], "retryBackoff")

RtsTimeout(S) ==
  IF S.flight = None THEN {S}
  ELSE IF ~S.flight.cts THEN {S}
  ELSE IF S.rx THEN {Arm(S, "rtsTimeout")}
  ELSE DoorstepHold(S) \cup CascadeToAlt(S)
         \cup (IF S.flight.retries > 0 THEN {RetrySameHop(S)} ELSE {})

AckTimeout(S) ==
  IF S.flight = None THEN {S}
  ELSE IF ~S.flight.ack THEN {S}
  ELSE IF S.rx THEN {Arm(S, "ackTimeout")}
  ELSE DoorstepHold(S) \cup CascadeToAlt(S)
         \cup (IF S.flight.retries > 0
               THEN {RetrySameHop([S EXCEPT !.flight = [@ EXCEPT
                       !.cts = FALSE, !.ack = FALSE, !.sf = FALSE]])}
               ELSE {})

Fires(t, handler(_)) ==
  /\ t \in mac.armed
  /\ mac' \in handler(Cancel(mac, {t}))

FireRtsTimeout   == Fires("rtsTimeout", RtsTimeout)
FireAckTimeout   == Fires("ackTimeout", AckTimeout)
FireCtsToDataGap == Fires("ctsToDataGap", DoDataTx)
FireDutyDefer    == Fires("dutyDefer", DutyDeferFire)
FireQueueWakeup  == Fires("queueWakeup", BecomeFree)
FireCascadeRequeue == Fires("cascadeRequeue", BecomeFree)

FireRetryBackoff ==
  Fires("retryBackoff", LAMBDA S : IF S.flight = None THEN {S} ELSE TxRtsRetry(S))

FireBusyRetry == Fires("busyRetry", LAMBDA S : {RetryStashed(S)})

FireMBcastClear ==
  Fires("mBcastClear",
        LAMBDA S : IF S.flight = None THEN {S}
                   ELSE IF IsBroadcast(S, S.flight.msg) THEN Release(S) ELSE {S})

----------------------------------------------------------------------------
\* The timers of the deferral buffers

LbtFireRts(S) ==
  LET T == [S EXCEPT !.lbtRts = @ - 1]
  IN IF T.flight = None THEN {T} ELSE LbtComplete(T) \cup CancelledAtHandOff(T)

FireLbtRts == mac.lbtRts > 0 /\ mac' \in LbtFireRts(mac)

FireLbtOther == mac.lbtOther > 0 /\ mac' = [mac EXCEPT !.lbtOther = @ - 1]

\* The record is released after the hand-off was cancelled, when giving up has
\* already put the next flight on its way: its own deferral may be in there.
ReleaseRtsDuty(S) ==
  [S EXCEPT !.rtsDuty = "none",
            !.flight = IF @ = None \/ S.rtsDuty # "live" THEN @
                       ELSE [@ EXCEPT !.lost = TRUE]]

RtsDutyDeferFire(S) ==
  LET T == [S EXCEPT !.rtsDuty = "none"]
  IN IF S.flight = None \/ S.rtsDuty = "stale" THEN {T}
     ELSE {S, HandRts(T)} \cup {ReleaseRtsDuty(U) : U \in CancelledAtHandOff(S)}

FireRtsDuty == mac.rtsDuty # "none" /\ mac' \in RtsDutyDeferFire(mac)

NackWaitFire(S) ==
  LET T == [S EXCEPT !.nackWait = "none"]
  IN IF S.flight = None \/ S.nackWait = "stale" THEN {T} ELSE TxRtsRetry(T)

FireNackWait == mac.nackWait # "none" /\ mac' \in NackWaitFire(mac)

\* try_drain_deferred: expired sends fail, routed ones go to the head of the
\* queue, what no longer fits is lost, the rest waits for the next round.
Drain(S, expired, routed, pushed) ==
  LET T == [S EXCEPT
        !.at = [m \in Msg |-> IF m \in expired \cup pushed THEN "gone"
                              ELSE IF m \in routed THEN "ready" ELSE S.at[m]],
        !.redrains = [m \in Msg |-> IF m \in routed THEN S.redrains[m] + 1
                                    ELSE S.redrains[m]],
        !.out = [m \in Msg |-> IF m \in expired /\ m \in Dm \cup Chan
                               THEN S.out[m] \cup {"failed"} ELSE S.out[m]]]
  IN {IF Deferred(U) # {} THEN Arm(U, "deferredDrain") ELSE U : U \in BecomeFree(T)}

\* The queued items pushed out of the array by the routed ones ahead of them
\* (a routed one is cut only when they alone do not fit).
PushedOut(S, routed, pushed) ==
  LET q == Queued(S)
      all == Cardinality(q \cup routed)
  IN /\ pushed \subseteq q \cup routed
     /\ Cardinality(pushed) = Monus(all, QueueCap)
     /\ pushed \cap routed # {} => q \subseteq pushed

FireDeferredDrain ==
  /\ "deferredDrain" \in mac.armed
  /\ \E expired \in SUBSET Deferred(mac) :
       \E routed \in SUBSET (Deferred(mac) \ expired) :
         \E pushed \in SUBSET (Queued(mac) \cup routed) :
           /\ PushedOut(mac, routed, pushed)
           /\ mac' \in Drain(Cancel(mac, {"deferredDrain"}), expired, routed, pushed)

\* The time of a held item comes.
Elapse(m) == mac.at[m] = "held" /\ mac' = [mac EXCEPT !.at[m] = "ready"]

----------------------------------------------------------------------------
\* Frames heard.  An answer names its flight only by receiver and 4-bit counter.

Answered ==
  /\ mac.flight # None
  /\ Alias \/ (mac.flight.asked /\ ~IsBroadcast(mac, mac.flight.msg))

\* Variant: the gap to the DATA is not armed.
HandleCtsGapless(S) ==
  {[Cancel(S, {"rtsTimeout", "retryBackoff"}) EXCEPT
      !.flight = [@ EXCEPT !.cts = FALSE, !.sf = TRUE, !.lost = FALSE]]}

HandleCts(S) ==
  {Arm([Cancel(S, {"rtsTimeout", "retryBackoff"}) EXCEPT
          !.flight = [@ EXCEPT !.cts = FALSE, !.sf = TRUE, !.lost = FALSE]], "ctsToDataGap")}

\* CTS already_received: the next hop took an earlier copy.
HandleCtsAlreadyReceived(S) == Release(Cancel(S, {"rtsTimeout", "retryBackoff"}))

HearCts == Answered /\ mac.flight.cts /\ mac' \in HandleCts(mac)

HearCtsAlreadyReceived ==
  /\ Answered /\ mac.flight.cts /\ mac.flight.msg \in mac.sent
  /\ mac' \in HandleCtsAlreadyReceived(mac)

\* handle_ack pushes send_acked for any generic type, whoever originated it.
HandleAck(S) ==
  LET m == S.flight.msg
  IN Release([Cancel(S, {"ackTimeout", "retryBackoff"}) EXCEPT
                !.out[m] = IF m \in Notes THEN @ ELSE @ \cup {"acked"}])

HearAck ==
  /\ Answered /\ mac.flight.ack /\ (mac.flight.msg \in mac.sent \/ Alias)
  /\ mac' \in HandleAck(mac)

\* handle_nack stops both timeouts (not the gap, not the backoff), then goes by
\* the reason.
Nacked(S) ==
  [Cancel(S, {"rtsTimeout", "ackTimeout"}) EXCEPT
     !.flight = [@ EXCEPT !.cts = FALSE, !.ack = FALSE]]

HandleNack(S, reason) ==
  LET T == Nacked(S)
      m == S.flight.msg
      held == [T EXCEPT !.holds[m] = @ + 1]
      tried == MarkTried(T)
  IN CASE reason = "loopDup"   -> TakeAlt(tried) \cup GiveUp(tried)
       [] reason = "busyShort" -> {[held EXCEPT !.nackWait = "live"]}
       [] reason = "busyLong"  -> IF HasRoom(held)
                                  THEN BecomeFree(BackToQueue(held, "ready"))
                                  ELSE GiveUp(held)
       [] reason = "hopBudget" -> GiveUp(T)
       [] reason = "budget"    -> TryCascadeRequeue(T)
       [] OTHER -> {StartRtsTimeout([held EXCEPT !.flight.cts = TRUE])}

NackReason == {"loopDup", "busyShort", "busyLong", "hopBudget", "budget", "unknown"}
Free == {"busyShort", "busyLong", "unknown"}  \* reasons that cost no retry: bounded by MaxHolds

HearNack(reason) ==
  /\ Answered
  /\ reason \in Free => mac.holds[mac.flight.msg] < MaxHolds
  /\ mac' \in HandleNack(mac, reason)

\* handle_rts of a transmission of our own message by its next hop: it counts as
\* the hop ACK, without a completion for the application.
HandleRtsCredit(S) == Release(Cancel(S, {"rtsTimeout", "ackTimeout", "retryBackoff"}))

HearForward ==
  /\ mac.flight # None
  /\ ~IsBroadcast(mac, mac.flight.msg) /\ mac.flight.msg \in mac.sent
  /\ mac' \in HandleRtsCredit(mac)

\* The receiving half: handle_rts accepts an exchange only without a flight,
\* handle_data ACKs and keeps what it took in one slot until do_post_ack, which
\* delivers or forwards it.
HearRts ==
  /\ mac.flight = None /\ ~mac.rx /\ Inbound # {}
  /\ mac' = [mac EXCEPT !.rx = TRUE]

HearData ==
  /\ mac.rx
  /\ \E p \in {i \in Inbound : i \in Fwd => mac.at[i] = "new"} :
       mac' = [mac EXCEPT
                 !.rx = FALSE, !.postAck = p,
                 !.at = [m \in Msg |-> IF m = p THEN "accepted"
                                       ELSE IF m = mac.postAck THEN "gone" ELSE @[m]]]

\* Another frame than the one announced, or a repetition already taken.
HearOtherData == mac.rx /\ mac' \in BecomeFree([mac EXCEPT !.rx = FALSE])

PendingRxExpiry == mac.rx /\ mac' \in BecomeFree([mac EXCEPT !.rx = FALSE])

PostAck(S) ==
  LET p == S.postAck
      T == [S EXCEPT !.postAck = None]
  IN IF p = "local" THEN UNION {BecomeFree(U) : U \in Originate(T)}
     ELSE BecomeFree([T EXCEPT !.at[p] = IF HasRoom(T) THEN "ready" ELSE "gone"])

FirePostAck == mac.postAck # None /\ mac' \in PostAck(mac)

----------------------------------------------------------------------------
\* Commands, other frames and the radio

Send(m) == m \in Dm /\ mac.at[m] = "new" /\ mac' \in EnqueueData(mac, m)

\* Variant: the queue is left to somebody else.
EnqueueFloodUnserved(S, m) == IF HasRoom(S) THEN {[S EXCEPT !.at[m] = "ready"]} ELSE {Drop(S, m)}

\* enqueue_flood_m returns at a full queue, without serving it.
EnqueueFlood(S, m) ==
  IF HasRoom(S) THEN BecomeFree([S EXCEPT !.at[m] = "ready"]) ELSE {Drop(S, m)}

PostChannel(m) == m \in Chan /\ mac.at[m] = "new" /\ mac' \in EnqueueFlood(mac, m)

\* handle_channel_pull sends a post again for a neighbour, and serves the queue
\* whether enqueue_channel_m had room or not.
ServePull(m) ==
  /\ m \in Chan /\ mac.at[m] = "new"
  /\ mac' \in BecomeFree(IF HasRoom(mac) THEN [mac EXCEPT !.at[m] = "ready"]
                         ELSE Drop(mac, m))

\* purge_tx_carriers on the team axis: team posts leave the queue and the air.
PurgeTeam(S, posts) ==
  LET inFlight == S.flight # None /\ S.flight.msg \in posts
      T == [S EXCEPT !.at = [m \in Msg |-> IF m \in posts THEN "gone" ELSE S.at[m]],
                     !.flight = IF inFlight THEN None ELSE @]
  IN IF inFlight THEN BecomeFree(T) ELSE {T}

LeaveTeam ==
  \E posts \in SUBSET {m \in Chan \ mac.bare : mac.at[m] \in {"ready", "held", "flight"}} :
    posts # {} /\ mac' \in PurgeTeam(mac, posts)

\* Another frame of this node (beacon, query, NACK) takes a deferral slot.
DeferOther ==
  /\ LbtEnabled /\ mac.lbtRts + mac.lbtOther < LbtSlots
  /\ mac' = [mac EXCEPT !.lbtOther = @ + 1]

RefuseData == Refusals /\ mac.handed /\ mac' \in DataRefused(mac)

\* on_tx_complete(expired): the HAL held the RTS past its deadline.
RtsExpired ==
  /\ mac.flight # None
  /\ mac.flight.asked /\ mac.flight.next \in Gateways
  /\ mac' \in GiveUp(mac)

Timers ==
  \/ FireRtsTimeout \/ FireAckTimeout \/ FireCtsToDataGap \/ FireRetryBackoff
  \/ FireMBcastClear \/ FireQueueWakeup \/ FireCascadeRequeue \/ FireDeferredDrain
  \/ FireDutyDefer \/ FireBusyRetry \/ FireRtsDuty \/ FireNackWait
  \/ FireLbtRts \/ FireLbtOther \/ PendingRxExpiry \/ FirePostAck
  \/ \E m \in Msg : Elapse(m)

Frames ==
  \/ HearCts \/ HearCtsAlreadyReceived \/ HearAck \/ HearForward
  \/ HearRts \/ HearData \/ HearOtherData
  \/ \E reason \in NackReason : HearNack(reason)

Environment ==
  \/ LeaveTeam \/ RefuseData \/ RtsExpired \/ DeferOther
  \/ \E m \in Msg : Send(m) \/ PostChannel(m) \/ ServePull(m)

Next == Timers \/ Frames \/ Environment

vars == <<mac>>

Spec == Init /\ [][Next]_vars
=============================================================================
