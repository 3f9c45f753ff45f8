--------------------------- MODULE MacFlightProofs ---------------------------
(***************************************************************************)
(* The send engine keeps its invariant, for any sets of messages and       *)
(* neighbours and any values of the limits.                                *)
(*                                                                         *)
(* Handlers are operators, so the proof follows the code's call graph: for *)
(* every operator a lemma says what it restores when it is called in a     *)
(* state its callers can leave (XRestores), or which parts of the          *)
(* invariant it keeps for a caller that goes on (XKeeps).  An action is    *)
(* then its handler's lemma, and the invariant the union of the actions.   *)
(***************************************************************************)
EXTENDS MacFlightProperties, TLAPS

\* The invariant, of any state a handler may leave.
Restored(S) == Coherent(S) /\ Served(S)

\* The limits are numbers, the features switches.
LEMMA Bounds ==
  /\ LbtSlots \in Nat /\ RtsMaxRetries \in Nat /\ TxDeferRetries \in Nat
  /\ {LbtEnabled, DutyBudget, Refusals, Alias} \subseteq BOOLEAN
  BY BoundAssumption, ClassAssumption

\* What is not None in the flight field is a flight.
LEMMA FlightTyped ==
  /\ \A S \in State : S.flight # None => S.flight \in Flight
  /\ \A f \in Flight : f # None
  BY NoneAssumption DEF State

\* Without a flight there is no phase to keep.
LEMMA CoherentNoFlight ==
  ASSUME NEW S, S \in State, RingFits(S), S.flight = None, Settled(S) PROVE Coherent(S)
  BY DEF Coherent, Phase, Halves

\* An RTS that can go now: apart from it, the phase of the flight is in order.
RtsDue(S) ==
  LET f == S.flight
      broadcast == IsBroadcast(S, f.msg)
  IN /\ S \in State /\ RingFits(S) /\ Halves(S) /\ Settled(S) /\ f # None
     /\ f.ack => "ackTimeout" \in S.armed /\ S.stash = "live"
     /\ ~f.cts => \/ f.ack \/ "retryBackoff" \in S.armed \/ S.nackWait = "live"
                  \/ f.sf /\ ("ctsToDataGap" \in S.armed \/ broadcast)
                  \/ S.stash = "live" /\ S.armed \cap {"dutyDefer", "busyRetry"} # {}
                  \/ broadcast /\ "mBcastClear" \in S.armed

\* An RTS handed to the radio has its timeout.
LEMMA HandRtsRestores ==
  ASSUME NEW S, RtsDue(S) PROVE Restored(HandRts(S)) /\ HandRts(S).flight # None
  <1> DEFINE T == HandRts(S)
  <1>1. T \in State
    BY NoneAssumption DEF RtsDue, HandRts, StartRtsTimeout, Arm, State, Flight, Timer
  <1>2. T.flight # None
    <2>1. S.flight \in Flight
      BY FlightTyped DEF RtsDue
    <2>2. [S.flight EXCEPT !.asked = TRUE, !.lost = FALSE] \in Flight
      BY <2>1 DEF Flight
    <2>3. T.flight = [S.flight EXCEPT !.asked = TRUE, !.lost = FALSE]
      BY DEF RtsDue, HandRts, StartRtsTimeout, Arm, State
    <2> QED BY <2>2, <2>3, FlightTyped
  <1>3. Phase(T)
    BY NoneAssumption DEF RtsDue, HandRts, StartRtsTimeout, Arm, State, Flight, Phase, IsBroadcast
  <1>4. RingFits(T) /\ Halves(T) /\ Settled(T)
    BY NoneAssumption DEF RtsDue, HandRts, StartRtsTimeout, Arm, State, Flight, RingFits, Halves, Settled
  <1> QED BY <1>1, <1>2, <1>3, <1>4 DEF Restored, Coherent, Served

\* An RTS that waits for the duty budget is in its buffer.
LEMMA DeferRtsRestores ==
  ASSUME NEW S, RtsDue(S) PROVE Restored(DeferRtsForDuty(S)) /\ DeferRtsForDuty(S).flight # None
  <1> DEFINE T == DeferRtsForDuty(S)
  <1>1. T \in State /\ T.flight # None
    <2>1. S.flight \in Flight /\ S \in State
      BY FlightTyped DEF RtsDue
    <2>2. [S.flight EXCEPT !.lost = FALSE] \in Flight
      BY <2>1 DEF Flight
    <2>3. T.flight = [S.flight EXCEPT !.lost = FALSE]
      BY <2>1 DEF DeferRtsForDuty, State
    <2>4. T \in State
      BY <2>1, <2>2 DEF DeferRtsForDuty, State, Ref
    <2> QED BY <2>2, <2>3, <2>4, FlightTyped
  <1>2. Phase(T)
    BY NoneAssumption DEF RtsDue, DeferRtsForDuty, State, Flight, Phase, IsBroadcast
  <1>3. RingFits(T) /\ Halves(T) /\ Settled(T)
    BY NoneAssumption DEF RtsDue, DeferRtsForDuty, State, Flight, RingFits, Halves, Settled
  <1> QED BY <1>1, <1>2, <1>3 DEF Restored, Coherent, Served

\* An RTS that waits for the channel is in the ring, or is known to be dropped.
LEMMA LbtDeferRestores ==
  ASSUME NEW S, RtsDue(S) PROVE Restored(ScheduleLbtDefer(S)) /\ ScheduleLbtDefer(S).flight # None
  <1>1. CASE S.lbtRts + S.lbtOther < LbtSlots
    <2> DEFINE T == [S EXCEPT !.lbtRts = @ + 1, !.flight = [@ EXCEPT !.lost = FALSE]]
    <2>1. T \in State /\ RingFits(T)
      <3>1. S.lbtRts \in Nat /\ S.lbtOther \in Nat /\ S \in State /\ S.flight \in Flight
        BY Bounds DEF RtsDue, State
      <3>2. S.lbtRts + 1 \in 0..LbtSlots
        BY <1>1, <3>1, Bounds
      <3>3. [S.flight EXCEPT !.lost = FALSE] \in Flight
        BY <3>1 DEF Flight
      <3>4. T \in State
        BY <3>1, <3>2, <3>3 DEF State
      <3>5. T.lbtRts = S.lbtRts + 1 /\ T.lbtOther = S.lbtOther
        BY <3>1 DEF State
      <3> QED BY <1>1, <3>1, <3>4, <3>5, Bounds DEF RingFits
    <2>2. Phase(T)
      BY NoneAssumption, <2>1 DEF RtsDue, State, Flight, Phase, IsBroadcast
    <2>3. Halves(T) /\ Settled(T) /\ T.flight # None
      <3>1. S.flight \in Flight /\ S \in State
        BY FlightTyped DEF RtsDue
      <3>2. [S.flight EXCEPT !.lost = FALSE] \in Flight
        BY <3>1 DEF Flight
      <3>3. T.flight # None
        BY <3>1, <3>2, FlightTyped DEF State
      <3>4. Halves(T)
        BY <3>1 DEF RtsDue, State, Halves
      <3>5. Settled(T)
        BY <3>1 DEF RtsDue, State, Flight, Settled
      <3> QED BY <3>3, <3>4, <3>5
    <2>4. ScheduleLbtDefer(S) = T
      BY <1>1 DEF ScheduleLbtDefer
    <2> QED BY <2>1, <2>2, <2>3, <2>4 DEF Restored, Coherent, Served
  <1>2. CASE ~(S.lbtRts + S.lbtOther < LbtSlots)
    <2> DEFINE T == [S EXCEPT !.flight = [@ EXCEPT !.lost = TRUE]]
    <2>1. T \in State /\ RingFits(T) /\ T.flight # None
      <3>1. S.flight \in Flight /\ S \in State
        BY FlightTyped DEF RtsDue
      <3>2. [S.flight EXCEPT !.lost = TRUE] \in Flight
        BY <3>1 DEF Flight
      <3>3. T.flight # None
        BY <3>1, <3>2, FlightTyped DEF State
      <3>4. T \in State
        BY <3>1, <3>2 DEF State
      <3>5. RingFits(T)
        BY <3>1 DEF RtsDue, State, RingFits
      <3> QED BY <3>3, <3>4, <3>5
    <2>2. Phase(T)
      BY NoneAssumption DEF RtsDue, State, Flight, Phase, IsBroadcast
    <2>3. Halves(T) /\ Settled(T)
      BY NoneAssumption DEF RtsDue, State, Flight, Halves, Settled
    <2>4. ScheduleLbtDefer(S) = T
      BY <1>2 DEF ScheduleLbtDefer
    <2> QED BY <2>1, <2>2, <2>3, <2>4 DEF Restored, Coherent, Served
  <1> QED BY <1>1, <1>2

\* However the channel is, the RTS is accounted for.
LEMMA TxInitiatingRestores ==
  ASSUME NEW S, RtsDue(S)
  PROVE \A T \in TxInitiating(S) \cup LbtComplete(S) : Restored(T) /\ T.flight # None
  BY HandRtsRestores, DeferRtsRestores, LbtDeferRestores DEF TxInitiating, LbtComplete

\* A message that fails is settled.
LEMMA FailKeeps ==
  ASSUME NEW S, S \in State, RingFits(S), Settled(S), NEW m \in Msg, S.at[m] \notin {"gone", "accepted"}
  PROVE /\ Fail(S, m) \in State
        /\ Settled([Fail(S, m) EXCEPT !.flight = None])
        /\ S.flight = None => Settled(Fail(S, m))
        /\ [Fail(S, m) EXCEPT !.flight = None] \in State
        /\ RingFits(Fail(S, m)) /\ Fail(S, m).flight = S.flight
  <1>1. Fail(S, m) \in State /\ [Fail(S, m) EXCEPT !.flight = None] \in State
    BY DEF Fail, State, Place
  <1>2. Settled([Fail(S, m) EXCEPT !.flight = None])
    BY DEF Fail, State, Place, Settled
  <1>3. S.flight = None => Settled(Fail(S, m))
    BY DEF Fail, State, Place, Settled
  <1> QED BY <1>1, <1>2, <1>3 DEF Fail, State, RingFits

\* A message without a route leaves the queue, deferred or settled.
LEMMA NoRouteRestores ==
  ASSUME NEW S, Coherent(S), S.flight = None, NEW m \in Msg, S.at[m] = "ready"
  PROVE \A T \in NoRoute(S, m) : Restored(T)
  <1>1. Restored([Fail(S, m) EXCEPT !.stalled = TRUE])
    <2> DEFINE F == Fail(S, m)
               T == [F EXCEPT !.stalled = TRUE]
    <2>1. F \in State /\ RingFits(F) /\ Settled(F) /\ F.flight = None
      BY FailKeeps DEF Coherent
    <2>2. T \in State /\ T.flight = None /\ T.stalled /\ RingFits(T)
      BY <2>1 DEF State, RingFits
    <2>3. Settled(T)
      BY <2>1 DEF Settled, State
    <2> QED BY <2>2, <2>3, CoherentNoFlight DEF Restored, Served
  <1>2. Restored(Arm([S EXCEPT !.at[m] = "deferred"], "deferredDrain"))
    <2> DEFINE T == Arm([S EXCEPT !.at[m] = "deferred"], "deferredDrain")
    <2>1. T \in State /\ T.flight = None /\ "deferredDrain" \in T.armed /\ RingFits(T)
      BY DEF Coherent, State, Arm, Timer, Place, RingFits
    <2>2. Settled(T)
      BY DEF Coherent, State, Arm, Settled
    <2> QED BY <2>1, <2>2, CoherentNoFlight DEF Restored, Served, Servers
  <1>3. Restored([Drop(S, m) EXCEPT !.stalled = TRUE])
    <2> DEFINE T == [Drop(S, m) EXCEPT !.stalled = TRUE]
    <2>1. T \in State /\ T.flight = None /\ T.stalled /\ RingFits(T)
      BY DEF Coherent, State, Drop, Place, RingFits
    <2>2. Settled(T)
      BY DEF Coherent, State, Drop, Settled
    <2> QED BY <2>1, <2>2, CoherentNoFlight DEF Restored, Served
  <1> QED BY <1>1, <1>2, <1>3 DEF NoRoute, DeferSend

\* A new flight starts in order, whatever earlier flights left in the buffers.
LEMMA LaunchRestores ==
  ASSUME NEW S, Coherent(S), S.flight = None, ~S.rx,
         NEW m \in Msg, S.at[m] = "ready", NEW h \in Hops
  PROVE \A T \in Launch(S, m, h) : Restored(T)
  <1> DEFINE data == IsBroadcast(S, m)
             f == [msg |-> m, next |-> h, retries |-> FreshRetries(S, m), tried |-> {},
                   cts |-> ~data, ack |-> FALSE, sf |-> data,
                   asked |-> FALSE, lost |-> FALSE]
             T == [NewFlightGen(S) EXCEPT !.at[m] = "flight", !.flight = f]
  <1>1. FreshRetries(S, m) \in Nat
    BY Bounds DEF FreshRetries, Monus, Coherent, State
  <1>2. f \in Flight
    BY <1>1 DEF Flight, IsBroadcast
  <1>3. NewFlightGen(S) \in State /\ RingFits(NewFlightGen(S))
    <2>1. S.lbtRts \in Nat /\ S.lbtOther \in Nat /\ S.lbtRts + S.lbtOther <= LbtSlots
      BY Bounds DEF Coherent, State, RingFits
    <2>2. 0 \in 0..LbtSlots /\ S.lbtOther + S.lbtRts \in 0..LbtSlots
      BY <2>1, Bounds
    <2>3. NewFlightGen(S) \in State
      <3>1. \A ref \in Ref : Outdate(ref) \in Ref
        BY DEF Outdate, Ref
      <3> QED BY <2>2, <3>1 DEF NewFlightGen, Coherent, State
    <2>4. NewFlightGen(S).lbtRts = 0 /\ NewFlightGen(S).lbtOther = S.lbtOther + S.lbtRts
      BY DEF NewFlightGen, Coherent, State
    <2> QED BY <2>1, <2>3, <2>4, Bounds DEF RingFits
  <1>4. T \in State /\ T.flight = f /\ ~T.rx /\ T.bare = S.bare /\ RingFits(T)
    BY <1>2, <1>3 DEF State, Place, NewFlightGen, Coherent, RingFits
  <1>5. Settled(T)
    BY <1>2, <1>3 DEF State, Settled, NewFlightGen, Coherent, Flight
  <1>6. RtsDue(T)
    <2>1. T.flight # None
      BY <1>2, <1>4, FlightTyped
    <2>2. f.msg = m /\ ~f.ack /\ f.cts = ~data /\ f.sf = data
      OBVIOUS
    <2>3. f.cts \/ (IsBroadcast(T, m) /\ f.sf)
      BY <1>4, <2>2 DEF IsBroadcast
    <2> QED BY <1>4, <1>5, <2>1, <2>2, <2>3 DEF RtsDue, Halves
  <1> QED BY <1>6, TxInitiatingRestores DEF Launch

\* issue_send: a flight, or one item less in the queue.
LEMMA IssueSendRestores ==
  ASSUME NEW S, Coherent(S), S.flight = None, ~S.rx, NEW m \in Msg, S.at[m] = "ready"
  PROVE \A T \in IssueSend(S, m) : Restored(T)
  <1> DEFINE T == [S EXCEPT !.nackWait = "none"]
  <1>1. T \in State /\ T.flight = None /\ ~T.rx /\ T.at[m] = "ready" /\ RingFits(T)
    BY DEF Coherent, State, Ref, RingFits
  <1>2. Settled(T)
    BY DEF Coherent, State, Settled
  <1>3. Coherent(T)
    BY <1>1, <1>2, CoherentNoFlight
  <1>4. \A U \in NoRoute(T, m) : Restored(U)
    BY <1>1, <1>3, NoRouteRestores
  <1>5. \A h \in Hops : \A U \in Launch(T, m, h) : Restored(U)
    BY <1>1, <1>3, LaunchRestores
  <1>6. IssueSend(S, m) = NoRoute(T, m) \cup UNION {Launch(T, m, h) : h \in Hops}
    BY DEF IssueSend
  <1> HIDE DEF T
  <1> QED BY <1>4, <1>5, <1>6

\* Holding and expiring queued items touches no flight.
LEMMA PassOverKeeps ==
  ASSUME NEW S, Coherent(S), S.flight = None, ~S.rx,
         NEW held \in SUBSET Ready(S), NEW expired \in SUBSET (Ready(S) \ held)
  PROVE LET T == PassOver(S, held, expired)
        IN Coherent(T) /\ T.flight = None /\ ~T.rx
  <1> DEFINE T == PassOver(S, held, expired)
  <1>1. S \in State /\ Ready(S) \subseteq Msg /\ \A m \in held \cup expired : S.at[m] = "ready"
    BY DEF Coherent, Ready
  <1>2. T.at \in [Msg -> Place] /\ T.holds \in [Msg -> Nat]
        /\ T.out \in [Msg -> SUBSET {"acked", "failed"}]
    BY <1>1 DEF PassOver, State, Place
  <1>3. T \in State
    BY <1>1, <1>2 DEF PassOver, State
  <1>4. T.flight = None /\ ~T.rx /\ RingFits(T)
    BY <1>1 DEF Coherent, PassOver, State, RingFits
  <1>5. Settled(T)
    <2>1. T.postAck = S.postAck /\ T.sent = S.sent
      BY <1>1 DEF PassOver, State
    <2>2. T.postAck \in Fwd => T.at[T.postAck] = "accepted"
      BY <1>1, <2>1 DEF PassOver, State, Coherent, Settled, Msg
    <2>3. \A m \in Msg : S.at[m] = "ready" => S.out[m] = {}
      BY DEF Coherent, Settled
    <2>4. ASSUME NEW m \in Msg
          PROVE /\ T.out[m] # {} => T.at[m] = "gone"
                /\ T.out[m] # {"acked", "failed"}
                /\ "acked" \in T.out[m] => m \in T.sent \/ Alias
      <3>1. CASE m \in held
        <4>1. m \notin expired /\ S.out[m] = {}
          BY <1>1, <2>3, <3>1
        <4>2. T.out[m] = {}
          BY <1>1, <4>1 DEF PassOver, State
        <4> QED BY <4>2
      <3>3. CASE m \in expired
        <4>1. m \notin held /\ S.out[m] = {} /\ T.at[m] = "gone"
          BY <1>1, <2>3, <3>3 DEF PassOver, State
        <4>2. T.out[m] \in {{}, {} \cup {"failed"}}
          BY <1>1, <4>1 DEF PassOver, State
        <4>3. "acked" \notin T.out[m]
          BY <4>2
        <4> QED BY <4>1, <4>3
      <3>2. CASE m \notin held \cup expired
        <4>1. T.out[m] = S.out[m] /\ T.at[m] = S.at[m]
          BY <1>1, <3>2 DEF PassOver, State
        <4> QED BY <4>1, <2>1 DEF Coherent, Settled
      <3> QED BY <3>1, <3>2, <3>3
    <2> QED BY <1>4, <2>2, <2>4 DEF Settled
  <1> QED BY <1>3, <1>4, <1>5, CoherentNoFlight

\* The queue is served: an item issued, or a wake-up armed.
LEMMA ServeQueueRestores ==
  ASSUME NEW S, Coherent(S), S.flight = None, ~S.rx
  PROVE \A T \in ServeQueue(S) : Restored(T)
  <1>1. CASE Ready(S) # {}
    BY <1>1, IssueSendRestores DEF ServeQueue, Ready
  <1>2. CASE Ready(S) = {} /\ Queued(S) # {}
    <2> DEFINE T == Arm(S, "queueWakeup")
    <2>1. T \in State /\ T.flight = None /\ RingFits(T) /\ "queueWakeup" \in T.armed
      BY DEF Coherent, State, Arm, Timer, RingFits
    <2>2. Settled(T)
      BY DEF Coherent, State, Arm, Settled
    <2> QED BY <1>2, <2>1, <2>2, CoherentNoFlight DEF ServeQueue, Restored, Served, Servers
  <1>3. CASE Ready(S) = {} /\ Queued(S) = {}
    BY <1>3 DEF ServeQueue, Restored, Served
  <1> QED BY <1>1, <1>2, <1>3

\* become_free restores what serves the queue, from any coherent state.
LEMMA BecomeFreeRestores ==
  ASSUME NEW S, Coherent(S) PROVE \A T \in BecomeFree(S) : Restored(T)
  <1>1. CASE S.flight # None \/ S.rx \/ Queued(S) = {}
    BY <1>1 DEF BecomeFree, Restored, Served
  <1>2. CASE ~(S.flight # None \/ S.rx \/ Queued(S) = {})
    <2> DEFINE T == [S EXCEPT !.stalled = FALSE]
    <2>1. T \in State /\ T.flight = None /\ ~T.rx /\ RingFits(T)
      BY <1>2 DEF Coherent, State, RingFits
    <2>2. Settled(T)
      BY DEF Coherent, State, Settled
    <2>3. Coherent(T)
      BY <2>1, <2>2, CoherentNoFlight
    <2>4. MayHold(T) \subseteq Ready(T) /\ MayExpire(T) \subseteq Ready(T)
      BY DEF MayHold, MayExpire
    <2>5. \A held \in SUBSET MayHold(T) : \A expired \in SUBSET (MayExpire(T) \ held) :
             \A U \in ServeQueue(PassOver(T, held, expired)) : Restored(U)
      BY <2>1, <2>3, <2>4, PassOverKeeps, ServeQueueRestores
    <2>6. BecomeFree(S) = UNION {UNION {ServeQueue(PassOver(T, held, expired)) :
                                          expired \in SUBSET (MayExpire(T) \ held)} :
                                   held \in SUBSET MayHold(T)}
      BY <1>2 DEF BecomeFree
    <2> HIDE DEF T
    <2> QED BY <2>5, <2>6
  <1> QED BY <1>1, <1>2

\* What a handler leaves alone cannot disturb the phase of the flight.
LEMMA PhaseFrame ==
  ASSUME NEW S, NEW T, Phase(S), T.flight = S.flight, S.armed \subseteq T.armed,
         T.lbtRts = S.lbtRts, T.rtsDuty = S.rtsDuty, T.nackWait = S.nackWait,
         T.stash = S.stash, T.bare = S.bare
  PROVE Phase(T)
  BY DEF Phase, IsBroadcast

\* Moving a carrier that is neither in flight nor in the receive slot.
LEMMA MoveKeeps ==
  ASSUME NEW S, Coherent(S), NEW m \in Msg, S.at[m] \in {"new", "ready", "held"},
         NEW place \in {"ready", "held", "gone"}
  PROVE Coherent([S EXCEPT !.at[m] = place])
  <1> DEFINE T == [S EXCEPT !.at[m] = place]
  <1>1. S \in State
    BY DEF Coherent
  <1>2. T \in State /\ RingFits(T) /\ Halves(T)
    BY <1>1 DEF Coherent, State, Place, RingFits, Halves
  <1>3. Phase(T)
    BY <1>1, PhaseFrame DEF Coherent, State
  <1>4. Settled(T)
    BY <1>1 DEF Coherent, State, Settled, Flight
  <1> QED BY <1>2, <1>3, <1>4 DEF Coherent

\* enqueue_data, with or without room.
LEMMA EnqueueDataRestores ==
  ASSUME NEW S, Coherent(S), NEW m \in Msg, S.at[m] = "new"
  PROVE \A T \in EnqueueData(S, m) : Restored(T)
  BY MoveKeeps, BecomeFreeRestores DEF EnqueueData, Drop

\* Originating an internal message, in a coherent state.
LEMMA OriginateKeeps ==
  ASSUME NEW S, Coherent(S) PROVE \A T \in Originate(S) : Coherent(T)
  BY EnqueueDataRestores DEF Originate, Msg, Restored

\* Originating an internal message, in a state the queue is served in.
LEMMA OriginateRestores ==
  ASSUME NEW S, Restored(S) PROVE \A T \in Originate(S) : Restored(T)
  BY EnqueueDataRestores DEF Originate, Msg, Restored

\* enqueue_flood_m, which leaves early at a full queue.
LEMMA EnqueueFloodRestores ==
  ASSUME NEW S, Restored(S), NEW m \in Msg, S.at[m] = "new"
  PROVE \A T \in EnqueueFlood(S, m) : Restored(T)
  <1>1. CASE HasRoom(S)
    BY <1>1, MoveKeeps, BecomeFreeRestores DEF EnqueueFlood, Restored
  <1>2. CASE ~HasRoom(S)
    <2> DEFINE T == Drop(S, m)
    <2>1. Coherent(T)
      BY MoveKeeps DEF Drop, Restored
    <2>2. Queued(T) \subseteq Queued(S)
      BY DEF Drop, Queued, Restored, Coherent, State
    <2>3. Served(T)
      BY <2>2 DEF Served, Drop, Restored, Coherent, State
    <2> QED BY <1>2, <2>1, <2>3 DEF EnqueueFlood, Restored
  <1> QED BY <1>1, <1>2

\* The ends of a flight and what follows from them.  A flight may be ended in any phase.
Flying(S) == S \in State /\ RingFits(S) /\ Settled(S) /\ ~S.rx /\ S.flight \in Flight

\* A coherent state is one a flight may be ended in.
LEMMA FlyingCoherent ==
  ASSUME NEW S, Coherent(S), S.flight # None PROVE Flying(S)
  BY FlightTyped DEF Coherent, Flying, Halves

\* The same of a state the invariant holds in.
LEMMA FlyingNow ==
  ASSUME NEW S, Flying(S)
  PROVE /\ S.flight # None /\ S.flight.msg \in Msg /\ S.flight.next \in Hops
        /\ S.at[S.flight.msg] = "flight" /\ S.flight.tried \in SUBSET Hops
  BY FlightTyped DEF Flying, Settled, Flight

\* A flight given up is reported, and the queue goes on.
LEMMA GiveUpRestores ==
  ASSUME NEW S, Flying(S) PROVE \A T \in GiveUp(S) : Restored(T)
  <1> DEFINE m == S.flight.msg
             T == [Fail(S, m) EXCEPT !.flight = None]
  <1>1. m \in Msg /\ S.at[m] = "flight" /\ S \in State /\ RingFits(S) /\ Settled(S)
    BY FlyingNow DEF Flying
  <1>2. T \in State /\ Settled(T)
    BY <1>1, FailKeeps
  <1>3. T.flight = None /\ RingFits(T)
    BY <1>1 DEF Fail, RingFits, State
  <1>4. Coherent(T)
    BY <1>2, <1>3, CoherentNoFlight
  <1> QED BY <1>4, BecomeFreeRestores DEF GiveUp

\* A flight that has its answer leaves, and the queue goes on.
LEMMA ReleaseRestores ==
  ASSUME NEW S, Flying(S) PROVE \A T \in Release(S) : Restored(T)
  <1> DEFINE m == S.flight.msg
             T == [Drop(S, m) EXCEPT !.flight = None]
  <1>1. m \in Msg /\ S.at[m] = "flight" /\ S \in State /\ RingFits(S) /\ Settled(S)
    BY FlyingNow DEF Flying
  <1>2. T \in State /\ T.flight = None /\ RingFits(T)
    BY <1>1 DEF Drop, State, Place, RingFits
  <1>3. Settled(T)
    BY <1>1 DEF Drop, State, Settled
  <1>4. Coherent(T)
    BY <1>2, <1>3, CoherentNoFlight
  <1> QED BY <1>4, BecomeFreeRestores DEF Release

\* Giving up, with the custody notice that may follow.
LEMMA TerminalGiveupRestores ==
  ASSUME NEW S, Flying(S) PROVE \A T \in CascadeTerminalGiveup(S) : Restored(T)
  BY GiveUpRestores, OriginateRestores DEF CascadeTerminalGiveup

\* An RTS sent again, or cancelled at the hand-off.
LEMMA TxRtsRetryRestores ==
  ASSUME NEW S, Flying(S) PROVE \A T \in TxRtsRetry(S) : Restored(T)
  <1> DEFINE f == [S.flight EXCEPT !.cts = TRUE, !.ack = FALSE, !.sf = FALSE]
             T == [S EXCEPT !.flight = f]
  <1>1. f \in Flight /\ f.cts /\ ~f.ack /\ f.msg = S.flight.msg
    BY DEF Flying, Flight
  <1>2. T \in State /\ T.flight = f /\ ~T.rx /\ RingFits(T)
    BY <1>1 DEF Flying, State, RingFits
  <1>3. Settled(T)
    BY <1>1, FlyingNow DEF Flying, State, Settled
  <1>4. RtsDue(T) /\ Flying(T)
    BY <1>1, <1>2, <1>3, FlightTyped DEF RtsDue, Halves, Flying
  <1> QED BY <1>4, TxInitiatingRestores, GiveUpRestores DEF TxRtsRetry, CancelledAtHandOff

\* A flight whose message goes back to the queue.
LEMMA BackToQueueKeeps ==
  ASSUME NEW S, Flying(S), NEW place \in {"ready", "held"}
  PROVE LET T == BackToQueue(S, place) IN Coherent(T) /\ T.flight = None
  <1> DEFINE m == S.flight.msg
             T == BackToQueue(S, place)
  <1>1. m \in Msg /\ S.at[m] = "flight" /\ S \in State /\ RingFits(S) /\ Settled(S)
    BY FlyingNow DEF Flying
  <1>2. T \in State
    BY <1>1 DEF BackToQueue, State, Place
  <1>4. T.flight = None /\ RingFits(T)
    BY <1>1 DEF BackToQueue, State, RingFits
  <1>3. Settled(T)
    BY <1>1 DEF BackToQueue, State, Settled
  <1> QED BY <1>2, <1>3, <1>4, CoherentNoFlight

\* A requeue arms the timer that serves it; otherwise the flight is given up.
LEMMA TryRequeueRestores ==
  ASSUME NEW S, Flying(S) PROVE \A T \in TryCascadeRequeue(S) : Restored(T)
  <1> DEFINE m == S.flight.msg
             B == BackToQueue(S, "held")
             T == Arm([B EXCEPT !.requeues[m] = @ + 1], "cascadeRequeue")
  <1>1. Coherent(B) /\ B.flight = None /\ m \in Msg
    BY BackToQueueKeeps, FlyingNow
  <1> HIDE DEF B, m
  <1>2. T \in State /\ T.flight = None /\ RingFits(T) /\ "cascadeRequeue" \in T.armed
    <2>1. B \in State /\ B.requeues[m] \in Nat
      BY <1>1 DEF Coherent, State
    <2>2. B.requeues[m] + 1 \in Nat
      BY <2>1
    <2>3. T \in State
      BY <2>1, <2>2 DEF Arm, State, Timer
    <2>4. T.flight = None /\ "cascadeRequeue" \in T.armed
      BY <1>1, <2>1 DEF Arm, State
    <2>5. T.lbtRts = B.lbtRts /\ T.lbtOther = B.lbtOther
      BY <2>1 DEF Arm, State
    <2> QED BY <1>1, <2>3, <2>4, <2>5 DEF Coherent, RingFits
  <1>3. Settled(T)
    BY <1>1 DEF Coherent, Arm, State, Settled
  <1>4. Restored(T)
    BY <1>2, <1>3, CoherentNoFlight DEF Restored, Served, Servers
  <1> QED BY <1>4, TerminalGiveupRestores DEF TryCascadeRequeue, B, m

\* Only the hop, the retries, the tried hops or the flags of the flight change.
LEMMA FlyingFlight ==
  ASSUME NEW S, Flying(S), NEW f \in Flight, f.msg = S.flight.msg
  PROVE /\ Flying([S EXCEPT !.flight = f])
        /\ [S EXCEPT !.flight = f].flight = f
  <1> DEFINE T == [S EXCEPT !.flight = f]
  <1>1. T \in State /\ T.flight = f /\ ~T.rx /\ RingFits(T)
    BY DEF Flying, State, RingFits
  <1>2. Settled(T)
    BY FlyingNow DEF Flying, State, Settled
  <1> QED BY <1>1, <1>2 DEF Flying

\* A retry budget is a number.
LEMMA FreshRetriesTyped ==
  ASSUME NEW S, S \in State, NEW m \in Msg PROVE FreshRetries(S, m) \in Nat
  <1>1. S.requeues[m] \in Nat
    BY DEF State
  <1> QED BY <1>1, Bounds DEF FreshRetries, Monus

\* The next alternative gets an RTS of its own.
LEMMA RetryViaRestores ==
  ASSUME NEW S, Flying(S), NEW h \in Hops PROVE \A T \in RetryVia(S, h) : Restored(T)
  <1> DEFINE f == [S.flight EXCEPT !.next = h, !.retries = FreshRetries(S, S.flight.msg)]
  <1>1. FreshRetries(S, S.flight.msg) \in Nat
    BY FreshRetriesTyped, FlyingNow DEF Flying
  <1>2. f \in Flight /\ f.msg = S.flight.msg
    BY <1>1 DEF Flying, Flight
  <1>3. Flying([S EXCEPT !.flight = f])
    BY <1>2, FlyingFlight
  <1> QED BY <1>3, TxRtsRetryRestores DEF RetryVia

\* Any alternative may be the one.
LEMMA TakeAltRestores ==
  ASSUME NEW S, Flying(S) PROVE \A T \in TakeAlt(S) : Restored(T)
  BY RetryViaRestores DEF TakeAlt

\* Noting the hop as tried changes nothing else.
LEMMA MarkTriedKeeps ==
  ASSUME NEW S, Flying(S)
  PROVE Flying(MarkTried(S)) /\ MarkTried(S).flight.next = S.flight.next
  <1> DEFINE tried == IF Cardinality(S.flight.tried) < MaxAlts
                      THEN S.flight.tried \cup {S.flight.next} ELSE S.flight.tried
             f == [S.flight EXCEPT !.tried = tried]
  <1>1. tried \in SUBSET Hops
    BY FlyingNow
  <1>2. f \in Flight /\ f.msg = S.flight.msg /\ f.next = S.flight.next
    BY <1>1 DEF Flying, Flight
  <1>3. MarkTried(S) = [S EXCEPT !.flight = f]
    BY DEF MarkTried
  <1> HIDE DEF f
  <1> QED BY <1>2, <1>3, FlyingFlight

\* Counting a postponement changes nothing else.
LEMMA HoldKeeps ==
  ASSUME NEW S, Flying(S), NEW m \in Msg
  PROVE /\ Flying([S EXCEPT !.holds[m] = @ + 1])
        /\ [S EXCEPT !.holds[m] = @ + 1].flight = S.flight
  <1> DEFINE T == [S EXCEPT !.holds[m] = @ + 1]
  <1>1. S.holds[m] + 1 \in Nat
    BY DEF Flying, State
  <1>2. T \in State
    BY <1>1 DEF Flying, State
  <1>3. T.flight = S.flight /\ ~T.rx /\ RingFits(T)
    BY DEF Flying, State, RingFits
  <1>4. Settled(T)
    BY DEF Flying, State, Settled
  <1> QED BY <1>2, <1>3, <1>4 DEF Flying

\* Probing a one-way link again is a retry.
LEMMA ReprobeRestores ==
  ASSUME NEW S, Flying(S), NEW h \in Hops
  PROVE \A T \in ReprobeOneWayLink(S, h) : Restored(T)
  <1> DEFINE m == S.flight.msg
             f == [S.flight EXCEPT !.tried = {}]
             U == [S EXCEPT !.flight = f]
             V == [U EXCEPT !.holds[m] = @ + 1]
  <1>1. m \in Msg /\ f \in Flight /\ f.msg = m
    BY FlyingNow DEF Flying, Flight
  <1>2. Flying(U)
    BY <1>1, FlyingFlight
  <1>3. Flying(V)
    BY <1>1, <1>2, HoldKeeps
  <1>4. [S EXCEPT !.flight.tried = {}, !.holds[m] = @ + 1] = V
    BY DEF Flying, State
  <1>5. \A T \in RetryVia(V, h) : Restored(T)
    BY <1>3, RetryViaRestores
  <1> HIDE DEF V
  <1> QED BY <1>4, <1>5 DEF ReprobeOneWayLink

\* cascade_to_alt: another hop, a requeue or the end.
LEMMA CascadeToAltRestores ==
  ASSUME NEW S, Flying(S) PROVE \A T \in CascadeToAlt(S) : Restored(T)
  <1> DEFINE T == MarkTried(S)
  <1>1. Flying(T) /\ T.flight.next \in Hops
    BY MarkTriedKeeps, FlyingNow
  <1>2. \A U \in TakeAlt(T) \cup CascadeTerminalGiveup(T) \cup TryCascadeRequeue(T) : Restored(U)
    BY <1>1, TakeAltRestores, TerminalGiveupRestores, TryRequeueRestores
  <1>3. \A U \in ReprobeOneWayLink(T, S.flight.next) : Restored(U)
    BY <1>1, ReprobeRestores, MarkTriedKeeps
  <1>4. CascadeToAlt(S) = TakeAlt(T) \cup ReprobeOneWayLink(T, S.flight.next)
                           \cup CascadeTerminalGiveup(T) \cup TryCascadeRequeue(T)
    BY DEF CascadeToAlt
  <1> HIDE DEF T
  <1> QED BY <1>2, <1>3, <1>4

\* A flight that keeps going: what a handler that only touches timers, buffers and
\* flags has to show is its phase.
LEMMA StillFlying ==
  ASSUME NEW S, Flying(S), Phase(S) PROVE Restored(S)
  BY FlyingNow DEF Flying, Restored, Coherent, Served, Halves

\* Stopping timers leaves a flight that may be ended.
LEMMA CancelKeeps ==
  ASSUME NEW S, S \in State, NEW X
  PROVE LET T == Cancel(S, X)
        IN /\ T \in State /\ (Settled(S) => Settled(T)) /\ (RingFits(S) => RingFits(T))
           /\ (Flying(S) => Flying(T)) /\ T.flight = S.flight /\ T.rx = S.rx
           /\ T.armed = S.armed \ X
           /\ T.lbtRts = S.lbtRts /\ T.rtsDuty = S.rtsDuty /\ T.nackWait = S.nackWait
           /\ T.stash = S.stash /\ T.bare = S.bare /\ T.at = S.at /\ T.postAck = S.postAck
           /\ T.stalled = S.stalled /\ T.out = S.out /\ T.sent = S.sent
  <1> DEFINE T == Cancel(S, X)
  <1>1. T \in State
    BY DEF Cancel, State
  <1>2. /\ T.flight = S.flight /\ T.rx = S.rx /\ T.armed = S.armed \ X
        /\ T.lbtRts = S.lbtRts /\ T.rtsDuty = S.rtsDuty /\ T.nackWait = S.nackWait
        /\ T.stash = S.stash /\ T.bare = S.bare /\ T.at = S.at /\ T.postAck = S.postAck
        /\ T.stalled = S.stalled /\ T.out = S.out /\ T.sent = S.sent
        /\ T.lbtOther = S.lbtOther
    BY DEF Cancel, State
  <1>3. (Settled(S) => Settled(T)) /\ (RingFits(S) => RingFits(T))
    BY <1>2 DEF Settled, RingFits
  <1> HIDE DEF T
  <1>4. Flying(S) => Flying(T)
    BY <1>1, <1>2, <1>3 DEF Flying
  <1> QED BY <1>1, <1>2, <1>3, <1>4 DEF T

\* Arming a timer leaves a flight that may be ended.
LEMMA ArmKeeps ==
  ASSUME NEW S, S \in State, NEW t \in Timer
  PROVE LET T == Arm(S, t)
        IN /\ T \in State /\ (Settled(S) => Settled(T)) /\ (RingFits(S) => RingFits(T))
           /\ (Flying(S) => Flying(T)) /\ T.flight = S.flight /\ T.rx = S.rx
           /\ T.armed = S.armed \cup {t}
           /\ T.lbtRts = S.lbtRts /\ T.rtsDuty = S.rtsDuty /\ T.nackWait = S.nackWait
           /\ T.stash = S.stash /\ T.bare = S.bare /\ T.at = S.at /\ T.postAck = S.postAck
           /\ T.stalled = S.stalled /\ T.out = S.out /\ T.sent = S.sent
  <1> DEFINE T == Arm(S, t)
  <1>1. T \in State
    BY DEF Arm, State
  <1>2. /\ T.flight = S.flight /\ T.rx = S.rx /\ T.armed = S.armed \cup {t}
        /\ T.lbtRts = S.lbtRts /\ T.rtsDuty = S.rtsDuty /\ T.nackWait = S.nackWait
        /\ T.stash = S.stash /\ T.bare = S.bare /\ T.at = S.at /\ T.postAck = S.postAck
        /\ T.stalled = S.stalled /\ T.out = S.out /\ T.sent = S.sent
        /\ T.lbtOther = S.lbtOther
    BY DEF Arm, State
  <1>3. (Settled(S) => Settled(T)) /\ (RingFits(S) => RingFits(T))
    BY <1>2 DEF Settled, RingFits
  <1> HIDE DEF T
  <1>4. Flying(S) => Flying(T)
    BY <1>1, <1>2, <1>3 DEF Flying
  <1> QED BY <1>1, <1>2, <1>3, <1>4 DEF T

\* A flight held back for a gateway window leaves the air.
LEMMA DoorstepRestores ==
  ASSUME NEW S, Flying(S) PROVE \A T \in DoorstepHold(S) : Restored(T)
  <1> DEFINE m == S.flight.msg
             B == BackToQueue(S, "held")
             H == [B EXCEPT !.holds[m] = @ + 1]
  <1>1. Coherent(B) /\ B.flight = None /\ m \in Msg
    BY BackToQueueKeeps, FlyingNow
  <1>2. Coherent(H)
    <2> HIDE DEF B, m
    <2>1. B.holds[m] + 1 \in Nat
      BY <1>1 DEF Coherent, State
    <2>2. H \in State
      BY <1>1, <2>1 DEF Coherent, State
    <2>3. H.flight = None /\ RingFits(H)
      BY <1>1 DEF Coherent, State, RingFits
    <2>4. Settled(H)
      BY <1>1 DEF Coherent, State, Settled
    <2> QED BY <2>2, <2>3, <2>4, CoherentNoFlight
  <1> HIDE DEF H
  <1>3. \A T \in BecomeFree(H) : Restored(T)
    BY <1>2, BecomeFreeRestores
  <1> QED BY <1>3, GiveUpRestores, ReleaseRestores DEF DoorstepHold, H

\* A retry towards the same hop has its backoff timer.
LEMMA RetrySameHopRestores ==
  ASSUME NEW S, Flying(S), S.flight.retries > 0,
         S.flight.ack => "ackTimeout" \in S.armed /\ S.stash = "live"
  PROVE Restored(RetrySameHop(S))
  <1> DEFINE f == [S.flight EXCEPT !.retries = @ - 1]
             U == [S EXCEPT !.flight = f]
             T == Arm(U, "retryBackoff")
  <1>1. S.flight \in Flight /\ S.flight.retries - 1 \in Nat
    BY DEF Flying, Flight
  <1>2. f \in Flight /\ f.msg = S.flight.msg /\ f.ack = S.flight.ack
    BY <1>1 DEF Flight
  <1> HIDE DEF f
  <1>3. Flying(U) /\ U.flight = f /\ U.armed = S.armed /\ U.stash = S.stash
    BY <1>2, FlyingFlight DEF Flying, State
  <1> HIDE DEF U
  <1>4. Flying(T) /\ T.flight = f /\ T.armed = S.armed \cup {"retryBackoff"} /\ T.stash = S.stash
    BY <1>3, ArmKeeps DEF Flying, Timer
  <1> HIDE DEF T
  <1>5. Phase(T)
    BY <1>2, <1>4 DEF Phase
  <1>6. RetrySameHop(S) = T
    BY DEF RetrySameHop, T, U, f
  <1> QED BY <1>4, <1>5, <1>6, StillFlying

\* Stopping timers that serve no queue: the phase is all that may suffer.
LEMMA CancelRestores ==
  ASSUME NEW S, Restored(S), NEW X, X \cap Servers = {},
         S.flight # None => Phase(Cancel(S, X))
  PROVE Restored(Cancel(S, X))
  <1> DEFINE T == Cancel(S, X)
  <1>1. S \in State /\ RingFits(S) /\ Settled(S) /\ Halves(S) /\ Served(S)
    BY DEF Restored, Coherent
  <1>2. /\ T \in State /\ Settled(T) /\ RingFits(T) /\ T.flight = S.flight /\ T.rx = S.rx
        /\ T.armed = S.armed \ X /\ T.at = S.at /\ T.postAck = S.postAck
        /\ T.stalled = S.stalled
    BY <1>1, CancelKeeps
  <1> HIDE DEF T
  <1>3. Served(T)
    BY <1>1, <1>2 DEF Served, Queued
  <1>4. Halves(T) /\ Phase(T)
    BY <1>1, <1>2 DEF Halves, Phase, T
  <1> QED BY <1>1, <1>2, <1>3, <1>4 DEF Restored, Coherent, T

\* Stopping timers of a flight about to end.
LEMMA CancelFlying ==
  ASSUME NEW S, Restored(S), S.flight # None, NEW X
  PROVE Flying(Cancel(S, X)) /\ Cancel(S, X).flight = S.flight
  BY FlyingCoherent, CancelKeeps DEF Restored, Coherent

\* The RTS timeout, while the CTS is or is not awaited.
LEMMA RtsTimeoutRestores ==
  ASSUME NEW S, Restored(S) PROVE \A T \in RtsTimeout(Cancel(S, {"rtsTimeout"})) : Restored(T)
  <1> DEFINE C == Cancel(S, {"rtsTimeout"})
  <1>1. S \in State /\ Phase(S)
    BY DEF Restored, Coherent
  <1>2. /\ C.flight = S.flight /\ C.rx = S.rx /\ C.armed = S.armed \ {"rtsTimeout"}
        /\ C.lbtRts = S.lbtRts /\ C.rtsDuty = S.rtsDuty /\ C.nackWait = S.nackWait
        /\ C.stash = S.stash /\ C.bare = S.bare
    BY <1>1, CancelKeeps
  <1>3. ASSUME S.flight = None \/ ~S.flight.cts PROVE Restored(C)
    <2>1. S.flight # None => Phase(C)
      <3> HIDE DEF C
      <3> QED BY <1>1, <1>2, <1>3 DEF Phase, IsBroadcast
    <2> QED BY <2>1, CancelRestores DEF Servers
  <1>4. ASSUME S.flight # None, S.flight.cts PROVE \A T \in RtsTimeout(C) : Restored(T)
    <2>1. Flying(C)
      BY <1>4, CancelFlying
    <2>2. C.flight.ack => "ackTimeout" \in C.armed /\ C.stash = "live"
      <3> HIDE DEF C
      <3> QED BY <1>1, <1>2, <1>4 DEF Phase
    <2> HIDE DEF C
    <2>3. C.flight # None /\ C.flight.cts /\ ~C.rx
      BY <1>2, <1>4, <2>1 DEF Flying
    <2>4. C.flight.retries > 0 => Restored(RetrySameHop(C))
      BY <2>1, <2>2, RetrySameHopRestores
    <2> QED BY <2>1, <2>3, <2>4, DoorstepRestores, CascadeToAltRestores DEF RtsTimeout
  <1> HIDE DEF C
  <1> QED BY <1>2, <1>3, <1>4 DEF RtsTimeout, C

\* The ACK timeout, while the ACK is or is not awaited.
LEMMA AckTimeoutRestores ==
  ASSUME NEW S, Restored(S) PROVE \A T \in AckTimeout(Cancel(S, {"ackTimeout"})) : Restored(T)
  <1> DEFINE C == Cancel(S, {"ackTimeout"})
  <1>1. S \in State /\ Phase(S)
    BY DEF Restored, Coherent
  <1>2. /\ C.flight = S.flight /\ C.rx = S.rx /\ C.armed = S.armed \ {"ackTimeout"}
        /\ C.lbtRts = S.lbtRts /\ C.rtsDuty = S.rtsDuty /\ C.nackWait = S.nackWait
        /\ C.stash = S.stash /\ C.bare = S.bare
    BY <1>1, CancelKeeps
  <1>3. ASSUME S.flight = None \/ ~S.flight.ack PROVE Restored(C)
    <2>1. S.flight # None => Phase(C)
      <3> HIDE DEF C
      <3> QED BY <1>1, <1>2, <1>3 DEF Phase, IsBroadcast
    <2> QED BY <2>1, CancelRestores DEF Servers
  <1>4. ASSUME S.flight # None, S.flight.ack PROVE \A T \in AckTimeout(C) : Restored(T)
    <2> DEFINE f == [C.flight EXCEPT !.cts = FALSE, !.ack = FALSE, !.sf = FALSE]
               U == [C EXCEPT !.flight = f]
    <2>1. Flying(C)
      BY <1>4, CancelFlying
    <2>2. C.flight # None /\ C.flight.ack /\ ~C.rx
      BY <1>2, <1>4, <2>1 DEF Flying
    <2> HIDE DEF C
    <2>3. f \in Flight /\ f.msg = C.flight.msg /\ ~f.ack /\ f.retries = C.flight.retries
      BY <2>1 DEF Flying, Flight
    <2> HIDE DEF f
    <2>4. Flying(U) /\ U.flight = f
      BY <2>1, <2>3, FlyingFlight
    <2>5. C.flight.retries > 0 => Restored(RetrySameHop(U))
      BY <2>3, <2>4, RetrySameHopRestores
    <2> HIDE DEF U
    <2>6. AckTimeout(C) \subseteq DoorstepHold(C) \cup CascadeToAlt(C)
                          \cup (IF C.flight.retries > 0 THEN {RetrySameHop(U)} ELSE {})
      BY <2>2 DEF AckTimeout, U, f
    <2> QED BY <2>1, <2>5, <2>6, DoorstepRestores, CascadeToAltRestores
  <1> HIDE DEF C
  <1> QED BY <1>2, <1>3, <1>4 DEF AckTimeout, C

\* The part of Phase that is about an awaited CTS.
CtsAwaited(S) ==
  S.flight.cts =>
    \/ S.lbtRts > 0 \/ S.rtsDuty = "live" \/ S.flight.lost
    \/ IsBroadcast(S, S.flight.msg)
    \/ S.armed \cap {"rtsTimeout", "retryBackoff"} # {}

Same(S, T) ==
  /\ T.flight = S.flight /\ T.bare = S.bare
  /\ T.lbtRts = S.lbtRts /\ T.rtsDuty = S.rtsDuty /\ T.nackWait = S.nackWait

\* It depends on the RTS alone.
LEMMA SameAwaited ==
  ASSUME NEW S, NEW T, Same(S, T), S.armed \subseteq T.armed, CtsAwaited(S)
  PROVE CtsAwaited(T)
  BY DEF Same, CtsAwaited, IsBroadcast

\* Stashing the DATA leaves what is awaited alone.
LEMMA StashKeeps ==
  ASSUME NEW S, Flying(S), NEW T \in Handed(S) \cup {Stash(S)}
  PROVE Flying(T) /\ Same(S, T) /\ T.armed = S.armed /\ T.stash = "live"
  <1>1. S \in State /\ S.flight.msg \in Msg
    BY FlyingNow DEF Flying
  <1>2. PICK sent \in SUBSET Msg, handed \in BOOLEAN :
          /\ S.sent \subseteq sent
          /\ T = [S EXCEPT !.stash = "live", !.left = TxDeferRetries,
                           !.handed = handed, !.sent = sent]
    <2>1. CASE T = Stash(S)
      <3>1. S.sent \in SUBSET Msg /\ S.handed \in BOOLEAN
        BY <1>1 DEF State
      <3>2. T = [S EXCEPT !.stash = "live", !.left = TxDeferRetries,
                           !.handed = S.handed, !.sent = S.sent]
        BY <1>1, <2>1 DEF Stash, State
      <3> QED BY <3>1, <3>2
    <2>2. CASE T # Stash(S)
      <3>1. S.sent \cup {S.flight.msg} \in SUBSET Msg /\ Refusals \in BOOLEAN
        BY <1>1, Bounds DEF State
      <3>2. T = [S EXCEPT !.stash = "live", !.left = TxDeferRetries,
                           !.handed = Refusals, !.sent = S.sent \cup {S.flight.msg}]
        BY <1>1, <2>2 DEF Handed, Stash, State
      <3> QED BY <3>1, <3>2
    <2> QED BY <2>1, <2>2
  <1>3. T \in State
    BY <1>1, <1>2, Bounds DEF State, Ref
  <1>4. /\ T.flight = S.flight /\ T.bare = S.bare /\ T.armed = S.armed /\ T.stash = "live"
        /\ T.lbtRts = S.lbtRts /\ T.lbtOther = S.lbtOther /\ T.rtsDuty = S.rtsDuty
        /\ T.nackWait = S.nackWait /\ T.at = S.at /\ T.out = S.out /\ T.rx = S.rx
        /\ T.postAck = S.postAck /\ S.sent \subseteq T.sent
    BY <1>1, <1>2 DEF State
  <1>5. Settled(T) /\ RingFits(T)
    BY <1>4 DEF Flying, Settled, RingFits
  <1> QED BY <1>3, <1>4, <1>5 DEF Flying, Same

\* Waiting for the ACK of a stashed frame is guarded.
LEMMA AwaitAckRestores ==
  ASSUME NEW S, Flying(S), S.stash = "live", CtsAwaited(S)
  PROVE Restored(AwaitAck(S))
  <1> DEFINE f == [S.flight EXCEPT !.ack = TRUE]
             U == [S EXCEPT !.flight = f]
             T == Arm(U, "ackTimeout")
  <1>1. f \in Flight /\ f.msg = S.flight.msg /\ f.ack /\ f.cts = S.flight.cts
        /\ f.lost = S.flight.lost
    BY DEF Flying, Flight
  <1> HIDE DEF f
  <1>2. /\ Flying(U) /\ U.flight = f /\ U.armed = S.armed /\ U.stash = "live"
        /\ U.lbtRts = S.lbtRts /\ U.rtsDuty = S.rtsDuty /\ U.bare = S.bare
    BY <1>1, FlyingFlight DEF Flying, State
  <1> HIDE DEF U
  <1>3. /\ Flying(T) /\ T.flight = f /\ T.armed = S.armed \cup {"ackTimeout"} /\ T.stash = "live"
        /\ T.lbtRts = S.lbtRts /\ T.rtsDuty = S.rtsDuty /\ T.bare = S.bare
    BY <1>2, ArmKeeps DEF Flying, Timer
  <1> HIDE DEF T
  <1>4. Phase(T)
    BY <1>1, <1>3 DEF Phase, CtsAwaited, IsBroadcast
  <1>5. AwaitAck(S) = T
    BY DEF AwaitAck, T, U, f
  <1> QED BY <1>3, <1>4, <1>5, StillFlying

\* A stashed frame waiting for the duty budget keeps any flight alive.
LEMMA DutyDeferredRestores ==
  ASSUME NEW S, Flying(S), ~S.flight.ack, CtsAwaited(S)
  PROVE \A T \in DutyDeferred(S) : Flying(T) /\ T.flight = S.flight /\ Restored(T)
  <1> DEFINE U == Stash(S)
             T == Arm(U, "dutyDefer")
  <1>1. Flying(U) /\ Same(S, U) /\ U.armed = S.armed /\ U.stash = "live"
    BY StashKeeps
  <1> HIDE DEF U
  <1>2. Flying(T) /\ Same(S, T) /\ T.armed = S.armed \cup {"dutyDefer"} /\ T.stash = "live"
    BY <1>1, ArmKeeps DEF Flying, Timer, Same
  <1> HIDE DEF T
  <1>3. CtsAwaited(T)
    BY <1>2, SameAwaited
  <1>4. Phase(T)
    BY <1>2, <1>3 DEF Phase, CtsAwaited, Same
  <1>5. DutyDeferred(S) \subseteq {T}
    BY DEF DutyDeferred, T, U
  <1> QED BY <1>2, <1>4, <1>5, StillFlying DEF Same

\* The frame handed over, and its ACK awaited.
LEMMA HandedAwaitRestores ==
  ASSUME NEW S, Flying(S), CtsAwaited(S)
  PROVE \A T \in Handed(S) : Restored(AwaitAck(T))
  BY StashKeeps, SameAwaited, AwaitAckRestores

\* The DATA after its gap: sent, deferred, or not this flight's turn.
LEMMA DoDataTxRestores ==
  ASSUME NEW S, Restored(S) PROVE \A T \in DoDataTx(Cancel(S, {"ctsToDataGap"})) : Restored(T)
  <1> DEFINE C == Cancel(S, {"ctsToDataGap"})
  <1>1. S \in State /\ Phase(S)
    BY DEF Restored, Coherent
  <1>2. Same(S, C) /\ C.rx = S.rx /\ C.armed = S.armed \ {"ctsToDataGap"} /\ C.stash = S.stash
    BY <1>1, CancelKeeps DEF Same
  <1>3. ASSUME S.flight = None \/ S.flight.ack \/ ~S.flight.sf PROVE Restored(C)
    <2>1. S.flight # None => Phase(C)
      <3> HIDE DEF C
      <3> QED BY <1>1, <1>2, <1>3 DEF Phase, IsBroadcast, Same
    <2> QED BY <2>1, CancelRestores DEF Servers
  <1>4. ASSUME S.flight # None, ~S.flight.ack, S.flight.sf
        PROVE \A T \in DoDataTx(C) : Restored(T)
    <2>1. Flying(C) /\ C.flight # None /\ ~C.flight.ack /\ C.flight.sf
      BY <1>4, CancelFlying
    <2> HIDE DEF C
    <2>2. CtsAwaited(C)
      BY <1>1, <1>2, <1>4 DEF Phase, CtsAwaited, IsBroadcast, Same
    <2>3. \A T \in DutyDeferred(C) : Restored(T) /\ Flying(T) /\ T.flight = C.flight
      BY <2>1, <2>2, DutyDeferredRestores
    <2>4. CASE IsBroadcast(C, C.flight.msg)
      <3>1. ASSUME NEW T \in Handed(C) PROVE Restored(Arm(T, "mBcastClear"))
        <4> DEFINE U == Arm(T, "mBcastClear")
        <4>1. Flying(T) /\ Same(C, T) /\ T.armed = C.armed
          BY <2>1, <3>1, StashKeeps
        <4>2. Flying(U) /\ Same(C, U) /\ U.armed = C.armed \cup {"mBcastClear"}
          BY <4>1, ArmKeeps DEF Flying, Timer, Same
        <4> HIDE DEF U
        <4>3. Phase(U)
          BY <2>1, <2>4, <4>2 DEF Phase, IsBroadcast, Same
        <4> QED BY <4>2, <4>3, StillFlying DEF U
      <3>2. DoDataTx(C) = DutyDeferred(C) \cup {Arm(T, "mBcastClear") : T \in Handed(C)}
        BY <2>1, <2>4 DEF DoDataTx
      <3> QED BY <2>3, <3>1, <3>2
    <2>5. CASE ~IsBroadcast(C, C.flight.msg)
      <3>1. ASSUME NEW T \in DutyDeferred(C) PROVE Restored([T EXCEPT !.flight.ack = FALSE])
        <4>1. Flying(T) /\ ~T.flight.ack /\ Restored(T)
          BY <2>1, <2>3
        <4>2. [T EXCEPT !.flight.ack = FALSE] = T
          BY <4>1 DEF Flying, State, Flight
        <4> QED BY <4>1, <4>2
      <3>2. \A T \in Handed(C) : Restored(AwaitAck(T))
        BY <2>1, <2>2, HandedAwaitRestores
      <3>3. DoDataTx(C) = {[T EXCEPT !.flight.ack = FALSE] : T \in DutyDeferred(C)}
                            \cup {AwaitAck(T) : T \in Handed(C)}
        BY <2>1, <2>5 DEF DoDataTx
      <3> QED BY <3>1, <3>2, <3>3
    <2> QED BY <2>4, <2>5
  <1> HIDE DEF C
  <1> QED BY <1>2, <1>3, <1>4 DEF DoDataTx, C, Same

\* The duty wait of the DATA ends or goes on.
LEMMA DutyDeferFireRestores ==
  ASSUME NEW S, Restored(S) PROVE \A T \in DutyDeferFire(Cancel(S, {"dutyDefer"})) : Restored(T)
  <1> DEFINE C == Cancel(S, {"dutyDefer"})
  <1>1. S \in State /\ Phase(S)
    BY DEF Restored, Coherent
  <1>2. Same(S, C) /\ C.rx = S.rx /\ C.armed = S.armed \ {"dutyDefer"} /\ C.stash = S.stash
    BY <1>1, CancelKeeps DEF Same
  <1>3. ASSUME ~StashIsCurrent(C) PROVE Restored(C)
    <2>1. S.flight # None => Phase(C)
      <3> HIDE DEF C
      <3> QED BY <1>1, <1>2, <1>3 DEF Phase, IsBroadcast, Same, StashIsCurrent
    <2> QED BY <2>1, CancelRestores DEF Servers
  <1>4. ASSUME StashIsCurrent(C) PROVE \A T \in DutyDeferred(C) \cup {AwaitAck(T) : T \in Handed(C)} : Restored(T)
    <2>1. S.flight # None /\ Flying(C)
      BY <1>2, <1>4, CancelFlying DEF StashIsCurrent, Same
    <2> HIDE DEF C
    <2>2. CtsAwaited(C)
      BY <1>1, <1>2, <2>1 DEF Phase, CtsAwaited, IsBroadcast, Same
    <2>3. \A T \in Handed(C) : Restored(AwaitAck(T))
      BY <2>1, <2>2, HandedAwaitRestores
    <2>4. \A T \in DutyDeferred(C) : Restored(T)
      <3> DEFINE U == Stash(C)
                 T == Arm(U, "dutyDefer")
      <3>1. Flying(U) /\ Same(C, U) /\ U.armed = C.armed /\ U.stash = "live"
        BY <2>1, StashKeeps
      <3> HIDE DEF U
      <3>2. Flying(T) /\ Same(C, T) /\ T.armed = C.armed \cup {"dutyDefer"} /\ T.stash = "live"
        BY <3>1, ArmKeeps DEF Flying, Timer, Same
      <3> HIDE DEF T
      <3>3. CtsAwaited(T)
        BY <2>2, <3>2, SameAwaited
      <3>4. T.flight.ack => "ackTimeout" \in T.armed
        BY <1>1, <1>2, <2>1, <3>2 DEF Phase, Same
      <3>5. Phase(T)
        BY <3>2, <3>3, <3>4 DEF Phase, CtsAwaited
      <3>6. DutyDeferred(C) \subseteq {T}
        BY DEF DutyDeferred, T, U
      <3> QED BY <3>2, <3>5, <3>6, StillFlying
    <2> QED BY <2>3, <2>4
  <1> HIDE DEF C
  <1> QED BY <1>3, <1>4 DEF DutyDeferFire, C

\* A refused frame handed over again, in whatever flight is live.
LEMMA RetryStashedRestores ==
  ASSUME NEW S, Restored(S) PROVE Restored(RetryStashed(Cancel(S, {"busyRetry"})))
  <1> DEFINE C == Cancel(S, {"busyRetry"})
             H == [C EXCEPT !.handed = Refusals]
  <1>1. S \in State /\ Phase(S) /\ C \in State
    BY CancelKeeps DEF Restored, Coherent
  <1>2. Same(S, C) /\ C.rx = S.rx /\ C.armed = S.armed \ {"busyRetry"} /\ C.stash = S.stash
    BY <1>1, CancelKeeps DEF Same
  <1>3. ASSUME ~StashIsCurrent(C) PROVE Restored(C)
    <2>1. S.flight # None => Phase(C)
      <3> HIDE DEF C
      <3> QED BY <1>1, <1>2, <1>3 DEF Phase, IsBroadcast, Same, StashIsCurrent
    <2> QED BY <2>1, CancelRestores DEF Servers
  <1> HIDE DEF C
  <1>4. H \in State /\ Same(C, H) /\ H.armed = C.armed /\ H.stash = C.stash /\ H.rx = C.rx
        /\ H.at = C.at /\ H.out = C.out /\ H.sent = C.sent /\ H.postAck = C.postAck
        /\ H.stalled = C.stalled /\ H.lbtOther = C.lbtOther
    BY <1>1, Bounds DEF State, Same
  <1> HIDE DEF H
  <1>5. StashIsCurrent(H) <=> StashIsCurrent(C)
    BY <1>4 DEF StashIsCurrent, Same
  <1>6. Restored(C) => Restored(H)
    BY <1>4, PhaseFrame DEF Restored, Coherent, Halves, Settled, RingFits, Served, Queued, Same
  <1>7. ASSUME StashIsCurrent(C)
        PROVE Restored(AwaitAck([H EXCEPT !.sent = @ \cup {H.flight.msg}]))
    <2> DEFINE V == [H EXCEPT !.sent = @ \cup {H.flight.msg}]
    <2>1. S.flight # None /\ Flying(C)
      BY <1>2, <1>7, CancelFlying DEF StashIsCurrent, Same, C
    <2>2. Flying(H)
      BY <1>4, <2>1 DEF Flying, Settled, RingFits, Same
    <2>3. V \in State /\ Same(H, V) /\ V.armed = H.armed /\ V.stash = H.stash /\ V.rx = H.rx
          /\ V.at = H.at /\ V.out = H.out /\ H.sent \subseteq V.sent /\ V.postAck = H.postAck
          /\ V.lbtOther = H.lbtOther
      BY <1>4, <2>2, FlyingNow DEF State, Same
    <2> HIDE DEF V
    <2>4. Flying(V)
      BY <2>2, <2>3 DEF Flying, Settled, RingFits, Same
    <2>5. CtsAwaited(V) /\ V.stash = "live"
      BY <1>1, <1>2, <1>4, <1>7, <2>1, <2>3
         DEF Phase, CtsAwaited, IsBroadcast, Same, StashIsCurrent
    <2> QED BY <2>4, <2>5, AwaitAckRestores DEF V
  <1> QED BY <1>3, <1>5, <1>6, <1>7 DEF RetryStashed, C, H, StashIsCurrent

\* The refusal of a DATA frame, whichever flight it belonged to.
LEMMA DataRefusedRestores ==
  ASSUME NEW S, Restored(S) PROVE \A T \in DataRefused(S) : Restored(T)
  <1> DEFINE T == [S EXCEPT !.handed = FALSE]
             f == [T.flight EXCEPT !.ack = FALSE]
             X == [T EXCEPT !.flight = f]
             C == Cancel(X, {"ackTimeout"})
             U == IF T.flight = None THEN T ELSE C
             V == [U EXCEPT !.stash = "none"]
             B == [U EXCEPT !.left = @ - 1]
             R == Arm(B, "busyRetry")
  <1>1. S \in State /\ Phase(S) /\ Served(S) /\ RingFits(S) /\ Halves(S) /\ Settled(S)
    BY DEF Restored, Coherent
  <1>2. T \in State /\ Same(S, T) /\ T.armed = S.armed /\ T.stash = S.stash /\ T.rx = S.rx
        /\ T.at = S.at /\ T.out = S.out /\ T.sent = S.sent /\ T.postAck = S.postAck
        /\ T.stalled = S.stalled /\ T.lbtOther = S.lbtOther /\ T.left = S.left
    BY <1>1 DEF State, Same
  <1>3. Settled(T) /\ RingFits(T) /\ Halves(T) /\ Phase(T) /\ Served(T)
    <2> HIDE DEF T
    <2>1. Settled(T) /\ RingFits(T)
      BY <1>1, <1>2 DEF Settled, RingFits, Same
    <2>2. Halves(T) /\ Phase(T)
      BY <1>1, <1>2, PhaseFrame DEF Halves, Same
    <2>3. Served(T)
      BY <1>1, <1>2 DEF Served, Queued, Same
    <2> QED BY <2>1, <2>2, <2>3
  <1>4. DataRefused(S) = IF U.stash = "none" THEN {U}
                         ELSE IF U.left > 0 THEN {R}
                         ELSE IF StashIsCurrent(U) THEN Release(V) ELSE {V}
    BY DEF DataRefused
  <1> HIDE DEF T
  <1>5. CASE T.flight = None
    <2>1. U = T
      BY <1>5
    <2> HIDE DEF U
    <2>2. ~StashIsCurrent(U)
      BY <1>5, <2>1 DEF StashIsCurrent
    <2>3. Restored(T)
      BY <1>2, <1>3 DEF Restored, Coherent
    <2>4. Restored(V)
      <3>1. V \in State /\ V.flight = None /\ V.armed = T.armed /\ V.rx = T.rx /\ V.at = T.at
            /\ V.out = T.out /\ V.sent = T.sent /\ V.postAck = T.postAck
            /\ V.stalled = T.stalled /\ V.lbtRts = T.lbtRts /\ V.lbtOther = T.lbtOther
        BY <1>2, <1>5, <2>1 DEF State, Ref
      <3> HIDE DEF V
      <3>2. Settled(V) /\ RingFits(V) /\ Served(V)
        BY <1>3, <1>5, <3>1 DEF Settled, RingFits, Served, Queued
      <3> QED BY <3>1, <3>2, CoherentNoFlight DEF Restored
    <2>5. ASSUME U.left > 0 PROVE Restored(R)
      <3>1. U.left \in Nat /\ U \in State
        BY <1>2, <2>1 DEF State
      <3>2. U.left - 1 \in Nat
        BY <2>5, <3>1
      <3>3. B \in State /\ B.flight = None /\ B.armed = T.armed /\ B.rx = T.rx /\ B.at = T.at
            /\ B.out = T.out /\ B.sent = T.sent /\ B.postAck = T.postAck
            /\ B.stalled = T.stalled /\ B.lbtRts = T.lbtRts /\ B.lbtOther = T.lbtOther
        BY <1>2, <1>5, <2>1, <3>1, <3>2 DEF State
      <3> HIDE DEF B
      <3>4. Settled(B) /\ RingFits(B)
        BY <1>3, <1>5, <3>3 DEF Settled, RingFits
      <3>5. R \in State /\ Settled(R) /\ RingFits(R) /\ R.flight = None /\ R.rx = B.rx
            /\ R.armed = B.armed \cup {"busyRetry"} /\ R.at = B.at /\ R.postAck = B.postAck
            /\ R.stalled = B.stalled
        BY <3>3, <3>4, ArmKeeps DEF Timer
      <3> HIDE DEF R
      <3>6. Served(R)
        BY <1>3, <1>5, <3>3, <3>5 DEF Served, Queued
      <3> QED BY <3>5, <3>6, CoherentNoFlight DEF Restored
    <2> QED BY <1>4, <2>1, <2>2, <2>3, <2>4, <2>5
  <1>6. CASE T.flight # None
    <2>1. U = C
      BY <1>6
    <2> HIDE DEF U
    <2>2. Flying(T)
      BY <1>2, <1>3, <1>6, FlyingCoherent DEF Coherent
    <2>3. f \in Flight /\ f.msg = T.flight.msg /\ ~f.ack /\ f.cts = T.flight.cts
          /\ f.sf = T.flight.sf /\ f.lost = T.flight.lost
      BY <2>2 DEF Flying, Flight
    <2> HIDE DEF f
    <2>4. Flying(X) /\ X.flight = f /\ X.armed = T.armed /\ X.stash = T.stash
          /\ X.lbtRts = T.lbtRts /\ X.rtsDuty = T.rtsDuty /\ X.nackWait = T.nackWait
          /\ X.bare = T.bare /\ X.left = T.left
      BY <2>2, <2>3, FlyingFlight DEF Flying, State
    <2> HIDE DEF X
    <2>5. /\ Flying(U) /\ U.flight = f /\ U.armed = T.armed \ {"ackTimeout"}
          /\ U.stash = T.stash /\ U.lbtRts = T.lbtRts /\ U.rtsDuty = T.rtsDuty
          /\ U.nackWait = T.nackWait /\ U.bare = T.bare
      BY <2>1, <2>4, CancelKeeps DEF Flying
    <2>6. U.flight # None /\ (StashIsCurrent(U) <=> U.stash = "live")
      BY <2>5, FlyingNow DEF StashIsCurrent
    <2>7. ASSUME U.stash # "live" PROVE Phase(U)
      BY <1>3, <1>6, <2>3, <2>5, <2>7 DEF Phase, IsBroadcast
    <2>8. ASSUME U.stash # "live" PROVE Restored(U)
      BY <2>5, <2>7, <2>8, StillFlying
    <2>9. Flying(V) /\ Same(U, V) /\ V.armed = U.armed /\ V.stash = "none"
      <3>1. V \in State /\ V.rx = U.rx /\ V.at = U.at /\ V.out = U.out /\ V.sent = U.sent
            /\ V.postAck = U.postAck /\ V.lbtOther = U.lbtOther
            /\ Same(U, V) /\ V.armed = U.armed /\ V.stash = "none"
        BY <2>5 DEF Flying, State, Ref, Same
      <3> HIDE DEF V
      <3> QED BY <2>5, <3>1 DEF Flying, Settled, RingFits, Same
    <2>10. ASSUME U.stash # "live" PROVE Restored(V)
      <3> HIDE DEF V
      <3>1. Phase(V)
        BY <1>3, <1>6, <2>3, <2>5, <2>9, <2>10 DEF Phase, IsBroadcast, Same
      <3> QED BY <2>9, <3>1, StillFlying
    <2>11. ASSUME U.left > 0, U.stash # "none" PROVE Restored(R)
      <3>1. U.left \in Nat /\ U \in State
        BY <2>5 DEF Flying, State
      <3>2. U.left - 1 \in Nat
        BY <2>11, <3>1
      <3>3. B \in State /\ Same(U, B) /\ B.armed = U.armed /\ B.rx = U.rx /\ B.at = U.at
            /\ B.out = U.out /\ B.sent = U.sent /\ B.postAck = U.postAck /\ B.stash = U.stash
            /\ B.lbtOther = U.lbtOther
        BY <3>1, <3>2 DEF State, Same
      <3> HIDE DEF B
      <3>4. Flying(B)
        BY <2>5, <3>3 DEF Flying, Settled, RingFits, Same
      <3>5. Flying(R) /\ Same(U, R) /\ R.armed = U.armed \cup {"busyRetry"} /\ R.stash = U.stash
        BY <3>3, <3>4, ArmKeeps DEF Timer, Same, Flying
      <3> HIDE DEF R
      <3>6. Phase(R)
        BY <1>3, <1>6, <2>3, <2>5, <3>5 DEF Phase, IsBroadcast, Same
      <3> QED BY <3>5, <3>6, StillFlying
    <2>12. \A W \in Release(V) : Restored(W)
      BY <2>9, ReleaseRestores
    <2> HIDE DEF V, R
    <2> QED BY <1>4, <2>6, <2>8, <2>10, <2>11, <2>12
  <1> QED BY <1>5, <1>6

\* --- deferral buffers ---

\* A change of the deferral buffers alone keeps the rest.
LEMMA BufferKeeps ==
  ASSUME NEW S, Coherent(S), NEW T, T \in State, T.flight = S.flight, T.rx = S.rx,
         T.at = S.at, T.out = S.out, S.sent \subseteq T.sent, T.postAck = S.postAck,
         RingFits(T), T.flight # None => Phase(T)
  PROVE Coherent(T)
  <1>1. Halves(T) /\ Phase(T)
    BY DEF Coherent, Halves, Phase
  <1>2. Settled(T)
    BY DEF Coherent, Settled
  <1> QED BY <1>1, <1>2 DEF Coherent

\* What serves the queue does not depend on the deferral buffers.
LEMMA ServedKeeps ==
  ASSUME NEW S, NEW T, Served(S), T.flight = S.flight, T.rx = S.rx, T.at = S.at,
         T.postAck = S.postAck, T.stalled = S.stalled, S.armed \cap Servers \subseteq T.armed
  PROVE Served(T)
  BY DEF Served, Queued

\* The channel wait of the RTS is over.
LEMMA LbtFireRtsRestores ==
  ASSUME NEW S, Restored(S), S.lbtRts > 0 PROVE \A T \in LbtFireRts(S) : Restored(T)
  <1> DEFINE T == [S EXCEPT !.lbtRts = @ - 1]
  <1>1. S \in State /\ S.lbtRts \in 0..LbtSlots /\ S.lbtOther \in 0..LbtSlots
    BY DEF Restored, Coherent, State
  <1>2. S.lbtRts - 1 \in 0..LbtSlots
    BY <1>1, Bounds
  <1>3. T \in State /\ T.flight = S.flight /\ T.rx = S.rx /\ T.at = S.at /\ T.out = S.out
        /\ T.sent = S.sent /\ T.postAck = S.postAck /\ T.stalled = S.stalled
        /\ T.armed = S.armed /\ T.stash = S.stash /\ T.nackWait = S.nackWait
        /\ T.bare = S.bare /\ T.rtsDuty = S.rtsDuty
    BY <1>1, <1>2 DEF State
  <1>4. T.lbtRts = S.lbtRts - 1 /\ T.lbtOther = S.lbtOther
    BY <1>1 DEF State
  <1>5. LbtFireRts(S) = IF T.flight = None THEN {T} ELSE LbtComplete(T) \cup CancelledAtHandOff(T)
    BY DEF LbtFireRts
  <1> HIDE DEF T
  <1>6. RingFits(T)
    BY <1>1, <1>4, Bounds DEF RingFits, Restored, Coherent
  <1>7. Settled(T) /\ Halves(T) /\ Served(T)
    BY <1>3, ServedKeeps DEF Restored, Coherent, Settled, Halves
  <1>8. CASE T.flight = None
    BY <1>3, <1>5, <1>6, <1>7, <1>8, CoherentNoFlight DEF Restored
  <1>9. CASE T.flight # None
    <2>1. RtsDue(T)
      BY <1>3, <1>6, <1>7, <1>9 DEF RtsDue, Restored, Coherent, Phase, IsBroadcast
    <2>2. Flying(T)
      BY <1>3, <1>6, <1>7, <1>9, FlightTyped DEF Flying, Halves
    <2> QED BY <1>5, <1>9, <2>1, <2>2, TxInitiatingRestores, GiveUpRestores DEF CancelledAtHandOff
  <1> QED BY <1>8, <1>9

\* The duty record released after the hand-off was cancelled.
LEMMA ReleaseRtsDutyRestores ==
  ASSUME NEW S, Restored(S) PROVE Restored(ReleaseRtsDuty(S))
  <1> DEFINE f == [S.flight EXCEPT !.lost = TRUE]
             g == IF S.flight = None \/ S.rtsDuty # "live" THEN S.flight ELSE f
             T == [S EXCEPT !.rtsDuty = "none", !.flight = g]
  <1>1. S \in State /\ Phase(S) /\ Halves(S) /\ RingFits(S) /\ Settled(S) /\ Served(S)
    BY DEF Restored, Coherent
  <1>2. ASSUME S.flight # None
        PROVE f \in Flight /\ f.msg = S.flight.msg /\ f.cts = S.flight.cts
              /\ f.ack = S.flight.ack /\ f.sf = S.flight.sf /\ f.lost
    <2>1. S.flight \in Flight
      BY <1>1, <1>2, FlightTyped
    <2> QED BY <2>1 DEF Flight
  <1> HIDE DEF f
  <1>3. g \in Flight \cup {None} /\ (g = None <=> S.flight = None)
    BY <1>1, <1>2, FlightTyped
  <1>4. ReleaseRtsDuty(S) = T
    BY DEF ReleaseRtsDuty, f
  <1>5. g = S.flight \/ (S.flight # None /\ g = f /\ S.rtsDuty = "live")
    OBVIOUS
  <1> HIDE DEF g
  <1>6. T \in State /\ T.flight = g /\ T.rx = S.rx /\ T.at = S.at /\ T.out = S.out
        /\ T.sent = S.sent /\ T.postAck = S.postAck /\ T.stalled = S.stalled
        /\ T.armed = S.armed /\ T.stash = S.stash /\ T.nackWait = S.nackWait
        /\ T.bare = S.bare /\ T.rtsDuty = "none" /\ T.lbtRts = S.lbtRts
        /\ T.lbtOther = S.lbtOther
    BY <1>1, <1>3 DEF State, Ref
  <1> HIDE DEF T
  <1>7. RingFits(T) /\ Halves(T) /\ Served(T)
    BY <1>1, <1>3, <1>6 DEF RingFits, Halves, Served, Queued
  <1>8. Settled(T)
    BY <1>1, <1>2, <1>3, <1>5, <1>6 DEF Settled
  <1>9. Phase(T)
    <2>1. CASE S.rtsDuty = "live" /\ S.flight # None
      <3>1. g = f \/ g = S.flight
        BY <1>5
      <3>2. g = f
        BY <2>1 DEF g
      <3> QED BY <1>1, <1>2, <1>6, <2>1, <3>2 DEF Phase, IsBroadcast
    <2>2. CASE S.rtsDuty # "live" \/ S.flight = None
      <3>1. g = S.flight
        BY <1>3, <1>5, <2>2
      <3> QED BY <1>1, <1>6, <2>2, <3>1 DEF Phase, IsBroadcast
    <2> QED BY <2>1, <2>2
  <1> QED BY <1>4, <1>6, <1>7, <1>8, <1>9 DEF Restored, Coherent

\* The duty wait of the RTS is over.
LEMMA RtsDutyFireRestores ==
  ASSUME NEW S, Restored(S), S.rtsDuty # "none"
  PROVE \A T \in RtsDutyDeferFire(S) : Restored(T)
  <1> DEFINE T == [S EXCEPT !.rtsDuty = "none"]
  <1>1. S \in State /\ Phase(S) /\ Halves(S) /\ RingFits(S) /\ Settled(S) /\ Served(S)
    BY DEF Restored, Coherent
  <1>2. T \in State /\ T.flight = S.flight /\ T.rx = S.rx /\ T.at = S.at /\ T.out = S.out
        /\ T.sent = S.sent /\ T.postAck = S.postAck /\ T.stalled = S.stalled
        /\ T.armed = S.armed /\ T.stash = S.stash /\ T.nackWait = S.nackWait
        /\ T.bare = S.bare /\ T.rtsDuty = "none" /\ T.lbtRts = S.lbtRts
        /\ T.lbtOther = S.lbtOther
    BY <1>1 DEF State, Ref
  <1>3. RtsDutyDeferFire(S) =
          IF S.flight = None \/ S.rtsDuty = "stale" THEN {T}
          ELSE {S, HandRts(T)} \cup {ReleaseRtsDuty(U) : U \in CancelledAtHandOff(S)}
    BY DEF RtsDutyDeferFire
  <1> HIDE DEF T
  <1>4. Settled(T) /\ Halves(T) /\ Served(T) /\ RingFits(T)
    BY <1>1, <1>2, ServedKeeps DEF Settled, Halves, RingFits
  <1>5. CASE S.flight = None \/ S.rtsDuty = "stale"
    <2>1. Phase(T)
      BY <1>1, <1>2, <1>5 DEF Phase, IsBroadcast
    <2> QED BY <1>2, <1>3, <1>4, <1>5, <2>1 DEF Restored, Coherent
  <1>6. CASE ~(S.flight = None \/ S.rtsDuty = "stale")
    <2>1. RtsDue(T)
      BY <1>1, <1>2, <1>4, <1>6 DEF RtsDue, Phase, IsBroadcast
    <2>2. Flying(S)
      BY <1>6, FlyingCoherent DEF Restored
    <2>3. \A U \in CancelledAtHandOff(S) : Restored(ReleaseRtsDuty(U))
      BY <2>2, GiveUpRestores, ReleaseRtsDutyRestores DEF CancelledAtHandOff
    <2> QED BY <1>3, <1>6, <2>1, <2>3, HandRtsRestores
  <1> QED BY <1>5, <1>6

\* The wait a busy receiver asked for is over.
LEMMA NackWaitFireRestores ==
  ASSUME NEW S, Restored(S), S.nackWait # "none" PROVE \A T \in NackWaitFire(S) : Restored(T)
  <1> DEFINE T == [S EXCEPT !.nackWait = "none"]
  <1>1. S \in State /\ Phase(S) /\ Halves(S) /\ RingFits(S) /\ Settled(S) /\ Served(S)
    BY DEF Restored, Coherent
  <1>2. T \in State /\ T.flight = S.flight /\ T.rx = S.rx /\ T.at = S.at /\ T.out = S.out
        /\ T.sent = S.sent /\ T.postAck = S.postAck /\ T.stalled = S.stalled
        /\ T.armed = S.armed /\ T.stash = S.stash /\ T.rtsDuty = S.rtsDuty
        /\ T.bare = S.bare /\ T.nackWait = "none" /\ T.lbtRts = S.lbtRts
        /\ T.lbtOther = S.lbtOther
    BY <1>1 DEF State, Ref
  <1>3. NackWaitFire(S) =
          IF S.flight = None \/ S.nackWait = "stale" THEN {T} ELSE TxRtsRetry(T)
    BY DEF NackWaitFire
  <1> HIDE DEF T
  <1>4. Settled(T) /\ Halves(T) /\ Served(T) /\ RingFits(T)
    BY <1>1, <1>2, ServedKeeps DEF Settled, Halves, RingFits
  <1>5. CASE S.flight = None \/ S.nackWait = "stale"
    <2>1. Phase(T)
      BY <1>1, <1>2, <1>5 DEF Phase, IsBroadcast
    <2> QED BY <1>2, <1>3, <1>4, <1>5, <2>1 DEF Restored, Coherent
  <1>6. CASE ~(S.flight = None \/ S.nackWait = "stale")
    <2>1. Flying(T)
      BY <1>2, <1>4, <1>6, FlightTyped DEF Flying, Halves
    <2> QED BY <1>3, <1>6, <2>1, TxRtsRetryRestores
  <1> QED BY <1>5, <1>6

\* --- frames heard ---

\* A CTS arms the gap to the DATA.
LEMMA HandleCtsRestores ==
  ASSUME NEW S, Restored(S), S.flight # None PROVE \A T \in HandleCts(S) : Restored(T)
  <1> DEFINE X == {"rtsTimeout", "retryBackoff"}
             C == Cancel(S, X)
             f == [C.flight EXCEPT !.cts = FALSE, !.sf = TRUE, !.lost = FALSE]
             U == [C EXCEPT !.flight = f]
             T == Arm(U, "ctsToDataGap")
  <1>1. S \in State /\ Phase(S) /\ C.flight = S.flight
    BY CancelKeeps DEF Restored, Coherent
  <1>2. Flying(C) /\ C.armed = S.armed \ X /\ C.stash = S.stash
    BY <1>1, CancelFlying, CancelKeeps
  <1>3. HandleCts(S) = {T}
    BY DEF HandleCts
  <1> HIDE DEF C
  <1>4. f \in Flight /\ f.msg = C.flight.msg /\ ~f.cts /\ f.sf /\ f.ack = C.flight.ack
    BY <1>2 DEF Flying, Flight
  <1> HIDE DEF f
  <1>5. Flying(U) /\ U.flight = f /\ U.armed = C.armed /\ U.stash = C.stash
    BY <1>2, <1>4, FlyingFlight DEF Flying, State
  <1> HIDE DEF U
  <1>6. Flying(T) /\ T.flight = f /\ T.armed = U.armed \cup {"ctsToDataGap"} /\ T.stash = U.stash
    BY <1>5, ArmKeeps DEF Flying, Timer
  <1> HIDE DEF T
  <1>7. Phase(T)
    BY <1>1, <1>2, <1>4, <1>5, <1>6 DEF Phase
  <1> QED BY <1>3, <1>6, <1>7, StillFlying

\* An ACK ends the flight.
LEMMA HandleAckRestores ==
  ASSUME NEW S, Restored(S), S.flight # None, S.flight.msg \in S.sent \/ Alias
  PROVE \A T \in HandleAck(S) : Restored(T)
  <1> DEFINE m == S.flight.msg
             X == {"ackTimeout", "retryBackoff"}
             C == Cancel(S, X)
             told == IF m \in Notes THEN C.out[m] ELSE C.out[m] \cup {"acked"}
             A == [C EXCEPT !.out[m] = told]
             T == [Drop(A, A.flight.msg) EXCEPT !.flight = None]
  <1>1. Flying(C) /\ C.flight = S.flight /\ C.sent = S.sent /\ C.out = S.out
    BY CancelFlying, CancelKeeps DEF Restored, Coherent
  <1>2. HandleAck(S) = BecomeFree(T)
    BY DEF HandleAck, Release
  <1> HIDE DEF C
  <1>3. C \in State /\ m \in Msg /\ C.at[m] = "flight" /\ C.out[m] = {} /\ Settled(C) /\ RingFits(C)
    BY <1>1, FlyingNow DEF Flying, Settled
  <1>4. told \in SUBSET {"acked", "failed"} /\ "failed" \notin told
    BY <1>3
  <1> HIDE DEF told
  <1>5. A \in State /\ A.flight = S.flight /\ A.out = [C.out EXCEPT ![m] = told]
        /\ A.at = C.at /\ A.sent = C.sent /\ A.postAck = C.postAck
        /\ A.lbtRts = C.lbtRts /\ A.lbtOther = C.lbtOther
    BY <1>1, <1>3, <1>4 DEF State
  <1> HIDE DEF A
  <1>6. T \in State /\ T.flight = None /\ T.at = [C.at EXCEPT ![m] = "gone"] /\ T.out = A.out
        /\ T.sent = S.sent /\ T.postAck = C.postAck
        /\ T.lbtRts = C.lbtRts /\ T.lbtOther = C.lbtOther
    BY <1>1, <1>3, <1>5 DEF Drop, State, Place
  <1> HIDE DEF T
  <1>7. RingFits(T)
    BY <1>3, <1>6 DEF RingFits
  <1>8. Settled(T)
    <2>1. C.out \in [Msg -> SUBSET {"acked", "failed"}] /\ C.at \in [Msg -> Place]
      BY <1>3 DEF State
    <2>2. T.postAck \in Fwd => T.at[T.postAck] = "accepted"
      BY <1>3, <1>6, <2>1 DEF Settled, Msg
    <2>3. ASSUME NEW k \in Msg
          PROVE /\ T.out[k] # {} => T.at[k] = "gone"
                /\ T.out[k] # {"acked", "failed"}
                /\ "acked" \in T.out[k] => k \in T.sent \/ Alias
      <3>1. CASE k = m
        BY <1>4, <1>5, <1>6, <2>1, <3>1
      <3>2. CASE k # m
        BY <1>1, <1>3, <1>5, <1>6, <2>1, <3>2 DEF Settled
      <3> QED BY <3>1, <3>2
    <2> QED BY <1>6, <2>2, <2>3 DEF Settled
  <1>9. Coherent(T)
    BY <1>6, <1>7, <1>8, CoherentNoFlight
  <1> QED BY <1>2, <1>9, BecomeFreeRestores

\* A NACK stops the timeouts of a flight about to move on.
LEMMA NackedFlies ==
  ASSUME NEW S, Restored(S), S.flight # None
  PROVE Flying(Nacked(S)) /\ ~Nacked(S).flight.ack /\ Nacked(S).flight.msg = S.flight.msg
  <1> DEFINE C == Cancel(S, {"rtsTimeout", "ackTimeout"})
             f == [C.flight EXCEPT !.cts = FALSE, !.ack = FALSE]
             T == [C EXCEPT !.flight = f]
  <1>1. Flying(C) /\ C.flight = S.flight
    BY CancelFlying
  <1>2. Nacked(S) = T
    BY DEF Nacked
  <1> HIDE DEF C
  <1>3. f \in Flight /\ ~f.ack /\ f.msg = S.flight.msg
    BY <1>1 DEF Flying, Flight
  <1> HIDE DEF f
  <1>4. Flying(T) /\ T.flight = f
    BY <1>1, <1>3, FlyingFlight
  <1> QED BY <1>2, <1>3, <1>4

\* Every reason of a NACK moves the flight on or ends it.
LEMMA HandleNackRestores ==
  ASSUME NEW S, Restored(S), S.flight # None, NEW reason
  PROVE \A T \in HandleNack(S, reason) : Restored(T)
  <1> DEFINE N == Nacked(S)
             m == S.flight.msg
             H == [N EXCEPT !.holds[m] = @ + 1]
             M == MarkTried(N)
             W == [H EXCEPT !.nackWait = "live"]
             f == [H.flight EXCEPT !.cts = TRUE]
             U == [H EXCEPT !.flight = f]
             R == StartRtsTimeout(U)
  <1>1. Flying(N) /\ ~N.flight.ack /\ N.flight.msg = m /\ m \in Msg
    BY NackedFlies, FlyingNow
  <1>2. HandleNack(S, reason) =
          CASE reason = "loopDup"   -> TakeAlt(M) \cup GiveUp(M)
            [] reason = "busyShort" -> {W}
            [] reason = "busyLong"  -> IF HasRoom(H) THEN BecomeFree(BackToQueue(H, "ready"))
                                       ELSE GiveUp(H)
            [] reason = "hopBudget" -> GiveUp(N)
            [] reason = "budget"    -> TryCascadeRequeue(N)
            [] OTHER -> {R}
    <2>1. [H EXCEPT !.flight.cts = TRUE] = U
      OBVIOUS
    <2> QED BY <2>1 DEF HandleNack
  <1> HIDE DEF N, m
  <1>3. Flying(H) /\ H.flight = N.flight
    BY <1>1, HoldKeeps
  <1> HIDE DEF H
  <1>4. \A T \in TakeAlt(M) \cup GiveUp(M) : Restored(T)
    BY <1>1, MarkTriedKeeps, TakeAltRestores, GiveUpRestores
  <1> HIDE DEF M
  <1>5. Restored(W)
    <2>1. W \in State /\ W.flight = H.flight /\ W.rx = H.rx /\ W.at = H.at /\ W.out = H.out
          /\ W.sent = H.sent /\ W.postAck = H.postAck /\ W.lbtRts = H.lbtRts
          /\ W.lbtOther = H.lbtOther /\ W.nackWait = "live" /\ W.rtsDuty = H.rtsDuty
          /\ W.bare = H.bare /\ W.armed = H.armed
      BY <1>3 DEF Flying, State, Ref
    <2> HIDE DEF W
    <2>2. Flying(W)
      BY <1>3, <2>1 DEF Flying, Settled, RingFits
    <2>3. ASSUME W.flight.cts PROVE FALSE
      BY <1>1, <1>3, <2>1, <2>3 DEF Nacked, N, Cancel, Flying, State, Flight
    <2>4. Phase(W)
      BY <1>1, <1>3, <2>1, <2>3 DEF Phase
    <2> QED BY <2>2, <2>4, StillFlying
  <1>6. \A T \in BecomeFree(BackToQueue(H, "ready")) : Restored(T)
    BY <1>3, BackToQueueKeeps, BecomeFreeRestores
  <1>7. \A T \in GiveUp(H) \cup GiveUp(N) \cup TryCascadeRequeue(N) : Restored(T)
    BY <1>1, <1>3, GiveUpRestores, TryRequeueRestores
  <1>8. Restored(R)
    <2>1. f \in Flight /\ f.cts /\ ~f.ack /\ f.msg = m
      BY <1>1, <1>3 DEF Flying, Flight
    <2> HIDE DEF f
    <2>2. Flying(U) /\ U.flight = f
      BY <1>1, <1>3, <2>1, FlyingFlight
    <2> HIDE DEF U
    <2> DEFINE t == IF IsBroadcast(U, U.flight.msg) THEN "ctsToDataGap" ELSE "rtsTimeout"
    <2>3. R = Arm(U, t) /\ t \in Timer
      BY DEF StartRtsTimeout, Timer
    <2>4. Flying(R) /\ R.flight = f /\ R.armed = U.armed \cup {t} /\ R.bare = U.bare
      BY <2>2, <2>3, ArmKeeps DEF Flying
    <2> HIDE DEF R
    <2>5. Phase(R)
      BY <2>1, <2>2, <2>4 DEF Phase, IsBroadcast
    <2> QED BY <2>4, <2>5, StillFlying
  <1> HIDE DEF W, R
  <1> QED BY <1>2, <1>4, <1>5, <1>6, <1>7, <1>8

\* --- the receiving half ---

\* Without a flight, only the carriers, the receive half and the queue's servers count.
LEMMA IdleMove ==
  ASSUME NEW S, Coherent(S), NEW T, T \in State, T.flight = S.flight, T.rx => S.flight = None,
         T.armed = S.armed, T.lbtRts = S.lbtRts, T.lbtOther = S.lbtOther,
         T.rtsDuty = S.rtsDuty, T.nackWait = S.nackWait, T.stash = S.stash, T.bare = S.bare,
         Settled(T)
  PROVE Coherent(T)
  BY PhaseFrame DEF Coherent, RingFits, Halves

\* An accepted RTS: there is no flight.
LEMMA HearRtsRestores ==
  ASSUME NEW S, Restored(S), S.flight = None PROVE Restored([S EXCEPT !.rx = TRUE])
  <1> DEFINE T == [S EXCEPT !.rx = TRUE]
  <1>1. S \in State /\ Settled(S) /\ RingFits(S)
    BY DEF Restored, Coherent
  <1>2. T \in State /\ T.flight = None /\ T.rx
    BY <1>1 DEF State
  <1>3. Settled(T) /\ RingFits(T)
    BY <1>1 DEF State, Settled, RingFits
  <1> QED BY <1>2, <1>3, CoherentNoFlight DEF Restored, Served

\* The receive half ends and the queue goes on.
LEMMA FreeReceiver ==
  ASSUME NEW S, Restored(S), S.rx PROVE \A T \in BecomeFree([S EXCEPT !.rx = FALSE]) : Restored(T)
  <1> DEFINE T == [S EXCEPT !.rx = FALSE]
  <1>1. S \in State /\ Settled(S) /\ RingFits(S) /\ S.flight = None
    BY DEF Restored, Coherent, Halves
  <1>2. T \in State /\ T.flight = None
    BY <1>1 DEF State
  <1>3. Settled(T) /\ RingFits(T)
    BY <1>1 DEF State, Settled, RingFits
  <1> HIDE DEF T
  <1> QED BY <1>2, <1>3, CoherentNoFlight, BecomeFreeRestores DEF T

\* What was received takes the slot.
LEMMA HearDataRestores == ASSUME Restored(mac), HearData PROVE Restored(mac')
  <1>0. PICK p \in {i \in Inbound : i \in Fwd => mac.at[i] = "new"} :
          mac' = [mac EXCEPT
                    !.rx = FALSE, !.postAck = p,
                    !.at = [m \in Msg |-> IF m = p THEN "accepted"
                                          ELSE IF m = mac.postAck THEN "gone" ELSE @[m]]]
    BY DEF HearData
  <1> DEFINE at == [m \in Msg |-> IF m = p THEN "accepted"
                                  ELSE IF m = mac.postAck THEN "gone" ELSE mac.at[m]]
             T == [mac EXCEPT !.rx = FALSE, !.postAck = p, !.at = at]
  <1>1. mac \in State /\ Settled(mac) /\ RingFits(mac) /\ mac.flight = None
    BY DEF Restored, Coherent, Halves, HearData
  <1>2. at \in [Msg -> Place]
    BY <1>1 DEF State, Place
  <1>3. T \in State /\ T.flight = None /\ T.postAck = p /\ T.at = at /\ T.out = mac.out
        /\ T.sent = mac.sent /\ T.lbtRts = mac.lbtRts /\ T.lbtOther = mac.lbtOther
    BY <1>1, <1>2 DEF State
  <1>4. p \in Fwd => p \in Msg
    BY DEF Msg
  <1>5. \A m \in Msg : m = p => m \in Fwd
    BY ClassAssumption
  <1>6. ASSUME NEW m \in Msg, mac.out[m] # {} PROVE at[m] = "gone"
    <2>1. mac.at[m] = "gone" /\ m # p
      BY <1>0, <1>1, <1>5, <1>6 DEF Settled
    <2> QED BY <2>1
  <1>7. p \in Fwd => at[p] = "accepted"
    BY <1>4
  <1> HIDE DEF T, at
  <1>8. Settled(T) /\ RingFits(T)
    BY <1>1, <1>3, <1>6, <1>7 DEF Settled, RingFits
  <1>9. p # None
    BY NoneAssumption DEF Msg
  <1>10. mac' = T
    BY <1>0 DEF T, at
  <1> QED BY <1>3, <1>8, <1>9, <1>10, CoherentNoFlight DEF Restored, Served

\* What was received is delivered or forwarded, and the queue goes on.
LEMMA PostAckRestores ==
  ASSUME NEW S, Restored(S), S.postAck # None PROVE \A T \in PostAck(S) : Restored(T)
  <1> DEFINE p == S.postAck
             T == [S EXCEPT !.postAck = None]
             A == [T EXCEPT !.at[p] = IF HasRoom(T) THEN "ready" ELSE "gone"]
  <1>1. S \in State /\ Settled(S) /\ Coherent(S) /\ Halves(S)
    BY DEF Restored, Coherent
  <1>2. T \in State /\ T.flight = S.flight /\ T.rx = S.rx /\ T.at = S.at /\ T.out = S.out
        /\ T.sent = S.sent /\ T.postAck = None /\ T.armed = S.armed /\ T.lbtRts = S.lbtRts
        /\ T.lbtOther = S.lbtOther /\ T.rtsDuty = S.rtsDuty /\ T.nackWait = S.nackWait
        /\ T.stash = S.stash /\ T.bare = S.bare
    BY <1>1 DEF State
  <1>3. PostAck(S) = IF p = "local" THEN UNION {BecomeFree(U) : U \in Originate(T)}
                     ELSE BecomeFree(A)
    BY DEF PostAck
  <1> HIDE DEF T
  <1>4. Settled(T)
    <2>1. None \notin Fwd
      BY NoneAssumption DEF Msg
    <2> QED BY <1>1, <1>2, <2>1 DEF Settled
  <1>5. Coherent(T)
    BY <1>1, <1>2, <1>4, IdleMove DEF Halves
  <1>6. CASE p = "local"
    BY <1>3, <1>5, <1>6, OriginateKeeps, BecomeFreeRestores
  <1>7. CASE p # "local"
    <2>1. p \in Fwd /\ p \in Msg /\ S.at[p] = "accepted"
      BY <1>1, <1>7, ClassAssumption DEF State, Settled, Msg
    <2> HIDE DEF p
    <2>2. PICK place \in {"ready", "gone"} : A = [T EXCEPT !.at[p] = place]
      OBVIOUS
    <2>3. A \in State /\ A.flight = S.flight /\ A.rx = S.rx /\ A.at = [S.at EXCEPT ![p] = place]
          /\ A.out = S.out /\ A.sent = S.sent /\ A.postAck = None /\ A.armed = S.armed
          /\ A.lbtRts = S.lbtRts /\ A.lbtOther = S.lbtOther /\ A.rtsDuty = S.rtsDuty
          /\ A.nackWait = S.nackWait /\ A.stash = S.stash /\ A.bare = S.bare
      BY <1>2, <2>1, <2>2 DEF State, Place
    <2> HIDE DEF A
    <2>4. Settled(A)
      <3>1. S.at \in [Msg -> Place]
        BY <1>1 DEF State
      <3>2. A.flight # None => A.at[A.flight.msg] = "flight"
        <4>1. ASSUME S.flight # None PROVE S.flight.msg # p /\ S.flight.msg \in Msg /\ S.at[S.flight.msg] = "flight"
          BY <1>1, <2>1, <4>1, FlyingCoherent, FlyingNow
        <4> QED BY <2>3, <3>1, <4>1
      <3>3. A.postAck \in Fwd => A.at[A.postAck] = "accepted"
        BY <2>3, NoneAssumption DEF Msg
      <3>4. \A m \in Msg : m # p => A.at[m] = S.at[m]
        BY <2>3, <3>1
      <3>5. S.out[p] = {}
        BY <1>1, <2>1 DEF Settled
      <3> QED BY <1>1, <2>3, <3>2, <3>3, <3>4, <3>5 DEF Settled
    <2>5. Coherent(A)
      BY <1>1, <2>3, <2>4, IdleMove DEF Halves
    <2> QED BY <1>3, <1>7, <2>5, BecomeFreeRestores DEF p
  <1> QED BY <1>6, <1>7

\* --- the deferral list and the team purge ---

\* Arming one more timer keeps the invariant.
LEMMA ArmRestores ==
  ASSUME NEW S, Restored(S), NEW t \in Timer PROVE Restored(Arm(S, t))
  <1> DEFINE T == Arm(S, t)
  <1>1. S \in State /\ Phase(S) /\ Halves(S) /\ RingFits(S) /\ Settled(S) /\ Served(S)
    BY DEF Restored, Coherent
  <1>2. /\ T \in State /\ Settled(T) /\ RingFits(T) /\ T.flight = S.flight /\ T.rx = S.rx
        /\ T.armed = S.armed \cup {t}
        /\ T.lbtRts = S.lbtRts /\ T.rtsDuty = S.rtsDuty /\ T.nackWait = S.nackWait
        /\ T.stash = S.stash /\ T.bare = S.bare /\ T.at = S.at /\ T.postAck = S.postAck
        /\ T.stalled = S.stalled
    BY <1>1, ArmKeeps
  <1> HIDE DEF T
  <1>3. Phase(T) /\ Halves(T)
    BY <1>1, <1>2, PhaseFrame DEF Halves
  <1>4. Served(T)
    BY <1>1, <1>2, ServedKeeps
  <1> QED BY <1>2, <1>3, <1>4 DEF Restored, Coherent, T

\* Every carrier of the deferral list has its place after a drain.
LEMMA DrainCoherent ==
  ASSUME NEW S, Restored(S),
         NEW expired \in SUBSET Deferred(S), NEW routed \in SUBSET (Deferred(S) \ expired),
         NEW pushed \in SUBSET (Queued(S) \cup routed)
  PROVE LET C == Cancel(S, {"deferredDrain"})
            at == [m \in Msg |-> IF m \in expired \cup pushed THEN "gone"
                                 ELSE IF m \in routed THEN "ready" ELSE C.at[m]]
            redrains == [m \in Msg |-> IF m \in routed THEN C.redrains[m] + 1
                                       ELSE C.redrains[m]]
            out == [m \in Msg |-> IF m \in expired /\ m \in Dm \cup Chan
                                  THEN C.out[m] \cup {"failed"} ELSE C.out[m]]
            T == [C EXCEPT !.at = at, !.redrains = redrains, !.out = out]
        IN Coherent(T)
  <1> DEFINE C == Cancel(S, {"deferredDrain"})
             at == [m \in Msg |-> IF m \in expired \cup pushed THEN "gone"
                                  ELSE IF m \in routed THEN "ready" ELSE C.at[m]]
             redrains == [m \in Msg |-> IF m \in routed THEN C.redrains[m] + 1
                                        ELSE C.redrains[m]]
             out == [m \in Msg |-> IF m \in expired /\ m \in Dm \cup Chan
                                   THEN C.out[m] \cup {"failed"} ELSE C.out[m]]
             T == [C EXCEPT !.at = at, !.redrains = redrains, !.out = out]
  <1>1. S \in State /\ Coherent(S) /\ Phase(S) /\ Settled(S)
    BY DEF Restored, Coherent
  <1>2. C \in State /\ C.flight = S.flight /\ C.rx = S.rx /\ C.at = S.at /\ C.out = S.out
        /\ C.sent = S.sent /\ C.postAck = S.postAck
        /\ C.armed = S.armed \ {"deferredDrain"} /\ C.lbtRts = S.lbtRts
        /\ C.rtsDuty = S.rtsDuty /\ C.nackWait = S.nackWait /\ C.stash = S.stash
        /\ C.bare = S.bare
    BY <1>1, CancelKeeps
  <1>3. Coherent(C)
    <2>1. Settled(C) /\ RingFits(C) /\ Halves(C)
      BY <1>1, <1>2, CancelKeeps DEF Coherent, Halves
    <2> HIDE DEF C
    <2>2. Phase(C)
      BY <1>1, <1>2 DEF Phase, IsBroadcast
    <2> QED BY <1>2, <2>1, <2>2 DEF Coherent
  <1> HIDE DEF C
  <1>5. /\ \A m \in expired \cup routed : m \in Msg /\ S.at[m] = "deferred"
        /\ \A m \in pushed : m \in Msg /\ S.at[m] \in {"ready", "held", "deferred"}
        /\ expired \cap routed = {}
    BY DEF Deferred, Queued
  <1>6. at \in [Msg -> Place] /\ redrains \in [Msg -> Nat]
        /\ out \in [Msg -> SUBSET {"acked", "failed"}]
    BY <1>2 DEF State, Place
  <1>7. \A m \in Msg : S.at[m] \notin {"ready", "held", "deferred"} => at[m] = S.at[m]
    BY <1>2, <1>5
  <1>8. ASSUME NEW m \in Msg
        PROVE /\ out[m] # {} => at[m] = "gone"
              /\ out[m] # {"acked", "failed"}
              /\ "acked" \in out[m] => m \in S.sent \/ Alias
    <2>1. CASE m \in expired
      <3>1. S.out[m] = {} /\ at[m] = "gone"
        BY <1>1, <1>5, <2>1 DEF Settled
      <3>2. "acked" \notin out[m]
        BY <1>2, <2>1, <3>1
      <3> QED BY <3>1, <3>2
    <2>2. CASE m \notin expired
      <3>1. out[m] = S.out[m]
        BY <1>2, <2>2
      <3>2. S.out[m] # {} => at[m] = "gone"
        BY <1>1, <1>7 DEF Settled
      <3> QED BY <1>1, <3>1, <3>2 DEF Settled
    <2> QED BY <2>1, <2>2
  <1> HIDE DEF at, out, redrains
  <1>9. T \in State /\ T.flight = C.flight /\ T.rx = C.rx /\ T.armed = C.armed
        /\ T.at = at /\ T.out = out /\ T.sent = S.sent /\ T.postAck = S.postAck
        /\ T.lbtRts = C.lbtRts /\ T.lbtOther = C.lbtOther /\ T.rtsDuty = C.rtsDuty
        /\ T.nackWait = C.nackWait /\ T.stash = C.stash /\ T.bare = C.bare
    BY <1>2, <1>6 DEF State
  <1> HIDE DEF T
  <1>10. Settled(T)
    <2>1. T.flight # None => T.at[T.flight.msg] = "flight"
      BY <1>1, <1>2, <1>7, <1>9, FlyingCoherent, FlyingNow
    <2>2. T.postAck \in Fwd => T.at[T.postAck] = "accepted"
      BY <1>1, <1>7, <1>9 DEF Settled, Msg
    <2> QED BY <1>8, <1>9, <2>1, <2>2 DEF Settled
  <1>11. Coherent(T)
    BY <1>3, <1>9, <1>10, IdleMove DEF Coherent, Halves
  <1> QED BY <1>11 DEF T, at, out, redrains, C

\* The deferral list is drained and the queue goes on.
LEMMA DrainRestores ==
  ASSUME NEW S, Restored(S),
         NEW expired \in SUBSET Deferred(S), NEW routed \in SUBSET (Deferred(S) \ expired),
         NEW pushed \in SUBSET (Queued(S) \cup routed)
  PROVE \A T \in Drain(Cancel(S, {"deferredDrain"}), expired, routed, pushed) : Restored(T)
  <1> DEFINE C == Cancel(S, {"deferredDrain"})
             at == [m \in Msg |-> IF m \in expired \cup pushed THEN "gone"
                                  ELSE IF m \in routed THEN "ready" ELSE C.at[m]]
             redrains == [m \in Msg |-> IF m \in routed THEN C.redrains[m] + 1
                                        ELSE C.redrains[m]]
             out == [m \in Msg |-> IF m \in expired /\ m \in Dm \cup Chan
                                   THEN C.out[m] \cup {"failed"} ELSE C.out[m]]
             T == [C EXCEPT !.at = at, !.redrains = redrains, !.out = out]
  <1>1. Drain(C, expired, routed, pushed) =
          {IF Deferred(U) # {} THEN Arm(U, "deferredDrain") ELSE U : U \in BecomeFree(T)}
    BY DEF Drain
  <1>2. Coherent(T)
    BY DrainCoherent
  <1> HIDE DEF T, at, out, redrains, C
  <1>3. \A U \in BecomeFree(T) : Restored(U) /\ Restored(Arm(U, "deferredDrain"))
    BY <1>2, BecomeFreeRestores, ArmRestores DEF Timer
  <1> QED BY <1>1, <1>3 DEF C

\* A purged flight makes room for the next.
LEMMA PurgeTeamRestores ==
  ASSUME NEW S, Restored(S),
         NEW posts \in SUBSET {m \in Chan \ S.bare : S.at[m] \in {"ready", "held", "flight"}}
  PROVE \A T \in PurgeTeam(S, posts) : Restored(T)
  <1> DEFINE inFlight == S.flight # None /\ S.flight.msg \in posts
             at == [m \in Msg |-> IF m \in posts THEN "gone" ELSE S.at[m]]
             g == IF inFlight THEN None ELSE S.flight
             T == [S EXCEPT !.at = at, !.flight = g]
  <1>1. S \in State /\ Coherent(S) /\ Settled(S) /\ Served(S) /\ RingFits(S)
    BY DEF Restored, Coherent
  <1>2. at \in [Msg -> Place] /\ (\A m \in Msg : m \notin posts => at[m] = S.at[m])
        /\ (\A m \in Msg : S.at[m] \in {"gone", "accepted"} => at[m] = S.at[m])
        /\ (\A m \in Msg : at[m] \in {"ready", "held"} => at[m] = S.at[m])
    BY <1>1 DEF State, Place
  <1>3. PurgeTeam(S, posts) = IF inFlight THEN BecomeFree(T) ELSE {T}
    BY DEF PurgeTeam
  <1>4. g \in Flight \cup {None}
    BY <1>1 DEF State
  <1>5. (inFlight => g = None) /\ (~inFlight => g = S.flight)
    OBVIOUS
  <1> HIDE DEF at, g
  <1>6. T \in State /\ T.flight = g /\ T.rx = S.rx /\ T.armed = S.armed
        /\ T.at = at /\ T.out = S.out /\ T.sent = S.sent /\ T.postAck = S.postAck
        /\ T.lbtRts = S.lbtRts /\ T.lbtOther = S.lbtOther /\ T.rtsDuty = S.rtsDuty
        /\ T.nackWait = S.nackWait /\ T.stash = S.stash /\ T.bare = S.bare
        /\ T.stalled = S.stalled
    BY <1>1, <1>2, <1>4 DEF State
  <1> HIDE DEF T
  <1>7. Settled(T) /\ RingFits(T)
    <2>1. T.flight # None => T.at[T.flight.msg] = "flight"
      BY <1>1, <1>2, <1>5, <1>6, FlyingCoherent, FlyingNow
    <2>2. T.postAck \in Fwd => T.at[T.postAck] = "accepted"
      BY <1>1, <1>2, <1>6 DEF Settled, Msg
    <2> QED BY <1>1, <1>2, <1>6, <2>1, <2>2 DEF Settled, RingFits
  <1>8. CASE inFlight
    BY <1>3, <1>5, <1>6, <1>7, <1>8, CoherentNoFlight, BecomeFreeRestores
  <1>9. CASE ~inFlight
    <2>1. Coherent(T)
      BY <1>1, <1>5, <1>6, <1>7, <1>9, IdleMove DEF Coherent, Halves
    <2>2. Queued(T) \subseteq Queued(S)
      BY <1>2, <1>6 DEF Queued
    <2>3. Served(T)
      BY <1>1, <1>5, <1>6, <1>9, <2>2 DEF Served
    <2> QED BY <1>3, <1>9, <2>1, <2>3 DEF Restored
  <1> QED BY <1>8, <1>9

----------------------------------------------------------------------------
\* The invariant

\* A node starts idle.
LEMMA InitInductive == Init => Inductive
  <1> SUFFICES ASSUME Init PROVE Inductive
    OBVIOUS
  <1>1. mac \in State
    BY Bounds, BoundAssumption DEF Init, State, Place, Ref
  <1>2. mac.flight = None /\ mac.lbtRts = 0 /\ mac.lbtOther = 0 /\ mac.postAck = None
        /\ \A m \in Msg : mac.at[m] = "new" /\ mac.out[m] = {}
    BY DEF Init
  <1>3. Settled(mac) /\ RingFits(mac)
    BY <1>2, NoneAssumption, Bounds DEF Settled, RingFits, Msg
  <1>4. Served(mac)
    BY <1>2 DEF Served, Queued
  <1> QED BY <1>1, <1>2, <1>3, <1>4, CoherentNoFlight DEF Inductive

\* Every timer of the node.
LEMMA TimersKeep == ASSUME Restored(mac), Timers PROVE Restored(mac')
  <1>1. mac \in State /\ Coherent(mac)
    BY DEF Restored, Coherent
  <1>2. CASE FireRtsTimeout
    BY <1>2, RtsTimeoutRestores DEF FireRtsTimeout, Fires
  <1>3. CASE FireAckTimeout
    BY <1>3, AckTimeoutRestores DEF FireAckTimeout, Fires
  <1>4. CASE FireCtsToDataGap
    BY <1>4, DoDataTxRestores DEF FireCtsToDataGap, Fires
  <1>5. CASE FireRetryBackoff
    <2> DEFINE C == Cancel(mac, {"retryBackoff"})
    <2>1. mac' \in (IF C.flight = None THEN {C} ELSE TxRtsRetry(C))
      BY <1>5 DEF FireRetryBackoff, Fires
    <2>2. C.flight = mac.flight
      BY <1>1, CancelKeeps
    <2>3. C.flight = None => Restored(C)
      BY <2>2, CancelRestores DEF Servers
    <2>4. C.flight # None => Flying(C)
      BY <2>2, CancelFlying
    <2> HIDE DEF C
    <2> QED BY <2>1, <2>3, <2>4, TxRtsRetryRestores
  <1>6. CASE FireMBcastClear
    <2> DEFINE C == Cancel(mac, {"mBcastClear"})
    <2>1. mac' \in (IF C.flight = None THEN {C}
                    ELSE IF IsBroadcast(C, C.flight.msg) THEN Release(C) ELSE {C})
      BY <1>6 DEF FireMBcastClear, Fires
    <2>2. Same(mac, C) /\ C.armed = mac.armed \ {"mBcastClear"} /\ C.stash = mac.stash
      BY <1>1, CancelKeeps DEF Same
    <2>3. ASSUME C.flight = None \/ ~IsBroadcast(C, C.flight.msg) PROVE Restored(C)
      <3>1. mac.flight # None => Phase(C)
        <4> HIDE DEF C
        <4> QED BY <1>1, <2>2, <2>3 DEF Phase, IsBroadcast, Same, Coherent
      <3> QED BY <3>1, CancelRestores DEF Servers
    <2>4. C.flight # None => Flying(C)
      BY <2>2, CancelFlying DEF Same
    <2> HIDE DEF C
    <2> QED BY <2>1, <2>3, <2>4, ReleaseRestores
  <1>7. ASSUME NEW t \in {"queueWakeup", "cascadeRequeue"}, mac' \in BecomeFree(Cancel(mac, {t}))
        PROVE Restored(mac')
    <2> DEFINE C == Cancel(mac, {t})
    <2>1. Same(mac, C) /\ C.armed = mac.armed \ {t} /\ C.stash = mac.stash /\ C.rx = mac.rx
          /\ C \in State /\ RingFits(C) /\ Settled(C)
      BY <1>1, CancelKeeps DEF Same, Coherent
    <2> HIDE DEF C
    <2>2. Phase(C) /\ Halves(C)
      BY <1>1, <2>1 DEF Phase, IsBroadcast, Same, Halves, Coherent
    <2>3. Coherent(C)
      BY <2>1, <2>2 DEF Coherent
    <2> QED BY <1>7, <2>3, BecomeFreeRestores DEF C
  <1>8. CASE FireQueueWakeup
    BY <1>7, <1>8 DEF FireQueueWakeup, Fires
  <1>9. CASE FireCascadeRequeue
    BY <1>7, <1>9 DEF FireCascadeRequeue, Fires
  <1>10. CASE FireDeferredDrain
    BY <1>10, DrainRestores DEF FireDeferredDrain
  <1>11. CASE FireDutyDefer
    BY <1>11, DutyDeferFireRestores DEF FireDutyDefer, Fires
  <1>12. CASE FireBusyRetry
    BY <1>12, RetryStashedRestores DEF FireBusyRetry, Fires
  <1>13. CASE FireRtsDuty
    BY <1>13, RtsDutyFireRestores DEF FireRtsDuty
  <1>14. CASE FireNackWait
    BY <1>14, NackWaitFireRestores DEF FireNackWait
  <1>15. CASE FireLbtRts
    BY <1>15, LbtFireRtsRestores DEF FireLbtRts
  <1>16. CASE FireLbtOther
    <2>1. mac.lbtOther \in Nat /\ mac.lbtRts \in Nat /\ mac.lbtOther > 0 /\ mac.lbtOther <= LbtSlots
          /\ mac.lbtRts + mac.lbtOther <= LbtSlots
      BY <1>1, <1>16, Bounds DEF FireLbtOther, State, Coherent, RingFits
    <2>2. mac.lbtOther - 1 \in 0..LbtSlots /\ mac.lbtRts + (mac.lbtOther - 1) <= LbtSlots
      BY <2>1, Bounds
    <2>3. mac' = [mac EXCEPT !.lbtOther = mac.lbtOther - 1]
      BY <1>16 DEF FireLbtOther
    <2>4. mac' \in State /\ Same(mac, mac') /\ mac'.armed = mac.armed /\ mac'.stash = mac.stash
          /\ mac'.rx = mac.rx /\ mac'.at = mac.at /\ mac'.out = mac.out /\ mac'.sent = mac.sent
          /\ mac'.postAck = mac.postAck /\ mac'.stalled = mac.stalled
          /\ mac'.lbtOther = mac.lbtOther - 1
      BY <1>1, <2>2, <2>3 DEF State, Same
    <2>5. RingFits(mac')
      BY <2>2, <2>4 DEF RingFits, Same
    <2>6. Phase(mac')
      BY <1>1, <2>4, PhaseFrame DEF Same, Coherent
    <2>7. Coherent(mac')
      BY <1>1, <2>4, <2>5, <2>6, BufferKeeps DEF Same
    <2>8. Served(mac')
      BY <2>4, ServedKeeps DEF Same, Restored
    <2> QED BY <2>7, <2>8 DEF Restored
  <1>17. CASE PendingRxExpiry
    BY <1>17, FreeReceiver DEF PendingRxExpiry
  <1>18. CASE FirePostAck
    BY <1>18, PostAckRestores DEF FirePostAck
  <1>19. ASSUME NEW m \in Msg, Elapse(m) PROVE Restored(mac')
    <2>1. mac.at[m] = "held" /\ mac' = [mac EXCEPT !.at[m] = "ready"]
      BY <1>19 DEF Elapse
    <2>2. Coherent(mac')
      BY <1>1, <2>1, MoveKeeps
    <2>3. Queued(mac') \subseteq Queued(mac) /\ mac'.flight = mac.flight /\ mac'.rx = mac.rx
          /\ mac'.postAck = mac.postAck /\ mac'.stalled = mac.stalled /\ mac'.armed = mac.armed
      BY <1>1, <2>1 DEF Queued, State
    <2>4. Served(mac')
      BY <2>3 DEF Served, Restored
    <2> QED BY <2>2, <2>4 DEF Restored
  <1> QED BY <1>2, <1>3, <1>4, <1>5, <1>6, <1>8, <1>9, <1>10, <1>11, <1>12, <1>13, <1>14,
             <1>15, <1>16, <1>17, <1>18, <1>19 DEF Timers

\* Every frame heard.
LEMMA FramesKeep == ASSUME Restored(mac), Frames PROVE Restored(mac')
  <1>1. CASE HearCts
    BY <1>1, HandleCtsRestores DEF HearCts, Answered
  <1>2. CASE HearCtsAlreadyReceived
    BY <1>2, CancelFlying, ReleaseRestores
       DEF HearCtsAlreadyReceived, HandleCtsAlreadyReceived, Answered
  <1>3. CASE HearAck
    BY <1>3, HandleAckRestores DEF HearAck, Answered
  <1>4. CASE HearForward
    BY <1>4, CancelFlying, ReleaseRestores DEF HearForward, HandleRtsCredit
  <1>5. CASE HearRts
    BY <1>5, HearRtsRestores DEF HearRts
  <1>6. CASE HearData
    BY <1>6, HearDataRestores
  <1>7. CASE HearOtherData
    BY <1>7, FreeReceiver DEF HearOtherData
  <1>8. ASSUME NEW reason \in NackReason, HearNack(reason) PROVE Restored(mac')
    BY <1>8, HandleNackRestores DEF HearNack, Answered
  <1> QED BY <1>1, <1>2, <1>3, <1>4, <1>5, <1>6, <1>7, <1>8 DEF Frames

\* Commands, the radio and the node's other frames.
LEMMA EnvironmentKeeps == ASSUME Restored(mac), Environment PROVE Restored(mac')
  <1>1. mac \in State /\ Coherent(mac)
    BY DEF Restored, Coherent
  <1>2. CASE LeaveTeam
    BY <1>2, PurgeTeamRestores DEF LeaveTeam
  <1>3. CASE RefuseData
    BY <1>3, DataRefusedRestores DEF RefuseData
  <1>4. CASE RtsExpired
    BY <1>1, <1>4, FlyingCoherent, GiveUpRestores DEF RtsExpired
  <1>5. CASE DeferOther
    <2>1. mac.lbtOther \in Nat /\ mac.lbtRts \in Nat /\ mac.lbtRts + mac.lbtOther < LbtSlots
      BY <1>1, <1>5, Bounds DEF DeferOther, State
    <2>2. mac.lbtOther + 1 \in 0..LbtSlots /\ mac.lbtRts + (mac.lbtOther + 1) <= LbtSlots
      BY <2>1, Bounds
    <2>3. mac' = [mac EXCEPT !.lbtOther = mac.lbtOther + 1]
      BY <1>5 DEF DeferOther
    <2>4. mac' \in State /\ Same(mac, mac') /\ mac'.armed = mac.armed /\ mac'.stash = mac.stash
          /\ mac'.rx = mac.rx /\ mac'.at = mac.at /\ mac'.out = mac.out /\ mac'.sent = mac.sent
          /\ mac'.postAck = mac.postAck /\ mac'.stalled = mac.stalled
          /\ mac'.lbtOther = mac.lbtOther + 1
      BY <1>1, <2>2, <2>3 DEF State, Same
    <2>5. RingFits(mac')
      BY <2>2, <2>4 DEF RingFits, Same
    <2>6. Phase(mac')
      BY <1>1, <2>4, PhaseFrame DEF Same, Coherent
    <2>7. Coherent(mac')
      BY <1>1, <2>4, <2>5, <2>6, BufferKeeps DEF Same
    <2>8. Served(mac')
      BY <2>4, ServedKeeps DEF Same, Restored
    <2> QED BY <2>7, <2>8 DEF Restored
  <1>6. ASSUME NEW m \in Msg, Send(m) PROVE Restored(mac')
    BY <1>1, <1>6, EnqueueDataRestores DEF Send
  <1>7. ASSUME NEW m \in Msg, PostChannel(m) PROVE Restored(mac')
    BY <1>7, EnqueueFloodRestores DEF PostChannel
  <1>8. ASSUME NEW m \in Msg, ServePull(m) PROVE Restored(mac')
    <2>1. mac' \in EnqueueData(mac, m)
      BY <1>8 DEF ServePull, EnqueueData
    <2> QED BY <1>1, <1>8, <2>1, EnqueueDataRestores DEF ServePull
  <1> QED BY <1>2, <1>3, <1>4, <1>5, <1>6, <1>7, <1>8 DEF Environment

\* The handlers of the engine, each called at any moment, keep its invariant.
THEOREM EngineInvariant == Spec => []Inductive
  <1>1. Inductive /\ [Next]_vars => Inductive'
    <2> SUFFICES ASSUME Inductive, [Next]_vars PROVE Inductive'
      OBVIOUS
    <2>1. Restored(mac)
      BY DEF Inductive, Restored
    <2>2. CASE Next
      <3>1. Restored(mac')
        BY <2>1, <2>2, TimersKeep, FramesKeep, EnvironmentKeeps DEF Next
      <3> QED BY <3>1 DEF Inductive, Restored
    <2>3. CASE UNCHANGED vars
      <3>1. mac' = mac
        BY <2>3 DEF vars
      <3> QED BY <2>1, <3>1 DEF Inductive, Restored
    <2> QED BY <2>2, <2>3
  <1> QED BY InitInductive, <1>1, PTL DEF Spec

\* Every field of the engine keeps to its range.
THEOREM TypeCorrect == Spec => []TypeOK
  <1>1. Inductive => TypeOK
    BY DEF Inductive, Coherent, TypeOK
  <1> QED BY <1>1, EngineInvariant, PTL

\* No interleaving of answers, refusals, deferrals and timers strands the flight, but for
\* the two ways named in FlightNotWedged.
THEOREM FlightNeverWedged == Spec => []FlightNotWedged
  <1>1. ASSUME Inductive, mac.flight # None
        PROVE Awake(mac) \/ RtsDropped(mac) \/ AwaitingBroadcast(mac)
    <2>1. Phase(mac)
      BY <1>1 DEF Inductive, Coherent
    <2>2. CASE mac.flight.cts
      BY <1>1, <2>1, <2>2 DEF Phase, Awake, RtsDropped, AwaitingBroadcast
    <2>3. CASE ~mac.flight.cts
      BY <1>1, <2>1, <2>3 DEF Phase, Awake, RtsDropped
    <2> QED BY <2>2, <2>3
  <1>2. Inductive => FlightNotWedged
    BY <1>1 DEF FlightNotWedged
  <1> QED BY <1>2, EngineInvariant, PTL

\* An awaited ACK always has its timeout running and its DATA in the stash.
THEOREM AckWaitAlwaysGuarded == Spec => []AckWaitGuarded
  <1>1. Inductive => AckWaitGuarded
    BY DEF Inductive, Coherent, Phase, AckWaitGuarded
  <1> QED BY <1>1, EngineInvariant, PTL

\* An idle node with items in its queue has something that will call become_free.
THEOREM QueueAlwaysServed == Spec => []QueueServed
  <1>1. Inductive => QueueServed
    BY DEF Inductive, Served, QueueServed
  <1> QED BY <1>1, EngineInvariant, PTL

\* A flight of its own and an accepted inbound exchange exclude each other.
THEOREM AlwaysHalfDuplex == Spec => []HalfDuplex
  <1>1. Inductive => HalfDuplex
    BY DEF Inductive, Coherent, Halves, HalfDuplex
  <1> QED BY <1>1, EngineInvariant, PTL

\* A message is reported at most once, when its carrier is gone, and as acknowledged only
\* when its DATA was handed to the radio.
THEOREM OneOutcomeEver == Spec => []OneOutcome
  <1>1. Inductive => OneOutcome
    BY DEF Inductive, Coherent, Settled, OneOutcome
  <1> QED BY <1>1, EngineInvariant, PTL
=============================================================================
