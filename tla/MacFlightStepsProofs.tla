------------------------ MODULE MacFlightStepsProofs ------------------------
(***************************************************************************)
(* What a step of the send engine may do to the messages in its care: a    *)
(* settled one stays settled, no requeue budget is refunded, the queue     *)
(* and the deferral list keep to their arrays, and DATA goes out only in a *)
(* flight that has announced it.                                           *)
(*                                                                         *)
(* All of it is one relation, Leads, between the record a handler is given *)
(* and the one it leaves.  It is transitive, so a handler's lemma follows  *)
(* from those of the handlers it calls, as in MacFlightProofs.             *)
(***************************************************************************)
EXTENDS MacFlightProofs, FiniteSetTheorems

\* The arrays are not exceeded.
Fits(S) ==
  /\ IsFiniteSet(Queued(S)) /\ Cardinality(Queued(S)) <= QueueCap
  /\ IsFiniteSet(Deferred(S)) /\ Cardinality(Deferred(S)) <= DeferCap

\* The DATA of a flight is not yet to be sent, or an RTS has announced it.
Announced(S) ==
  LET f == S.flight
  IN f # None =>
       IsBroadcast(S, f.msg) \/ Alias \/ f.asked \/ (~f.sf /\ S.stash # "live")

Onward(S, T) ==
  \A m \in Msg :
    /\ S.at[m] = "gone" => T.at[m] = "gone" /\ T.out[m] = S.out[m]
    /\ S.requeues[m] <= T.requeues[m]

Carries(S, T) == Onward(S, T) /\ (Fits(S) => Fits(T)) /\ (Announced(S) => Announced(T))
Leads(S, T) == Carries(S, T) /\ T.sent = S.sent

\* The arrays have a size.
LEMMA Caps == QueueCap \in Nat /\ DeferCap \in Nat
  BY BoundAssumption

\* One handler after another.
LEMMA LeadsOn ==
  ASSUME NEW S \in State, NEW T, T \in State, NEW U, U \in State, Leads(S, T), Leads(T, U)
  PROVE Leads(S, U)
  <1>1. ASSUME NEW m \in Msg PROVE S.requeues[m] <= U.requeues[m]
    <2>1. S.requeues[m] \in Nat /\ T.requeues[m] \in Nat /\ U.requeues[m] \in Nat
      BY DEF State
    <2> QED BY <2>1 DEF Leads, Carries, Onward
  <1> QED BY <1>1 DEF Leads, Carries, Onward

\* What changes neither places nor completions nor counts only has to see to the flight.
LEMMA StillLeads ==
  ASSUME NEW S \in State, NEW T, T.at = S.at, T.out = S.out, T.requeues = S.requeues,
         Announced(S) => Announced(T)
  PROVE Carries(S, T)
  <1>1. Queued(T) = Queued(S) /\ Deferred(T) = Deferred(S)
    BY DEF Queued, Deferred
  <1>2. \A m \in Msg : S.requeues[m] \in Nat
    BY DEF State
  <1>3. \A m \in Msg : S.requeues[m] <= S.requeues[m]
    BY <1>2
  <1> QED BY <1>1, <1>3 DEF Carries, Onward, Fits

\* Fewer messages fit, and one more where there is room.
LEMMA FewerFits ==
  ASSUME NEW S, NEW T, Fits(S), Queued(T) \subseteq Queued(S), Deferred(T) \subseteq Deferred(S)
  PROVE Fits(T)
  <1>1. IsFiniteSet(Queued(T)) /\ Cardinality(Queued(T)) <= Cardinality(Queued(S))
        /\ Cardinality(Queued(T)) \in Nat /\ Cardinality(Queued(S)) \in Nat
    BY FS_Subset, FS_CardinalityType DEF Fits
  <1>2. IsFiniteSet(Deferred(T)) /\ Cardinality(Deferred(T)) <= Cardinality(Deferred(S))
        /\ Cardinality(Deferred(T)) \in Nat /\ Cardinality(Deferred(S)) \in Nat
    BY FS_Subset, FS_CardinalityType DEF Fits
  <1> QED BY <1>1, <1>2, Caps DEF Fits

\* A set with room for one more message, and a set that gained at most that one.
LEMMA OneMoreFits ==
  ASSUME NEW s, NEW t, NEW m, NEW cap \in Nat, IsFiniteSet(s), Cardinality(s) <= cap,
         t \subseteq s \cup {m}, Cardinality(s) < cap \/ m \in s
  PROVE IsFiniteSet(t) /\ Cardinality(t) <= cap
  <1>1. Cardinality(s) \in Nat
    BY FS_CardinalityType
  <1>2. IsFiniteSet(s \cup {m}) /\ Cardinality(s \cup {m}) \in Nat
        /\ Cardinality(s \cup {m}) <= cap
    <2>1. CASE m \in s
      <3>1. s \cup {m} = s
        BY <2>1
      <3> QED BY <1>1, <3>1
    <2>2. CASE m \notin s
      <3>1. IsFiniteSet(s \cup {m}) /\ Cardinality(s \cup {m}) = Cardinality(s) + 1
        BY <2>2, FS_AddElement
      <3> QED BY <1>1, <2>2, <3>1
    <2> QED BY <2>1, <2>2
  <1>3. IsFiniteSet(t) /\ Cardinality(t) <= Cardinality(s \cup {m}) /\ Cardinality(t) \in Nat
    BY <1>2, FS_Subset, FS_CardinalityType
  <1> QED BY <1>2, <1>3

\* A message that is not settled moves to another place, where there is room for it.
LEMMA MoveLeads ==
  ASSUME NEW S \in State, NEW m \in Msg, S.at[m] # "gone", NEW place \in Place,
         NEW T, T.at = [S.at EXCEPT ![m] = place],
         \A n \in Msg : n # m => T.out[n] = S.out[n],
         \A n \in Msg : S.requeues[n] <= T.requeues[n],
         Announced(S) => Announced(T),
         place \in {"ready", "held"} => HasRoom(S) \/ S.at[m] \in {"ready", "held"},
         place = "deferred" => ~(Cardinality(Deferred(S)) >= DeferCap)
  PROVE Carries(S, T)
  <1>1. \A n \in Msg : T.at[n] = IF n = m THEN place ELSE S.at[n]
    BY DEF State
  <1>2. Onward(S, T)
    BY <1>1 DEF Onward
  <1>3. ASSUME Fits(S) PROVE Fits(T)
    <2>1. IsFiniteSet(Queued(T)) /\ Cardinality(Queued(T)) <= QueueCap
      <3>1. CASE place \in {"ready", "held"}
        <4>1. Queued(T) \subseteq Queued(S) \cup {m}
          BY <1>1 DEF Queued
        <4>2. Cardinality(Queued(S)) < QueueCap \/ m \in Queued(S)
          BY <3>1 DEF HasRoom, Queued
        <4> QED BY <1>3, <4>1, <4>2, OneMoreFits, Caps DEF Fits
      <3>2. CASE place \notin {"ready", "held"}
        <4>1. Queued(T) \subseteq Queued(S)
          BY <1>1, <3>2 DEF Queued
        <4>2. IsFiniteSet(Queued(T)) /\ Cardinality(Queued(T)) <= Cardinality(Queued(S))
              /\ Cardinality(Queued(T)) \in Nat /\ Cardinality(Queued(S)) \in Nat
          BY <1>3, <4>1, FS_Subset, FS_CardinalityType DEF Fits
        <4> QED BY <1>3, <4>2, Caps DEF Fits
      <3> QED BY <3>1, <3>2
    <2>2. IsFiniteSet(Deferred(T)) /\ Cardinality(Deferred(T)) <= DeferCap
      <3>1. CASE place = "deferred"
        <4>1. Deferred(T) \subseteq Deferred(S) \cup {m}
          BY <1>1 DEF Deferred
        <4>2. Cardinality(Deferred(S)) < DeferCap
          BY <1>3, <3>1, FS_CardinalityType, Caps DEF Fits
        <4> QED BY <1>3, <4>1, <4>2, OneMoreFits, Caps DEF Fits
      <3>2. CASE place # "deferred"
        <4>1. Deferred(T) \subseteq Deferred(S)
          BY <1>1, <3>2 DEF Deferred
        <4>2. IsFiniteSet(Deferred(T)) /\ Cardinality(Deferred(T)) <= Cardinality(Deferred(S))
              /\ Cardinality(Deferred(T)) \in Nat /\ Cardinality(Deferred(S)) \in Nat
          BY <1>3, <4>1, FS_Subset, FS_CardinalityType DEF Fits
        <4> QED BY <1>3, <4>2, Caps DEF Fits
      <3> QED BY <3>1, <3>2
    <2> QED BY <2>1, <2>2 DEF Fits
  <1> QED BY <1>2, <1>3 DEF Carries

\* Timers, buffers and the flags of the flight, an announcement kept.
LEMMA CancelLeads ==
  ASSUME NEW S \in State, NEW X PROVE Leads(S, Cancel(S, X))
  <1> DEFINE T == Cancel(S, X)
  <1>1. /\ T.at = S.at /\ T.out = S.out /\ T.requeues = S.requeues /\ T.sent = S.sent
        /\ T.flight = S.flight /\ T.stash = S.stash /\ T.bare = S.bare
    BY DEF Cancel, State
  <1> HIDE DEF T
  <1> QED BY <1>1, StillLeads DEF Leads, Announced, IsBroadcast, T

\* Arming a timer carries everything on.
LEMMA ArmLeads ==
  ASSUME NEW S \in State, NEW t PROVE Leads(S, Arm(S, t))
  <1> DEFINE T == Arm(S, t)
  <1>1. /\ T.at = S.at /\ T.out = S.out /\ T.requeues = S.requeues /\ T.sent = S.sent
        /\ T.flight = S.flight /\ T.stash = S.stash /\ T.bare = S.bare
    BY DEF Arm, State
  <1> HIDE DEF T
  <1> QED BY <1>1, StillLeads DEF Leads, Announced, IsBroadcast, T

\* A flight whose flags change keeps its announcement.
LEMMA FlagsLead ==
  ASSUME NEW S \in State, S.flight # None, NEW T, T.flight.msg = S.flight.msg,
         S.flight.asked => T.flight.asked, T.flight.sf => S.flight.sf,
         T.stash = "live" => S.stash = "live", T.bare = S.bare,
         T.at = S.at, T.out = S.out, T.requeues = S.requeues, T.sent = S.sent
  PROVE Leads(S, T)
  BY StillLeads DEF Leads, Announced, IsBroadcast

\* The way of an RTS to the radio.
LEMMA TxInitiatingLeads ==
  ASSUME NEW S \in State, S.flight \in Flight
  PROVE \A T \in TxInitiating(S) \cup LbtComplete(S) : Leads(S, T)
  <1> DEFINE Kept(T) == /\ T.flight.msg = S.flight.msg /\ (S.flight.asked => T.flight.asked)
                        /\ T.flight.sf = S.flight.sf /\ T.stash = S.stash /\ T.bare = S.bare
                        /\ T.at = S.at /\ T.out = S.out /\ T.requeues = S.requeues
                        /\ T.sent = S.sent
  <1>1. Kept(HandRts(S))
    <2> DEFINE f == [S.flight EXCEPT !.asked = TRUE, !.lost = FALSE]
               U == [S EXCEPT !.flight = f]
    <2>1. f.msg = S.flight.msg /\ f.asked /\ f.sf = S.flight.sf
      BY DEF Flight
    <2> HIDE DEF f
    <2>2. /\ U.flight = f /\ U.stash = S.stash /\ U.bare = S.bare /\ U.at = S.at
          /\ U.out = S.out /\ U.requeues = S.requeues /\ U.sent = S.sent
          /\ DOMAIN U = DOMAIN S
      BY DEF State
    <2>3. HandRts(S) = Arm(U, IF IsBroadcast(U, U.flight.msg) THEN "ctsToDataGap" ELSE "rtsTimeout")
      BY DEF HandRts, StartRtsTimeout, f
    <2> DEFINE t == IF IsBroadcast(U, U.flight.msg) THEN "ctsToDataGap" ELSE "rtsTimeout"
    <2>4. /\ Arm(U, t).flight = U.flight /\ Arm(U, t).stash = U.stash /\ Arm(U, t).bare = U.bare
          /\ Arm(U, t).at = U.at /\ Arm(U, t).out = U.out /\ Arm(U, t).requeues = U.requeues
          /\ Arm(U, t).sent = U.sent
      BY DEF Arm, State
    <2> QED BY <2>1, <2>2, <2>3, <2>4
  <1>2. Kept(DeferRtsForDuty(S))
    BY DEF DeferRtsForDuty, State, Flight
  <1>3. Kept(ScheduleLbtDefer(S))
    BY DEF ScheduleLbtDefer, State, Flight
  <1>4. \A T \in TxInitiating(S) \cup LbtComplete(S) : Kept(T)
    BY <1>1, <1>2, <1>3 DEF TxInitiating, LbtComplete
  <1>5. S.flight # None
    BY FlightTyped
  <1> QED BY <1>4, <1>5, FlagsLead

----------------------------------------------------------------------------
\* A message settled, without a flight left.
LEMMA EndLeads ==
  ASSUME NEW S \in State, NEW m \in Msg, S.at[m] # "gone", NEW T, T.flight = None,
         T.at = [S.at EXCEPT ![m] = "gone"], \A n \in Msg : n # m => T.out[n] = S.out[n],
         T.requeues = S.requeues, T.sent = S.sent
  PROVE Leads(S, T)
  <1>1. \A n \in Msg : S.requeues[n] <= T.requeues[n]
    BY DEF State
  <1>2. Announced(T)
    BY DEF Announced
  <1>3. "gone" \in Place
    BY DEF Place
  <1> QED BY <1>1, <1>2, <1>3, MoveLeads DEF Leads

\* What Fail and Drop change.
LEMMA FailEffect ==
  ASSUME NEW S \in State, NEW m \in Msg
  PROVE LET T == Fail(S, m)
        IN /\ T.at = [S.at EXCEPT ![m] = "gone"]
           /\ \A n \in Msg : n # m => T.out[n] = S.out[n]
           /\ T.requeues = S.requeues /\ T.sent = S.sent /\ T.flight = S.flight
           /\ DOMAIN T = DOMAIN S /\ T \in State
  BY DEF Fail, State, Place

\* A message without a route is deferred, if the list has room, or settled.
LEMMA NoRouteLeads ==
  ASSUME NEW S, Coherent(S), S.flight = None, NEW m \in Msg, S.at[m] = "ready"
  PROVE \A T \in NoRoute(S, m) : Leads(S, T)
  <1>0. S \in State
    BY DEF Coherent
  <1>1. Leads(S, [Fail(S, m) EXCEPT !.stalled = TRUE])
    <2> DEFINE F == Fail(S, m)
               T == [F EXCEPT !.stalled = TRUE]
    <2>1. /\ F.at = [S.at EXCEPT ![m] = "gone"] /\ \A n \in Msg : n # m => F.out[n] = S.out[n]
          /\ F.requeues = S.requeues /\ F.sent = S.sent /\ F.flight = None /\ F \in State
      BY <1>0, FailEffect
    <2> HIDE DEF F
    <2>2. /\ T.at = F.at /\ T.out = F.out /\ T.requeues = F.requeues /\ T.sent = F.sent
          /\ T.flight = None
      BY <2>1 DEF State
    <2> HIDE DEF T
    <2>3. Leads(S, T)
      BY <1>0, <2>1, <2>2, EndLeads
    <2> QED BY <2>3 DEF T, F
  <1>2. ASSUME ~(Cardinality(Deferred(S)) >= DeferCap)
        PROVE Leads(S, Arm([S EXCEPT !.at[m] = "deferred"], "deferredDrain"))
    <2> DEFINE T == Arm([S EXCEPT !.at[m] = "deferred"], "deferredDrain")
    <2>1. /\ T.at = [S.at EXCEPT ![m] = "deferred"] /\ T.out = S.out /\ T.requeues = S.requeues
          /\ T.sent = S.sent /\ T.flight = None
      BY <1>0 DEF Arm, State
    <2> HIDE DEF T
    <2>2. \A n \in Msg : S.requeues[n] <= T.requeues[n]
      BY <1>0, <2>1 DEF State
    <2>3. Announced(T) /\ "deferred" \in Place
      BY <2>1 DEF Announced, Place
    <2>4. Leads(S, T)
      BY <1>0, <1>2, <2>1, <2>2, <2>3, MoveLeads DEF Leads
    <2> QED BY <2>4 DEF T
  <1>3. Leads(S, [Drop(S, m) EXCEPT !.stalled = TRUE])
    <2> DEFINE T == [Drop(S, m) EXCEPT !.stalled = TRUE]
    <2>1. /\ T.at = [S.at EXCEPT ![m] = "gone"] /\ T.out = S.out /\ T.requeues = S.requeues
          /\ T.sent = S.sent /\ T.flight = None
      BY <1>0 DEF Drop, State
    <2> HIDE DEF T
    <2>2. Leads(S, T)
      BY <1>0, <2>1, EndLeads
    <2> QED BY <2>2 DEF T
  <1> QED BY <1>1, <1>2, <1>3 DEF NoRoute, DeferSend

\* A flight begins unannounced, and a DATA left of an earlier one is not its own.
LEMMA LaunchLeads ==
  ASSUME NEW S, Coherent(S), S.flight = None, ~S.rx,
         NEW m \in Msg, S.at[m] = "ready", NEW h \in Hops
  PROVE \A T \in Launch(S, m, h) : Leads(S, T)
  <1> DEFINE data == IsBroadcast(S, m)
             f == [msg |-> m, next |-> h, retries |-> FreshRetries(S, m), tried |-> {},
                   cts |-> ~data, ack |-> FALSE, sf |-> data,
                   asked |-> FALSE, lost |-> FALSE]
             N == NewFlightGen(S)
             T == [N EXCEPT !.at[m] = "flight", !.flight = f]
  <1>1. S \in State /\ FreshRetries(S, m) \in Nat
    BY FreshRetriesTyped DEF Coherent
  <1>2. f \in Flight /\ f.msg = m /\ f.sf = data /\ ~f.asked
    BY <1>1 DEF Flight, IsBroadcast
  <1>3. /\ N \in State /\ N.at = S.at /\ N.out = S.out /\ N.requeues = S.requeues
        /\ N.sent = S.sent /\ N.stash # "live" /\ N.bare = S.bare
    <2>1. S.lbtRts \in Nat /\ S.lbtOther \in Nat /\ S.lbtRts + S.lbtOther <= LbtSlots
      BY Bounds DEF Coherent, State, RingFits
    <2>2. 0 \in 0..LbtSlots /\ S.lbtOther + S.lbtRts \in 0..LbtSlots
      BY <2>1, Bounds
    <2>3. \A ref \in Ref : Outdate(ref) \in Ref /\ Outdate(ref) # "live"
      BY DEF Outdate, Ref
    <2> QED BY <1>1, <2>2, <2>3 DEF NewFlightGen, State
  <1> HIDE DEF N, f
  <1>4. /\ T \in State /\ T.at = [S.at EXCEPT ![m] = "flight"] /\ T.flight = f
        /\ T.out = S.out /\ T.requeues = S.requeues /\ T.sent = S.sent
        /\ T.stash # "live" /\ T.bare = S.bare
    BY <1>2, <1>3 DEF State, Place
  <1> HIDE DEF T
  <1>5. Leads(S, T)
    <2>1. Announced(T)
      BY <1>2, <1>4 DEF Announced, IsBroadcast
    <2>2. \A n \in Msg : S.requeues[n] <= T.requeues[n]
      BY <1>1, <1>4 DEF State
    <2>3. "flight" \in Place
      BY DEF Place
    <2> QED BY <1>1, <1>4, <2>1, <2>2, <2>3, MoveLeads DEF Leads
  <1>6. Launch(S, m, h) = TxInitiating(T)
    BY DEF Launch, T, N, f
  <1>7. \A U \in TxInitiating(T) : Leads(T, U) /\ U \in State
    BY <1>2, <1>4, <1>6, TxInitiatingLeads, LaunchRestores DEF Restored, Coherent
  <1> QED BY <1>1, <1>4, <1>5, <1>6, <1>7, LeadsOn

\* issue_send either launches the item or finds no route for it.
LEMMA IssueSendLeads ==
  ASSUME NEW S, Coherent(S), S.flight = None, ~S.rx, NEW m \in Msg, S.at[m] = "ready"
  PROVE \A U \in IssueSend(S, m) : Leads(S, U)
  <1> DEFINE T == [S EXCEPT !.nackWait = "none"]
  <1>1. /\ S \in State /\ T \in State /\ T.flight = None /\ ~T.rx /\ T.at = S.at /\ RingFits(T)
        /\ T.out = S.out /\ T.requeues = S.requeues /\ T.sent = S.sent /\ T.postAck = S.postAck
    BY DEF Coherent, State, Ref, RingFits
  <1> HIDE DEF T
  <1>2. Coherent(T)
    BY <1>1, CoherentNoFlight DEF Settled, Coherent
  <1>3. Leads(S, T)
    BY <1>1, StillLeads DEF Leads, Announced
  <1>4. \A U \in NoRoute(T, m) : Leads(T, U) /\ U \in State
    BY <1>1, <1>2, NoRouteLeads, NoRouteRestores DEF Restored, Coherent
  <1>5. \A h \in Hops : \A U \in Launch(T, m, h) : Leads(T, U) /\ U \in State
    BY <1>1, <1>2, LaunchLeads, LaunchRestores DEF Restored, Coherent
  <1>6. IssueSend(S, m) = NoRoute(T, m) \cup UNION {Launch(T, m, h) : h \in Hops}
    BY DEF IssueSend, T
  <1>7. \A U \in IssueSend(S, m) : Leads(T, U) /\ U \in State
    BY <1>4, <1>5, <1>6
  <1> QED BY <1>1, <1>3, <1>7, LeadsOn

\* Held items stay in the queue, those given up leave it.
LEMMA PassOverLeads ==
  ASSUME NEW S, Coherent(S), S.flight = None, ~S.rx,
         NEW held \in SUBSET Ready(S), NEW expired \in SUBSET (Ready(S) \ held)
  PROVE Leads(S, PassOver(S, held, expired))
  <1> DEFINE T == PassOver(S, held, expired)
  <1>1. S \in State /\ \A m \in held \cup expired : S.at[m] = "ready"
    BY DEF Coherent, Ready
  <1>2. /\ T.flight = None /\ T.sent = S.sent /\ T.requeues = S.requeues
        /\ T.at = [m \in Msg |-> IF m \in held THEN "held"
                                 ELSE IF m \in expired THEN "gone" ELSE S.at[m]]
        /\ T.out = [m \in Msg |-> IF m \in expired /\ m \in Dm \cup Chan
                                  THEN S.out[m] \cup {"failed"} ELSE S.out[m]]
    BY <1>1 DEF PassOver, State
  <1> HIDE DEF T
  <1>3. \A m \in Msg : S.requeues[m] <= T.requeues[m]
    BY <1>1, <1>2 DEF State
  <1>4. Onward(S, T)
    BY <1>1, <1>2, <1>3 DEF Onward
  <1>5. Queued(T) \subseteq Queued(S) /\ Deferred(T) \subseteq Deferred(S)
    BY <1>1, <1>2 DEF Queued, Deferred
  <1>6. Leads(S, T)
    BY <1>2, <1>4, <1>5, FewerFits DEF Leads, Carries, Announced
  <1> QED BY <1>6 DEF T

\* The queue serves an item or arms its wakeup.
LEMMA ServeQueueLeads ==
  ASSUME NEW S, Coherent(S), S.flight = None, ~S.rx
  PROVE \A T \in ServeQueue(S) : Leads(S, T)
  <1>1. S \in State
    BY DEF Coherent
  <1>2. Leads(S, S)
    BY <1>1, StillLeads DEF Leads
  <1> QED BY <1>1, <1>2, IssueSendLeads, ArmLeads DEF ServeQueue, Ready

\* become_free, after the items it passes over.
LEMMA BecomeFreeLeads ==
  ASSUME NEW S, Coherent(S) PROVE \A U \in BecomeFree(S) : Leads(S, U)
  <1>1. S \in State /\ Leads(S, S)
    BY StillLeads DEF Coherent, Leads
  <1>2. CASE S.flight # None \/ S.rx \/ Queued(S) = {}
    BY <1>1, <1>2 DEF BecomeFree
  <1>3. CASE ~(S.flight # None \/ S.rx \/ Queued(S) = {})
    <2> DEFINE T == [S EXCEPT !.stalled = FALSE]
    <2>1. /\ T \in State /\ T.flight = None /\ ~T.rx /\ RingFits(T) /\ T.at = S.at
          /\ T.out = S.out /\ T.requeues = S.requeues /\ T.sent = S.sent /\ T.postAck = S.postAck
      BY <1>3 DEF Coherent, State, RingFits
    <2> HIDE DEF T
    <2>2. Coherent(T)
      BY <2>1, CoherentNoFlight DEF Settled, Coherent
    <2>3. Leads(S, T)
      BY <1>1, <2>1, StillLeads DEF Leads, Announced
    <2>4. MayHold(T) \subseteq Ready(T) /\ MayExpire(T) \subseteq Ready(T)
      BY DEF MayHold, MayExpire
    <2>5. ASSUME NEW held \in SUBSET MayHold(T), NEW expired \in SUBSET (MayExpire(T) \ held),
                 NEW U \in ServeQueue(PassOver(T, held, expired))
          PROVE Leads(S, U)
      <3> DEFINE P == PassOver(T, held, expired)
      <3>1. Coherent(P) /\ P.flight = None /\ ~P.rx /\ Leads(T, P)
        BY <2>1, <2>2, <2>4, PassOverKeeps, PassOverLeads
      <3> HIDE DEF P
      <3>2. Leads(P, U) /\ U \in State /\ P \in State
        BY <2>5, <3>1, ServeQueueLeads, ServeQueueRestores DEF Restored, Coherent, P
      <3>3. Leads(T, U)
        BY <2>1, <3>1, <3>2, LeadsOn
      <3> QED BY <1>1, <2>1, <2>3, <3>2, <3>3, LeadsOn
    <2>6. BecomeFree(S) = UNION {UNION {ServeQueue(PassOver(T, held, expired)) :
                                          expired \in SUBSET (MayExpire(T) \ held)} :
                                   held \in SUBSET MayHold(T)}
      BY <1>3 DEF BecomeFree, T
    <2> QED BY <2>5, <2>6
  <1> QED BY <1>2, <1>3

\* What comes before become_free.
LEMMA ThenFree ==
  ASSUME NEW S \in State, NEW T, Coherent(T), Leads(S, T)
  PROVE \A U \in BecomeFree(T) : Leads(S, U)
  <1>1. \A U \in BecomeFree(T) : Leads(T, U) /\ U \in State
    BY BecomeFreeLeads, BecomeFreeRestores DEF Restored, Coherent
  <1>2. T \in State
    BY DEF Coherent
  <1> QED BY <1>1, <1>2, LeadsOn

\* A message that waits nowhere yet, or is dropped.
LEMMA PlaceLeads ==
  ASSUME NEW S, Coherent(S), NEW m \in Msg, S.at[m] \in {"new", "ready", "held"},
         NEW place \in {"ready", "held", "gone"},
         place # "gone" => HasRoom(S) \/ S.at[m] # "new"
  PROVE Leads(S, [S EXCEPT !.at[m] = place]) /\ Coherent([S EXCEPT !.at[m] = place])
  <1> DEFINE T == [S EXCEPT !.at[m] = place]
  <1>1. S \in State
    BY DEF Coherent
  <1>2. /\ T.at = [S.at EXCEPT ![m] = place] /\ T.out = S.out /\ T.requeues = S.requeues
        /\ T.sent = S.sent /\ T.flight = S.flight /\ T.stash = S.stash /\ T.bare = S.bare
    BY <1>1 DEF State
  <1>3. Coherent(T)
    BY MoveKeeps
  <1> HIDE DEF T
  <1>4. \A n \in Msg : S.requeues[n] <= T.requeues[n]
    BY <1>1, <1>2 DEF State
  <1>5. Announced(S) => Announced(T)
    BY <1>2 DEF Announced, IsBroadcast
  <1>6. /\ place \in Place /\ place # "deferred" /\ S.at[m] # "gone"
        /\ place \in {"ready", "held"} => HasRoom(S) \/ S.at[m] \in {"ready", "held"}
        /\ \A n \in Msg : n # m => T.out[n] = S.out[n]
    BY <1>2 DEF Place
  <1>7. Leads(S, T)
    BY <1>1, <1>2, <1>4, <1>5, <1>6, MoveLeads DEF Leads
  <1> QED BY <1>3, <1>7 DEF T

\* enqueue_data looks for room.
LEMMA EnqueueDataLeads ==
  ASSUME NEW S, Coherent(S), NEW m \in Msg, S.at[m] = "new"
  PROVE \A U \in EnqueueData(S, m) : Leads(S, U)
  <1>1. S \in State
    BY DEF Coherent
  <1> QED BY <1>1, PlaceLeads, ThenFree DEF EnqueueData, Drop

\* So does a message of the node's own.
LEMMA OriginateLeads ==
  ASSUME NEW S, Coherent(S) PROVE \A U \in Originate(S) : Leads(S, U)
  <1>1. Leads(S, S)
    BY StillLeads DEF Coherent, Leads
  <1> QED BY <1>1, EnqueueDataLeads DEF Originate, Msg

\* And a channel post.
LEMMA EnqueueFloodLeads ==
  ASSUME NEW S, Coherent(S), NEW m \in Msg, S.at[m] = "new"
  PROVE \A U \in EnqueueFlood(S, m) : Leads(S, U)
  <1>1. S \in State
    BY DEF Coherent
  <1> QED BY <1>1, PlaceLeads, ThenFree DEF EnqueueFlood, Drop

----------------------------------------------------------------------------
\* The ends of a flight, and the ways to try again.
LEMMA GiveUpLeads ==
  ASSUME NEW S, Flying(S) PROVE \A U \in GiveUp(S) : Leads(S, U)
  <1> DEFINE m == S.flight.msg
             F == Fail(S, m)
             T == [F EXCEPT !.flight = None]
  <1>1. m \in Msg /\ S.at[m] = "flight" /\ S \in State /\ RingFits(S) /\ Settled(S)
    BY FlyingNow DEF Flying
  <1>2. T \in State /\ Settled(T) /\ RingFits(F)
    BY <1>1, FailKeeps
  <1>3. /\ F.at = [S.at EXCEPT ![m] = "gone"] /\ \A n \in Msg : n # m => F.out[n] = S.out[n]
        /\ F.requeues = S.requeues /\ F.sent = S.sent /\ F \in State
    BY <1>1, FailEffect
  <1> HIDE DEF F, m
  <1>4. /\ T.at = F.at /\ T.out = F.out /\ T.requeues = F.requeues /\ T.sent = F.sent
        /\ T.flight = None /\ T.lbtRts = F.lbtRts /\ T.lbtOther = F.lbtOther
    BY <1>3 DEF State
  <1> HIDE DEF T
  <1>5. Coherent(T)
    BY <1>2, <1>4, CoherentNoFlight DEF RingFits
  <1>6. Leads(S, T)
    BY <1>1, <1>3, <1>4, EndLeads
  <1> QED BY <1>1, <1>5, <1>6, ThenFree DEF GiveUp, T, F, m

\* A flight that ends without a report.
LEMMA ReleaseLeads ==
  ASSUME NEW S, Flying(S) PROVE \A U \in Release(S) : Leads(S, U)
  <1> DEFINE m == S.flight.msg
             T == [Drop(S, m) EXCEPT !.flight = None]
  <1>1. m \in Msg /\ S.at[m] = "flight" /\ S \in State /\ RingFits(S) /\ Settled(S)
    BY FlyingNow DEF Flying
  <1> HIDE DEF m
  <1>2. /\ T \in State /\ T.at = [S.at EXCEPT ![m] = "gone"] /\ T.out = S.out
        /\ T.requeues = S.requeues /\ T.sent = S.sent /\ T.flight = None
        /\ T.postAck = S.postAck /\ RingFits(T)
    BY <1>1 DEF Drop, State, Place, RingFits
  <1> HIDE DEF T
  <1>3. T.postAck \in Fwd => T.at[T.postAck] = "accepted"
    <2>1. S.postAck \in Fwd => S.postAck # m /\ S.postAck \in Msg /\ S.at[S.postAck] = "accepted"
      BY <1>1 DEF Settled, Msg
    <2> QED BY <1>1, <1>2, <2>1 DEF State
  <1>4. Settled(T)
    <2>1. S.at \in [Msg -> Place]
      BY <1>1 DEF State
    <2> QED BY <1>1, <1>2, <1>3, <2>1 DEF Settled
  <1>5. Coherent(T)
    BY <1>2, <1>4, CoherentNoFlight
  <1>6. Leads(S, T)
    BY <1>1, <1>2, EndLeads
  <1> QED BY <1>1, <1>5, <1>6, ThenFree DEF Release, T, m

\* A custody notice may follow.
LEMMA TerminalGiveupLeads ==
  ASSUME NEW S, Flying(S) PROVE \A U \in CascadeTerminalGiveup(S) : Leads(S, U)
  <1>1. S \in State /\ \A T \in GiveUp(S) : Leads(S, T) /\ Coherent(T) /\ T \in State
    BY GiveUpLeads, GiveUpRestores DEF Flying, Restored, Coherent
  <1>2. \A T \in GiveUp(S) : \A U \in Originate(T) : Leads(T, U) /\ U \in State
    BY <1>1, OriginateLeads, OriginateKeeps DEF Coherent
  <1>3. \A T \in GiveUp(S) : \A U \in Originate(T) : Leads(S, U)
    BY <1>1, <1>2, LeadsOn
  <1> QED BY <1>1, <1>3 DEF CascadeTerminalGiveup

\* A handler called after the flight has been changed.
LEMMA FlightLeads ==
  ASSUME NEW S, Flying(S), NEW f \in Flight, f.msg = S.flight.msg,
         S.flight.asked => f.asked, f.sf => S.flight.sf
  PROVE LET T == [S EXCEPT !.flight = f]
        IN Flying(T) /\ T.flight = f /\ Leads(S, T) /\ T \in State
  <1> DEFINE T == [S EXCEPT !.flight = f]
  <1>1. Flying(T) /\ T.flight = f /\ S.flight # None /\ S \in State
    BY FlyingFlight, FlyingNow DEF Flying
  <1>2. /\ T.at = S.at /\ T.out = S.out /\ T.requeues = S.requeues /\ T.sent = S.sent
        /\ T.stash = S.stash /\ T.bare = S.bare
    BY <1>1 DEF State
  <1> HIDE DEF T
  <1>3. Leads(S, T)
    BY <1>1, <1>2, FlagsLead
  <1> QED BY <1>1, <1>3 DEF T, Flying

\* An RTS again.
LEMMA TxRtsRetryLeads ==
  ASSUME NEW S, Flying(S) PROVE \A U \in TxRtsRetry(S) : Leads(S, U)
  <1> DEFINE f == [S.flight EXCEPT !.cts = TRUE, !.ack = FALSE, !.sf = FALSE]
             T == [S EXCEPT !.flight = f]
  <1>1. f \in Flight /\ f.msg = S.flight.msg /\ f.asked = S.flight.asked /\ ~f.sf
    BY DEF Flying, Flight
  <1> HIDE DEF f
  <1>2. Flying(T) /\ T.flight = f /\ Leads(S, T) /\ T \in State /\ S \in State
    BY <1>1, FlightLeads DEF Flying
  <1> HIDE DEF T
  <1>3. \A U \in TxInitiating(T) : Leads(T, U)
    BY <1>1, <1>2, TxInitiatingLeads
  <1>4. \A U \in CancelledAtHandOff(T) : Leads(T, U)
    BY <1>2, GiveUpLeads DEF CancelledAtHandOff
  <1>5. TxRtsRetry(S) = TxInitiating(T) \cup CancelledAtHandOff(T)
    BY DEF TxRtsRetry, T, f
  <1>6. \A U \in TxRtsRetry(S) : U \in State
    BY TxRtsRetryRestores DEF Restored, Coherent
  <1> QED BY <1>2, <1>3, <1>4, <1>5, <1>6, LeadsOn

\* Back in the queue, if it has room.
LEMMA BackToQueueLeads ==
  ASSUME NEW S, Flying(S), HasRoom(S), NEW place \in {"ready", "held"}
  PROVE LET T == BackToQueue(S, place)
        IN /\ Leads(S, T) /\ Coherent(T) /\ T.flight = None /\ T \in State
           /\ T.requeues = S.requeues
  <1> DEFINE m == S.flight.msg
             T == BackToQueue(S, place)
  <1>1. m \in Msg /\ S.at[m] = "flight" /\ S \in State
    BY FlyingNow DEF Flying
  <1>2. Coherent(T) /\ T.flight = None
    BY BackToQueueKeeps
  <1>3. /\ T.at = [S.at EXCEPT ![m] = place] /\ T.out = S.out /\ T.requeues = S.requeues
        /\ T.sent = S.sent
    BY <1>1 DEF BackToQueue, State
  <1> HIDE DEF T, m
  <1>4. \A n \in Msg : S.requeues[n] <= T.requeues[n]
    BY <1>1, <1>3 DEF State
  <1>5. Announced(T)
    BY <1>2 DEF Announced
  <1>6. place \in Place /\ place # "deferred" /\ \A n \in Msg : n # m => T.out[n] = S.out[n]
    BY <1>3 DEF Place
  <1>7. Leads(S, T)
    BY <1>1, <1>3, <1>4, <1>5, <1>6, MoveLeads DEF Leads
  <1> QED BY <1>2, <1>3, <1>7 DEF T, Coherent

\* cascade_terminal_cause gives up before the queue is full, and the requeue is counted.
LEMMA TryRequeueLeads ==
  ASSUME NEW S, Flying(S) PROVE \A U \in TryCascadeRequeue(S) : Leads(S, U)
  <1> DEFINE m == S.flight.msg
             B == BackToQueue(S, "held")
             R == [B EXCEPT !.requeues[m] = @ + 1]
             T == Arm(R, "cascadeRequeue")
  <1>1. S \in State /\ m \in Msg
    BY FlyingNow DEF Flying
  <1>2. ASSUME ~MustGiveUp(S), Fits(S) PROVE HasRoom(S)
    BY <1>2, FS_CardinalityType, Caps DEF MustGiveUp, HasRoom, Fits
  <1>3. ASSUME ~MustGiveUp(S) PROVE Leads(S, T)
    <2>1. Coherent(B) /\ B.flight = None /\ B \in State
      BY BackToQueueKeeps DEF Coherent
    <2>2. /\ B.at = [S.at EXCEPT ![m] = "held"] /\ B.out = S.out /\ B.requeues = S.requeues
          /\ B.sent = S.sent
      BY <1>1 DEF BackToQueue, State
    <2> HIDE DEF B, m
    <2>3. /\ T.at = B.at /\ T.out = B.out /\ T.sent = B.sent /\ T.flight = None
          /\ T.requeues = [B.requeues EXCEPT ![m] = @ + 1]
      BY <2>1 DEF Arm, State
    <2> HIDE DEF T
    <2>4. \A n \in Msg : S.requeues[n] <= T.requeues[n]
      BY <1>1, <2>2, <2>3 DEF State
    <2>5. Announced(T)
      BY <2>3 DEF Announced
    <2>6. S.at[m] = "flight"
      BY FlyingNow DEF m
    <2>7. CASE HasRoom(S)
      <3>1. /\ T.at = [S.at EXCEPT ![m] = "held"] /\ "held" \in Place
            /\ \A n \in Msg : n # m => T.out[n] = S.out[n]
            /\ T.sent = S.sent
        BY <2>2, <2>3 DEF Place
      <3> QED BY <1>1, <2>4, <2>5, <2>6, <2>7, <3>1, MoveLeads DEF Leads
    <2>8. CASE ~Fits(S)
      <3>1. Onward(S, T)
        BY <1>1, <2>2, <2>3, <2>4, <2>6 DEF Onward, State
      <3> QED BY <2>2, <2>3, <2>5, <2>8, <3>1 DEF Leads, Carries
    <2> QED BY <1>2, <1>3, <2>7, <2>8
  <1>4. TryCascadeRequeue(S) = CascadeTerminalGiveup(S) \cup (IF MustGiveUp(S) THEN {} ELSE {T})
    BY DEF TryCascadeRequeue
  <1> HIDE DEF T
  <1> QED BY <1>3, <1>4, TerminalGiveupLeads DEF Leads

\* Another hop.
LEMMA RetryViaLeads ==
  ASSUME NEW S, Flying(S), NEW h \in Hops PROVE \A U \in RetryVia(S, h) : Leads(S, U)
  <1> DEFINE f == [S.flight EXCEPT !.next = h, !.retries = FreshRetries(S, S.flight.msg)]
             T == [S EXCEPT !.flight = f]
  <1>1. FreshRetries(S, S.flight.msg) \in Nat /\ S \in State
    BY FreshRetriesTyped, FlyingNow DEF Flying
  <1>2. f \in Flight /\ f.msg = S.flight.msg /\ f.asked = S.flight.asked /\ f.sf = S.flight.sf
    BY <1>1 DEF Flying, Flight
  <1> HIDE DEF f
  <1>3. Flying(T) /\ Leads(S, T) /\ T \in State
    BY <1>2, FlightLeads
  <1>4. RetryVia(S, h) = TxRtsRetry(T)
    BY DEF RetryVia, f
  <1> HIDE DEF T
  <1>5. \A U \in TxRtsRetry(T) : Leads(T, U) /\ U \in State
    BY <1>3, TxRtsRetryLeads, TxRtsRetryRestores DEF Restored, Coherent
  <1> QED BY <1>1, <1>3, <1>4, <1>5, LeadsOn

\* Any of those left.
LEMMA TakeAltLeads ==
  ASSUME NEW S, Flying(S) PROVE \A U \in TakeAlt(S) : Leads(S, U)
  BY RetryViaLeads DEF TakeAlt

\* Noting a tried hop changes nothing else.
LEMMA MarkTriedLeads ==
  ASSUME NEW S, Flying(S) PROVE Leads(S, MarkTried(S)) /\ MarkTried(S) \in State /\ S \in State
  <1> DEFINE tried == IF Cardinality(S.flight.tried) < MaxAlts
                      THEN S.flight.tried \cup {S.flight.next} ELSE S.flight.tried
             f == [S.flight EXCEPT !.tried = tried]
  <1>1. tried \in SUBSET Hops
    BY FlyingNow
  <1>2. f \in Flight /\ f.msg = S.flight.msg /\ f.asked = S.flight.asked /\ f.sf = S.flight.sf
    BY <1>1 DEF Flying, Flight
  <1>3. MarkTried(S) = [S EXCEPT !.flight = f]
    BY DEF MarkTried
  <1> HIDE DEF f
  <1> QED BY <1>2, <1>3, FlightLeads DEF Flying

\* Nor does counting a postponement.
LEMMA HoldLeads ==
  ASSUME NEW S, Flying(S), NEW m \in Msg PROVE Leads(S, [S EXCEPT !.holds[m] = @ + 1])
  <1> DEFINE T == [S EXCEPT !.holds[m] = @ + 1]
  <1>1. /\ S \in State /\ T.at = S.at /\ T.out = S.out /\ T.requeues = S.requeues
        /\ T.sent = S.sent /\ T.flight = S.flight /\ T.stash = S.stash /\ T.bare = S.bare
    BY DEF Flying, State
  <1> HIDE DEF T
  <1>2. S.flight # None
    BY FlyingNow
  <1> QED BY <1>1, <1>2, FlagsLead DEF T

\* A one-way link probed again.
LEMMA ReprobeLeads ==
  ASSUME NEW S, Flying(S), NEW h \in Hops
  PROVE \A U \in ReprobeOneWayLink(S, h) : Leads(S, U)
  <1> DEFINE m == S.flight.msg
             f == [S.flight EXCEPT !.tried = {}]
             T == [S EXCEPT !.flight = f]
             V == [T EXCEPT !.holds[m] = @ + 1]
  <1>1. m \in Msg /\ f \in Flight /\ f.msg = m /\ f.asked = S.flight.asked /\ f.sf = S.flight.sf
    BY FlyingNow DEF Flying, Flight
  <1>2. [S EXCEPT !.flight.tried = {}, !.holds[m] = @ + 1] = V
    BY DEF Flying, State
  <1> HIDE DEF f, m
  <1>3. Flying(T) /\ Leads(S, T) /\ T \in State /\ S \in State
    BY <1>1, FlightLeads DEF m, Flying
  <1> HIDE DEF T
  <1>4. Flying(V) /\ Leads(T, V) /\ V \in State
    BY <1>1, <1>3, HoldKeeps, HoldLeads DEF Flying
  <1> HIDE DEF V
  <1>5. Leads(S, V)
    BY <1>3, <1>4, LeadsOn
  <1>6. \A U \in RetryVia(V, h) : Leads(V, U) /\ U \in State
    BY <1>4, RetryViaLeads, RetryViaRestores DEF Restored, Coherent
  <1>7. ReprobeOneWayLink(S, h) \subseteq RetryVia(V, h)
    BY <1>2 DEF ReprobeOneWayLink, m
  <1> QED BY <1>3, <1>4, <1>5, <1>6, <1>7, LeadsOn

\* cascade_to_alt, whichever way it takes.
LEMMA CascadeToAltLeads ==
  ASSUME NEW S, Flying(S) PROVE \A U \in CascadeToAlt(S) : Leads(S, U)
  <1> DEFINE T == MarkTried(S)
  <1>1. Flying(T) /\ S.flight.next \in Hops /\ Leads(S, T) /\ T \in State /\ S \in State
    BY MarkTriedKeeps, MarkTriedLeads, FlyingNow
  <1> HIDE DEF T
  <1>2. \A U \in TakeAlt(T) \cup CascadeTerminalGiveup(T) \cup TryCascadeRequeue(T)
                 \cup ReprobeOneWayLink(T, S.flight.next) : Leads(T, U)
    BY <1>1, TakeAltLeads, TerminalGiveupLeads, TryRequeueLeads, ReprobeLeads
  <1>3. \A U \in CascadeToAlt(S) : U \in State
    BY CascadeToAltRestores DEF Restored, Coherent
  <1>4. CascadeToAlt(S) = TakeAlt(T) \cup ReprobeOneWayLink(T, S.flight.next)
                           \cup CascadeTerminalGiveup(T) \cup TryCascadeRequeue(T)
    BY DEF CascadeToAlt, T
  <1> QED BY <1>1, <1>2, <1>3, <1>4, LeadsOn

\* A flight held back for a gateway window, if the queue has room.
LEMMA DoorstepLeads ==
  ASSUME NEW S, Flying(S) PROVE \A U \in DoorstepHold(S) : Leads(S, U)
  <1> DEFINE m == S.flight.msg
             B == BackToQueue(S, "held")
             H == [B EXCEPT !.holds[m] = @ + 1]
  <1>1. S \in State /\ m \in Msg
    BY FlyingNow DEF Flying
  <1>2. ASSUME HasRoom(S) PROVE \A U \in BecomeFree(H) : Leads(S, U)
    <2>1. Coherent(B) /\ B.flight = None /\ Leads(S, B) /\ B \in State
      BY <1>2, BackToQueueLeads
    <2> HIDE DEF B, m
    <2>2. B.holds[m] + 1 \in Nat
      BY <1>1, <2>1 DEF State
    <2>3. /\ H \in State /\ H.at = B.at /\ H.out = B.out /\ H.requeues = B.requeues
          /\ H.sent = B.sent /\ H.flight = None /\ H.postAck = B.postAck
          /\ H.lbtRts = B.lbtRts /\ H.lbtOther = B.lbtOther
      BY <1>1, <2>1, <2>2 DEF State
    <2> HIDE DEF H
    <2>4. Coherent(H)
      BY <2>1, <2>3, CoherentNoFlight DEF Coherent, Settled, RingFits
    <2>5. Leads(B, H)
      BY <2>1, <2>3, StillLeads DEF Leads, Announced
    <2>6. Leads(S, H)
      BY <1>1, <2>1, <2>3, <2>5, LeadsOn
    <2> QED BY <1>1, <2>4, <2>6, ThenFree
  <1> HIDE DEF H
  <1> QED BY <1>2, GiveUpLeads, ReleaseLeads DEF DoorstepHold, H

\* A retry towards the same hop.
LEMMA RetrySameHopLeads ==
  ASSUME NEW S, Flying(S), S.flight.retries > 0 PROVE Leads(S, RetrySameHop(S))
  <1> DEFINE f == [S.flight EXCEPT !.retries = @ - 1]
             T == [S EXCEPT !.flight = f]
  <1>1. S.flight \in Flight /\ S.flight.retries - 1 \in Nat
    BY DEF Flying, Flight
  <1>2. f \in Flight /\ f.msg = S.flight.msg /\ f.asked = S.flight.asked /\ f.sf = S.flight.sf
    BY <1>1 DEF Flight
  <1> HIDE DEF f
  <1>3. Leads(S, T) /\ T \in State /\ S \in State
    BY <1>2, FlightLeads DEF Flying
  <1>4. RetrySameHop(S) = Arm(T, "retryBackoff")
    BY DEF RetrySameHop, f
  <1> HIDE DEF T
  <1>5. Leads(T, Arm(T, "retryBackoff")) /\ Arm(T, "retryBackoff") \in State
    BY <1>3, ArmLeads, ArmKeeps DEF Timer
  <1> QED BY <1>3, <1>4, <1>5, LeadsOn

----------------------------------------------------------------------------
\* The handlers of the timers.

\* A handler called when its timer has been taken off.
LEMMA AfterCancel ==
  ASSUME NEW S, Restored(S), NEW X, NEW U, U \in State, Leads(Cancel(S, X), U)
  PROVE Leads(S, U)
  <1>1. S \in State /\ Cancel(S, X) \in State /\ Leads(S, Cancel(S, X))
    BY CancelLeads, CancelKeeps DEF Restored, Coherent
  <1> QED BY <1>1, LeadsOn

\* The RTS timeout.
LEMMA RtsTimeoutLeads ==
  ASSUME NEW S, Restored(S)
  PROVE \A U \in RtsTimeout(Cancel(S, {"rtsTimeout"})) : Leads(S, U)
  <1> DEFINE C == Cancel(S, {"rtsTimeout"})
  <1>1. C \in State /\ C.flight = S.flight /\ Leads(C, C) /\ Leads(C, Arm(C, "rtsTimeout"))
    BY CancelKeeps, StillLeads, ArmLeads DEF Restored, Coherent, Leads
  <1>2. C.flight # None => Flying(C)
    BY <1>1, CancelFlying
  <1> HIDE DEF C
  <1>3. \A U \in RtsTimeout(C) : Leads(C, U)
    BY <1>1, <1>2, DoorstepLeads, CascadeToAltLeads, RetrySameHopLeads DEF RtsTimeout
  <1>4. \A U \in RtsTimeout(C) : U \in State
    BY RtsTimeoutRestores DEF C, Restored, Coherent
  <1> QED BY <1>3, <1>4, AfterCancel DEF C

\* The ACK timeout gives up the chosen data SF with the flight's ACK wait.
LEMMA AckTimeoutLeads ==
  ASSUME NEW S, Restored(S)
  PROVE \A U \in AckTimeout(Cancel(S, {"ackTimeout"})) : Leads(S, U)
  <1> DEFINE C == Cancel(S, {"ackTimeout"})
             f == [C.flight EXCEPT !.cts = FALSE, !.ack = FALSE, !.sf = FALSE]
             T == [C EXCEPT !.flight = f]
  <1>1. C \in State /\ C.flight = S.flight /\ Leads(C, C) /\ Leads(C, Arm(C, "ackTimeout"))
    BY CancelKeeps, StillLeads, ArmLeads DEF Restored, Coherent, Leads
  <1>2. C.flight # None => Flying(C)
    BY <1>1, CancelFlying
  <1>3. \A U \in AckTimeout(C) : U \in State
    BY AckTimeoutRestores DEF Restored, Coherent
  <1> HIDE DEF C
  <1>4. ASSUME Flying(C), C.flight.ack, C.flight.retries > 0, RetrySameHop(T) \in State
        PROVE Leads(C, RetrySameHop(T))
    <2>1. /\ f \in Flight /\ f.msg = C.flight.msg /\ f.asked = C.flight.asked /\ ~f.sf
          /\ f.retries = C.flight.retries
      BY <1>4 DEF Flying, Flight
    <2> HIDE DEF f
    <2>2. Flying(T) /\ T.flight = f /\ Leads(C, T) /\ T \in State
      BY <1>4, <2>1, FlightLeads
    <2> HIDE DEF T
    <2>3. Leads(T, RetrySameHop(T))
      BY <1>4, <2>1, <2>2, RetrySameHopLeads
    <2> QED BY <1>1, <1>4, <2>2, <2>3, LeadsOn
  <1>5. AckTimeout(C) = IF C.flight = None THEN {C}
                        ELSE IF ~C.flight.ack THEN {C}
                        ELSE IF C.rx THEN {Arm(C, "ackTimeout")}
                        ELSE DoorstepHold(C) \cup CascadeToAlt(C)
                               \cup (IF C.flight.retries > 0 THEN {RetrySameHop(T)} ELSE {})
    BY DEF AckTimeout
  <1> HIDE DEF T
  <1>6. \A U \in AckTimeout(C) : Leads(C, U)
    BY <1>1, <1>2, <1>3, <1>4, <1>5, DoorstepLeads, CascadeToAltLeads
  <1> QED BY <1>3, <1>6, AfterCancel DEF C

\* A deferred RTS whose slot comes.
LEMMA LbtFireRtsLeads ==
  ASSUME NEW S, Restored(S), S.lbtRts > 0 PROVE \A U \in LbtFireRts(S) : Leads(S, U)
  <1> DEFINE T == [S EXCEPT !.lbtRts = @ - 1]
  <1>1. S \in State /\ S.lbtRts \in Nat /\ S.lbtRts - 1 \in 0..LbtSlots
    BY Bounds DEF Restored, Coherent, State
  <1>2. /\ T \in State /\ T.at = S.at /\ T.out = S.out /\ T.requeues = S.requeues
        /\ T.sent = S.sent /\ T.flight = S.flight /\ T.stash = S.stash /\ T.bare = S.bare
        /\ T.rx = S.rx /\ T.lbtRts = S.lbtRts - 1 /\ T.lbtOther = S.lbtOther
        /\ T.postAck = S.postAck
    BY <1>1 DEF State
  <1>3. LbtFireRts(S) = IF T.flight = None THEN {T} ELSE LbtComplete(T) \cup CancelledAtHandOff(T)
    BY DEF LbtFireRts
  <1> HIDE DEF T
  <1>4. Leads(S, T)
    BY <1>1, <1>2, StillLeads DEF Leads, Announced, IsBroadcast
  <1>5. T.flight # None => Flying(T)
    <2>1. RingFits(T)
      BY <1>1, <1>2, Bounds DEF Restored, Coherent, RingFits, State
    <2>2. Settled(T)
      BY <1>2 DEF Restored, Coherent, Settled
    <2> QED BY <1>2, <2>1, <2>2, FlightTyped DEF Restored, Coherent, Flying, Halves
  <1>6. T.flight # None => \A U \in LbtComplete(T) \cup CancelledAtHandOff(T) : Leads(T, U)
    BY <1>2, <1>5, TxInitiatingLeads, GiveUpLeads DEF CancelledAtHandOff, Flying
  <1>7. \A U \in LbtFireRts(S) : U \in State
    BY LbtFireRtsRestores DEF Restored, Coherent
  <1> QED BY <1>1, <1>2, <1>3, <1>4, <1>6, <1>7, LeadsOn

\* The duty record released.
LEMMA ReleaseRtsDutyLeads ==
  ASSUME NEW S \in State PROVE Leads(S, ReleaseRtsDuty(S))
  <1> DEFINE T == ReleaseRtsDuty(S)
  <1>1. /\ T.at = S.at /\ T.out = S.out /\ T.requeues = S.requeues
        /\ T.sent = S.sent /\ T.stash = S.stash /\ T.bare = S.bare
        /\ T.flight = IF S.flight = None \/ S.rtsDuty # "live" THEN S.flight
                      ELSE [S.flight EXCEPT !.lost = TRUE]
    BY DEF ReleaseRtsDuty, State
  <1> HIDE DEF T
  <1>2. S.flight # None => S.flight \in Flight
    BY FlightTyped
  <1>3. S.flight = None => Leads(S, T)
    BY <1>1, StillLeads DEF Leads, Announced
  <1>4. S.flight # None => T.flight.msg = S.flight.msg /\ T.flight.asked = S.flight.asked
                           /\ T.flight.sf = S.flight.sf
    BY <1>1, <1>2 DEF Flight
  <1> QED BY <1>1, <1>3, <1>4, FlagsLead DEF T

\* A deferred RTS whose duty window comes.
LEMMA RtsDutyFireLeads ==
  ASSUME NEW S, Restored(S), S.rtsDuty # "none"
  PROVE \A U \in RtsDutyDeferFire(S) : Leads(S, U)
  <1> DEFINE T == [S EXCEPT !.rtsDuty = "none"]
  <1>1. S \in State /\ Leads(S, S)
    BY StillLeads DEF Restored, Coherent, Leads
  <1>2. /\ T \in State /\ T.at = S.at /\ T.out = S.out /\ T.requeues = S.requeues
        /\ T.sent = S.sent /\ T.flight = S.flight /\ T.stash = S.stash /\ T.bare = S.bare
    BY <1>1 DEF State, Ref
  <1>3. RtsDutyDeferFire(S) = IF S.flight = None \/ S.rtsDuty = "stale" THEN {T}
          ELSE {S, HandRts(T)} \cup {ReleaseRtsDuty(U) : U \in CancelledAtHandOff(S)}
    BY DEF RtsDutyDeferFire
  <1> HIDE DEF T
  <1>4. Leads(S, T)
    BY <1>1, <1>2, StillLeads DEF Leads, Announced, IsBroadcast
  <1>5. \A U \in RtsDutyDeferFire(S) : U \in State
    BY RtsDutyFireRestores DEF Restored, Coherent
  <1>6. ASSUME S.flight # None PROVE Leads(T, HandRts(T))
    BY <1>2, <1>6, TxInitiatingLeads, FlightTyped DEF LbtComplete
  <1>7. ASSUME S.flight # None, NEW U \in CancelledAtHandOff(S), ReleaseRtsDuty(U) \in State
        PROVE Leads(S, ReleaseRtsDuty(U))
    <2>1. Flying(S)
      BY <1>7, FlyingCoherent DEF Restored
    <2>2. Leads(S, U) /\ U \in State
      BY <1>7, <2>1, GiveUpLeads, GiveUpRestores DEF CancelledAtHandOff, Restored, Coherent
    <2>3. Leads(U, ReleaseRtsDuty(U))
      BY <2>2, ReleaseRtsDutyLeads
    <2> QED BY <1>1, <1>7, <2>2, <2>3, LeadsOn
  <1>8. CASE S.flight = None \/ S.rtsDuty = "stale"
    BY <1>3, <1>4, <1>8
  <1>9. CASE ~(S.flight = None \/ S.rtsDuty = "stale")
    <2>1. HandRts(T) \in RtsDutyDeferFire(S)
      BY <1>3, <1>9
    <2>2. Leads(S, HandRts(T))
      BY <1>1, <1>2, <1>4, <1>5, <1>6, <1>9, <2>1, LeadsOn
    <2> QED BY <1>1, <1>3, <1>5, <1>7, <1>9, <2>2
  <1> QED BY <1>8, <1>9

\* The wait a NACK asked for.
LEMMA NackWaitFireLeads ==
  ASSUME NEW S, Restored(S), S.nackWait # "none" PROVE \A U \in NackWaitFire(S) : Leads(S, U)
  <1> DEFINE T == [S EXCEPT !.nackWait = "none"]
  <1>1. /\ S \in State /\ T \in State /\ T.at = S.at /\ T.out = S.out /\ T.requeues = S.requeues
        /\ T.sent = S.sent /\ T.flight = S.flight /\ T.stash = S.stash /\ T.bare = S.bare
        /\ T.rx = S.rx /\ T.lbtRts = S.lbtRts /\ T.lbtOther = S.lbtOther
        /\ T.postAck = S.postAck
    BY DEF Restored, Coherent, State, Ref
  <1>2. NackWaitFire(S) = IF S.flight = None \/ S.nackWait = "stale" THEN {T} ELSE TxRtsRetry(T)
    BY DEF NackWaitFire
  <1> HIDE DEF T
  <1>3. Leads(S, T)
    BY <1>1, StillLeads DEF Leads, Announced, IsBroadcast
  <1>4. S.flight # None => Flying(T)
    BY <1>1, FlightTyped DEF Restored, Coherent, Flying, Halves, Settled, RingFits
  <1>5. S.flight # None => \A U \in TxRtsRetry(T) : Leads(T, U) /\ U \in State
    BY <1>4, TxRtsRetryLeads, TxRtsRetryRestores DEF Restored, Coherent
  <1> QED BY <1>1, <1>2, <1>3, <1>5, LeadsOn

----------------------------------------------------------------------------
\* The frames heard.

\* A CTS answers an RTS of the flight, or is an aliased one.
LEMMA HandleCtsLeads ==
  ASSUME NEW S, Restored(S), S.flight # None,
         Alias \/ (S.flight.asked /\ ~IsBroadcast(S, S.flight.msg))
  PROVE \A U \in HandleCts(S) : Leads(S, U)
  <1> DEFINE X == {"rtsTimeout", "retryBackoff"}
             C == Cancel(S, X)
             f == [C.flight EXCEPT !.cts = FALSE, !.sf = TRUE, !.lost = FALSE]
             V == [C EXCEPT !.flight = f]
             T == Arm(V, "ctsToDataGap")
  <1>1. S \in State /\ Leads(S, C) /\ C.flight = S.flight /\ C \in State
    BY CancelLeads, CancelKeeps DEF Restored, Coherent
  <1>2. S.flight \in Flight
    BY <1>1, FlightTyped
  <1>3. HandleCts(S) = {T}
    BY DEF HandleCts
  <1>4. T \in State
    BY <1>3, HandleCtsRestores DEF Restored, Coherent
  <1> HIDE DEF C
  <1>5. f \in Flight /\ f.msg = S.flight.msg /\ f.asked = S.flight.asked
    BY <1>1, <1>2 DEF Flight
  <1> HIDE DEF f
  <1>6. /\ V.at = C.at /\ V.out = C.out /\ V.requeues = C.requeues /\ V.sent = C.sent
        /\ V.bare = C.bare /\ V.flight = f /\ V \in State
    BY <1>1, <1>5 DEF State
  <1> HIDE DEF V
  <1>7. Announced(V)
    BY <1>5, <1>6 DEF Announced
  <1>8. Leads(C, V)
    BY <1>1, <1>6, <1>7, StillLeads DEF Leads
  <1>9. Leads(V, T)
    BY <1>6, ArmLeads
  <1> HIDE DEF T
  <1>10. Leads(S, V)
    BY <1>1, <1>6, <1>8, LeadsOn
  <1> QED BY <1>1, <1>3, <1>4, <1>6, <1>9, <1>10, LeadsOn

\* An answer that ends the flight at once.
LEMMA CancelReleaseLeads ==
  ASSUME NEW S, Restored(S), S.flight # None, NEW X
  PROVE \A U \in Release(Cancel(S, X)) : Leads(S, U)
  <1> DEFINE C == Cancel(S, X)
  <1>1. Flying(C)
    BY CancelFlying
  <1>2. \A U \in Release(C) : Leads(C, U) /\ U \in State
    BY <1>1, ReleaseLeads, ReleaseRestores DEF Restored, Coherent
  <1> QED BY <1>2, AfterCancel DEF C

\* An ACK settles the message of the flight once.
LEMMA HandleAckLeads ==
  ASSUME NEW S, Restored(S), S.flight # None, S.flight.msg \in S.sent \/ Alias
  PROVE \A U \in HandleAck(S) : Leads(S, U)
  <1> DEFINE m == S.flight.msg
             X == {"ackTimeout", "retryBackoff"}
             C == Cancel(S, X)
             told == IF m \in Notes THEN C.out[m] ELSE C.out[m] \cup {"acked"}
             A == [C EXCEPT !.out[m] = told]
             T == [Drop(A, A.flight.msg) EXCEPT !.flight = None]
  <1>1. Flying(C) /\ C.flight = S.flight /\ Leads(S, C) /\ C \in State /\ S \in State
    BY CancelFlying, CancelLeads, CancelKeeps DEF Restored, Coherent
  <1>2. HandleAck(S) = BecomeFree(T)
    BY DEF HandleAck, Release
  <1> HIDE DEF C
  <1>3. /\ m \in Msg /\ C.at[m] = "flight" /\ C.out[m] = {} /\ Settled(C) /\ RingFits(C)
    BY <1>1, FlyingNow DEF Flying, Settled
  <1>4. told \in SUBSET {"acked", "failed"} /\ "failed" \notin told
    BY <1>3
  <1> HIDE DEF told
  <1>5. A \in State /\ A.flight = S.flight /\ A.out = [C.out EXCEPT ![m] = told]
        /\ A.at = C.at /\ A.sent = C.sent /\ A.postAck = C.postAck
        /\ A.lbtRts = C.lbtRts /\ A.lbtOther = C.lbtOther /\ A.requeues = C.requeues
    BY <1>1, <1>3, <1>4 DEF State
  <1> HIDE DEF A
  <1>6. T \in State /\ T.flight = None /\ T.at = [C.at EXCEPT ![m] = "gone"] /\ T.out = A.out
        /\ T.sent = C.sent /\ T.postAck = C.postAck /\ T.requeues = C.requeues
        /\ T.lbtRts = C.lbtRts /\ T.lbtOther = C.lbtOther
    BY <1>1, <1>3, <1>5 DEF Drop, State, Place
  <1> HIDE DEF T
  <1>7. RingFits(T)
    BY <1>3, <1>6 DEF RingFits
  <1>8. Settled(T)
    <2>1. C.out \in [Msg -> SUBSET {"acked", "failed"}] /\ C.at \in [Msg -> Place]
      BY <1>1 DEF State
    <2>2. T.postAck \in Fwd => T.at[T.postAck] = "accepted"
      BY <1>3, <1>6, <2>1 DEF Settled, Msg
    <2>3. m \in T.sent \/ Alias
      BY <1>1, <1>6 DEF Leads
    <2>4. ASSUME NEW k \in Msg
          PROVE /\ T.out[k] # {} => T.at[k] = "gone"
                /\ T.out[k] # {"acked", "failed"}
                /\ "acked" \in T.out[k] => k \in T.sent \/ Alias
      <3>1. CASE k = m
        BY <1>4, <1>5, <1>6, <2>1, <2>3, <3>1
      <3>2. CASE k # m
        BY <1>3, <1>5, <1>6, <2>1, <3>2 DEF Settled
      <3> QED BY <3>1, <3>2
    <2> QED BY <1>6, <2>2, <2>4 DEF Settled
  <1>9. Coherent(T)
    BY <1>6, <1>7, <1>8, CoherentNoFlight
  <1>10. \A n \in Msg : n # m => T.out[n] = C.out[n]
    BY <1>1, <1>5, <1>6 DEF State
  <1>11. Leads(C, T)
    BY <1>1, <1>3, <1>6, <1>10, EndLeads
  <1>12. Leads(S, T)
    BY <1>1, <1>6, <1>11, LeadsOn
  <1> QED BY <1>1, <1>2, <1>9, <1>12, ThenFree

\* A NACK stops the timeouts.
LEMMA NackedLeads ==
  ASSUME NEW S, Restored(S), S.flight # None
  PROVE Leads(S, Nacked(S)) /\ Nacked(S) \in State /\ S \in State
  <1> DEFINE C == Cancel(S, {"rtsTimeout", "ackTimeout"})
             f == [C.flight EXCEPT !.cts = FALSE, !.ack = FALSE]
             T == [C EXCEPT !.flight = f]
  <1>1. Flying(C) /\ C.flight = S.flight /\ Leads(S, C) /\ C \in State /\ S \in State
    BY CancelFlying, CancelLeads, CancelKeeps DEF Restored, Coherent
  <1>2. Nacked(S) = T
    BY DEF Nacked
  <1> HIDE DEF C
  <1>3. f \in Flight /\ f.msg = C.flight.msg /\ f.asked = C.flight.asked /\ f.sf = C.flight.sf
    BY <1>1 DEF Flying, Flight
  <1> HIDE DEF f
  <1>4. Leads(C, T) /\ T \in State
    BY <1>1, <1>3, FlightLeads
  <1> HIDE DEF T
  <1>5. Leads(S, T)
    BY <1>1, <1>4, LeadsOn
  <1> QED BY <1>1, <1>2, <1>4, <1>5

\* Every reason of a NACK; the busy ones look for room in the queue.
LEMMA HandleNackLeads ==
  ASSUME NEW S, Restored(S), S.flight # None, NEW reason
  PROVE \A U \in HandleNack(S, reason) : Leads(S, U)
  <1> DEFINE N == Nacked(S)
             m == S.flight.msg
             H == [N EXCEPT !.holds[m] = @ + 1]
             M == MarkTried(N)
             W == [H EXCEPT !.nackWait = "live"]
             f == [H.flight EXCEPT !.cts = TRUE]
             V == [H EXCEPT !.flight = f]
             R == StartRtsTimeout(V)
  <1>1. Flying(N) /\ m \in Msg /\ Leads(S, N) /\ N \in State /\ S \in State
    BY NackedFlies, NackedLeads, FlyingNow
  <1>2. HandleNack(S, reason) =
          CASE reason = "loopDup"   -> TakeAlt(M) \cup GiveUp(M)
            [] reason = "busyShort" -> {W}
            [] reason = "busyLong"  -> IF HasRoom(H) THEN BecomeFree(BackToQueue(H, "ready"))
                                       ELSE GiveUp(H)
            [] reason = "hopBudget" -> GiveUp(N)
            [] reason = "budget"    -> TryCascadeRequeue(N)
            [] OTHER -> {R}
    <2>1. [H EXCEPT !.flight.cts = TRUE] = V
      OBVIOUS
    <2> QED BY <2>1 DEF HandleNack
  <1>3. \A U \in HandleNack(S, reason) : U \in State
    BY HandleNackRestores DEF Restored, Coherent
  <1> HIDE DEF N, m
  <1>4. Flying(H) /\ Leads(N, H) /\ H \in State
    BY <1>1, HoldKeeps, HoldLeads DEF Flying
  <1> HIDE DEF H
  <1>5. Leads(S, H)
    BY <1>1, <1>4, LeadsOn
  <1>6. Flying(M) /\ M \in State /\ Leads(N, M)
    BY <1>1, MarkTriedKeeps, MarkTriedLeads
  <1> HIDE DEF M
  <1>7. Leads(S, M)
    BY <1>1, <1>6, LeadsOn
  <1>8. \A U \in State : U \in TakeAlt(M) \cup GiveUp(M) => Leads(S, U)
    BY <1>1, <1>6, <1>7, TakeAltLeads, GiveUpLeads, LeadsOn
  <1>9. \A U \in State : U \in GiveUp(H) => Leads(S, U)
    BY <1>1, <1>4, <1>5, GiveUpLeads, LeadsOn
  <1>10. \A U \in State : U \in GiveUp(N) \cup TryCascadeRequeue(N) => Leads(S, U)
    BY <1>1, GiveUpLeads, TryRequeueLeads, LeadsOn
  <1>11. ASSUME HasRoom(H) PROVE \A U \in BecomeFree(BackToQueue(H, "ready")) : Leads(S, U)
    <2> DEFINE B == BackToQueue(H, "ready")
    <2>1. Leads(H, B) /\ Coherent(B) /\ B \in State
      BY <1>4, <1>11, BackToQueueLeads
    <2> HIDE DEF B
    <2>2. Leads(S, B)
      BY <1>1, <1>4, <1>5, <2>1, LeadsOn
    <2> QED BY <1>1, <2>1, <2>2, ThenFree DEF B
  <1>12. W \in State => Leads(S, W)
    <2>1. /\ W.at = H.at /\ W.out = H.out /\ W.requeues = H.requeues /\ W.sent = H.sent
          /\ W.flight = H.flight /\ W.stash = H.stash /\ W.bare = H.bare
      BY <1>4 DEF State
    <2> HIDE DEF W
    <2>2. Leads(H, W)
      BY <1>4, <2>1, StillLeads DEF Leads, Announced, IsBroadcast
    <2> QED BY <1>1, <1>4, <1>5, <2>2, LeadsOn
  <1>13. R \in State => Leads(S, R)
    <2>1. /\ f \in Flight /\ f.msg = H.flight.msg /\ f.asked = H.flight.asked
          /\ f.sf = H.flight.sf
      BY <1>4 DEF Flying, Flight
    <2> HIDE DEF f
    <2>2. Leads(H, V) /\ V \in State
      BY <1>4, <2>1, FlightLeads
    <2> HIDE DEF V
    <2>3. Leads(V, R)
      BY <2>2, ArmLeads DEF StartRtsTimeout
    <2> HIDE DEF R
    <2>4. Leads(S, V)
      BY <1>1, <1>4, <1>5, <2>2, LeadsOn
    <2> QED BY <1>1, <2>2, <2>3, <2>4, LeadsOn
  <1> HIDE DEF W, R
  <1> QED BY <1>2, <1>3, <1>8, <1>9, <1>10, <1>11, <1>12, <1>13

----------------------------------------------------------------------------
\* The receiving half.

\* The receive half ends.
LEMMA ReceiverFreeLeads ==
  ASSUME NEW S, Restored(S), S.rx
  PROVE \A U \in BecomeFree([S EXCEPT !.rx = FALSE]) : Leads(S, U)
  <1> DEFINE T == [S EXCEPT !.rx = FALSE]
  <1>1. S \in State /\ Settled(S) /\ RingFits(S) /\ S.flight = None
    BY DEF Restored, Coherent, Halves
  <1>2. /\ T \in State /\ T.flight = None /\ T.at = S.at /\ T.out = S.out /\ T.sent = S.sent
        /\ T.requeues = S.requeues /\ T.postAck = S.postAck /\ RingFits(T)
    BY <1>1 DEF State, RingFits
  <1> HIDE DEF T
  <1>3. Coherent(T)
    BY <1>1, <1>2, CoherentNoFlight DEF Settled
  <1>4. Leads(S, T)
    BY <1>1, <1>2, StillLeads DEF Leads, Announced
  <1> QED BY <1>1, <1>3, <1>4, ThenFree DEF T

\* What was received takes the slot, and what it may have held before is lost.
LEMMA HearDataLeads == ASSUME Restored(mac), HearData PROVE Leads(mac, mac')
  <1>1. PICK p \in {i \in Inbound : i \in Fwd => mac.at[i] = "new"} :
          mac' = [mac EXCEPT
                    !.rx = FALSE, !.postAck = p,
                    !.at = [m \in Msg |-> IF m = p THEN "accepted"
                                          ELSE IF m = mac.postAck THEN "gone" ELSE @[m]]]
    BY DEF HearData
  <1> DEFINE at == [m \in Msg |-> IF m = p THEN "accepted"
                                  ELSE IF m = mac.postAck THEN "gone" ELSE mac.at[m]]
             T == [mac EXCEPT !.rx = FALSE, !.postAck = p, !.at = at]
  <1>2. mac \in State /\ Settled(mac) /\ mac.flight = None
    BY DEF Restored, Coherent, Halves, HearData
  <1>3. /\ T.at = at /\ T.out = mac.out /\ T.requeues = mac.requeues /\ T.sent = mac.sent
        /\ T.flight = None
    BY <1>2 DEF State
  <1>4. p \in Msg => mac.at[p] = "new"
    BY <1>1, ClassAssumption
  <1>5. \A m \in Msg : mac.at[m] = "gone" => at[m] = "gone"
    BY <1>4
  <1>6. \A m \in Msg : at[m] \in {"ready", "held", "deferred"} => at[m] = mac.at[m]
    OBVIOUS
  <1> HIDE DEF T, at
  <1>7. \A m \in Msg : mac.requeues[m] <= T.requeues[m]
    BY <1>2, <1>3 DEF State
  <1>8. Onward(mac, T)
    BY <1>3, <1>5, <1>7 DEF Onward
  <1>9. Queued(T) \subseteq Queued(mac) /\ Deferred(T) \subseteq Deferred(mac)
    BY <1>3, <1>6 DEF Queued, Deferred
  <1>10. mac' = T
    BY <1>1 DEF T, at
  <1>11. Fits(mac) => Fits(T)
    BY <1>9, FewerFits
  <1> QED BY <1>3, <1>8, <1>10, <1>11 DEF Leads, Carries, Announced

\* A forwarded message enters the queue if it has room.
LEMMA PostAckLeads ==
  ASSUME NEW S, Restored(S), S.postAck # None PROVE \A U \in PostAck(S) : Leads(S, U)
  <1> DEFINE p == S.postAck
             T == [S EXCEPT !.postAck = None]
             A == [T EXCEPT !.at[p] = IF HasRoom(T) THEN "ready" ELSE "gone"]
  <1>1. S \in State /\ Settled(S) /\ Coherent(S) /\ Halves(S)
    BY DEF Restored, Coherent
  <1>2. T \in State /\ T.flight = S.flight /\ T.rx = S.rx /\ T.at = S.at /\ T.out = S.out
        /\ T.sent = S.sent /\ T.postAck = None /\ T.armed = S.armed /\ T.lbtRts = S.lbtRts
        /\ T.lbtOther = S.lbtOther /\ T.rtsDuty = S.rtsDuty /\ T.nackWait = S.nackWait
        /\ T.stash = S.stash /\ T.bare = S.bare /\ T.requeues = S.requeues
    BY <1>1 DEF State
  <1>3. PostAck(S) = IF p = "local" THEN UNION {BecomeFree(U) : U \in Originate(T)}
                     ELSE BecomeFree(A)
    BY DEF PostAck
  <1> HIDE DEF T
  <1>4. Settled(T)
    <2>1. None \notin Fwd
      BY NoneAssumption DEF Msg
    <2> QED BY <1>1, <1>2, <2>1 DEF Settled
  <1>5. Coherent(T)
    BY <1>1, <1>2, <1>4, IdleMove DEF Halves
  <1>6. Leads(S, T)
    BY <1>1, <1>2, StillLeads DEF Leads, Announced, IsBroadcast
  <1>7. CASE p = "local"
    <2>1. \A V \in Originate(T) : Leads(T, V) /\ Coherent(V) /\ V \in State
      BY <1>5, OriginateLeads, OriginateKeeps DEF Coherent
    <2>2. \A V \in Originate(T) : Leads(S, V)
      BY <1>1, <1>2, <1>6, <2>1, LeadsOn
    <2> QED BY <1>1, <1>3, <1>7, <2>1, <2>2, ThenFree
  <1>8. CASE p # "local"
    <2>1. p \in Fwd /\ p \in Msg /\ S.at[p] = "accepted"
      BY <1>1, <1>8, ClassAssumption DEF State, Settled, Msg
    <2> HIDE DEF p
    <2>2. PICK place \in {"ready", "gone"} :
            A = [T EXCEPT !.at[p] = place] /\ (place = "ready" => HasRoom(T))
      OBVIOUS
    <2>3. A \in State /\ A.flight = S.flight /\ A.rx = S.rx /\ A.at = [S.at EXCEPT ![p] = place]
          /\ A.out = S.out /\ A.sent = S.sent /\ A.postAck = None /\ A.armed = S.armed
          /\ A.lbtRts = S.lbtRts /\ A.lbtOther = S.lbtOther /\ A.rtsDuty = S.rtsDuty
          /\ A.nackWait = S.nackWait /\ A.stash = S.stash /\ A.bare = S.bare
          /\ A.requeues = S.requeues
      BY <1>2, <2>1, <2>2 DEF State, Place
    <2> HIDE DEF A
    <2>4. Settled(A)
      <3>1. S.at \in [Msg -> Place]
        BY <1>1 DEF State
      <3>2. A.flight # None => A.at[A.flight.msg] = "flight"
        <4>1. ASSUME S.flight # None
              PROVE S.flight.msg # p /\ S.flight.msg \in Msg /\ S.at[S.flight.msg] = "flight"
          BY <1>1, <2>1, <4>1, FlyingCoherent, FlyingNow
        <4> QED BY <2>3, <3>1, <4>1
      <3>3. A.postAck \in Fwd => A.at[A.postAck] = "accepted"
        BY <2>3, NoneAssumption DEF Msg
      <3>4. \A m \in Msg : m # p => A.at[m] = S.at[m]
        BY <2>3, <3>1
      <3>5. S.out[p] = {}
        BY <1>1, <2>1 DEF Settled
      <3> QED BY <1>1, <2>3, <3>2, <3>3, <3>4, <3>5 DEF Settled
    <2>5. Coherent(A)
      BY <1>1, <2>3, <2>4, IdleMove DEF Halves
    <2>6. \A n \in Msg : S.requeues[n] <= A.requeues[n]
      BY <1>1, <2>3 DEF State
    <2>7. (Announced(S) => Announced(A)) /\ (HasRoom(T) <=> HasRoom(S))
      BY <1>2, <2>3 DEF Announced, IsBroadcast, HasRoom, Queued
    <2>8. /\ place \in Place /\ place # "deferred" /\ S.at[p] # "gone"
          /\ place \in {"ready", "held"} => HasRoom(S) \/ S.at[p] \in {"ready", "held"}
          /\ \A n \in Msg : n # p => A.out[n] = S.out[n]
      BY <2>1, <2>2, <2>3, <2>7 DEF Place
    <2>9. Leads(S, A)
      BY <1>1, <2>1, <2>3, <2>6, <2>7, <2>8, MoveLeads DEF Leads
    <2> QED BY <1>1, <1>3, <1>8, <2>5, <2>9, ThenFree DEF p
  <1> QED BY <1>7, <1>8

----------------------------------------------------------------------------
\* The deferral list, the team purge and a refused frame.

\* What the routed sends push out of the queue leaves as many as it has room for.
LEMMA PushedFits ==
  ASSUME NEW S, Fits(S), NEW routed \in SUBSET Deferred(S), NEW pushed,
         PushedOut(S, routed, pushed)
  PROVE LET q == (Queued(S) \cup routed) \ pushed
        IN IsFiniteSet(q) /\ Cardinality(q) <= QueueCap
  <1> DEFINE a == Queued(S) \cup routed
             q == a \ pushed
  <1>1. IsFiniteSet(routed) /\ IsFiniteSet(Queued(S))
    BY FS_Subset DEF Fits
  <1>2. IsFiniteSet(a) /\ Cardinality(a) \in Nat
    BY <1>1, FS_Union, FS_CardinalityType
  <1>3. pushed \subseteq a /\ Cardinality(pushed) = Monus(Cardinality(a), QueueCap)
    BY DEF PushedOut
  <1> HIDE DEF a
  <1>4. a \cap pushed = pushed
    BY <1>3
  <1>5. IsFiniteSet(q) /\ Cardinality(q) = Cardinality(a) - Cardinality(a \cap pushed)
    BY <1>2, FS_Difference
  <1>6. Cardinality(q) = Cardinality(a) - Monus(Cardinality(a), QueueCap)
    BY <1>3, <1>4, <1>5
  <1> HIDE DEF q
  <1>7. Cardinality(q) <= QueueCap
    BY <1>2, <1>6, Caps DEF Monus
  <1> QED BY <1>5, <1>7 DEF q, a

\* A drain of the deferral list.
LEMMA DrainLeads ==
  ASSUME NEW S, Restored(S),
         NEW expired \in SUBSET Deferred(S), NEW routed \in SUBSET (Deferred(S) \ expired),
         NEW pushed \in SUBSET (Queued(S) \cup routed), PushedOut(S, routed, pushed)
  PROVE \A U \in Drain(Cancel(S, {"deferredDrain"}), expired, routed, pushed) : Leads(S, U)
  <1> DEFINE C == Cancel(S, {"deferredDrain"})
             at == [m \in Msg |-> IF m \in expired \cup pushed THEN "gone"
                                  ELSE IF m \in routed THEN "ready" ELSE C.at[m]]
             redrains == [m \in Msg |-> IF m \in routed THEN C.redrains[m] + 1
                                        ELSE C.redrains[m]]
             out == [m \in Msg |-> IF m \in expired /\ m \in Dm \cup Chan
                                   THEN C.out[m] \cup {"failed"} ELSE C.out[m]]
             T == [C EXCEPT !.at = at, !.redrains = redrains, !.out = out]
  <1>1. S \in State /\ Coherent(S) /\ Phase(S) /\ Settled(S)
    BY DEF Restored, Coherent
  <1>2. C \in State /\ C.flight = S.flight /\ C.rx = S.rx /\ C.at = S.at /\ C.out = S.out
        /\ C.sent = S.sent /\ C.postAck = S.postAck
        /\ C.armed = S.armed \ {"deferredDrain"} /\ C.lbtRts = S.lbtRts
        /\ C.rtsDuty = S.rtsDuty /\ C.nackWait = S.nackWait /\ C.stash = S.stash
        /\ C.bare = S.bare
    BY <1>1, CancelKeeps
  <1>3. C.requeues = S.requeues
    BY <1>1 DEF Cancel, State
  <1>4. Drain(C, expired, routed, pushed) =
          {IF Deferred(U) # {} THEN Arm(U, "deferredDrain") ELSE U : U \in BecomeFree(T)}
    BY DEF Drain
  <1> HIDE DEF C
  <1>5. /\ \A m \in expired \cup routed : m \in Msg /\ S.at[m] = "deferred"
        /\ \A m \in pushed : m \in Msg /\ S.at[m] \in {"ready", "held", "deferred"}
        /\ expired \cap routed = {}
    BY DEF Deferred, Queued
  <1>6. at \in [Msg -> Place] /\ redrains \in [Msg -> Nat]
        /\ out \in [Msg -> SUBSET {"acked", "failed"}]
    BY <1>2 DEF State, Place
  <1>7. \A m \in Msg : S.at[m] \notin {"ready", "held", "deferred"}
                         => at[m] = S.at[m] /\ out[m] = S.out[m]
    BY <1>2, <1>5
  <1>8. \A m \in Msg :
          /\ at[m] = "deferred" => S.at[m] = "deferred"
          /\ at[m] \in {"ready", "held"} =>
               m \notin pushed /\ (S.at[m] \in {"ready", "held"} \/ m \in routed)
    BY <1>2, <1>5
  <1> HIDE DEF at, out, redrains
  <1>9. T \in State /\ T.flight = C.flight /\ T.at = at /\ T.out = out /\ T.sent = S.sent
        /\ T.stash = C.stash /\ T.bare = C.bare /\ T.requeues = S.requeues
    BY <1>2, <1>3, <1>6 DEF State
  <1>10. Coherent(T)
    BY DrainCoherent DEF T, at, out, redrains, C
  <1> HIDE DEF T
  <1>11. Onward(S, T)
    <2>1. \A m \in Msg : S.requeues[m] <= T.requeues[m]
      BY <1>1, <1>9 DEF State
    <2> QED BY <1>7, <1>9, <2>1 DEF Onward
  <1>12. ASSUME Fits(S) PROVE Fits(T)
    <2> DEFINE q == (Queued(S) \cup routed) \ pushed
    <2>1. IsFiniteSet(q) /\ Cardinality(q) <= QueueCap
      BY <1>12, PushedFits
    <2>2. Queued(T) \subseteq q
      BY <1>8, <1>9 DEF Queued
    <2>3. Deferred(T) \subseteq Deferred(S)
      BY <1>8, <1>9 DEF Deferred
    <2> HIDE DEF q
    <2>4. IsFiniteSet(Queued(T)) /\ Cardinality(Queued(T)) <= Cardinality(q)
          /\ Cardinality(Queued(T)) \in Nat /\ Cardinality(q) \in Nat
      BY <2>1, <2>2, FS_Subset, FS_CardinalityType
    <2>5. IsFiniteSet(Deferred(T)) /\ Cardinality(Deferred(T)) <= Cardinality(Deferred(S))
          /\ Cardinality(Deferred(T)) \in Nat /\ Cardinality(Deferred(S)) \in Nat
      BY <1>12, <2>3, FS_Subset, FS_CardinalityType DEF Fits
    <2> QED BY <1>12, <2>1, <2>4, <2>5, Caps DEF Fits
  <1>13. Leads(S, T)
    BY <1>2, <1>9, <1>11, <1>12 DEF Leads, Carries, Announced, IsBroadcast
  <1>14. \A U \in BecomeFree(T) : Leads(S, U) /\ U \in State
    BY <1>1, <1>10, <1>13, ThenFree, BecomeFreeRestores DEF Restored, Coherent
  <1>15. \A U \in BecomeFree(T) : Leads(S, Arm(U, "deferredDrain"))
    <2>1. ASSUME NEW U \in BecomeFree(T) PROVE Leads(S, Arm(U, "deferredDrain"))
      <3> DEFINE A == Arm(U, "deferredDrain")
      <3>1. U \in State /\ Leads(S, U) /\ Leads(U, A) /\ A \in State
        BY <1>14, <2>1, ArmLeads, ArmKeeps DEF Timer
      <3> HIDE DEF A
      <3> QED BY <1>1, <3>1, LeadsOn DEF A
    <2> QED BY <2>1
  <1> QED BY <1>4, <1>14, <1>15 DEF C

\* A team purge only settles.
LEMMA PurgeTeamLeads ==
  ASSUME NEW S, Restored(S),
         NEW posts \in SUBSET {m \in Chan \ S.bare : S.at[m] \in {"ready", "held", "flight"}}
  PROVE \A U \in PurgeTeam(S, posts) : Leads(S, U)
  <1> DEFINE inFlight == S.flight # None /\ S.flight.msg \in posts
             at == [m \in Msg |-> IF m \in posts THEN "gone" ELSE S.at[m]]
             g == IF inFlight THEN None ELSE S.flight
             T == [S EXCEPT !.at = at, !.flight = g]
  <1>1. S \in State /\ Settled(S) /\ RingFits(S)
    BY DEF Restored, Coherent
  <1>2. \A m \in Msg : /\ m \notin posts => at[m] = S.at[m]
                       /\ S.at[m] = "gone" => at[m] = "gone"
                       /\ at[m] \in {"ready", "held", "deferred"} => at[m] = S.at[m]
                       /\ S.at[m] = "accepted" => at[m] = S.at[m]
    OBVIOUS
  <1>3. PurgeTeam(S, posts) = IF inFlight THEN BecomeFree(T) ELSE {T}
    BY DEF PurgeTeam
  <1>4. at \in [Msg -> Place] /\ g \in Flight \cup {None}
    BY <1>1 DEF State, Place
  <1>5. (inFlight => g = None) /\ (~inFlight => g = S.flight)
    OBVIOUS
  <1> HIDE DEF at, g
  <1>6. T \in State /\ T.flight = g /\ T.at = at /\ T.out = S.out /\ T.sent = S.sent
        /\ T.postAck = S.postAck /\ T.requeues = S.requeues /\ T.stash = S.stash
        /\ T.bare = S.bare /\ T.lbtRts = S.lbtRts /\ T.lbtOther = S.lbtOther
    BY <1>1, <1>4 DEF State
  <1> HIDE DEF T, inFlight
  <1>7. Onward(S, T)
    <2>1. \A m \in Msg : S.requeues[m] <= T.requeues[m]
      BY <1>1, <1>6 DEF State
    <2> QED BY <1>2, <1>6, <2>1 DEF Onward
  <1>8. Fits(S) => Fits(T)
    <2>1. Queued(T) \subseteq Queued(S) /\ Deferred(T) \subseteq Deferred(S)
      BY <1>2, <1>6 DEF Queued, Deferred
    <2> QED BY <2>1, FewerFits
  <1>9. Leads(S, T)
    BY <1>5, <1>6, <1>7, <1>8 DEF Leads, Carries, Announced, IsBroadcast
  <1>10. ASSUME inFlight PROVE Coherent(T)
    <2>1. T.flight = None
      BY <1>5, <1>6, <1>10
    <2>2. T.postAck \in Fwd => T.at[T.postAck] = "accepted"
      BY <1>1, <1>2, <1>6 DEF Settled, Msg
    <2>3. Settled(T) /\ RingFits(T)
      BY <1>1, <1>2, <1>6, <2>1, <2>2 DEF Settled, RingFits
    <2> QED BY <1>6, <2>1, <2>3, CoherentNoFlight
  <1> QED BY <1>1, <1>3, <1>9, <1>10, ThenFree

\* A refused frame is dropped, kept for a retry, or ends its flight.
LEMMA DataRefusedLeads ==
  ASSUME NEW S, Restored(S) PROVE \A U \in DataRefused(S) : Leads(S, U)
  <1> DEFINE T == [S EXCEPT !.handed = FALSE]
             f == [T.flight EXCEPT !.ack = FALSE]
             X == [T EXCEPT !.flight = f]
             C == Cancel(X, {"ackTimeout"})
             W == IF T.flight = None THEN T ELSE C
             V == [W EXCEPT !.stash = "none"]
             B == [W EXCEPT !.left = @ - 1]
             R == Arm(B, "busyRetry")
  <1>1. S \in State /\ Settled(S) /\ RingFits(S) /\ Halves(S)
    BY DEF Restored, Coherent
  <1>2. /\ T \in State /\ T.at = S.at /\ T.out = S.out /\ T.requeues = S.requeues
        /\ T.sent = S.sent /\ T.flight = S.flight /\ T.stash = S.stash /\ T.bare = S.bare
        /\ T.rx = S.rx /\ T.postAck = S.postAck /\ T.lbtRts = S.lbtRts
        /\ T.lbtOther = S.lbtOther
    BY <1>1 DEF State
  <1>3. DataRefused(S) = IF W.stash = "none" THEN {W}
                         ELSE IF W.left > 0 THEN {R}
                         ELSE IF StashIsCurrent(W) THEN Release(V) ELSE {V}
    BY DEF DataRefused
  <1>4. \A U \in DataRefused(S) : U \in State
    BY DataRefusedRestores DEF Restored, Coherent
  <1> HIDE DEF T
  <1>5. Leads(S, T)
    BY <1>1, <1>2, StillLeads DEF Leads, Announced, IsBroadcast
  <1>6. T.flight # None => Flying(T)
    BY <1>1, <1>2, FlightTyped DEF Flying, Settled, RingFits, Halves
  <1>7. ASSUME T.flight # None PROVE Leads(S, C) /\ Flying(C) /\ C \in State
    <2>1. f \in Flight /\ f.msg = T.flight.msg /\ f.asked = T.flight.asked /\ f.sf = T.flight.sf
      BY <1>6, <1>7 DEF Flying, Flight
    <2> HIDE DEF f
    <2>2. Flying(X) /\ Leads(T, X) /\ X \in State
      BY <1>6, <1>7, <2>1, FlightLeads
    <2> HIDE DEF X
    <2>3. Flying(C) /\ Leads(X, C) /\ C \in State
      BY <2>2, CancelKeeps, CancelLeads
    <2> HIDE DEF C
    <2>4. Leads(T, C)
      BY <1>2, <2>2, <2>3, LeadsOn
    <2> QED BY <1>1, <1>2, <1>5, <2>3, <2>4, LeadsOn
  <1> HIDE DEF C
  <1>8. Leads(S, W) /\ W \in State /\ (W.flight # None => Flying(W))
    BY <1>2, <1>5, <1>6, <1>7
  <1> HIDE DEF W
  <1>9. /\ V \in State /\ V.at = W.at /\ V.out = W.out /\ V.requeues = W.requeues
        /\ V.sent = W.sent /\ V.flight = W.flight /\ V.stash = "none" /\ V.bare = W.bare
        /\ V.rx = W.rx /\ V.postAck = W.postAck /\ V.lbtRts = W.lbtRts
        /\ V.lbtOther = W.lbtOther
    BY <1>8 DEF State, Ref
  <1> HIDE DEF V
  <1>10. Leads(W, V)
    BY <1>8, <1>9, StillLeads DEF Leads, Announced, IsBroadcast
  <1>11. Leads(S, V)
    BY <1>1, <1>8, <1>9, <1>10, LeadsOn
  <1>12. ASSUME StashIsCurrent(W), NEW U \in Release(V) PROVE Leads(S, U)
    <2>1. Flying(V)
      BY <1>8, <1>9, <1>12 DEF StashIsCurrent, Flying, Settled, RingFits
    <2>2. Leads(V, U) /\ U \in State
      BY <1>12, <2>1, ReleaseLeads, ReleaseRestores DEF Restored, Coherent
    <2> QED BY <1>1, <1>9, <1>11, <2>2, LeadsOn
  <1>13. ASSUME W.left > 0, R \in State PROVE Leads(S, R)
    <2>1. W.left \in Nat
      BY <1>8 DEF State
    <2>2. W.left - 1 \in Nat
      BY <1>13, <2>1
    <2>3. /\ B \in State /\ B.at = W.at /\ B.out = W.out /\ B.requeues = W.requeues
          /\ B.sent = W.sent /\ B.flight = W.flight /\ B.stash = W.stash /\ B.bare = W.bare
      BY <1>8, <2>2 DEF State
    <2> HIDE DEF B
    <2>4. Leads(W, B)
      BY <1>8, <2>3, StillLeads DEF Leads, Announced, IsBroadcast
    <2>5. Leads(S, B)
      BY <1>1, <1>8, <2>3, <2>4, LeadsOn
    <2>6. Leads(B, R)
      BY <2>3, ArmLeads
    <2> HIDE DEF R
    <2> QED BY <1>1, <1>13, <2>3, <2>5, <2>6, LeadsOn
  <1> HIDE DEF R
  <1>14. CASE W.stash = "none"
    BY <1>3, <1>8, <1>14
  <1>15. CASE W.stash # "none" /\ W.left > 0
    BY <1>3, <1>4, <1>13, <1>15
  <1>16. CASE W.stash # "none" /\ ~(W.left > 0)
    BY <1>3, <1>11, <1>12, <1>16
  <1> QED BY <1>14, <1>15, <1>16

----------------------------------------------------------------------------
\* The handlers that may hand a DATA frame to the radio.

\* A step carries the messages on, and what it sends is announced by its flight.
Sends(S, T) ==
  /\ Carries(S, T)
  /\ Announced(S) =>
       \A m \in T.sent \ S.sent :
         /\ S.flight # None /\ S.flight.msg = m
         /\ IsBroadcast(S, m) \/ S.flight.asked \/ Alias

\* No more than the DATA of the flight goes out, and its announcement stands.
Emits(S, T) ==
  /\ T.at = S.at /\ T.out = S.out /\ T.requeues = S.requeues /\ T.bare = S.bare
  /\ T.flight.msg = S.flight.msg /\ T.flight.asked = S.flight.asked
  /\ T.sent \subseteq S.sent \cup {S.flight.msg}

\* What sends nothing has nothing to announce.
LEMMA LeadsSends == ASSUME NEW S, NEW T, Leads(S, T) PROVE Sends(S, T)
  BY DEF Leads, Sends

\* Only a flight that awaits its DATA, or has stashed it, gets here.
LEMMA EmitsSends ==
  ASSUME NEW S \in State, S.flight # None, S.flight.sf \/ S.stash = "live",
         NEW T, Emits(S, T)
  PROVE Sends(S, T)
  <1>1. Announced(S) => IsBroadcast(S, S.flight.msg) \/ Alias \/ S.flight.asked
    BY DEF Announced
  <1>2. Announced(S) => Announced(T)
    BY <1>1 DEF Announced, Emits, IsBroadcast
  <1>3. Carries(S, T)
    BY <1>2, StillLeads DEF Emits
  <1> QED BY <1>1, <1>3 DEF Sends, Emits

\* Arming a timer and changing the ACK wait send nothing.
LEMMA EmitsOn ==
  ASSUME NEW S, NEW T \in State, T.flight \in Flight, Emits(S, T), NEW t, NEW b \in BOOLEAN
  PROVE /\ Emits(S, Arm(T, t))
        /\ Emits(S, [T EXCEPT !.flight.ack = b])
        /\ Emits(S, Arm([T EXCEPT !.flight.ack = b], t))
  <1> DEFINE f == [T.flight EXCEPT !.ack = b]
             V == [T EXCEPT !.flight = f]
  <1>1. f \in Flight /\ f.msg = T.flight.msg /\ f.asked = T.flight.asked
    BY DEF Flight
  <1>2. V = [T EXCEPT !.flight.ack = b]
    OBVIOUS
  <1> HIDE DEF f
  <1>3. /\ V \in State /\ V.at = T.at /\ V.out = T.out /\ V.requeues = T.requeues
        /\ V.bare = T.bare /\ V.sent = T.sent /\ V.flight = f
    BY <1>1 DEF State
  <1> HIDE DEF V
  <1>4. ASSUME NEW W \in State
        PROVE /\ Arm(W, t).at = W.at /\ Arm(W, t).out = W.out /\ Arm(W, t).requeues = W.requeues
              /\ Arm(W, t).bare = W.bare /\ Arm(W, t).sent = W.sent
              /\ Arm(W, t).flight = W.flight
    BY DEF Arm, State
  <1>5. Emits(S, V)
    BY <1>1, <1>3 DEF Emits
  <1>6. Emits(S, Arm(T, t))
    BY <1>4 DEF Emits
  <1>7. Emits(S, Arm(V, t))
    BY <1>3, <1>4, <1>5 DEF Emits
  <1> QED BY <1>2, <1>5, <1>6, <1>7

\* The frame stashed, or handed to the radio.
LEMMA HandedEmits ==
  ASSUME NEW S, Flying(S), NEW T \in Handed(S) \cup {Stash(S)}
  PROVE T \in State /\ T.flight \in Flight /\ Emits(S, T)
  <1>1. Flying(T) /\ T.flight = S.flight /\ S \in State
    BY StashKeeps DEF Same, Flying
  <1>2. /\ T.at = S.at /\ T.out = S.out /\ T.requeues = S.requeues /\ T.bare = S.bare
        /\ T.sent \subseteq S.sent \cup {S.flight.msg}
    <2>1. CASE T = Stash(S)
      BY <1>1, <2>1 DEF Stash, State
    <2>2. CASE T # Stash(S)
      <3>1. T = [S EXCEPT !.stash = "live", !.left = TxDeferRetries,
                          !.handed = Refusals, !.sent = @ \cup {S.flight.msg}]
        BY <1>1, <2>2 DEF Handed, Stash, State
      <3> QED BY <1>1, <3>1 DEF State
    <2> QED BY <2>1, <2>2
  <1> QED BY <1>1, <1>2 DEF Emits, Flying

\* A step after its timer has been taken off.
LEMMA CancelSends ==
  ASSUME NEW S, Restored(S), NEW X, NEW T, T \in State, Sends(Cancel(S, X), T)
  PROVE Sends(S, T)
  <1> DEFINE C == Cancel(S, X)
  <1>1. /\ S \in State /\ C \in State /\ C.flight = S.flight /\ C.bare = S.bare
        /\ C.stash = S.stash /\ C.sent = S.sent /\ Leads(S, C)
    BY CancelKeeps, CancelLeads DEF Restored, Coherent
  <1> HIDE DEF C
  <1>2. Sends(C, T)
    BY DEF C
  <1>3. ASSUME NEW m \in Msg PROVE S.requeues[m] <= T.requeues[m]
    <2>1. S.requeues[m] \in Nat /\ C.requeues[m] \in Nat /\ T.requeues[m] \in Nat
      BY <1>1 DEF State
    <2> QED BY <1>1, <1>2, <2>1 DEF Leads, Sends, Carries, Onward
  <1>4. Carries(S, T)
    BY <1>1, <1>2, <1>3 DEF Leads, Sends, Carries, Onward
  <1> QED BY <1>1, <1>2, <1>4 DEF Sends, Announced, IsBroadcast

\* The DATA after its gap.
LEMMA DoDataTxSends ==
  ASSUME NEW S, Restored(S) PROVE \A T \in DoDataTx(Cancel(S, {"ctsToDataGap"})) : Sends(S, T)
  <1> DEFINE C == Cancel(S, {"ctsToDataGap"})
  <1>1. C \in State /\ C.flight = S.flight /\ (C.flight # None => Flying(C))
    BY CancelKeeps, CancelFlying DEF Restored, Coherent
  <1>2. \A T \in DoDataTx(C) : T \in State
    BY DoDataTxRestores DEF Restored, Coherent
  <1> HIDE DEF C
  <1>3. Sends(C, C)
    BY <1>1, StillLeads, LeadsSends DEF Leads
  <1>4. ASSUME C.flight # None, C.flight.sf PROVE \A T \in DoDataTx(C) : Sends(C, T)
    <2>1. Flying(C)
      BY <1>1, <1>4
    <2>2. ASSUME NEW T \in Handed(C) \cup {Stash(C)}
          PROVE /\ Emits(C, Arm(T, "mBcastClear")) /\ Emits(C, Arm(T, "dutyDefer"))
                /\ Emits(C, AwaitAck(T))
      BY <2>1, <2>2, HandedEmits, EmitsOn DEF AwaitAck
    <2>3. ASSUME NEW T \in DutyDeferred(C) PROVE Emits(C, T) /\ Emits(C, [T EXCEPT !.flight.ack = FALSE])
      <3>1. T = Arm(Stash(C), "dutyDefer")
        BY <2>3 DEF DutyDeferred
      <3>2. Stash(C) \in State /\ Stash(C).flight \in Flight
        BY <2>1, HandedEmits
      <3> DEFINE H == Stash(C)
      <3> HIDE DEF H
      <3>3. T \in State /\ T.flight = H.flight
        BY <3>1, <3>2, ArmKeeps DEF H, Timer
      <3>4. Emits(C, T)
        BY <2>2, <3>1
      <3> QED BY <3>2, <3>3, <3>4, EmitsOn DEF H
    <2>4. \A T \in DoDataTx(C) : Emits(C, T) \/ T = C
      BY <2>2, <2>3 DEF DoDataTx
    <2> QED BY <1>1, <1>3, <1>4, <2>4, EmitsSends
  <1>5. ASSUME C.flight = None \/ ~C.flight.sf PROVE DoDataTx(C) = {C}
    BY <1>5 DEF DoDataTx
  <1>6. \A T \in DoDataTx(C) : Sends(C, T)
    BY <1>3, <1>4, <1>5
  <1> QED BY <1>2, <1>6, CancelSends DEF C

\* The DATA after its duty wait, if it is still that of the flight.
LEMMA DutyDeferFireSends ==
  ASSUME NEW S, Restored(S) PROVE \A T \in DutyDeferFire(Cancel(S, {"dutyDefer"})) : Sends(S, T)
  <1> DEFINE C == Cancel(S, {"dutyDefer"})
  <1>1. C \in State /\ C.flight = S.flight /\ (C.flight # None => Flying(C))
    BY CancelKeeps, CancelFlying DEF Restored, Coherent
  <1>2. \A T \in DutyDeferFire(C) : T \in State
    BY DutyDeferFireRestores DEF Restored, Coherent
  <1> HIDE DEF C
  <1>3. Sends(C, C)
    BY <1>1, StillLeads, LeadsSends DEF Leads
  <1>4. ASSUME StashIsCurrent(C) PROVE \A T \in DutyDeferFire(C) : Sends(C, T)
    <2>1. Flying(C) /\ C.flight # None /\ C.stash = "live"
      BY <1>1, <1>4 DEF StashIsCurrent
    <2>2. ASSUME NEW T \in Handed(C) \cup {Stash(C)}
          PROVE Emits(C, Arm(T, "dutyDefer")) /\ Emits(C, AwaitAck(T))
      BY <2>1, <2>2, HandedEmits, EmitsOn DEF AwaitAck
    <2>3. \A T \in DutyDeferFire(C) : Emits(C, T)
      BY <1>4, <2>2 DEF DutyDeferFire, DutyDeferred
    <2> QED BY <1>1, <2>1, <2>3, EmitsSends
  <1>5. ASSUME ~StashIsCurrent(C) PROVE DutyDeferFire(C) = {C}
    BY <1>5 DEF DutyDeferFire
  <1>6. \A T \in DutyDeferFire(C) : Sends(C, T)
    BY <1>3, <1>4, <1>5
  <1> QED BY <1>2, <1>6, CancelSends DEF C

\* The retry sends the DATA of whatever flight is live, if it is the one stashed.
LEMMA RetryStashedSends ==
  ASSUME NEW S, Restored(S) PROVE Sends(S, RetryStashed(Cancel(S, {"busyRetry"})))
  <1> DEFINE C == Cancel(S, {"busyRetry"})
             H == [C EXCEPT !.handed = Refusals]
             V == [H EXCEPT !.sent = @ \cup {H.flight.msg}]
  <1>1. C \in State /\ C.flight = S.flight /\ (C.flight # None => Flying(C))
    BY CancelKeeps, CancelFlying DEF Restored, Coherent
  <1>2. RetryStashed(C) \in State
    BY RetryStashedRestores DEF Restored, Coherent
  <1>3. RetryStashed(C) = IF C.stash = "none" THEN C
                          ELSE IF StashIsCurrent(H) THEN AwaitAck(V) ELSE H
    BY DEF RetryStashed
  <1> HIDE DEF C
  <1>4. /\ H \in State /\ H.at = C.at /\ H.out = C.out /\ H.requeues = C.requeues
        /\ H.sent = C.sent /\ H.flight = C.flight /\ H.stash = C.stash /\ H.bare = C.bare
    BY <1>1, Bounds DEF State
  <1> HIDE DEF H
  <1>5. Sends(C, C)
    BY <1>1, StillLeads, LeadsSends DEF Leads
  <1>6. Sends(C, H)
    BY <1>1, <1>4, StillLeads, LeadsSends DEF Leads, Announced, IsBroadcast
  <1>7. ASSUME StashIsCurrent(H) PROVE Sends(C, AwaitAck(V))
    <2>1. C.flight # None /\ C.stash = "live" /\ Flying(C)
      BY <1>1, <1>4, <1>7 DEF StashIsCurrent
    <2>2. C.flight.msg \in Msg /\ C.flight \in Flight
      BY <2>1, FlyingNow DEF Flying
    <2>3. V \in State /\ V.flight = C.flight /\ Emits(C, V)
      BY <1>4, <2>2 DEF State, Emits
    <2> HIDE DEF V
    <2>4. Emits(C, AwaitAck(V))
      BY <2>2, <2>3, EmitsOn DEF AwaitAck
    <2> QED BY <1>1, <2>1, <2>4, EmitsSends
  <1> HIDE DEF V
  <1>8. Sends(C, RetryStashed(C))
    BY <1>3, <1>5, <1>6, <1>7
  <1> QED BY <1>2, <1>8, CancelSends DEF C

----------------------------------------------------------------------------
\* Every step.

\* What changes only buffers and the receive half sends nothing.
LEMMA BufferSends ==
  ASSUME NEW S \in State, NEW T, T.at = S.at, T.out = S.out, T.requeues = S.requeues,
         T.sent = S.sent, T.flight = S.flight, T.stash = S.stash, T.bare = S.bare
  PROVE Sends(S, T)
  BY StillLeads, LeadsSends DEF Leads, Announced, IsBroadcast

\* Every timer.
LEMMA TimersSend == ASSUME Restored(mac), Timers PROVE Sends(mac, mac')
  <1>1. mac \in State /\ Coherent(mac)
    BY DEF Restored, Coherent
  <1>2. CASE FireRtsTimeout
    BY <1>2, RtsTimeoutLeads, LeadsSends DEF FireRtsTimeout, Fires
  <1>3. CASE FireAckTimeout
    BY <1>3, AckTimeoutLeads, LeadsSends DEF FireAckTimeout, Fires
  <1>4. CASE FireCtsToDataGap
    BY <1>4, DoDataTxSends DEF FireCtsToDataGap, Fires
  <1>5. CASE FireRetryBackoff
    <2> DEFINE C == Cancel(mac, {"retryBackoff"})
    <2>1. mac' \in (IF C.flight = None THEN {C} ELSE TxRtsRetry(C))
      BY <1>5 DEF FireRetryBackoff, Fires
    <2>2. C.flight = mac.flight /\ C \in State /\ Leads(mac, C)
      BY <1>1, CancelKeeps, CancelLeads
    <2>3. C.flight # None => Flying(C)
      BY <2>2, CancelFlying
    <2> HIDE DEF C
    <2>4. C.flight # None => \A U \in TxRtsRetry(C) : Leads(C, U) /\ U \in State
      BY <2>3, TxRtsRetryLeads, TxRtsRetryRestores DEF Restored, Coherent
    <2>5. Leads(mac, mac')
      BY <1>1, <2>1, <2>2, <2>4, LeadsOn
    <2> QED BY <2>5, LeadsSends
  <1>6. CASE FireMBcastClear
    <2> DEFINE C == Cancel(mac, {"mBcastClear"})
    <2>1. mac' \in (IF C.flight = None THEN {C}
                    ELSE IF IsBroadcast(C, C.flight.msg) THEN Release(C) ELSE {C})
      BY <1>6 DEF FireMBcastClear, Fires
    <2>2. C.flight = mac.flight /\ Leads(mac, C)
      BY <1>1, CancelKeeps, CancelLeads
    <2>3. mac.flight # None => \A U \in Release(C) : Leads(mac, U)
      BY CancelReleaseLeads
    <2> HIDE DEF C
    <2> QED BY <2>1, <2>2, <2>3, LeadsSends
  <1>7. ASSUME NEW t \in {"queueWakeup", "cascadeRequeue"}, mac' \in BecomeFree(Cancel(mac, {t}))
        PROVE Sends(mac, mac')
    <2> DEFINE C == Cancel(mac, {t})
    <2>1. Same(mac, C) /\ C.armed = mac.armed \ {t} /\ C.stash = mac.stash /\ C.rx = mac.rx
          /\ C \in State /\ RingFits(C) /\ Settled(C) /\ Leads(mac, C)
      BY <1>1, CancelKeeps, CancelLeads DEF Same, Coherent
    <2> HIDE DEF C
    <2>2. Phase(C) /\ Halves(C)
      BY <1>1, <2>1 DEF Phase, IsBroadcast, Same, Halves, Coherent
    <2>3. Coherent(C)
      BY <2>1, <2>2 DEF Coherent
    <2> QED BY <1>1, <1>7, <2>1, <2>3, ThenFree, LeadsSends DEF C
  <1>8. CASE FireQueueWakeup
    BY <1>7, <1>8 DEF FireQueueWakeup, Fires
  <1>9. CASE FireCascadeRequeue
    BY <1>7, <1>9 DEF FireCascadeRequeue, Fires
  <1>10. CASE FireDeferredDrain
    <2>1. PICK expired \in SUBSET Deferred(mac) :
            \E routed \in SUBSET (Deferred(mac) \ expired) :
              \E pushed \in SUBSET (Queued(mac) \cup routed) :
                /\ PushedOut(mac, routed, pushed)
                /\ mac' \in Drain(Cancel(mac, {"deferredDrain"}), expired, routed, pushed)
      BY <1>10 DEF FireDeferredDrain
    <2>2. Leads(mac, mac')
      BY <2>1, DrainLeads
    <2> QED BY <2>2, LeadsSends
  <1>11. CASE FireDutyDefer
    BY <1>11, DutyDeferFireSends DEF FireDutyDefer, Fires
  <1>12. CASE FireBusyRetry
    BY <1>12, RetryStashedSends DEF FireBusyRetry, Fires
  <1>13. CASE FireRtsDuty
    BY <1>13, RtsDutyFireLeads, LeadsSends DEF FireRtsDuty
  <1>14. CASE FireNackWait
    BY <1>14, NackWaitFireLeads, LeadsSends DEF FireNackWait
  <1>15. CASE FireLbtRts
    BY <1>15, LbtFireRtsLeads, LeadsSends DEF FireLbtRts
  <1>16. CASE FireLbtOther
    <2>1. mac'.at = mac.at /\ mac'.out = mac.out /\ mac'.requeues = mac.requeues
          /\ mac'.sent = mac.sent /\ mac'.flight = mac.flight /\ mac'.stash = mac.stash
          /\ mac'.bare = mac.bare
      BY <1>1, <1>16 DEF FireLbtOther, State
    <2> QED BY <1>1, <2>1, BufferSends
  <1>17. CASE PendingRxExpiry
    BY <1>17, ReceiverFreeLeads, LeadsSends DEF PendingRxExpiry
  <1>18. CASE FirePostAck
    BY <1>18, PostAckLeads, LeadsSends DEF FirePostAck
  <1>19. ASSUME NEW m \in Msg, Elapse(m) PROVE Sends(mac, mac')
    BY <1>1, <1>19, PlaceLeads, LeadsSends DEF Elapse
  <1> QED BY <1>2, <1>3, <1>4, <1>5, <1>6, <1>8, <1>9, <1>10, <1>11, <1>12, <1>13, <1>14,
             <1>15, <1>16, <1>17, <1>18, <1>19 DEF Timers

\* Every frame heard.
LEMMA FramesSend == ASSUME Restored(mac), Frames PROVE Sends(mac, mac')
  <1>1. CASE HearCts
    BY <1>1, HandleCtsLeads, LeadsSends DEF HearCts, Answered
  <1>2. CASE HearCtsAlreadyReceived
    BY <1>2, CancelReleaseLeads, LeadsSends
       DEF HearCtsAlreadyReceived, HandleCtsAlreadyReceived, Answered
  <1>3. CASE HearAck
    BY <1>3, HandleAckLeads, LeadsSends DEF HearAck, Answered
  <1>4. CASE HearForward
    BY <1>4, CancelReleaseLeads, LeadsSends DEF HearForward, HandleRtsCredit
  <1>5. CASE HearRts
    <2>1. mac'.at = mac.at /\ mac'.out = mac.out /\ mac'.requeues = mac.requeues
          /\ mac'.sent = mac.sent /\ mac'.flight = mac.flight /\ mac'.stash = mac.stash
          /\ mac'.bare = mac.bare /\ mac \in State
      BY <1>5 DEF HearRts, State, Restored, Coherent
    <2> QED BY <2>1, BufferSends
  <1>6. CASE HearData
    BY <1>6, HearDataLeads, LeadsSends
  <1>7. CASE HearOtherData
    BY <1>7, ReceiverFreeLeads, LeadsSends DEF HearOtherData
  <1>8. ASSUME NEW reason \in NackReason, HearNack(reason) PROVE Sends(mac, mac')
    BY <1>8, HandleNackLeads, LeadsSends DEF HearNack, Answered
  <1> QED BY <1>1, <1>2, <1>3, <1>4, <1>5, <1>6, <1>7, <1>8 DEF Frames

\* Commands, the radio and the node's other frames.
LEMMA EnvironmentSends == ASSUME Restored(mac), Environment PROVE Sends(mac, mac')
  <1>1. mac \in State /\ Coherent(mac)
    BY DEF Restored, Coherent
  <1>2. CASE LeaveTeam
    BY <1>2, PurgeTeamLeads, LeadsSends DEF LeaveTeam
  <1>3. CASE RefuseData
    BY <1>3, DataRefusedLeads, LeadsSends DEF RefuseData
  <1>4. CASE RtsExpired
    BY <1>1, <1>4, FlyingCoherent, GiveUpLeads, LeadsSends DEF RtsExpired
  <1>5. CASE DeferOther
    <2>1. mac'.at = mac.at /\ mac'.out = mac.out /\ mac'.requeues = mac.requeues
          /\ mac'.sent = mac.sent /\ mac'.flight = mac.flight /\ mac'.stash = mac.stash
          /\ mac'.bare = mac.bare
      BY <1>1, <1>5 DEF DeferOther, State
    <2> QED BY <1>1, <2>1, BufferSends
  <1>6. ASSUME NEW m \in Msg, Send(m) PROVE Sends(mac, mac')
    BY <1>1, <1>6, EnqueueDataLeads, LeadsSends DEF Send
  <1>7. ASSUME NEW m \in Msg, PostChannel(m) PROVE Sends(mac, mac')
    BY <1>1, <1>7, EnqueueFloodLeads, LeadsSends DEF PostChannel
  <1>8. ASSUME NEW m \in Msg, ServePull(m) PROVE Sends(mac, mac')
    <2>1. mac' \in EnqueueData(mac, m)
      BY <1>8 DEF ServePull, EnqueueData
    <2> QED BY <1>1, <1>8, <2>1, EnqueueDataLeads, LeadsSends DEF ServePull
  <1> QED BY <1>2, <1>3, <1>4, <1>5, <1>6, <1>7, <1>8 DEF Environment

\* A step that does nothing sends nothing.
LEMMA StepSends == ASSUME Restored(mac), [Next]_vars PROVE Sends(mac, mac')
  <1>1. CASE Next
    BY <1>1, TimersSend, FramesSend, EnvironmentSends DEF Next
  <1>2. CASE UNCHANGED vars
    <2>1. mac' = mac /\ mac \in State
      BY <1>2 DEF vars, Restored, Coherent
    <2> QED BY <2>1, BufferSends
  <1> QED BY <1>1, <1>2

\* The invariant with what it says of the arrays and of the announcement.
Cared == Inductive /\ Fits(mac) /\ Announced(mac)

\* It is inductive, given that Inductive holds throughout.
LEMMA CaredAlways == Spec => []Cared
  <1>1. Init => Cared
    <2> SUFFICES ASSUME Init PROVE Cared
      OBVIOUS
    <2>1. mac.flight = None /\ \A m \in Msg : mac.at[m] = "new"
      BY DEF Init
    <2>2. Queued(mac) = {} /\ Deferred(mac) = {}
      BY <2>1 DEF Queued, Deferred
    <2>3. Fits(mac)
      BY <2>2, FS_EmptySet, Caps DEF Fits
    <2> QED BY <2>1, <2>3, InitInductive DEF Cared, Announced
  <1>2. Inductive /\ Cared /\ [Next]_vars /\ Inductive' => Cared'
    <2> SUFFICES ASSUME Inductive, Cared, [Next]_vars, Inductive' PROVE Cared'
      OBVIOUS
    <2>1. Sends(mac, mac')
      BY StepSends DEF Inductive, Restored
    <2>2. Fits(mac') /\ Announced(mac')
      BY <2>1 DEF Sends, Carries, Cared
    <2>3. Fits(mac)' /\ Announced(mac)'
      BY <2>2
    <2> QED BY <2>3 DEF Cared
  <1> QED BY <1>1, <1>2, EngineInvariant, PTL DEF Spec

\* The queue, the deferral list and the listen-before-talk ring never hold more than
\* their arrays: every way in looks for room, and a drain pushes out what is too much.
THEOREM QueueAlwaysBounded == Spec => []QueueBounded
  <1>1. Cared => QueueBounded
    BY DEF Cared, Fits, Inductive, Coherent, RingFits, QueueBounded
  <1> QED BY <1>1, CaredAlways, PTL

\* No step revives a settled message or reports it again, and none refunds the
\* requeue budget of a message.
THEOREM CarriersLive == Spec => CarrierLife
  <1>1. Inductive /\ [Next]_vars =>
          [\A m \in Msg :
             /\ mac.at[m] = "gone" => mac'.at[m] = "gone" /\ mac'.out[m] = mac.out[m]
             /\ mac.requeues[m] <= mac'.requeues[m]]_vars
    BY StepSends DEF Inductive, Restored, Sends, Carries, Onward
  <1> QED BY <1>1, EngineInvariant, PTL DEF Spec, CarrierLife

\* DATA goes to the radio only in a flight of that message whose RTS was handed over
\* before: no timer and no stash of an earlier flight sends it unannounced.
THEOREM DataAlwaysAfterRts == Spec => DataAfterRts
  <1>1. Cared /\ [Next]_vars =>
          [\A m \in mac'.sent \ mac.sent :
             /\ mac.flight # None /\ mac.flight.msg = m
             /\ IsBroadcast(mac, m) \/ mac.flight.asked \/ Alias]_vars
    BY StepSends DEF Cared, Inductive, Restored, Sends
  <1> QED BY <1>1, CaredAlways, PTL DEF Spec, DataAfterRts
=============================================================================
