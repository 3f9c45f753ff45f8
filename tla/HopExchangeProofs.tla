------------------------- MODULE HopExchangeProofs -------------------------
(***************************************************************************)
(* Every message is accounted for.  A step of the exchange is first        *)
(* brought into one form, Accounts: what its node keeps, what it lets go   *)
(* and why, and what it puts on the air.  The invariant is then kept by    *)
(* that form, whatever the action.                                         *)
(***************************************************************************)
EXTENDS HopExchangeProperties, FiniteSetTheorems, TLAPS

LEMMA Nones ==
  /\ None \notin Node /\ None \notin Flight
  /\ None \notin Announced /\ None \notin Accepted
  BY NoneAssumption

Kind == {"rts", "cts", "done", "data", "ack"} \cup Nack

LEMMA Kinds ==
  /\ "rts" \in Kind /\ "cts" \in Kind /\ "done" \in Kind /\ "data" \in Kind /\ "ack" \in Kind
  /\ "busyRx" \in Kind /\ "budget" \in Kind /\ "hopBudget" \in Kind /\ "loopDup" \in Kind
  BY DEF Kind, Nack

\* A frame is what it was made of.
LEMMA FrameTyped ==
  ASSUME NEW kind \in Kind,
         NEW by \in Node, NEW to \in Node, NEW m \in Msg
  PROVE  /\ F(kind, by, to, m) \in Frame
         /\ F(kind, by, to, m).kind = kind /\ F(kind, by, to, m).by = by
         /\ F(kind, by, to, m).to = to /\ F(kind, by, to, m).msg = m
  BY DEF F, Frame, Kind

\* Next hops are nodes.
LEMMA ViaTyped ==
  ASSUME NEW n \in Node, NEW m \in Msg, NEW h \in Via[n][m]
  PROVE  h \in Node
  BY RouteAssumption

\* A flight towards another hop, or in another phase.
LEMMA FlightTyped ==
  ASSUME NEW fl \in Flight
  PROVE  /\ fl # None /\ fl.msg \in Msg /\ fl.next \in Node
         /\ \A p \in {"cts", "data", "ack", "wait"} :
              /\ [fl EXCEPT !.phase = p] \in Flight
              /\ [fl EXCEPT !.phase = p].msg = fl.msg
              /\ [fl EXCEPT !.phase = p].next = fl.next
         /\ \A h \in Node : /\ [fl EXCEPT !.next = h] \in Flight
                            /\ [fl EXCEPT !.next = h].msg = fl.msg
                            /\ [fl EXCEPT !.next = h].next = h
         /\ Carried(fl) = {fl.msg}
  BY Nones DEF Flight, Carried

\* A node's turn at sending: it keeps the messages K, or drops them; it flies towards a
\* next hop; what it adds to the air `a` is the announcement of one of them.
Sends(n, K, a) ==
  /\ queue' \in [Node -> SUBSET Msg] /\ flight' \in [Node -> Flight \cup {None}]
  /\ \A k \in Node \ {n} : queue'[k] = queue[k] /\ flight'[k] = flight[k]
  /\ \A m \in K : m \in queue'[n] \cup Carried(flight'[n]) \/ <<n, m>> \in dropped'
  /\ queue'[n] \cup Carried(flight'[n]) \subseteq K
  /\ flight'[n] # None => flight'[n].next \in Via[n][flight'[n].msg]
  /\ dropped \subseteq dropped' /\ dropped' \subseteq Node \X Msg
  /\ \A f \in air' : \/ f \in a
                     \/ /\ f \in Frame /\ f.kind = "rts" /\ f.by = n
                        /\ f.msg \in K /\ f.to \in Via[n][f.msg]

\* A flight takes off, or takes another course.
LEMMA SendRtsSends ==
  ASSUME TypeOK, NEW n \in Node, NEW fl \in Flight, NEW a, fl.next \in Via[n][fl.msg],
         SendRts(n, fl, a), NEW q \in SUBSET Msg, queue' = [queue EXCEPT ![n] = q],
         dropped \subseteq dropped', dropped' \subseteq Node \X Msg
  PROVE  Sends(n, q \cup {fl.msg}, a)
  <1> DEFINE up == [fl EXCEPT !.phase = "cts"]
  <1>1. up \in Flight /\ up.msg = fl.msg /\ up.next = fl.next /\ up # None /\ Carried(up) = {fl.msg}
    BY FlightTyped, Nones DEF Carried
  <1>2. flight' = [flight EXCEPT ![n] = up]
    BY DEF SendRts
  <1> HIDE DEF up
  <1>3. flight \in [Node -> Flight \cup {None}] /\ queue \in [Node -> SUBSET Msg]
    BY DEF TypeOK
  <1>4. flight' \in [Node -> Flight \cup {None}] /\ flight'[n] = up
        /\ \A k \in Node \ {n} : flight'[k] = flight[k]
    BY <1>1, <1>2, <1>3
  <1>5. queue' \in [Node -> SUBSET Msg] /\ queue'[n] = q
        /\ \A k \in Node \ {n} : queue'[k] = queue[k]
    BY <1>3
  <1>6. \A f \in air' : \/ f \in a
                        \/ /\ f \in Frame /\ f.kind = "rts" /\ f.by = n
                           /\ f.msg \in q \cup {fl.msg} /\ f.to \in Via[n][f.msg]
    <2>1. fl.msg \in Msg /\ fl.next \in Node
      BY FlightTyped
    <2> DEFINE g == F("rts", n, fl.next, fl.msg)
    <2>2. g \in Frame
      BY <2>1, Kinds, FrameTyped
    <2>3. g.kind = "rts" /\ g.by = n /\ g.to = fl.next /\ g.msg = fl.msg
      BY DEF F
    <2>4. air' = a \cup {g}
      BY DEF SendRts
    <2> HIDE DEF g
    <2> QED BY <2>2, <2>3, <2>4
  <1>7. \A m \in q \cup {fl.msg} : m \in queue'[n] \cup Carried(flight'[n]) \/ <<n, m>> \in dropped'
    BY <1>1, <1>4, <1>5
  <1>8. queue'[n] \cup Carried(flight'[n]) \subseteq q \cup {fl.msg}
    BY <1>1, <1>4, <1>5
  <1>9. flight'[n] # None => flight'[n].next \in Via[n][flight'[n].msg]
    BY <1>1, <1>4
  <1> QED BY <1>4, <1>5, <1>6, <1>7, <1>8, <1>9 DEF Sends

\* A message is taken from the queue: it flies, or there is no route.
LEMMA IssueSends ==
  ASSUME TypeOK, NEW n \in Node, NEW q \in SUBSET Msg, NEW m \in q, NEW a,
         NEW d \in SUBSET (Node \X Msg), dropped \subseteq d, Issue(n, q, m, a, d)
  PROVE  Sends(n, q, a) /\ d \subseteq dropped'
  <1>1. queue' = [queue EXCEPT ![n] = q \ {m}]
    BY DEF Issue
  <1>2. CASE \E h \in Via[n][m] :
               SendRts(n, [msg |-> m, next |-> h, phase |-> "cts"], a) /\ dropped' = d
    <2>1. PICK h \in Via[n][m] :
            SendRts(n, [msg |-> m, next |-> h, phase |-> "cts"], a) /\ dropped' = d
      BY <1>2
    <2> DEFINE fl == [msg |-> m, next |-> h, phase |-> "cts"]
    <2>2. h \in Node
      BY ViaTyped
    <2>3. fl \in Flight /\ fl.msg = m /\ fl.next = h
      BY <2>2 DEF Flight
    <2> HIDE DEF fl
    <2>4. Sends(n, (q \ {m}) \cup {fl.msg}, a)
      BY <1>1, <2>1, <2>3, SendRtsSends DEF fl
    <2>5. (q \ {m}) \cup {fl.msg} = q
      BY <2>3
    <2> QED BY <2>1, <2>4, <2>5
  <1>3. CASE /\ flight' = [flight EXCEPT ![n] = None]
             /\ air' = a /\ dropped' = d \cup {<<n, m>>}
    <2>1. flight \in [Node -> Flight \cup {None}] /\ queue \in [Node -> SUBSET Msg]
      BY DEF TypeOK
    <2>2. queue' \in [Node -> SUBSET Msg] /\ queue'[n] = q \ {m}
          /\ \A k \in Node \ {n} : queue'[k] = queue[k]
      BY <1>1, <2>1
    <2>3. flight' \in [Node -> Flight \cup {None}] /\ flight'[n] = None
          /\ \A k \in Node \ {n} : flight'[k] = flight[k]
      BY <1>3, <2>1
    <2>4. Carried(flight'[n]) = {}
      BY <2>3 DEF Carried
    <2>5. dropped \subseteq dropped' /\ dropped' \subseteq Node \X Msg /\ <<n, m>> \in dropped'
      BY <1>3
    <2> QED BY <1>3, <2>2, <2>3, <2>4, <2>5 DEF Sends
  <1> QED BY <1>2, <1>3 DEF Issue

\* become_free loses nothing of the queue and the flight it is given.
LEMMA BecomeFreeSends ==
  ASSUME TypeOK, NEW n \in Node, NEW q \in SUBSET Msg, NEW fl \in Flight \cup {None}, NEW a,
         fl # None => fl.next \in Via[n][fl.msg],
         NEW d \in SUBSET (Node \X Msg), dropped \subseteq d, BecomeFree(n, q, fl, a, d)
  PROVE  Sends(n, q \cup Carried(fl), a) /\ d \subseteq dropped'
  <1>1. CASE /\ queue' = [queue EXCEPT ![n] = q]
             /\ flight' = [flight EXCEPT ![n] = fl]
             /\ air' = a /\ dropped' = d
    <2>1. flight \in [Node -> Flight \cup {None}] /\ queue \in [Node -> SUBSET Msg]
      BY DEF TypeOK
    <2>2. queue' \in [Node -> SUBSET Msg] /\ queue'[n] = q
          /\ \A k \in Node \ {n} : queue'[k] = queue[k]
      BY <1>1, <2>1
    <2>3. flight' \in [Node -> Flight \cup {None}] /\ flight'[n] = fl
          /\ \A k \in Node \ {n} : flight'[k] = flight[k]
      BY <1>1, <2>1
    <2> QED BY <1>1, <2>2, <2>3 DEF Sends
  <1>2. CASE fl = None /\ \E m \in q : Issue(n, q, m, a, d)
    <2>1. Sends(n, q, a) /\ d \subseteq dropped'
      BY <1>2, IssueSends
    <2>2. q \cup Carried(fl) = q
      BY <1>2 DEF Carried
    <2> QED BY <2>1, <2>2
  <1> QED BY <1>1, <1>2 DEF BecomeFree

\* A message that is dropped is accounted for too.
LEMMA SendsMore ==
  ASSUME NEW n \in Node, NEW K, NEW a, Sends(n, K, a), NEW m \in Msg, <<n, m>> \in dropped'
  PROVE  Sends(n, K \cup {m}, a)
  BY DEF Sends

Mine(n) == queue[n] \cup Carried(flight[n])

HonestFlight ==
  \A n \in Node : flight[n] # None => flight[n].next \in Via[n][flight[n].msg]

\* Nothing is sent.
LEMMA StillSends ==
  ASSUME TypeOK, HonestFlight, NEW n \in Node, UNCHANGED <<queue, flight, dropped>>
  PROVE  Sends(n, Mine(n), air')
  <1>1. queue' \in [Node -> SUBSET Msg] /\ flight' \in [Node -> Flight \cup {None}]
        /\ dropped' \subseteq Node \X Msg
    BY DEF TypeOK
  <1> QED BY <1>1 DEF Sends, Mine, HonestFlight

\* The flight goes into another phase.
LEMMA PhaseSends ==
  ASSUME TypeOK, HonestFlight, NEW n \in Node, flight[n] # None,
         NEW p \in {"cts", "data", "ack", "wait"},
         flight' = [flight EXCEPT ![n].phase = p], UNCHANGED <<queue, dropped>>
  PROVE  Sends(n, Mine(n), air')
  <1>1. flight \in [Node -> Flight \cup {None}] /\ flight[n] \in Flight
    BY DEF TypeOK
  <1> DEFINE up == [flight[n] EXCEPT !.phase = p]
  <1>2. up \in Flight /\ up.msg = flight[n].msg /\ up.next = flight[n].next
    BY <1>1 DEF Flight
  <1>3. flight' = [flight EXCEPT ![n] = up]
    BY <1>1
  <1> HIDE DEF up
  <1>4. flight' \in [Node -> Flight \cup {None}] /\ flight'[n] = up
        /\ \A k \in Node \ {n} : flight'[k] = flight[k]
    BY <1>1, <1>2, <1>3
  <1>5. Carried(up) = {flight[n].msg} /\ Carried(flight[n]) = {flight[n].msg}
    BY <1>1, <1>2, Nones DEF Carried
  <1>6. queue' \in [Node -> SUBSET Msg] /\ dropped' \subseteq Node \X Msg
    BY DEF TypeOK
  <1>7. flight[n].next \in Via[n][flight[n].msg]
    BY DEF HonestFlight
  <1> QED BY <1>2, <1>4, <1>5, <1>6, <1>7 DEF Sends, Mine

LEMMA ReleaseSends ==
  ASSUME TypeOK, NEW n \in Node, NEW a, Release(n, a)
  PROVE  Sends(n, queue[n], a)
  <1>1. queue[n] \in SUBSET Msg /\ dropped \in SUBSET (Node \X Msg)
    BY DEF TypeOK
  <1>2. Sends(n, queue[n] \cup Carried(None), a)
    BY <1>1, BecomeFreeSends DEF Release
  <1> QED BY <1>2 DEF Carried

LEMMA FlightMsg ==
  ASSUME TypeOK, NEW n \in Node, flight[n] # None
  PROVE  /\ flight[n] \in Flight /\ flight[n].msg \in Msg /\ flight[n].next \in Node
         /\ Mine(n) = queue[n] \cup {flight[n].msg}
  <1>1. flight[n] \in Flight
    BY DEF TypeOK
  <1> QED BY <1>1 DEF Flight, Mine, Carried

LEMMA GiveUpSends ==
  ASSUME TypeOK, NEW n \in Node, flight[n] # None, NEW a, GiveUp(n, a)
  PROVE  Sends(n, Mine(n), a)
  <1> DEFINE m == flight[n].msg
             d == dropped \cup {<<n, m>>}
  <1>1. m \in Msg /\ Mine(n) = queue[n] \cup {m}
    BY FlightMsg
  <1>2. queue[n] \in SUBSET Msg /\ d \in SUBSET (Node \X Msg) /\ dropped \subseteq d
    BY <1>1 DEF TypeOK
  <1>3. BecomeFree(n, queue[n], None, a, d)
    BY DEF GiveUp
  <1> HIDE DEF m, d
  <1>4. Sends(n, queue[n] \cup Carried(None), a) /\ d \subseteq dropped'
    BY <1>2, <1>3, BecomeFreeSends
  <1>5. Sends(n, queue[n], a) /\ <<n, m>> \in dropped'
    BY <1>4 DEF Carried, d
  <1> QED BY <1>1, <1>5, SendsMore

LEMMA TryCascadeRequeueSends ==
  ASSUME TypeOK, NEW n \in Node, flight[n] # None, NEW a, TryCascadeRequeue(n, a)
  PROVE  Sends(n, Mine(n), a)
  <1>1. CASE GiveUp(n, a)
    BY <1>1, GiveUpSends
  <1>2. CASE /\ queue' = [queue EXCEPT ![n] = @ \cup {flight[n].msg}]
             /\ flight' = [flight EXCEPT ![n] = None]
             /\ air' = a /\ UNCHANGED dropped
    <2>1. flight[n].msg \in Msg /\ Mine(n) = queue[n] \cup {flight[n].msg}
      BY FlightMsg
    <2>2. /\ flight \in [Node -> Flight \cup {None}] /\ queue \in [Node -> SUBSET Msg]
          /\ dropped \subseteq Node \X Msg
      BY DEF TypeOK
    <2>3. queue' \in [Node -> SUBSET Msg] /\ queue'[n] = Mine(n)
          /\ \A k \in Node \ {n} : queue'[k] = queue[k]
      BY <1>2, <2>1, <2>2
    <2>4. flight' \in [Node -> Flight \cup {None}] /\ flight'[n] = None
          /\ \A k \in Node \ {n} : flight'[k] = flight[k]
      BY <1>2, <2>2
    <2>5. Carried(flight'[n]) = {}
      BY <2>4 DEF Carried
    <2> QED BY <1>2, <2>2, <2>3, <2>4, <2>5 DEF Sends
  <1> QED BY <1>1, <1>2 DEF TryCascadeRequeue

LEMMA TakeAltSends ==
  ASSUME TypeOK, NEW n \in Node, flight[n] # None, NEW a, TakeAlt(n, a)
  PROVE  Sends(n, Mine(n), a)
  <1>1. PICK h \in Via[n][flight[n].msg] : SendRts(n, [flight[n] EXCEPT !.next = h], a)
    BY DEF TakeAlt
  <1> DEFINE fl == [flight[n] EXCEPT !.next = h]
  <1>2. flight[n] \in Flight /\ flight[n].msg \in Msg /\ Mine(n) = queue[n] \cup {flight[n].msg}
    BY FlightMsg
  <1>3. h \in Node
    BY <1>2, ViaTyped
  <1>4. fl \in Flight /\ fl.msg = flight[n].msg /\ fl.next = h
    BY <1>2, <1>3 DEF Flight
  <1>5. queue' = [queue EXCEPT ![n] = queue[n]] /\ queue[n] \in SUBSET Msg
        /\ dropped \subseteq dropped' /\ dropped' \subseteq Node \X Msg
    BY DEF TakeAlt, TypeOK
  <1> HIDE DEF fl
  <1>6. Sends(n, queue[n] \cup {fl.msg}, a)
    BY <1>1, <1>4, <1>5, SendRtsSends DEF fl
  <1> QED BY <1>2, <1>4, <1>6

----------------------------------------------------------------------------
\* The invariant

\* An announcement or a DATA is sent by a node that took the message on, along its
\* route; an ACK or a terminal CTS by one that the message has reached.
HonestFrame(f) ==
  /\ f.kind \in {"rts", "data"} => <<f.by, f.msg>> \in took /\ f.to \in Via[f.by][f.msg]
  /\ f.kind \in {"ack", "done"} => Reached(f.by, f.msg) /\ f.by \in Via[f.to][f.msg]

HonestAir == \A f \in air : HonestFrame(f)

HonestRx ==
  \A n \in Node :
    rx[n] # None => <<rx[n].from, rx[n].msg>> \in took /\ n \in Via[rx[n].from][rx[n].msg]

HonestDone ==
  \A n \in Node, h \in Node, m \in Msg :
    <<h, m>> \in done[n] => Reached(n, m) /\ n \in Via[h][m]

HonestSeen == \A n \in Node, m \in Msg : seen[n][m] # None => Reached(n, m)

HonestHold == \A n \in Node : \A m \in Held(n) : <<n, m>> \in took

Entered == \A n \in Node, m \in Msg : <<n, m>> \in took => <<Origin[m], m>> \in took

Honest ==
  /\ HonestFlight /\ HonestAir /\ HonestRx /\ HonestDone
  /\ HonestSeen /\ HonestHold /\ Entered

\* What n no longer keeps of its messages, a next hop has had.
Ended(n, K) == \A m \in Mine(n) : m \in K \/ \E h \in Via[n][m] : Reached(h, m)

\* The form of every step: of what it held, n keeps K; what it takes on, it holds.
Turn(n, K, a) ==
  /\ Sends(n, K, a)
  /\ \A f \in a : f \in air \/ (f \in Frame /\ HonestFrame(f)')
  /\ took \subseteq took' /\ refused \subseteq refused'
  /\ \A m \in Msg : delivered[m] > 0 => delivered'[m] > 0
  /\ \A m \in K : m \in Msg /\ <<n, m>> \in took'
  /\ \A k \in Node, m \in Msg :
       <<k, m>> \in took' =>
         \/ <<k, m>> \in took
         \/ k = n /\ (m \in K \/ m \in Carried(post'[n])) /\ <<Origin[m], m>> \in took'
  /\ \A k \in Node \ {n} : post'[k] = post[k]
  /\ \A m \in Carried(post[n]) :
       \/ m \in Carried(post'[n]) \/ m \in K \/ <<n, m>> \in dropped'
       \/ n = Dst[m] /\ delivered'[m] > 0
  /\ \A m \in Carried(post'[n]) : <<n, m>> \in took'
  /\ HonestRx' /\ HonestDone' /\ HonestSeen'

\* And what n lets go, a next hop has had, or it is delivered or dropped.
Accounts(n, K, a) == Turn(n, K, a) /\ Ended(n, K)

\* Such a step leaves everybody honest.
LEMMA TurnHonest ==
  ASSUME Honest, NEW n \in Node, NEW K, NEW a, Turn(n, K, a)
  PROVE  Honest'
  <1>1. /\ \A k \in Node \ {n} : queue'[k] = queue[k] /\ flight'[k] = flight[k]
        /\ \A m \in K : m \in queue'[n] \cup Carried(flight'[n]) \/ <<n, m>> \in dropped'
        /\ queue'[n] \cup Carried(flight'[n]) \subseteq K
        /\ flight'[n] # None => flight'[n].next \in Via[n][flight'[n].msg]
        /\ dropped \subseteq dropped'
        /\ \A f \in air' : \/ f \in a
                           \/ /\ f \in Frame /\ f.kind = "rts" /\ f.by = n
                              /\ f.msg \in K /\ f.to \in Via[n][f.msg]
    BY DEF Turn, Sends
  <1>2. took \subseteq took' /\ refused \subseteq refused'
    BY DEF Turn
  <1>3. ASSUME NEW h, NEW m, Reached(h, m)
        PROVE  Reached(h, m)'
    BY <1>2, <1>3 DEF Reached
  <1>4. HonestFlight'
    BY <1>1 DEF Honest, HonestFlight
  <1>5. HonestAir'
    <2> SUFFICES ASSUME NEW f \in air'
                 PROVE  HonestFrame(f)'
      BY DEF HonestAir
    <2>1. CASE f \in air
      <3>1. HonestFrame(f)
        BY <2>1 DEF Honest, HonestAir
      <3> QED BY <1>2, <1>3, <3>1 DEF HonestFrame
    <2>2. CASE f.kind = "rts" /\ f.by = n /\ f.msg \in K /\ f.to \in Via[n][f.msg]
      <3>1. <<f.by, f.msg>> \in took'
        BY <2>2 DEF Turn
      <3> QED BY <2>2, <3>1 DEF HonestFrame
    <2>3. CASE f \in a /\ f \notin air
      BY <2>3 DEF Turn
    <2> QED BY <1>1, <2>1, <2>2, <2>3
  <1>6. HonestRx' /\ HonestDone' /\ HonestSeen'
    BY DEF Turn
  <1>7. HonestHold'
    <2> SUFFICES ASSUME NEW k \in Node, NEW m \in Held(k)'
                 PROVE  <<k, m>> \in took'
      BY DEF HonestHold
    <2>1. CASE k = n
      BY <1>1, <2>1 DEF Held, Turn
    <2>2. CASE k # n
      <3>1. Held(k)' = Held(k)
        BY <1>1, <2>2 DEF Held, Turn
      <3> QED BY <1>2, <3>1 DEF Honest, HonestHold
    <2> QED BY <2>1, <2>2
  <1>8. Entered'
    BY <1>2 DEF Entered, Honest, Turn
  <1> QED BY <1>4, <1>5, <1>6, <1>7, <1>8 DEF Honest

\* Such a step leaves every message accounted for.
LEMMA AccountsKept ==
  ASSUME HandedOn, NEW n \in Node, NEW K, NEW a, Accounts(n, K, a)
  PROVE  HandedOn'
  <1> SUFFICES ASSUME NEW k \in Node, NEW m \in Msg, <<k, m>> \in took',
                      ~Holds(k, m)', ~(k = Dst[m] /\ delivered'[m] > 0), <<k, m>> \notin dropped'
               PROVE  \E h \in Via[k][m] : Reached(h, m)'
    BY DEF HandedOn
  <1>1. /\ \A i \in Node \ {n} : queue'[i] = queue[i] /\ flight'[i] = flight[i]
        /\ \A i \in K : i \in queue'[n] \cup Carried(flight'[n]) \/ <<n, i>> \in dropped'
        /\ dropped \subseteq dropped'
    BY DEF Accounts, Turn, Sends
  <1>2. \A h \in Via[k][m] : Reached(h, m) => Reached(h, m)'
    BY DEF Accounts, Turn, Reached
  <1>3. CASE k # n
    <2>1. Held(k)' = Held(k)
      BY <1>1, <1>3 DEF Held, Accounts, Turn
    <2>2. <<k, m>> \in took
      BY <1>3 DEF Accounts, Turn
    <2>3. ~Holds(k, m) /\ ~(k = Dst[m] /\ delivered[m] > 0) /\ <<k, m>> \notin dropped
      BY <1>1, <2>1 DEF Holds, Accounts, Turn
    <2> QED BY <1>2, <2>2, <2>3 DEF HandedOn
  <1>4. CASE k = n
    <2>1. m \notin K /\ m \notin Carried(post'[n])
      BY <1>1, <1>4 DEF Holds, Held
    <2>2. <<n, m>> \in took
      BY <1>4, <2>1 DEF Accounts, Turn
    <2>3. m \notin Carried(post[n])
      BY <1>4, <2>1 DEF Accounts, Turn
    <2>4. CASE m \in Mine(n)
      BY <1>2, <1>4, <2>1, <2>4 DEF Accounts, Ended
    <2>5. CASE m \notin Mine(n)
      <3>1. ~Holds(n, m) /\ ~(n = Dst[m] /\ delivered[m] > 0) /\ <<n, m>> \notin dropped
        BY <1>1, <1>4, <2>3, <2>5 DEF Holds, Held, Mine, Accounts, Turn
      <3> QED BY <1>2, <1>4, <2>2, <3>1 DEF HandedOn
    <2> QED BY <2>4, <2>5
  <1> QED BY <1>3, <1>4

----------------------------------------------------------------------------
\* The actions of a sender

\* What a turn at sending leaves has its type.
LEMMA SendsTyped ==
  ASSUME TypeOK, NEW n \in Node, NEW K, NEW a, Sends(n, K, a), \A f \in a : f \in Frame
  PROVE  /\ queue' \in [Node -> SUBSET Msg] /\ flight' \in [Node -> Flight \cup {None}]
         /\ air' \subseteq Frame /\ dropped' \subseteq Node \X Msg
  BY DEF Sends

Quiet == UNCHANGED <<hops, memory, history>>

Told(a) == \A f \in a : f \in air \/ (f \in Frame /\ HonestFrame(f))

\* A step that only sends, or stops sending.
LEMMA QuietTurn ==
  ASSUME TypeOK, Honest, NEW n \in Node, NEW K, NEW a, Sends(n, K, a), K \subseteq Mine(n),
         Quiet, Told(a)
  PROVE  TypeOK' /\ Turn(n, K, a)
  <1>1. \A f \in a : f \in Frame
    BY DEF TypeOK, Told
  <1>2. TypeOK'
    BY <1>1, SendsTyped DEF TypeOK, memory, history, Quiet
  <1>3. /\ rx' = rx /\ post' = post /\ seen' = seen /\ done' = done
        /\ took' = took /\ delivered' = delivered /\ refused' = refused
    BY DEF memory, history, Quiet
  <1>4. \A f \in a : f \in air \/ (f \in Frame /\ HonestFrame(f)')
    BY <1>3 DEF HonestFrame, Reached, Told
  <1>5. HonestRx' /\ HonestDone' /\ HonestSeen'
    BY <1>3 DEF Honest, HonestRx, HonestDone, HonestSeen, Reached
  <1>6. \A m \in K : m \in Msg /\ <<n, m>> \in took'
    BY <1>3 DEF Honest, HonestHold, Held, Mine, TypeOK, Carried, Flight
  <1>7. \A m \in Carried(post'[n]) : <<n, m>> \in took'
    BY <1>3 DEF Honest, HonestHold, Held
  <1>8. /\ took \subseteq took' /\ refused \subseteq refused'
        /\ \A m \in Msg : delivered[m] > 0 => delivered'[m] > 0
        /\ \A k \in Node \ {n} : post'[k] = post[k]
        /\ \A m \in Carried(post[n]) : m \in Carried(post'[n])
        /\ \A k \in Node, m \in Msg : <<k, m>> \in took' => <<k, m>> \in took
    BY <1>3
  <1> QED BY <1>2, <1>4, <1>5, <1>6, <1>7, <1>8 DEF Turn

\* A step that only sends, or stops sending what has arrived.
LEMMA QuietStep ==
  ASSUME TypeOK, Honest, NEW n \in Node, NEW K, NEW a, Sends(n, K, a), K \subseteq Mine(n),
         Quiet, Told(a), Ended(n, K)
  PROVE  TypeOK' /\ Accounts(n, K, a)
  BY QuietTurn DEF Accounts

\* A step that keeps all that the node had, and adds nothing to the air but announcements.
LEMMA QuietAll ==
  ASSUME TypeOK, Honest, NEW n \in Node, NEW a, Sends(n, Mine(n), a), a \subseteq air, Quiet
  PROVE  TypeOK' /\ \E K, b : Accounts(n, K, b)
  <1>1. Told(a) /\ Ended(n, Mine(n))
    BY DEF Told, Ended
  <1> QED BY <1>1, QuietStep

LEMMA TimeoutsStep ==
  ASSUME TypeOK, Honest, NEW n \in Node, RtsTimeoutFire(n) \/ AckTimeoutFire(n)
  PROVE  TypeOK' /\ \E K, a : Accounts(n, K, a)
  <1>1. flight[n] # None /\ Quiet
    BY DEF Quiet, RtsTimeoutFire, AckTimeoutFire, InPhase
  <1>2. \E a : Sends(n, Mine(n), a) /\ a \subseteq air
    <2>1. CASE TakeAlt(n, air)
      BY <1>1, <2>1, TakeAltSends
    <2>2. CASE TryCascadeRequeue(n, air)
      BY <1>1, <2>2, TryCascadeRequeueSends
    <2>3. CASE flight' = [flight EXCEPT ![n].phase = "wait"] /\ UNCHANGED <<queue, air, dropped>>
      BY <1>1, <2>3, PhaseSends DEF Honest
    <2> QED BY <2>1, <2>2, <2>3 DEF RtsTimeoutFire, AckTimeoutFire, CascadeToAlt
  <1> QED BY <1>1, <1>2, QuietAll

LEMMA RetryFireStep ==
  ASSUME TypeOK, Honest, NEW n \in Node, RetryFire(n)
  PROVE  TypeOK' /\ \E K, a : Accounts(n, K, a)
  <1>1. flight[n] # None /\ Quiet /\ SendRts(n, flight[n], air)
    BY DEF RetryFire, Quiet
  <1>2. flight[n] \in Flight /\ Mine(n) = queue[n] \cup {flight[n].msg}
    BY <1>1, FlightMsg
  <1>3. flight[n].next \in Via[n][flight[n].msg]
    BY <1>1 DEF Honest, HonestFlight
  <1>4. queue' = [queue EXCEPT ![n] = queue[n]] /\ queue[n] \in SUBSET Msg
        /\ dropped \subseteq dropped' /\ dropped' \subseteq Node \X Msg
    BY DEF RetryFire, TypeOK
  <1>5. Sends(n, Mine(n), air)
    BY <1>1, <1>2, <1>3, <1>4, SendRtsSends
  <1> QED BY <1>1, <1>5, QuietAll

LEMMA DoDataTxStep ==
  ASSUME TypeOK, Honest, NEW n \in Node, DoDataTx(n)
  PROVE  TypeOK' /\ \E K, a : Accounts(n, K, a)
  <1>1. flight[n] # None /\ Quiet
    BY DEF DoDataTx, InPhase, Quiet
  <1>2. CASE GiveUp(n, air)
    <2>1. Sends(n, Mine(n), air)
      BY <1>1, <1>2, GiveUpSends
    <2> QED BY <1>1, <2>1, QuietAll
  <1>3. ASSUME flight' = [flight EXCEPT ![n].phase = "ack"], UNCHANGED <<queue, dropped>>,
               air' = air \cup {[F("data", n, flight[n].next, flight[n].msg) EXCEPT
                                   !.hops = hops[n][flight[n].msg]]}
        PROVE  TypeOK' /\ \E K, a : Accounts(n, K, a)
    <2> DEFINE g == [F("data", n, flight[n].next, flight[n].msg) EXCEPT
                       !.hops = hops[n][flight[n].msg]]
    <2>1. flight[n].msg \in Msg /\ flight[n].next \in Node
      BY <1>1, FlightMsg
    <2>2. hops[n][flight[n].msg] \in Nat
      BY <2>1 DEF TypeOK
    <2>3. g \in Frame
      BY <2>1, <2>2 DEF F, Frame
    <2>4. g.kind = "data" /\ g.by = n /\ g.to = flight[n].next /\ g.msg = flight[n].msg
      BY DEF F
    <2>5. <<n, flight[n].msg>> \in took /\ flight[n].next \in Via[n][flight[n].msg]
      BY <1>1 DEF Honest, HonestFlight, HonestHold, Held, Carried
    <2>6. HonestFrame(g)
      <3> HIDE DEF g
      <3> QED BY <2>4, <2>5 DEF HonestFrame
    <2>7. Sends(n, Mine(n), air')
      BY <1>1, <1>3, PhaseSends DEF Honest
    <2>8. air' = air \cup {g}
      BY <1>3
    <2> HIDE DEF g
    <2>9. Told(air') /\ Ended(n, Mine(n))
      BY <2>3, <2>6, <2>8 DEF Told, Ended
    <2> QED BY <1>1, <2>7, <2>9, QuietStep
  <1> QED BY <1>2, <1>3 DEF DoDataTx

LEMMA WakeUpStep ==
  ASSUME TypeOK, Honest, NEW n \in Node, WakeUp(n)
  PROVE  TypeOK' /\ \E K, a : Accounts(n, K, a)
  <1>1. PICK m \in queue[n] : Issue(n, queue[n], m, air, dropped)
    BY DEF WakeUp
  <1>2. queue[n] \in SUBSET Msg /\ dropped \in SUBSET (Node \X Msg)
    BY DEF TypeOK
  <1>3. Sends(n, queue[n], air)
    BY <1>1, <1>2, IssueSends
  <1>4. Mine(n) = queue[n]
    BY DEF WakeUp, Mine, Carried
  <1> QED BY <1>3, <1>4, QuietAll DEF WakeUp, Quiet

LEMMA HearCtsStep ==
  ASSUME TypeOK, Honest, NEW n \in Node, NEW f \in air, HearCts(n, f)
  PROVE  TypeOK' /\ \E K, a : Accounts(n, K, a)
  <1>1. Sends(n, Mine(n), air')
    <2>1. CASE UNCHANGED flight
      BY <2>1, StillSends DEF HearCts, Honest
    <2>2. CASE flight[n] # None /\ flight' = [flight EXCEPT ![n].phase = "data"]
      BY <2>2, PhaseSends DEF HearCts, Honest
    <2> QED BY <2>1, <2>2 DEF HearCts, InPhase
  <1>2. Quiet /\ air' \subseteq air
    BY DEF HearCts, Quiet
  <1> QED BY <1>1, <1>2, QuietAll

\* A flight ends because a next hop has had the message.
LEMMA EndedStep ==
  ASSUME TypeOK, Honest, NEW n \in Node, flight[n] # None, NEW a \in SUBSET air, Release(n, a),
         Quiet, \E h \in Via[n][flight[n].msg] : Reached(h, flight[n].msg)
  PROVE  TypeOK' /\ \E K, b : Accounts(n, K, b)
  <1>1. Sends(n, queue[n], a)
    BY ReleaseSends
  <1>2. Mine(n) = queue[n] \cup {flight[n].msg}
    BY FlightMsg
  <1>3. Ended(n, queue[n]) /\ Told(a)
    BY <1>2 DEF Ended, Told
  <1> QED BY <1>1, <1>2, <1>3, QuietStep

\* A frame is consumed and nothing else happens.
LEMMA IgnoredStep ==
  ASSUME TypeOK, Honest, NEW n \in Node, air' \subseteq air,
         UNCHANGED <<queue, flight, dropped>>, Quiet
  PROVE  TypeOK' /\ \E K, a : Accounts(n, K, a)
  <1>1. Sends(n, Mine(n), air')
    BY StillSends DEF Honest
  <1> QED BY <1>1, QuietAll

LEMMA HearDoneStep ==
  ASSUME TypeOK, Honest, NEW n \in Node, NEW f \in air, HearDone(n, f), f.to = n
  PROVE  TypeOK' /\ \E K, a : Accounts(n, K, a)
  <1>1. CASE BoundToFlight(n, f)
    <2>1. Reached(f.by, f.msg) /\ f.by \in Via[n][f.msg]
      BY DEF Honest, HonestAir, HonestFrame, HearDone
    <2> QED BY <1>1, <2>1, EndedStep DEF Quiet, HearDone, BoundToFlight, InPhase
  <1>2. CASE ~BoundToFlight(n, f)
    BY <1>2, IgnoredStep DEF HearDone, Quiet
  <1> QED BY <1>1, <1>2

\* No two messages on their way have the same low counter bits.
DistinctCounters == \A m \in Msg, k \in Msg : Lo[m] = Lo[k] => m = k

LEMMA HearAckStep ==
  ASSUME DistinctCounters, TypeOK, Honest, NEW n \in Node, NEW f \in air, HearAck(n, f), f.to = n
  PROVE  TypeOK' /\ \E K, a : Accounts(n, K, a)
  <1>1. CASE AckOfFlight(n, f)
    <2>1. Reached(f.by, f.msg) /\ f.by \in Via[n][f.msg]
      BY DEF Honest, HonestAir, HonestFrame, HearAck
    <2>2. flight[n] # None /\ f.msg = flight[n].msg
      <3>1. flight[n] # None /\ Lo[f.msg] = Lo[flight[n].msg]
        BY <1>1 DEF AckOfFlight, InPhase
      <3>2. flight[n].msg \in Msg /\ f.msg \in Msg
        BY <3>1, FlightMsg DEF TypeOK, Frame
      <3> QED BY <3>1, <3>2 DEF DistinctCounters
    <2> QED BY <1>1, <2>1, <2>2, EndedStep DEF Quiet, HearAck
  <1>2. CASE ~AckOfFlight(n, f)
    BY <1>2, IgnoredStep DEF HearAck, Quiet
  <1> QED BY <1>1, <1>2

LEMMA OverhearStep ==
  ASSUME TypeOK, Honest, NEW n \in Node, NEW f \in air, Overhear(n, f)
  PROVE  TypeOK' /\ \E K, a : Accounts(n, K, a)
  <1>1. flight[n] # None /\ f.by = flight[n].next /\ f.msg = flight[n].msg
    BY DEF Overhear, SentOn
  <1>2. Reached(f.by, f.msg)
    BY DEF Honest, HonestAir, HonestFrame, Overhear, Reached
  <1>3. f.by \in Via[n][flight[n].msg]
    BY <1>1 DEF Honest, HonestFlight
  <1> QED BY <1>1, <1>2, <1>3, EndedStep DEF Quiet, Overhear

LEMMA HearNackStep ==
  ASSUME TypeOK, Honest, NEW n \in Node, NEW f \in air, HearNack(n, f)
  PROVE  TypeOK' /\ \E K, a : Accounts(n, K, a)
  <1> DEFINE a == air \ {f}
  <1>1. Quiet /\ a \subseteq air
    BY DEF HearNack, Quiet
  <1>2. CASE UNCHANGED <<queue, flight, dropped>> /\ air' = a
    BY <1>1, <1>2, IgnoredStep
  <1>3. CASE flight[n] # None /\ (TakeAlt(n, a) \/ GiveUp(n, a) \/ TryCascadeRequeue(n, a))
    <2>1. Sends(n, Mine(n), a)
      BY <1>3, TakeAltSends, GiveUpSends, TryCascadeRequeueSends
    <2> QED BY <1>1, <2>1, QuietAll
  <1>4. CASE flight[n] # None /\ BusyPeer(n, a)
    <2>1. \E b : Sends(n, Mine(n), b) /\ b \subseteq air
      <3>1. CASE GiveUp(n, a)
        BY <1>1, <1>4, <3>1, GiveUpSends
      <3>2. CASE BecomeFree(n, queue[n] \cup {flight[n].msg}, None, a, dropped)
        <4>1. Mine(n) = queue[n] \cup {flight[n].msg} /\ Mine(n) \in SUBSET Msg
          BY <1>4, FlightMsg DEF TypeOK
        <4>2. dropped \in SUBSET (Node \X Msg)
          BY DEF TypeOK
        <4>3. Sends(n, Mine(n) \cup Carried(None), a)
          BY <3>2, <4>1, <4>2, BecomeFreeSends
        <4> QED BY <1>1, <4>3 DEF Carried
      <3>3. CASE /\ flight' = [flight EXCEPT ![n].phase = IF @ = "data" THEN "data" ELSE "wait"]
                 /\ air' = a /\ UNCHANGED <<queue, dropped>>
        <4> DEFINE p == IF flight[n].phase = "data" THEN "data" ELSE "wait"
        <4>1. p \in {"cts", "data", "ack", "wait"}
          OBVIOUS
        <4>2. flight' = [flight EXCEPT ![n].phase = p]
          BY <3>3
        <4> HIDE DEF p
        <4>3. Sends(n, Mine(n), air')
          BY <1>4, <3>3, <4>1, <4>2, PhaseSends DEF Honest
        <4> QED BY <1>1, <3>3, <4>3
      <3> QED BY <1>4, <3>1, <3>2, <3>3 DEF BusyPeer
    <2> QED BY <1>1, <2>1, QuietAll
  <1> QED BY <1>2, <1>3, <1>4 DEF HearNack

----------------------------------------------------------------------------
\* The actions that take a message on or deliver it

\* What is honest stays so while history only grows.
LEMMA Grows ==
  ASSUME took \subseteq took', refused \subseteq refused'
  PROVE  /\ rx' = rx /\ HonestRx => HonestRx'
         /\ done' = done /\ HonestDone => HonestDone'
         /\ seen' = seen /\ HonestSeen => HonestSeen'
         /\ \A h, m : Reached(h, m) => Reached(h, m)'
  BY DEF HonestRx, HonestDone, HonestSeen, Reached

LEMMA SendStep ==
  ASSUME TypeOK, Honest, NEW m \in Msg, Send(m)
  PROVE  TypeOK' /\ \E K, a : Accounts(Origin[m], K, a)
  <1> DEFINE n == Origin[m]
             K == Mine(n) \cup {m}
  <1>1. n \in Node
    BY RouteAssumption
  <1>2. /\ <<n, m>> \notin took /\ took' = took \cup {<<n, m>>}
        /\ hops' = hops /\ rx' = rx /\ post' = post /\ seen' = seen /\ done' = done
        /\ delivered' = delivered /\ refused' = refused /\ forgotten' = forgotten
    BY DEF Send, memory
  <1>3. queue[n] \in SUBSET Msg /\ flight[n] \in Flight \cup {None}
        /\ dropped \in SUBSET (Node \X Msg)
        /\ (flight[n] # None => flight[n].next \in Via[n][flight[n].msg])
    BY <1>1 DEF TypeOK, Honest, HonestFlight
  <1>4. Sends(n, K, air)
    <2>1. CASE BecomeFree(n, queue[n] \cup {m}, flight[n], air, dropped)
      <3>1. Sends(n, (queue[n] \cup {m}) \cup Carried(flight[n]), air)
        BY <1>1, <1>3, <2>1, BecomeFreeSends
      <3>2. (queue[n] \cup {m}) \cup Carried(flight[n]) = K
        BY DEF Mine
      <3> QED BY <3>1, <3>2
    <2>2. CASE BecomeFree(n, queue[n], flight[n], air, dropped \cup {<<n, m>>})
      <3> DEFINE d == dropped \cup {<<n, m>>}
      <3>1. d \in SUBSET (Node \X Msg) /\ dropped \subseteq d
        BY <1>1, <1>3
      <3>2. Sends(n, queue[n] \cup Carried(flight[n]), air) /\ d \subseteq dropped'
        BY <1>1, <1>3, <2>2, <3>1, BecomeFreeSends
      <3>3. <<n, m>> \in dropped'
        BY <3>2
      <3> QED BY <1>1, <3>2, <3>3, SendsMore DEF Mine
    <2> QED BY <2>1, <2>2 DEF Send
  <1> HIDE DEF n
  <1>5. TypeOK'
    <2>1. /\ queue' \in [Node -> SUBSET Msg] /\ flight' \in [Node -> Flight \cup {None}]
          /\ air' \subseteq Frame /\ dropped' \subseteq Node \X Msg
      BY <1>1, <1>4, SendsTyped DEF TypeOK
    <2>2. took' \in SUBSET (Node \X Msg)
      BY <1>1, <1>2 DEF TypeOK
    <2> QED BY <1>2, <2>1, <2>2 DEF TypeOK
  <1>6. HonestRx' /\ HonestDone' /\ HonestSeen'
    BY <1>2, Grows DEF Honest
  <1>7. \A k \in K : k \in Msg /\ <<n, k>> \in took'
    BY <1>1, <1>2, <1>3 DEF Honest, HonestHold, Held, Mine, Carried, Flight
  <1>8. \A k \in Carried(post'[n]) : <<n, k>> \in took'
    BY <1>1, <1>2 DEF Honest, HonestHold, Held
  <1>9. \A k \in Node, j \in Msg :
          <<k, j>> \in took' => \/ <<k, j>> \in took
                                \/ k = n /\ j \in K /\ <<Origin[j], j>> \in took'
    BY <1>2 DEF n
  <1> HIDE DEF K
  <1>10. Mine(n) \subseteq K
    BY DEF K
  <1>11. Accounts(n, K, air)
    BY <1>2, <1>4, <1>6, <1>7, <1>8, <1>9, <1>10 DEF Accounts, Turn, Ended
  <1> QED BY <1>5, <1>11 DEF n

\* While post goes, the flight and the queue may be served.
LEMMA DoPostAckStep ==
  ASSUME TypeOK, Honest, NEW n \in Node, DoPostAck(n)
  PROVE  TypeOK' /\ \E K, a : Accounts(n, K, a)
  <1> DEFINE m == post[n].msg
  <1>1. /\ post[n] # None /\ post' = [post EXCEPT ![n] = None]
        /\ rx' = rx /\ seen' = seen /\ done' = done
        /\ took' = took /\ refused' = refused /\ forgotten' = forgotten
    BY DEF DoPostAck
  <1>2. m \in Msg /\ post[n].hops \in Nat /\ Carried(post[n]) = {m} /\ <<n, m>> \in took
    BY <1>1 DEF TypeOK, Accepted, Carried, Honest, HonestHold, Held
  <1>3. queue[n] \in SUBSET Msg /\ flight[n] \in Flight \cup {None}
        /\ dropped \in SUBSET (Node \X Msg)
        /\ (flight[n] # None => flight[n].next \in Via[n][flight[n].msg])
    BY DEF TypeOK, Honest, HonestFlight
  <1>4. HonestRx' /\ HonestDone' /\ HonestSeen'
    BY <1>1, Grows DEF Honest
  <1>5. post' \in [Node -> Accepted \cup {None}] /\ post'[n] = None
        /\ (\A k \in Node \ {n} : post'[k] = post[k]) /\ Carried(post'[n]) = {}
    BY <1>1 DEF TypeOK, Carried
  <1>6. \A k \in Mine(n) : k \in Msg /\ <<n, k>> \in took
    BY <1>3 DEF Honest, HonestHold, Held, Mine, Carried, Flight
  <1>7. CASE Dst[m] = n
    <2>1. /\ delivered' = [delivered EXCEPT ![m] = @ + 1] /\ UNCHANGED hops
          /\ BecomeFree(n, queue[n], flight[n], air, dropped)
      BY <1>7 DEF DoPostAck
    <2>2. Sends(n, Mine(n), air)
      BY <1>3, <2>1, BecomeFreeSends DEF Mine
    <2>3. delivered' \in [Msg -> Nat] /\ delivered'[m] > 0
          /\ \A k \in Msg : delivered[k] > 0 => delivered'[k] > 0
      BY <1>2, <2>1 DEF TypeOK
    <2>4. TypeOK'
      <3>1. /\ queue' \in [Node -> SUBSET Msg] /\ flight' \in [Node -> Flight \cup {None}]
            /\ air' \subseteq Frame /\ dropped' \subseteq Node \X Msg
        BY <2>2, SendsTyped DEF TypeOK
      <3> QED BY <1>1, <1>5, <2>1, <2>3, <3>1 DEF TypeOK
    <2>5. Accounts(n, Mine(n), air)
      BY <1>1, <1>2, <1>4, <1>5, <1>6, <1>7, <2>2, <2>3 DEF Accounts, Turn, Ended
    <2> QED BY <2>4, <2>5
  <1>8. CASE Dst[m] # n
    <2> DEFINE K == Mine(n) \cup {m}
    <2>1. /\ hops' = [hops EXCEPT ![n][m] = post[n].hops] /\ delivered' = delivered
      BY <1>8 DEF DoPostAck
    <2>2. Sends(n, K, air)
      <3>1. CASE BecomeFree(n, queue[n] \cup {m}, flight[n], air, dropped)
        <4>1. Sends(n, (queue[n] \cup {m}) \cup Carried(flight[n]), air)
          BY <1>2, <1>3, <3>1, BecomeFreeSends
        <4>2. (queue[n] \cup {m}) \cup Carried(flight[n]) = K
          BY DEF Mine
        <4> QED BY <4>1, <4>2
      <3>2. CASE BecomeFree(n, queue[n], flight[n], air, dropped \cup {<<n, m>>})
        <4> DEFINE d == dropped \cup {<<n, m>>}
        <4>1. d \in SUBSET (Node \X Msg) /\ dropped \subseteq d
          BY <1>2, <1>3
        <4>2. Sends(n, queue[n] \cup Carried(flight[n]), air) /\ d \subseteq dropped'
          BY <1>3, <3>2, <4>1, BecomeFreeSends
        <4>3. <<n, m>> \in dropped'
          BY <4>2
        <4> QED BY <1>2, <4>2, <4>3, SendsMore DEF Mine
      <3> QED BY <1>8, <3>1, <3>2 DEF DoPostAck
    <2>3. hops' \in [Node -> [Msg -> Nat]]
      BY <1>2, <2>1 DEF TypeOK
    <2>4. TypeOK'
      <3>1. /\ queue' \in [Node -> SUBSET Msg] /\ flight' \in [Node -> Flight \cup {None}]
            /\ air' \subseteq Frame /\ dropped' \subseteq Node \X Msg
        BY <2>2, SendsTyped DEF TypeOK
      <3> QED BY <1>1, <1>5, <2>1, <2>3, <3>1 DEF TypeOK
    <2>5. Accounts(n, K, air)
      BY <1>1, <1>2, <1>4, <1>5, <1>6, <2>1, <2>2 DEF Accounts, Turn, Ended
    <2> QED BY <2>4, <2>5
  <1> QED BY <1>7, <1>8

----------------------------------------------------------------------------
\* The actions of a receiver

\* A reception that leaves `post` alone keeps what the node has.
LEMMA ReceivesStep ==
  ASSUME TypeOK, Honest, NEW n \in Node, NEW a, Sends(n, Mine(n), a),
         \A f \in a : f \in air \/ (f \in Frame /\ HonestFrame(f)'),
         UNCHANGED <<post, took, delivered>>, refused \subseteq refused',
         HonestRx', HonestDone', HonestSeen'
  PROVE  Accounts(n, Mine(n), a)
  <1>1. queue[n] \in SUBSET Msg /\ flight[n] \in Flight \cup {None}
    BY DEF TypeOK
  <1>2. \A m \in Mine(n) : m \in Msg /\ <<n, m>> \in took
    BY <1>1 DEF Honest, HonestHold, Held, Mine, Carried, Flight
  <1>3. \A m \in Carried(post[n]) : <<n, m>> \in took
    BY DEF Honest, HonestHold, Held
  <1> QED BY <1>2, <1>3 DEF Accounts, Turn, Ended

\* Nothing is heard: a frame is lost, or the wait for a DATA ends.
LEMMA PendingRxExpiryStep ==
  ASSUME TypeOK, Honest, NEW n \in Node, PendingRxExpiryFire(n)
  PROVE  TypeOK' /\ \E K, a : Accounts(n, K, a)
  <1>1. /\ rx' = [rx EXCEPT ![n] = None] /\ hops' = hops
        /\ UNCHANGED <<post, took, delivered>>
        /\ seen' = seen /\ done' = done /\ refused' = refused /\ forgotten' = forgotten
        /\ BecomeFree(n, queue[n], flight[n], air, dropped)
    BY DEF PendingRxExpiryFire, history
  <1>2. queue[n] \in SUBSET Msg /\ flight[n] \in Flight \cup {None}
        /\ dropped \in SUBSET (Node \X Msg)
        /\ (flight[n] # None => flight[n].next \in Via[n][flight[n].msg])
    BY DEF TypeOK, Honest, HonestFlight
  <1>3. Sends(n, Mine(n), air)
    BY <1>1, <1>2, BecomeFreeSends DEF Mine
  <1>4. rx' \in [Node -> Announced \cup {None}] /\ rx'[n] = None
        /\ \A k \in Node \ {n} : rx'[k] = rx[k]
    BY <1>1 DEF TypeOK
  <1>5. HonestRx'
    BY <1>1, <1>4 DEF HonestRx, Honest
  <1>6. HonestDone' /\ HonestSeen'
    BY <1>1, Grows DEF Honest
  <1>7. TypeOK'
    <2>1. /\ queue' \in [Node -> SUBSET Msg] /\ flight' \in [Node -> Flight \cup {None}]
          /\ air' \subseteq Frame /\ dropped' \subseteq Node \X Msg
      BY <1>3, SendsTyped DEF TypeOK
    <2> QED BY <1>1, <1>4, <2>1 DEF TypeOK
  <1>8. Accounts(n, Mine(n), air)
    BY <1>1, <1>3, <1>5, <1>6, ReceivesStep
  <1> QED BY <1>7, <1>8

\* What a receiver reads of an announcement or a DATA addressed to it.
LEMMA HeardFrame ==
  ASSUME TypeOK, NEW f \in air
  PROVE  f \in Frame /\ f.by \in Node /\ f.to \in Node /\ f.msg \in Msg /\ f.hops \in Nat
  BY DEF TypeOK, Frame

\* The ways handle_rts ends: a terminal CTS, a CTS, a refusal, silence.
LEMMA HearRtsCases ==
  ASSUME NEW n, NEW f, HearRts(n, f)
  PROVE  /\ f.kind = "rts"
         /\ UNCHANGED <<queue, flight, hops, post, seen, done, history, dropped>>
         /\ \/ /\ <<f.by, f.msg>> \in done[n] /\ rx' = rx
               /\ air' = (air \ {f}) \cup {F("done", n, f.by, f.msg)}
            \/ /\ rx' = [rx EXCEPT ![n] = [from |-> f.by, msg |-> f.msg]]
               /\ air' = (air \ {f}) \cup {F("cts", n, f.by, f.msg)}
            \/ /\ rx' = rx
               /\ \/ air' = (air \ {f}) \cup {F("busyRx", n, f.by, f.msg)}
                  \/ air' = (air \ {f}) \cup {F("budget", n, f.by, f.msg)}
                  \/ air' = air \ {f}
  BY DEF HearRts

LEMMA HearRtsStep ==
  ASSUME TypeOK, Honest, NEW n \in Node, NEW f \in air, HearRts(n, f), f.to = n
  PROVE  TypeOK' /\ \E K, a : Accounts(n, K, a)
  <1>1. f \in Frame /\ f.by \in Node /\ f.msg \in Msg
    BY HeardFrame
  <1>2. f.kind = "rts" /\ <<f.by, f.msg>> \in took /\ n \in Via[f.by][f.msg]
    BY DEF HearRts, Honest, HonestAir, HonestFrame
  <1>3. /\ UNCHANGED <<queue, flight, dropped>> /\ UNCHANGED <<post, took, delivered>>
        /\ hops' = hops /\ seen' = seen /\ done' = done
        /\ refused' = refused /\ forgotten' = forgotten
    BY HearRtsCases DEF history
  <1>4. Sends(n, Mine(n), air')
    BY <1>3, StillSends DEF Honest
  <1>5. HonestDone' /\ HonestSeen'
    BY <1>3, Grows DEF Honest
  <1>6. rx' \in [Node -> Announced \cup {None}] /\ HonestRx'
    <2>1. CASE rx' = rx
      BY <1>3, <2>1, Grows DEF TypeOK, Honest
    <2>2. CASE rx' = [rx EXCEPT ![n] = [from |-> f.by, msg |-> f.msg]]
      <3> DEFINE r == [from |-> f.by, msg |-> f.msg]
      <3>1. r \in Announced /\ r.from = f.by /\ r.msg = f.msg
        BY <1>1 DEF Announced
      <3> HIDE DEF r
      <3>2. rx' \in [Node -> Announced \cup {None}] /\ rx'[n] = r
            /\ \A k \in Node \ {n} : rx'[k] = rx[k]
        BY <2>2, <3>1 DEF TypeOK, r
      <3>3. HonestRx'
        <4> SUFFICES ASSUME NEW k \in Node, rx'[k] # None
                     PROVE  <<rx'[k].from, rx'[k].msg>> \in took' /\ k \in Via[rx'[k].from][rx'[k].msg]
          BY DEF HonestRx
        <4>1. CASE k = n
          BY <1>2, <1>3, <3>1, <3>2, <4>1
        <4>2. CASE k # n
          BY <1>3, <3>2, <4>2 DEF Honest, HonestRx
        <4> QED BY <4>1, <4>2
      <3> QED BY <3>2, <3>3
    <2> QED BY <2>1, <2>2, HearRtsCases
  <1>7. \A g \in air' : g \in air \/ (g \in Frame /\ HonestFrame(g))
    <2>1. ASSUME NEW kind \in Kind, kind \notin {"rts", "data", "ack", "done"},
                 NEW g, g = F(kind, n, f.by, f.msg)
          PROVE  g \in Frame /\ HonestFrame(g)
      <3>1. g \in Frame /\ g.kind = kind
        BY <1>1, <2>1, FrameTyped
      <3> QED BY <2>1, <3>1 DEF HonestFrame
    <2>2. CASE air' = air \ {f}
      BY <2>2
    <2>3. CASE air' = (air \ {f}) \cup {F("cts", n, f.by, f.msg)}
      BY <2>1, <2>3, Kinds
    <2>4. CASE air' = (air \ {f}) \cup {F("busyRx", n, f.by, f.msg)}
      BY <2>1, <2>4, Kinds
    <2>5. CASE air' = (air \ {f}) \cup {F("budget", n, f.by, f.msg)}
      BY <2>1, <2>5, Kinds
    <2>6. CASE <<f.by, f.msg>> \in done[n] /\ air' = (air \ {f}) \cup {F("done", n, f.by, f.msg)}
      <3> DEFINE g == F("done", n, f.by, f.msg)
      <3>1. g \in Frame /\ g.kind = "done" /\ g.by = n /\ g.to = f.by /\ g.msg = f.msg
        BY <1>1, FrameTyped, Kinds
      <3>2. Reached(n, f.msg)
        BY <1>1, <2>6 DEF Honest, HonestDone
      <3>3. HonestFrame(g)
        BY <1>2, <3>1, <3>2 DEF HonestFrame
      <3> QED BY <2>6, <3>1, <3>3
    <2> QED BY <2>2, <2>3, <2>4, <2>5, <2>6, HearRtsCases
  <1>8. \A g \in air' : g \in air \/ (g \in Frame /\ HonestFrame(g)')
    BY <1>3, <1>7 DEF HonestFrame, Reached
  <1>9. TypeOK'
    <2>1. air' \subseteq Frame
      BY <1>7 DEF TypeOK
    <2> QED BY <1>3, <1>6, <2>1 DEF TypeOK
  <1>10. Accounts(n, Mine(n), air')
    BY <1>3, <1>4, <1>5, <1>6, <1>8, ReceivesStep
  <1> QED BY <1>9, <1>10

\* A message is known once it is recorded; what is no longer known was forgotten.
LEMMA RecordSeenKept ==
  ASSUME TypeOK, NEW n \in Node, NEW m \in Msg, NEW from \in Node, RecordSeen(n, m, from)
  PROVE  /\ seen' \in [Node -> [Msg -> Node \cup {None}]]
         /\ forgotten' \in SUBSET (Node \X Msg) /\ forgotten \subseteq forgotten'
         /\ seen'[n][m] # None
         /\ \A k \in Node \ {n} : seen'[k] = seen[k]
         /\ \A j \in Msg : /\ seen'[n][j] # None => j = m \/ seen[n][j] # None
                           /\ seen[n][j] # None => seen'[n][j] # None \/ <<n, j>> \in forgotten'
  <1>1. seen \in [Node -> [Msg -> Node \cup {None}]] /\ forgotten \in SUBSET (Node \X Msg)
    BY DEF TypeOK
  <1>2. CASE seen' = [seen EXCEPT ![n][m] = from] /\ UNCHANGED forgotten
    <2>1. from # None
      BY Nones
    <2> QED BY <1>1, <1>2, <2>1
  <1>3. CASE /\ m \notin Known(n)
             /\ \E old \in Known(n) :
                  /\ seen' = [seen EXCEPT ![n] = [@ EXCEPT ![m] = from, ![old] = None]]
                  /\ forgotten' = forgotten \cup {<<n, old>>}
    <2>1. PICK old \in Known(n) :
            /\ seen' = [seen EXCEPT ![n] = [@ EXCEPT ![m] = from, ![old] = None]]
            /\ forgotten' = forgotten \cup {<<n, old>>}
      BY <1>3
    <2>2. old \in Msg /\ old # m /\ from # None
      BY <1>3, Nones DEF Known
    <2> DEFINE row == [seen[n] EXCEPT ![m] = from, ![old] = None]
    <2>3. row \in [Msg -> Node \cup {None}] /\ row[m] = from /\ row[old] = None
          /\ \A j \in Msg \ {m, old} : row[j] = seen[n][j]
      BY <1>1, <2>2
    <2>4. seen' = [seen EXCEPT ![n] = row]
      BY <1>1, <2>1
    <2> HIDE DEF row
    <2>5. seen' \in [Node -> [Msg -> Node \cup {None}]] /\ seen'[n] = row
          /\ \A k \in Node \ {n} : seen'[k] = seen[k]
      BY <1>1, <2>3, <2>4
    <2>6. forgotten' \in SUBSET (Node \X Msg) /\ forgotten \subseteq forgotten'
          /\ <<n, old>> \in forgotten'
      BY <1>1, <2>1, <2>2
    <2> QED BY <2>2, <2>3, <2>5, <2>6
  <1> QED BY <1>2, <1>3 DEF RecordSeen

\* The ways handle_data ends once it is not ignored: without a new message, or with one.
LEMMA HearDataCases ==
  ASSUME TypeOK, NEW n \in Node, NEW f \in air, HearData(n, f), Expected(n, f)
  PROVE  /\ f.kind = "data" /\ rx[n] # None
         /\ rx' = [rx EXCEPT ![n] = None] /\ hops' = hops /\ delivered' = delivered
         /\ \/ /\ post' = post /\ took' = took
               /\ \/ /\ BecomeFree(n, queue[n], flight[n], air \ {f}, dropped)
                     /\ UNCHANGED <<seen, done, refused, forgotten>>
                  \/ /\ f.msg = rx[n].msg
                     /\ RecordSeen(n, f.msg, rx[n].from)
                     /\ refused' = refused \cup {<<n, f.msg>>} /\ done' = done
                     /\ BecomeFree(n, queue[n], flight[n],
                                   (air \ {f}) \cup {F("hopBudget", n, rx[n].from, f.msg)}, dropped)
                  \/ /\ BecomeFree(n, queue[n], flight[n],
                                   (air \ {f}) \cup {F("loopDup", n, rx[n].from, f.msg)}, dropped)
                     /\ UNCHANGED <<seen, done, refused, forgotten>>
                  \/ /\ f.msg = rx[n].msg /\ seen[n][f.msg] = rx[n].from
                     /\ StoreCompleted(n, <<rx[n].from, f.msg>>)
                     /\ BecomeFree(n, queue[n], flight[n],
                                   (air \ {f}) \cup {F("ack", n, rx[n].from, f.msg)}, dropped)
                     /\ UNCHANGED <<seen, refused, forgotten>>
            \/ /\ f.msg = rx[n].msg /\ seen[n][f.msg] = None
               /\ StoreCompleted(n, <<rx[n].from, f.msg>>)
               /\ RecordSeen(n, f.msg, rx[n].from) /\ TakeIn(n, f)
               /\ air' = (air \ {f}) \cup {F("ack", n, rx[n].from, f.msg)}
               /\ UNCHANGED <<queue, flight, dropped, refused>>
  <1>1. f.kind = "data" /\ rx[n] # None /\ hops' = hops /\ delivered' = delivered
        /\ rx' = [rx EXCEPT ![n] = None]
    BY DEF HearData, Expected
  <1>2. CASE f.msg # rx[n].msg
    BY <1>1, <1>2 DEF HearData
  <1>3. CASE f.msg = rx[n].msg /\ Exhausted(n, f)
    BY <1>1, <1>3 DEF HearData
  <1>4. CASE f.msg = rx[n].msg /\ ~Exhausted(n, f) /\ seen[n][f.msg] \notin {None, rx[n].from}
    BY <1>1, <1>4 DEF HearData
  <1>5. CASE f.msg = rx[n].msg /\ ~Exhausted(n, f) /\ seen[n][f.msg] = rx[n].from
    <2>1. rx[n].from # None
      BY <1>1, Nones DEF TypeOK, Announced
    <2> QED BY <1>1, <1>5, <2>1 DEF HearData
  <1>6. CASE f.msg = rx[n].msg /\ ~Exhausted(n, f) /\ seen[n][f.msg] # rx[n].from /\ seen[n][f.msg] = None
    BY <1>1, <1>6 DEF HearData
  <1> QED BY <1>2, <1>3, <1>4, <1>5, <1>6

\* A received DATA ends the wait for it.
LEMMA HeardEndsRx ==
  ASSUME TypeOK, Honest, NEW n \in Node, rx' = [rx EXCEPT ![n] = None], took \subseteq took'
  PROVE  rx' \in [Node -> Announced \cup {None}] /\ HonestRx'
  <1>1. rx' \in [Node -> Announced \cup {None}] /\ rx'[n] = None
        /\ \A k \in Node \ {n} : rx'[k] = rx[k]
    BY DEF TypeOK
  <1> QED BY <1>1 DEF HonestRx, Honest

LEMMA RecordedHonest ==
  ASSUME TypeOK, Honest, NEW n \in Node, NEW m \in Msg, NEW from \in Node,
         RecordSeen(n, m, from), Reached(n, m)', took \subseteq took', refused \subseteq refused'
  PROVE  HonestSeen'
  <1> SUFFICES ASSUME NEW k \in Node, NEW j \in Msg, seen'[k][j] # None
               PROVE  Reached(k, j)'
    BY DEF HonestSeen
  <1>1. CASE k = n /\ j = m
    BY <1>1
  <1>2. CASE ~(k = n /\ j = m)
    <2>1. seen[k][j] # None
      BY <1>2, RecordSeenKept
    <2>2. Reached(k, j)
      BY <2>1 DEF Honest, HonestSeen
    <2> QED BY <2>2 DEF Reached
  <1> QED BY <1>1, <1>2

LEMMA StoredHonest ==
  ASSUME TypeOK, Honest, NEW n \in Node, NEW m \in Msg, NEW from \in Node,
         StoreCompleted(n, <<from, m>>), Reached(n, m)', n \in Via[from][m],
         took \subseteq took', refused \subseteq refused'
  PROVE  done' \in [Node -> SUBSET (Node \X Msg)] /\ HonestDone'
  <1>1. done' \in [Node -> SUBSET (Node \X Msg)] /\ done'[n] = done[n] \cup {<<from, m>>}
        /\ \A k \in Node \ {n} : done'[k] = done[k]
    BY DEF TypeOK, StoreCompleted
  <1>2. HonestDone'
    <2> SUFFICES ASSUME NEW k \in Node, NEW h \in Node, NEW j \in Msg, <<h, j>> \in done'[k]
                 PROVE  Reached(k, j)' /\ k \in Via[h][j]
      BY DEF HonestDone
    <2>1. CASE k = n /\ h = from /\ j = m
      BY <2>1
    <2>2. CASE ~(k = n /\ h = from /\ j = m)
      <3>1. <<h, j>> \in done[k]
        BY <1>1, <2>2
      <3>2. Reached(k, j) /\ k \in Via[h][j]
        BY <3>1 DEF Honest, HonestDone
      <3> QED BY <3>2 DEF Reached
    <2> QED BY <2>1, <2>2
  <1> QED BY <1>1, <1>2

\* An answer other than an ACK or a terminal CTS claims nothing.
LEMMA MereAnswer ==
  ASSUME NEW n \in Node, NEW h \in Node, NEW m \in Msg, NEW kind \in {"loopDup", "hopBudget"}
  PROVE  F(kind, n, h, m) \in Frame /\ HonestFrame(F(kind, n, h, m))'
  <1> DEFINE g == F(kind, n, h, m)
  <1>1. g \in Frame /\ g.kind = kind
    BY FrameTyped, Kinds
  <1> HIDE DEF g
  <1>2. HonestFrame(g)'
    BY <1>1 DEF HonestFrame
  <1> QED BY <1>1, <1>2 DEF g

LEMMA AckAnswer ==
  ASSUME NEW n \in Node, NEW h \in Node, NEW m \in Msg, Reached(n, m)', n \in Via[h][m]
  PROVE  F("ack", n, h, m) \in Frame /\ HonestFrame(F("ack", n, h, m))'
  <1> DEFINE g == F("ack", n, h, m)
  <1>1. g \in Frame /\ g.kind = "ack" /\ g.by = n /\ g.to = h /\ g.msg = m
    BY FrameTyped, Kinds
  <1> HIDE DEF g
  <1>2. HonestFrame(g)'
    BY <1>1 DEF HonestFrame
  <1> QED BY <1>1, <1>2 DEF g

\* The DATA brings nothing new, or nothing for this node.
LEMMA HearDataOld ==
  ASSUME TypeOK, Honest, NEW n \in Node, NEW a,
         rx' = [rx EXCEPT ![n] = None], hops' = hops, delivered' = delivered,
         post' = post, took' = took, refused \subseteq refused',
         refused' \in SUBSET (Node \X Msg), forgotten' \in SUBSET (Node \X Msg),
         seen' \in [Node -> [Msg -> Node \cup {None}]], HonestSeen',
         done' \in [Node -> SUBSET (Node \X Msg)], HonestDone',
         \A g \in a : g \in air \/ (g \in Frame /\ HonestFrame(g)'),
         BecomeFree(n, queue[n], flight[n], a, dropped)
  PROVE  TypeOK' /\ \E K, b : Accounts(n, K, b)
  <1>1. queue[n] \in SUBSET Msg /\ flight[n] \in Flight \cup {None}
        /\ dropped \in SUBSET (Node \X Msg)
        /\ (flight[n] # None => flight[n].next \in Via[n][flight[n].msg])
    BY DEF TypeOK, Honest, HonestFlight
  <1>2. Sends(n, Mine(n), a)
    BY <1>1, BecomeFreeSends DEF Mine
  <1>3. rx' \in [Node -> Announced \cup {None}] /\ HonestRx'
    BY HeardEndsRx
  <1>4. TypeOK'
    <2>1. \A g \in a : g \in Frame
      BY DEF TypeOK
    <2>2. /\ queue' \in [Node -> SUBSET Msg] /\ flight' \in [Node -> Flight \cup {None}]
          /\ air' \subseteq Frame /\ dropped' \subseteq Node \X Msg
      BY <1>2, <2>1, SendsTyped
    <2> QED BY <1>3, <2>2 DEF TypeOK
  <1>5. Accounts(n, Mine(n), a)
    BY <1>2, <1>3, ReceivesStep
  <1> QED BY <1>4, <1>5

LEMMA HearDataStep ==
  ASSUME TypeOK, Honest, NEW n \in Node, NEW f \in air, HearData(n, f), f.to = n
  PROVE  TypeOK' /\ \E K, a : Accounts(n, K, a)
  <1> DEFINE m == f.msg
             from == rx[n].from
  <1>1. CASE ~Expected(n, f)
    <2>1. UNCHANGED <<queue, flight, dropped>> /\ Quiet /\ air' \subseteq air
      BY <1>1 DEF HearData, Quiet, history, memory
    <2> QED BY <2>1, IgnoredStep
  <1>2. CASE Expected(n, f)
    <2>1. /\ f.kind = "data" /\ rx[n] # None
          /\ rx' = [rx EXCEPT ![n] = None] /\ hops' = hops /\ delivered' = delivered
      BY <1>2, HearDataCases
    <2>2. m \in Msg /\ f.hops \in Nat
      BY HeardFrame
    <2>3. from \in Node /\ rx[n].msg \in Msg /\ <<from, rx[n].msg>> \in took
          /\ n \in Via[from][rx[n].msg]
      BY <2>1 DEF TypeOK, Announced, Honest, HonestRx
    <2>4. took \in SUBSET (Node \X Msg) /\ refused \in SUBSET (Node \X Msg)
          /\ forgotten \in SUBSET (Node \X Msg)
          /\ seen \in [Node -> [Msg -> Node \cup {None}]]
          /\ done \in [Node -> SUBSET (Node \X Msg)]
      BY DEF TypeOK
    <2> HIDE DEF m, from
    <2>5. ASSUME post' = post, took' = took, UNCHANGED <<seen, done, refused, forgotten>>,
                 NEW a, \A g \in a : g \in air \/ (g \in Frame /\ HonestFrame(g)'),
                 BecomeFree(n, queue[n], flight[n], a, dropped)
          PROVE  TypeOK' /\ \E K, b : Accounts(n, K, b)
      <3>1. HonestSeen' /\ HonestDone'
        BY <2>5, Grows DEF Honest
      <3> QED BY <2>1, <2>4, <2>5, <3>1, HearDataOld
    <2>6. CASE /\ post' = post /\ took' = took
               /\ BecomeFree(n, queue[n], flight[n], air \ {f}, dropped)
               /\ UNCHANGED <<seen, done, refused, forgotten>>
      <3>1. \A g \in air \ {f} : g \in air \/ (g \in Frame /\ HonestFrame(g)')
        OBVIOUS
      <3> QED BY <2>5, <2>6, <3>1
    <2>7. CASE /\ post' = post /\ took' = took /\ m = rx[n].msg
               /\ RecordSeen(n, m, from)
               /\ refused' = refused \cup {<<n, m>>} /\ done' = done
               /\ BecomeFree(n, queue[n], flight[n],
                             (air \ {f}) \cup {F("hopBudget", n, from, m)}, dropped)
      <3> DEFINE a == (air \ {f}) \cup {F("hopBudget", n, from, m)}
      <3>1. \A g \in a : g \in air \/ (g \in Frame /\ HonestFrame(g)')
        BY <2>2, <2>3, MereAnswer
      <3>2. /\ seen' \in [Node -> [Msg -> Node \cup {None}]]
            /\ forgotten' \in SUBSET (Node \X Msg)
        BY <2>2, <2>3, <2>7, RecordSeenKept
      <3>3. Reached(n, m)'
        BY <2>7 DEF Reached
      <3>4. HonestSeen' /\ HonestDone'
        BY <2>2, <2>3, <2>7, <3>3, RecordedHonest, Grows DEF Honest
      <3>5. refused' \in SUBSET (Node \X Msg) /\ refused \subseteq refused'
        BY <2>2, <2>4, <2>7
      <3>6. BecomeFree(n, queue[n], flight[n], a, dropped)
        BY <2>7
      <3>7. done' \in [Node -> SUBSET (Node \X Msg)]
        BY <2>4, <2>7
      <3> HIDE DEF a
      <3> QED BY <2>1, <2>7, <3>1, <3>2, <3>4, <3>5, <3>6, <3>7, HearDataOld
    <2>8. CASE /\ post' = post /\ took' = took
               /\ BecomeFree(n, queue[n], flight[n],
                             (air \ {f}) \cup {F("loopDup", n, from, m)}, dropped)
               /\ UNCHANGED <<seen, done, refused, forgotten>>
      <3> DEFINE a == (air \ {f}) \cup {F("loopDup", n, from, m)}
      <3>1. \A g \in a : g \in air \/ (g \in Frame /\ HonestFrame(g)')
        BY <2>2, <2>3, MereAnswer
      <3>2. BecomeFree(n, queue[n], flight[n], a, dropped)
        BY <2>8
      <3> HIDE DEF a
      <3> QED BY <2>5, <2>8, <3>1, <3>2
    <2>9. CASE /\ post' = post /\ took' = took /\ m = rx[n].msg /\ seen[n][m] = from
               /\ StoreCompleted(n, <<from, m>>)
               /\ BecomeFree(n, queue[n], flight[n],
                             (air \ {f}) \cup {F("ack", n, from, m)}, dropped)
               /\ UNCHANGED <<seen, refused, forgotten>>
      <3> DEFINE a == (air \ {f}) \cup {F("ack", n, from, m)}
      <3>1. Reached(n, m) /\ Reached(n, m)'
        <4>1. from # None
          BY <2>3, Nones
        <4>2. Reached(n, m)
          BY <2>2, <2>9, <4>1 DEF Honest, HonestSeen
        <4> QED BY <2>9, <4>2 DEF Reached
      <3>2. n \in Via[from][m]
        BY <2>3, <2>9
      <3>3. \A g \in a : g \in air \/ (g \in Frame /\ HonestFrame(g)')
        BY <2>2, <2>3, <3>1, <3>2, AckAnswer
      <3>4. done' \in [Node -> SUBSET (Node \X Msg)] /\ HonestDone'
        BY <2>2, <2>3, <2>9, <3>1, <3>2, StoredHonest
      <3>5. HonestSeen'
        BY <2>9, Grows DEF Honest
      <3>6. BecomeFree(n, queue[n], flight[n], a, dropped)
        BY <2>9
      <3> HIDE DEF a
      <3> QED BY <2>1, <2>4, <2>9, <3>3, <3>4, <3>5, <3>6, HearDataOld
    <2>10. CASE /\ m = rx[n].msg /\ StoreCompleted(n, <<from, m>>)
                /\ RecordSeen(n, m, from) /\ TakeIn(n, f)
                /\ air' = (air \ {f}) \cup {F("ack", n, from, m)}
                /\ UNCHANGED <<queue, flight, dropped, refused>>
      <3> DEFINE p == Forwarded(f)
      <3>1. /\ post[n] = None /\ took' = took \cup {<<n, m>>}
            /\ post' = [post EXCEPT ![n] = p]
        BY <2>10 DEF TakeIn, m
      <3>2. p \in Accepted /\ p.msg = m
        BY <2>2 DEF Forwarded, Accepted, m
      <3> HIDE DEF p
      <3>3. post' \in [Node -> Accepted \cup {None}] /\ post'[n] = p
            /\ \A k \in Node \ {n} : post'[k] = post[k]
        BY <3>1, <3>2 DEF TypeOK
      <3>4. Carried(post'[n]) = {m} /\ Carried(post[n]) = {}
        BY <3>1, <3>2, <3>3, Nones DEF Carried
      <3>5. Reached(n, m)' /\ took \subseteq took' /\ refused' = refused
        BY <2>10, <3>1 DEF Reached
      <3>6. n \in Via[from][m]
        BY <2>3, <2>10
      <3>7. done' \in [Node -> SUBSET (Node \X Msg)] /\ HonestDone'
        BY <2>2, <2>3, <2>10, <3>5, <3>6, StoredHonest
      <3>8. HonestSeen' /\ seen' \in [Node -> [Msg -> Node \cup {None}]]
            /\ forgotten' \in SUBSET (Node \X Msg)
        BY <2>2, <2>3, <2>10, <3>5, RecordedHonest, RecordSeenKept
      <3>9. rx' \in [Node -> Announced \cup {None}] /\ HonestRx'
        BY <2>1, <3>5, HeardEndsRx
      <3>10. Sends(n, Mine(n), air')
        BY <2>10, StillSends DEF Honest
      <3>11. \A g \in air' : g \in air \/ (g \in Frame /\ HonestFrame(g)')
        BY <2>2, <2>3, <2>10, <3>5, <3>6, AckAnswer
      <3>12. TypeOK'
        <4>1. air' \subseteq Frame
          BY <3>11 DEF TypeOK
        <4>2. took' \in SUBSET (Node \X Msg)
          BY <2>2, <2>4, <3>1
        <4> QED BY <2>1, <2>10, <3>3, <3>7, <3>8, <3>9, <4>1, <4>2 DEF TypeOK
      <3>13. Accounts(n, Mine(n), air')
        <4>1. \A k \in Mine(n) : k \in Msg /\ <<n, k>> \in took'
          <5>1. queue[n] \in SUBSET Msg /\ flight[n] \in Flight \cup {None}
            BY DEF TypeOK
          <5> QED BY <3>5, <5>1 DEF Honest, HonestHold, Held, Mine, Carried, Flight
        <4>2. <<Origin[m], m>> \in took'
          BY <2>2, <2>3, <2>10, <3>5 DEF Honest, Entered
        <4>3. \A k \in Node, j \in Msg :
                <<k, j>> \in took' =>
                  \/ <<k, j>> \in took
                  \/ k = n /\ j \in Carried(post'[n]) /\ <<Origin[j], j>> \in took'
          BY <3>1, <3>4, <4>2
        <4>4. \A j \in Carried(post'[n]) : <<n, j>> \in took'
          BY <3>1, <3>4
        <4> QED BY <2>1, <3>3, <3>4, <3>5, <3>7, <3>8, <3>9, <3>10, <3>11, <4>1, <4>3, <4>4
                DEF Accounts, Turn, Ended
      <3> QED BY <3>12, <3>13
    <2> QED BY <1>2, <2>6, <2>7, <2>8, <2>9, <2>10, HearDataCases DEF m, from
  <1> QED BY <1>1, <1>2

\* A frame that nobody hears.
LEMMA LoseStep ==
  ASSUME TypeOK, Honest, NEW n \in Node, NEW f \in air, Lose(f)
  PROVE  TypeOK' /\ \E K, a : Accounts(n, K, a)
  <1>1. UNCHANGED <<queue, flight, dropped>> /\ Quiet /\ air' \subseteq air
    BY DEF Lose, Quiet
  <1> QED BY <1>1, IgnoredStep

----------------------------------------------------------------------------
\* Steps

\* Whatever flight an ACK ends, nobody turns dishonest.
LEMMA HearAckTurn ==
  ASSUME TypeOK, Honest, NEW n \in Node, NEW f \in air, HearAck(n, f)
  PROVE  TypeOK' /\ \E K, a : Turn(n, K, a)
  <1> DEFINE b == air \ {f}
  <1>1. Quiet /\ Told(b)
    BY DEF HearAck, Quiet, Told
  <1>2. CASE Release(n, b)
    <2>1. Sends(n, queue[n], b) /\ queue[n] \subseteq Mine(n)
      BY <1>2, ReleaseSends DEF Mine
    <2> QED BY <1>1, <2>1, QuietTurn
  <1>3. CASE air' = b /\ UNCHANGED <<queue, flight, dropped>>
    <2>1. Sends(n, Mine(n), air')
      BY <1>3, StillSends DEF Honest
    <2> QED BY <1>1, <1>3, <2>1, QuietTurn
  <1> QED BY <1>2, <1>3 DEF HearAck

\* A step is the hearing of an ACK, or it accounts for every message of its node.
LEMMA StepForm ==
  ASSUME TypeOK, Honest, Step
  PROVE  \/ \E n \in Node : \E f \in air : f.to = n /\ HearAck(n, f)
         \/ TypeOK' /\ \E n \in Node : \E K, a : Accounts(n, K, a)
  <1>1. ASSUME NEW m \in Msg, Send(m)
        PROVE  TypeOK' /\ \E n \in Node : \E K, a : Accounts(n, K, a)
    <2>1. Origin[m] \in Node
      BY RouteAssumption
    <2> QED BY <1>1, <2>1, SendStep
  <1>2. ASSUME NEW n \in Node, Timer(n)
        PROVE  TypeOK' /\ \E K, a : Accounts(n, K, a)
    BY <1>2, TimeoutsStep, RetryFireStep, DoDataTxStep, WakeUpStep, DoPostAckStep,
       PendingRxExpiryStep DEF Timer
  <1>3. ASSUME NEW f \in air, Hear(f.to, f), ~HearAck(f.to, f)
        PROVE  TypeOK' /\ \E n \in Node : \E K, a : Accounts(n, K, a)
    <2> DEFINE n == f.to
    <2>1. n \in Node
      BY HeardFrame
    <2>2. HearRts(n, f) \/ HearCts(n, f) \/ HearDone(n, f) \/ HearData(n, f) \/ HearNack(n, f)
      BY <1>3 DEF Hear
    <2>3. f.to = n
      OBVIOUS
    <2> HIDE DEF n
    <2> QED BY <2>1, <2>2, <2>3, HearRtsStep, HearCtsStep, HearDoneStep, HearDataStep, HearNackStep
  <1>4. ASSUME NEW f \in air, Lose(f)
        PROVE  TypeOK' /\ \E n \in Node : \E K, a : Accounts(n, K, a)
    <2>1. f.by \in Node
      BY HeardFrame
    <2> QED BY <1>4, <2>1, LoseStep
  <1>5. ASSUME NEW f \in air, NEW n \in Node, Overhear(n, f)
        PROVE  TypeOK' /\ \E K, a : Accounts(n, K, a)
    BY <1>5, OverhearStep
  <1>6. \A f \in air : f.to \in Node
    BY HeardFrame
  <1> QED BY <1>1, <1>2, <1>3, <1>4, <1>5, <1>6 DEF Step

LEMMA StepHonest ==
  ASSUME TypeOK, Honest, [Next]_vars
  PROVE  TypeOK' /\ Honest'
  <1>1. CASE Step
    <2>1. TypeOK' /\ \E n \in Node : \E K, a : Turn(n, K, a)
      BY <1>1, StepForm, HearAckTurn DEF Accounts
    <2> QED BY <2>1, TurnHonest
  <1>2. CASE UNCHANGED vars
    <2>1. TypeOK'
      BY <1>2 DEF TypeOK, vars
    <2>2. /\ queue' = queue /\ flight' = flight /\ rx' = rx /\ post' = post /\ seen' = seen
          /\ done' = done /\ air' = air /\ took' = took /\ refused' = refused
      BY <1>2 DEF vars
    <2>3. Honest'
      BY <2>2 DEF Honest, HonestFlight, HonestAir, HonestFrame, HonestRx, HonestDone, HonestSeen,
                  HonestHold, Held, Entered, Reached
    <2> QED BY <2>1, <2>3
  <1> QED BY <1>1, <1>2 DEF Next

LEMMA StepHandedOn ==
  ASSUME DistinctCounters, TypeOK, Honest, HandedOn, [Next]_vars
  PROVE  HandedOn'
  <1>1. CASE Step
    <2>1. \E n \in Node : \E K, a : Accounts(n, K, a)
      BY <1>1, StepForm, HearAckStep
    <2> QED BY <2>1, AccountsKept
  <1>2. CASE UNCHANGED vars
    <2>1. /\ queue' = queue /\ flight' = flight /\ post' = post
          /\ took' = took /\ delivered' = delivered /\ dropped' = dropped /\ refused' = refused
      BY <1>2 DEF vars
    <2> QED BY <2>1 DEF HandedOn, Holds, Held, Reached
  <1> QED BY <1>1, <1>2 DEF Next

LEMMA InitHonest ==
  ASSUME Init
  PROVE  TypeOK /\ Honest /\ HandedOn
  <1>1. TypeOK
    BY RouteAssumption DEF Init, TypeOK
  <1>2. \A n \in Node : /\ queue[n] = {} /\ flight[n] = None /\ rx[n] = None /\ post[n] = None
                        /\ done[n] = {} /\ \A m \in Msg : seen[n][m] = None
    BY DEF Init
  <1>3. air = {} /\ took = {}
    BY DEF Init
  <1>4. Honest
    BY <1>2, <1>3 DEF Honest, HonestFlight, HonestAir, HonestRx, HonestDone, HonestSeen,
                      HonestHold, Held, Carried, Entered
  <1>5. HandedOn
    BY <1>3 DEF HandedOn
  <1> QED BY <1>1, <1>4, <1>5

\* Every variable always has its type.
THEOREM TypeCorrect == Spec => []TypeOK
  <1>1. Init => TypeOK /\ Honest
    BY InitHonest
  <1>2. TypeOK /\ Honest /\ [Next]_vars => TypeOK' /\ Honest'
    BY StepHonest
  <1> QED BY <1>1, <1>2, PTL DEF Spec

\* What any frame, wait or memory says of a message is true of the node it names.
THEOREM HonestAlways == Spec => []Honest
  <1>1. Init => TypeOK /\ Honest
    BY InitHonest
  <1>2. TypeOK /\ Honest /\ [Next]_vars => TypeOK' /\ Honest'
    BY StepHonest
  <1> QED BY <1>1, <1>2, PTL DEF Spec

\* While the low counter bits of the messages on their way differ, no node ever lets go
\* of a message that did not arrive, whatever frames are lost, late or overheard.
THEOREM HandedOnAlways ==
  ASSUME DistinctCounters
  PROVE  Spec => []HandedOn
  <1>1. Init => HandedOn
    BY InitHonest
  <1>2. TypeOK /\ Honest /\ HandedOn /\ [Next]_vars => HandedOn'
    BY StepHandedOn
  <1> QED BY <1>1, <1>2, TypeCorrect, HonestAlways, PTL DEF Spec

\* The routes of a message offer no loop.
LoopFree ==
  \A m \in Msg : \A S \in (SUBSET Node) \ {{}} : \E n \in S : Via[n][m] \cap S = {}

\* The last of the nodes that a message has reached must still have it.
LEMMA LastHolds ==
  ASSUME LoopFree, TypeOK, HandedOn
  PROVE  NoSilentLoss
  <1> SUFFICES ASSUME NEW m \in Msg, <<Origin[m], m>> \in took,
                      ~(delivered[m] > 0), m \notin Stopped, \A n \in Node : ~Holds(n, m)
               PROVE  FALSE
    BY DEF NoSilentLoss
  <1> DEFINE S == {n \in Node : Reached(n, m)}
  <1>1. Origin[m] \in S
    BY RouteAssumption DEF Reached
  <1>2. PICK n \in S : Via[n][m] \cap S = {}
    BY <1>1 DEF LoopFree
  <1>3. \A p \in dropped \cup refused : p[2] # m
    BY DEF Stopped
  <1>4. <<n, m>> \in took /\ <<n, m>> \notin dropped
    BY <1>2, <1>3 DEF Reached
  <1>5. PICK h \in Via[n][m] : Reached(h, m)
    BY <1>2, <1>4 DEF HandedOn
  <1>6. h \in S
    BY <1>2, <1>5, ViaTyped
  <1> QED BY <1>2, <1>5, <1>6

\* And while the routes offer no loop, no message disappears between its origin and its
\* destination without a node that stopped it knowingly.
THEOREM NoSilentLossAlways ==
  ASSUME DistinctCounters, LoopFree
  PROVE  Spec => []NoSilentLoss
  <1>1. TypeOK /\ HandedOn => NoSilentLoss
    BY LastHolds
  <1> QED BY <1>1, TypeCorrect, HandedOnAlways, PTL

----------------------------------------------------------------------------
\* Deliveries

\* A destination that has had a message, and was not made to forget it, knows it; it
\* has it delivered or in its slot, not both.
OnceAt(m) ==
  /\ delivered[m] > 0 \/ m \in Carried(post[Dst[m]]) => seen[Dst[m]][m] # None
  /\ delivered[m] <= 1
  /\ delivered[m] = 1 => m \notin Carried(post[Dst[m]])

OnceInv == \A m \in Msg : <<Dst[m], m>> \in forgotten \/ OnceAt(m)

\* Only two actions concern deliveries.
LEMMA Touched ==
  ASSUME TypeOK, Honest, Step
  PROVE  \/ UNCHANGED <<post, seen, delivered, forgotten>>
         \/ \E n \in Node : DoPostAck(n)
         \/ \E n \in Node : \E f \in air : f.to = n /\ HearData(n, f) /\ Expected(n, f)
  <1>1. ASSUME NEW m \in Msg, Send(m)
        PROVE  UNCHANGED <<post, seen, delivered, forgotten>>
    BY <1>1 DEF Send, memory
  <1>2. ASSUME NEW n \in Node, Timer(n), ~DoPostAck(n)
        PROVE  UNCHANGED <<post, seen, delivered, forgotten>>
    BY <1>2 DEF Timer, RtsTimeoutFire, AckTimeoutFire, RetryFire, DoDataTx, WakeUp,
                PendingRxExpiryFire, memory, history
  <1>3. ASSUME NEW f \in air, Hear(f.to, f), ~(HearData(f.to, f) /\ Expected(f.to, f))
        PROVE  UNCHANGED <<post, seen, delivered, forgotten>>
    <2>1. CASE HearData(f.to, f)
      BY <1>3, <2>1 DEF HearData, memory
    <2>2. CASE ~HearData(f.to, f)
      BY <1>3, <2>2 DEF Hear, HearRts, HearCts, HearDone, HearAck, HearNack, memory, history
    <2> QED BY <2>1, <2>2
  <1>4. ASSUME NEW f \in air, NEW n \in Node, Lose(f) \/ Overhear(n, f)
        PROVE  UNCHANGED <<post, seen, delivered, forgotten>>
    BY <1>4 DEF Lose, Overhear, memory, history
  <1>5. ASSUME NEW f \in air, Lose(f)
        PROVE  UNCHANGED <<post, seen, delivered, forgotten>>
    BY <1>5 DEF Lose, memory, history
  <1>6. \A f \in air : f.to \in Node
    BY HeardFrame
  <1> QED BY <1>1, <1>2, <1>3, <1>4, <1>5, <1>6 DEF Step

LEMMA DoPostAckOnce ==
  ASSUME TypeOK, OnceInv, NEW n \in Node, DoPostAck(n)
  PROVE  OnceInv' /\ forgotten' = forgotten
  <1> DEFINE p == post[n].msg
  <1>1. /\ post[n] # None /\ post' = [post EXCEPT ![n] = None]
        /\ seen' = seen /\ forgotten' = forgotten
        /\ IF Dst[p] = n THEN delivered' = [delivered EXCEPT ![p] = @ + 1]
           ELSE delivered' = delivered
    BY DEF DoPostAck
  <1>2. p \in Msg /\ Carried(post[n]) = {p}
    BY <1>1 DEF TypeOK, Accepted, Carried
  <1>3. Carried(post'[n]) = {} /\ \A k \in Node \ {n} : Carried(post'[k]) = Carried(post[k])
    BY <1>1 DEF TypeOK, Carried
  <1>4. delivered \in [Msg -> Nat] /\ Dst \in [Msg -> Node]
    BY RouteAssumption DEF TypeOK
  <1> HIDE DEF p
  <1>5. ASSUME NEW m \in Msg, <<Dst[m], m>> \notin forgotten
        PROVE  OnceAt(m)'
    <2>1. OnceAt(m)
      BY <1>5 DEF OnceInv
    <2>2. CASE m = p /\ Dst[m] = n
      <3>1. delivered[m] = 0 /\ seen[n][m] # None
        BY <1>2, <1>4, <2>1, <2>2 DEF OnceAt
      <3>2. delivered'[m] = 1
        BY <1>1, <1>4, <2>2, <3>1
      <3> QED BY <1>1, <1>3, <2>2, <3>1, <3>2 DEF OnceAt
    <2>3. CASE ~(m = p /\ Dst[m] = n)
      <3>1. delivered'[m] = delivered[m]
        BY <1>1, <1>4, <2>3
      <3>2. Carried(post'[Dst[m]]) \subseteq Carried(post[Dst[m]])
        BY <1>3, <1>4
      <3> QED BY <1>1, <2>1, <3>1, <3>2 DEF OnceAt
    <2> QED BY <2>2, <2>3
  <1> QED BY <1>1, <1>5 DEF OnceInv

LEMMA HearDataOnce ==
  ASSUME TypeOK, Honest, OnceInv, NEW n \in Node, NEW f \in air, HearData(n, f), Expected(n, f)
  PROVE  OnceInv' /\ forgotten \subseteq forgotten' /\ delivered' = delivered
  <1> DEFINE m == f.msg
             from == rx[n].from
  <1>1. delivered' = delivered /\ rx[n] # None
    BY HearDataCases
  <1>2. m \in Msg /\ from \in Node
    BY <1>1, HeardFrame DEF TypeOK, Announced
  <1>3. delivered \in [Msg -> Nat] /\ Dst \in [Msg -> Node]
    BY RouteAssumption DEF TypeOK
  <1> HIDE DEF m, from
  <1>4. CASE post' = post /\ UNCHANGED <<seen, forgotten>>
    BY <1>1, <1>4 DEF OnceInv, OnceAt
  <1>5. CASE post' = post /\ RecordSeen(n, m, from)
    <2>1. /\ forgotten \subseteq forgotten' /\ seen'[n][m] # None
          /\ \A k \in Node \ {n} : seen'[k] = seen[k]
          /\ \A j \in Msg : seen[n][j] # None => seen'[n][j] # None \/ <<n, j>> \in forgotten'
      BY <1>2, <1>5, RecordSeenKept
    <2>2. ASSUME NEW j \in Msg, <<Dst[j], j>> \notin forgotten'
          PROVE  OnceAt(j)'
      <3>1. OnceAt(j)
        BY <2>1, <2>2 DEF OnceInv
      <3>2. seen[Dst[j]][j] # None => seen'[Dst[j]][j] # None
        BY <1>3, <2>1, <2>2
      <3> QED BY <1>1, <1>5, <3>1, <3>2 DEF OnceAt
    <2> QED BY <1>1, <2>1, <2>2 DEF OnceInv
  <1>6. CASE seen[n][m] = None /\ RecordSeen(n, m, from) /\ TakeIn(n, f)
    <2>1. /\ forgotten \subseteq forgotten' /\ seen'[n][m] # None
          /\ \A k \in Node \ {n} : seen'[k] = seen[k]
          /\ \A j \in Msg : seen[n][j] # None => seen'[n][j] # None \/ <<n, j>> \in forgotten'
      BY <1>2, <1>6, RecordSeenKept
    <2>2. /\ Carried(post[n]) = {} /\ Carried(post'[n]) \subseteq {m}
          /\ \A k \in Node \ {n} : Carried(post'[k]) = Carried(post[k])
      BY <1>6 DEF TakeIn, Forwarded, Carried, TypeOK, m
    <2>3. ASSUME NEW j \in Msg, <<Dst[j], j>> \notin forgotten'
          PROVE  OnceAt(j)'
      <3>1. OnceAt(j)
        BY <2>1, <2>3 DEF OnceInv
      <3>2. CASE j = m /\ Dst[j] = n
        <4>1. delivered[j] = 0
          BY <1>3, <1>6, <3>1, <3>2 DEF OnceAt
        <4> QED BY <1>1, <2>1, <3>2, <4>1 DEF OnceAt
      <3>3. CASE ~(j = m /\ Dst[j] = n)
        <4>1. j \in Carried(post'[Dst[j]]) => j \in Carried(post[Dst[j]])
          BY <1>3, <2>2, <3>3
        <4>2. seen[Dst[j]][j] # None => seen'[Dst[j]][j] # None
          BY <1>3, <2>1, <2>3
        <4> QED BY <1>1, <3>1, <4>1, <4>2 DEF OnceAt
      <3> QED BY <3>2, <3>3
    <2> QED BY <1>1, <2>1, <2>3 DEF OnceInv
  <1> QED BY <1>4, <1>5, <1>6, HearDataCases DEF m, from

LEMMA StepOnce ==
  ASSUME TypeOK, Honest, OnceInv, [Next]_vars
  PROVE  OnceInv' /\ forgotten \subseteq forgotten'
  <1>1. CASE UNCHANGED <<post, seen, delivered, forgotten>>
    BY <1>1 DEF OnceInv, OnceAt
  <1>2. CASE ~UNCHANGED <<post, seen, delivered, forgotten>>
    <2>1. Step
      BY <1>2 DEF Next, vars
    <2> QED BY <1>2, <2>1, Touched, DoPostAckOnce, HearDataOnce
  <1> QED BY <1>1, <1>2

LEMMA InitOnce ==
  ASSUME Init
  PROVE  OnceInv
  <1>1. \A n \in Node : Carried(post[n]) = {}
    BY DEF Init, Carried
  <1>2. \A m \in Msg : delivered[m] = 0 /\ Dst[m] \in Node
    BY RouteAssumption DEF Init
  <1> QED BY <1>1, <1>2 DEF OnceInv, OnceAt

\* Lost ACKs, retries and alternates never make a destination deliver a message twice
\* before its memory of origins has evicted it.
THEOREM DeliveredOnceAlways == Spec => []DeliveredOnce
  <1>1. Init => OnceInv
    BY InitOnce
  <1>2. TypeOK /\ Honest /\ OnceInv /\ [Next]_vars => OnceInv'
    BY StepOnce
  <1>3. TypeOK /\ OnceInv => DeliveredOnce
    BY DEF TypeOK, OnceInv, OnceAt, DeliveredOnce
  <1> QED BY <1>1, <1>2, <1>3, TypeCorrect, HonestAlways, PTL DEF Spec

----------------------------------------------------------------------------
\* The courier

LEMMA InitCourier ==
  ASSUME Init
  PROVE  Carrier!Init
  <1>1. \A n \in Node : Held(n) = {}
    BY DEF Init, Held, Carried
  <1>2. UNION {Held(n) : n \in Node} = {}
    BY <1>1
  <1>3. Stopped = {} /\ {m \in Msg : <<Dst[m], m>> \in forgotten} = {}
    BY DEF Init, Stopped
  <1>4. delivered = [m \in Msg |-> 0]
    BY DEF Init
  <1> QED BY <1>2, <1>3, <1>4 DEF Carrier!Init

\* What was given up stays given up.
LEMMA NothingUndone ==
  ASSUME TypeOK, Honest, Step
  PROVE  took \subseteq took' /\ dropped \subseteq dropped' /\ refused \subseteq refused'
  <1>1. \E n \in Node : \E K, a : Turn(n, K, a)
    BY StepForm, HearAckTurn DEF Accounts
  <1> QED BY <1>1 DEF Turn, Sends

\* A delivery is of a message in hand, which was not delivered before.
LEMMA DeliversOnce ==
  ASSUME TypeOK, Honest, OnceInv, Step
  PROVE  UNCHANGED delivered \/ \E m \in Msg : Carrier!Deliver(m)
  <1>1. ASSUME NEW n \in Node, DoPostAck(n), delivered' # delivered
        PROVE  \E m \in Msg : Carrier!Deliver(m)
    <2> DEFINE m == post[n].msg
    <2>1. post[n] # None /\ Dst[m] = n /\ delivered' = [delivered EXCEPT ![m] = @ + 1]
      BY <1>1 DEF DoPostAck
    <2>2. m \in Msg /\ Carried(post[n]) = {m}
      BY <2>1 DEF TypeOK, Accepted, Carried
    <2>3. m \in UNION {Held(k) : k \in Node}
      BY <2>2 DEF Held
    <2> HIDE DEF m
    <2>4. delivered[m] = 0 \/ <<Dst[m], m>> \in forgotten
      <3>1. delivered[m] \in Nat /\ m \in Carried(post[Dst[m]])
        BY <2>1, <2>2 DEF TypeOK
      <3> QED BY <2>2, <3>1 DEF OnceInv, OnceAt
    <2>5. Carrier!Deliver(m)
      BY <2>1, <2>2, <2>3, <2>4 DEF Carrier!Deliver
    <2> QED BY <2>2, <2>5
  <1> QED BY <1>1, Touched, HearDataOnce

LEMMA StepCourier ==
  ASSUME TypeOK, Honest, OnceInv, NoSilentLoss', [Next]_vars
  PROVE  [Carrier!Next]_(Carrier!vars)
  <1>1. CASE UNCHANGED vars
    <2>1. UNCHANGED <<queue, flight, post, delivered, dropped, refused, forgotten>>
      BY <1>1 DEF vars
    <2>2. \A n : Held(n)' = Held(n)
      BY <2>1 DEF Held
    <2> QED BY <2>1, <2>2 DEF Carrier!vars, Stopped
  <1>2. CASE Step
    <2>1. Stopped \subseteq Stopped'
      BY <1>2, NothingUndone DEF Stopped
    <2>2. {m \in Msg : <<Dst[m], m>> \in forgotten} \subseteq {m \in Msg : <<Dst[m], m>> \in forgotten'}
      BY StepOnce
    <2>3. Carrier!LayAside
      <3> SUFFICES ASSUME NEW m, NEW n \in Node, m \in Held(n),
                          \A k \in Node : m \notin Held(k)'
                   PROVE  delivered'[m] > 0 \/ m \in Stopped'
        BY DEF Carrier!LayAside, Carrier!Settled
      <3>1. m \in Msg
        BY DEF Held, TypeOK, Carried, Flight, Accepted
      <3>2. <<Origin[m], m>> \in took'
        BY <1>2, <3>1, NothingUndone DEF Honest, HonestHold, Entered
      <3> QED BY <3>1, <3>2 DEF NoSilentLoss, Holds
    <2>4. UNCHANGED delivered \/ \E m \in Msg : Carrier!Deliver(m)
      BY <1>2, DeliversOnce
    <2> QED BY <2>1, <2>2, <2>3, <2>4 DEF Carrier!Next
  <1> QED BY <1>1, <1>2 DEF Next

\* Under the same assumptions the exchange of hops is a courier: every behaviour of it
\* is one that Courier allows.
THEOREM CourierRefined ==
  ASSUME DistinctCounters, LoopFree
  PROVE  Spec => IsCourier
  <1>1. Init => Carrier!Init
    BY InitCourier
  <1>2. Init => OnceInv
    BY InitOnce
  <1>3. TypeOK /\ Honest /\ OnceInv /\ [Next]_vars => OnceInv'
    BY StepOnce
  <1>4. TypeOK /\ Honest /\ OnceInv /\ NoSilentLoss' /\ [Next]_vars => [Carrier!Next]_(Carrier!vars)
    BY StepCourier
  <1> QED BY <1>1, <1>2, <1>3, <1>4, TypeCorrect, HonestAlways, NoSilentLossAlways, PTL
          DEF Spec, IsCourier, Carrier!Spec
=============================================================================
