---------------------------- MODULE HopExchange ----------------------------
(***************************************************************************)
(* Direct messages on their way from node to node (lib/core/node_mac_rx,   *)
(* node_cascade): the RTS / CTS / DATA / ACK exchange of each hop over a   *)
(* radio that loses and delays frames, the receiver's memory of completed  *)
(* flights and of messages seen, the credit for an overheard forward, and  *)
(* the hand-over from the receive slot to the transmit queue.              *)
(*                                                                         *)
(* MacFlight has the timers, the buffers and the budgets of one sender in  *)
(* full.  Here a sender is what it has under way: a timer that may run may *)
(* fire at any moment, a retry budget may or may not be spent, and any     *)
(* other next hop may be the one to try.                                   *)
(***************************************************************************)
EXTENDS Naturals, FiniteSets

CONSTANTS
  Node, Msg,
  Origin, Dst,  \* Msg -> Node; the origin is where it enters the nodes modelled
  Lo,           \* Msg -> the low four bits of its counter
  HopBudget,    \* Msg -> hops_remaining where it enters
  Via,          \* node -> message -> the next hops its routes may offer
  QueueCap,     \* kTxQueueCap
  SeenCap,      \* cap_seen_origins
  MaxAir,       \* bound: frames sent that are neither heard nor lost yet
  MaxTimes,     \* bound: deliveries of one message
  None

ASSUME RouteAssumption ==
  /\ Origin \in [Msg -> Node] /\ Dst \in [Msg -> Node]
  /\ HopBudget \in [Msg -> Nat]
  /\ Via \in [Node -> [Msg -> SUBSET Node]]

ASSUME LimitAssumption ==
  /\ {QueueCap, MaxAir, MaxTimes} \subseteq Nat
  /\ SeenCap \in Nat \ {0}

Flight == [msg: Msg, next: Node,
           phase: {"cts",    \* awaiting_cts
                   "data",   \* CTS heard, the gap to the DATA runs
                   "ack",    \* awaiting_ack
                   "wait"}]  \* neither: after an ACK timeout, or for a busy peer
Announced == [from: Node, msg: Msg]
Accepted == [msg: Msg, hops: Nat]

ASSUME NoneAssumption == None \notin Node \cup Flight \cup Announced \cup Accepted

\* A receiver reads of a frame what is on the air: the identity (`msg`) of an RTS, a
\* terminal CTS ("done") or a DATA; no identity in an ordinary CTS; in an ACK or a
\* NACK the receiver and the counter Lo[msg], but neither sender nor identity.
Nack == {"loopDup", "busyRx", "hopBudget", "budget"}
Frame == [kind: {"rts", "cts", "done", "data", "ack"} \cup Nack,
          by: Node, to: Node, msg: Msg, hops: Nat]

VARIABLES
  queue,     \* _tx_queue
  flight,    \* _pending_tx
  hops,      \* hops_remaining of a node's copy of a message
  rx,        \* _pending_rx
  post,      \* _post_ack
  seen,      \* _seen_origins with _seen_origin_from: the hop a message first came from
  done,      \* _completed_flights: (sender, message)
  air,
  \* what the properties speak of
  took,      \* (node, message): originated, or accepted as new
  delivered, \* how often its destination delivered it
  dropped,   \* (node, message): a copy given up knowingly
  refused,   \* (node, message): refused for its hop budget
  forgotten  \* (node, message): evicted from `seen`

vars == <<queue, flight, hops, rx, post, seen, done, air,
          took, delivered, dropped, refused, forgotten>>

\* What most actions leave alone together.
memory == <<rx, post, seen, done>>
history == <<took, delivered, refused, forgotten>>

Init ==
  /\ queue = [n \in Node |-> {}] /\ done = [n \in Node |-> {}]
  /\ flight = [n \in Node |-> None]
  /\ rx = [n \in Node |-> None] /\ post = [n \in Node |-> None]
  /\ hops = [n \in Node |-> HopBudget]
  /\ seen = [n \in Node |-> [m \in Msg |-> None]]
  /\ air = {} /\ took = {} /\ dropped = {}
  /\ refused = {} /\ forgotten = {}
  /\ delivered = [m \in Msg |-> 0]

----------------------------------------------------------------------------
\* Sending.  `a` is the air the handler leaves, `d` the copies dropped so far.

F(kind, by, to, msg) == [kind |-> kind, by |-> by, to |-> to, msg |-> msg, hops |-> 0]

\* tx_rts_retry
SendRts(n, fl, a) ==
  /\ flight' = [flight EXCEPT ![n] = [fl EXCEPT !.phase = "cts"]]
  /\ air' = a \cup {F("rts", n, fl.next, fl.msg)}

\* issue_send: through one of the next hops, or there is no route.
Issue(n, q, m, a, d) ==
  /\ queue' = [queue EXCEPT ![n] = q \ {m}]
  /\ \/ /\ \E h \in Via[n][m] :
             SendRts(n, [msg |-> m, next |-> h, phase |-> "cts"], a)
        /\ dropped' = d
     \/ /\ flight' = [flight EXCEPT ![n] = None]
        /\ air' = a /\ dropped' = d \cup {<<n, m>>}

\* become_free with queue q and flight fl: nothing while a flight or a reception is
\* live; else a queued item whose time has come is sent, or all of them wait.
BecomeFree(n, q, fl, a, d) ==
  \/ /\ queue' = [queue EXCEPT ![n] = q]
     /\ flight' = [flight EXCEPT ![n] = fl]
     /\ air' = a /\ dropped' = d
  \/ /\ fl = None /\ rx'[n] = None
     /\ \E m \in q : Issue(n, q, m, a, d)

Release(n, a) == BecomeFree(n, queue[n], None, a, dropped)
GiveUp(n, a) == BecomeFree(n, queue[n], None, a, dropped \cup {<<n, flight[n].msg>>})

HasRoom(n) == Cardinality(queue[n]) < QueueCap

\* try_cascade_requeue: the cascadeRequeue timer will serve the queue.
TryCascadeRequeue(n, a) ==
  \/ GiveUp(n, a)
  \/ /\ HasRoom(n)
     /\ queue' = [queue EXCEPT ![n] = @ \cup {flight[n].msg}]
     /\ flight' = [flight EXCEPT ![n] = None]
     /\ air' = a /\ UNCHANGED dropped

\* Another next hop.
TakeAlt(n, a) ==
  /\ \E h \in Via[n][flight[n].msg] \ {flight[n].next} :
       SendRts(n, [flight[n] EXCEPT !.next = h], a)
  /\ UNCHANGED <<queue, dropped>>

CascadeToAlt(n) == TakeAlt(n, air) \/ TryCascadeRequeue(n, air)

InPhase(n, phase) == flight[n] # None /\ flight[n].phase = phase

\* A next hop that does not answer.  While retries are left, the flight goes on as it
\* is until RetryFire.
RtsTimeoutFire(n) ==
  /\ InPhase(n, "cts")
  /\ UNCHANGED <<hops, memory, history>>
  /\ CascadeToAlt(n)

\* A retry, in which no CTS is awaited until its RTS is out, or none is left.
AckTimeoutFire(n) ==
  /\ InPhase(n, "ack")
  /\ UNCHANGED <<hops, memory, history>>
  /\ \/ /\ flight' = [flight EXCEPT ![n].phase = "wait"]
        /\ UNCHANGED <<queue, air, dropped>>
     \/ CascadeToAlt(n)

\* retryBackoff, nackWait: one left armed from an earlier moment may fire in any phase.
RetryFire(n) ==
  /\ flight[n] # None
  /\ SendRts(n, flight[n], air)
  /\ UNCHANGED <<queue, hops, memory, history, dropped>>

\* The gap is over: the DATA goes out, or the radio goes on refusing it.
DoDataTx(n) ==
  /\ InPhase(n, "data")
  /\ UNCHANGED <<hops, memory, history>>
  /\ \/ /\ flight' = [flight EXCEPT ![n].phase = "ack"]
        /\ air' = air \cup {[F("data", n, flight[n].next, flight[n].msg) EXCEPT
                               !.hops = hops[n][flight[n].msg]]}
        /\ UNCHANGED <<queue, dropped>>
     \/ GiveUp(n, air)

\* queueWakeup, cascadeRequeue, deferredDrain
WakeUp(n) ==
  /\ flight[n] = None /\ rx[n] = None
  /\ \E m \in queue[n] : Issue(n, queue[n], m, air, dropped)
  /\ UNCHANGED <<hops, memory, history>>

\* enqueue_data: a full queue refuses the message.
Send(m) ==
  LET n == Origin[m]
  IN /\ <<n, m>> \notin took
     /\ took' = took \cup {<<n, m>>}
     /\ UNCHANGED <<hops, memory, delivered, refused, forgotten>>
     /\ IF HasRoom(n) THEN BecomeFree(n, queue[n] \cup {m}, flight[n], air, dropped)
        ELSE BecomeFree(n, queue[n], flight[n], air, dropped \cup {<<n, m>>})

----------------------------------------------------------------------------
\* Hearing an answer

\* handle_cts, ordinary: bound to the next hop only.
HearCts(n, f) ==
  /\ f.kind = "cts"
  /\ IF InPhase(n, "cts") /\ f.by = flight[n].next
     THEN flight' = [flight EXCEPT ![n].phase = "data"]
     ELSE UNCHANGED flight
  /\ air' = air \ {f}
  /\ UNCHANGED <<queue, hops, memory, history, dropped>>

\* Variant: the identity of the flight is not compared.
BoundToHop(n, f) == InPhase(n, "cts") /\ f.by = flight[n].next

BoundToFlight(n, f) ==
  InPhase(n, "cts") /\ f.by = flight[n].next /\ f.msg = flight[n].msg

\* handle_cts, terminal: bound to the identity it echoes.
HearDone(n, f) ==
  /\ f.kind = "done"
  /\ UNCHANGED <<hops, memory, history>>
  /\ IF BoundToFlight(n, f) THEN Release(n, air \ {f})
     ELSE air' = air \ {f} /\ UNCHANGED <<queue, flight, dropped>>

\* Variant: no counter is compared.
AckOfAny(n, f) == InPhase(n, "ack")

AckOfFlight(n, f) == InPhase(n, "ack") /\ Lo[f.msg] = Lo[flight[n].msg]

\* handle_ack, on hardware
HearAck(n, f) ==
  /\ f.kind = "ack"
  /\ UNCHANGED <<hops, memory, history>>
  /\ IF AckOfFlight(n, f)
     THEN Release(n, air \ {f})
     ELSE air' = air \ {f} /\ UNCHANGED <<queue, flight, dropped>>

\* A busy peer: wait (the DATA gap, if it runs, runs on) or go to the end of the queue.
BusyPeer(n, a) ==
  \/ /\ flight' = [flight EXCEPT ![n].phase = IF @ = "data" THEN "data" ELSE "wait"]
     /\ air' = a /\ UNCHANGED <<queue, dropped>>
  \/ IF HasRoom(n)
     THEN BecomeFree(n, queue[n] \cup {flight[n].msg}, None, a, dropped)
     ELSE GiveUp(n, a)

\* handle_nack, whatever the flight is waiting for.
HearNack(n, f) ==
  /\ f.kind \in Nack
  /\ UNCHANGED <<hops, memory, history>>
  /\ LET a == air \ {f}
     IN IF flight[n] # None /\ Lo[f.msg] = Lo[flight[n].msg]
        THEN \/ f.kind = "loopDup" /\ TakeAlt(n, a)
             \/ f.kind \in {"loopDup", "hopBudget"} /\ GiveUp(n, a)
             \/ f.kind = "busyRx" /\ BusyPeer(n, a)
             \/ f.kind = "budget" /\ TryCascadeRequeue(n, a)
        ELSE air' = a /\ UNCHANGED <<queue, flight, dropped>>

\* Variant: any message our next hop sends on will do.
SentOnAny(n, f) == f.to # n /\ flight[n] # None /\ f.by = flight[n].next

\* Our next hop sends our own message on, and not back to us.
SentOn(n, f) ==
  f.to # n /\ flight[n] # None /\ f.by = flight[n].next /\ f.msg = flight[n].msg

\* handle_rts of a frame for another node
Overhear(n, f) ==
  /\ f.kind = "rts" /\ SentOn(n, f)
  /\ UNCHANGED <<hops, memory, history>>
  /\ Release(n, air)

----------------------------------------------------------------------------
\* Receiving

\* The announcement repeats the one accepted: sender, destination and counter.
Repeated(n, f) ==
  rx[n].from = f.by /\ Dst[rx[n].msg] = Dst[f.msg] /\ Lo[rx[n].msg] = Lo[f.msg]

\* handle_rts, addressed to n, in the order of the code.  A completed flight is found
\* unless its entry expired or was evicted meanwhile.
HearRts(n, f) ==
  /\ f.kind = "rts"
  /\ LET a == air \ {f}
         answer(kind) == air' = a \cup {F(kind, n, f.by, f.msg)}
         accept == rx' = [rx EXCEPT ![n] = [from |-> f.by, msg |-> f.msg]]
     IN \/ <<f.by, f.msg>> \in done[n] /\ answer("done") /\ UNCHANGED rx
        \/ /\ rx[n] # None
           /\ IF Repeated(n, f) THEN answer("cts") /\ accept
              ELSE answer("busyRx") /\ UNCHANGED rx
        \/ rx[n] = None /\ flight[n] # None /\ air' = a /\ UNCHANGED rx
        \/ /\ rx[n] = None /\ flight[n] = None
           /\ \/ answer("cts") /\ accept
              \/ answer("budget") /\ UNCHANGED rx   \* compute_budget_tier is critical
              \/ air' = a /\ UNCHANGED rx           \* the originator is over its share
  /\ UNCHANGED <<queue, flight, hops, post, seen, done, history, dropped>>

Known(n) == {m \in Msg : seen[n][m] # None}

\* Variant: what was accepted is not recorded.
RecordNothing(n, m, from) == UNCHANGED <<seen, forgotten>>

\* record_seen_origin; the age of the entries is abstracted, any may be the oldest.
RecordSeen(n, m, from) ==
  IF Cardinality(Known(n)) >= SeenCap /\ m \notin Known(n)
  THEN \E old \in Known(n) :
         /\ seen' = [seen EXCEPT ![n] = [@ EXCEPT ![m] = from, ![old] = None]]
         /\ forgotten' = forgotten \cup {<<n, old>>}
  ELSE /\ seen' = [seen EXCEPT ![n][m] = from]
       /\ UNCHANGED forgotten

\* completed_flight_store
StoreCompleted(n, e) == done' = [done EXCEPT ![n] = @ \cup {e}]

Expected(n, f) == rx[n] # None /\ Lo[rx[n].msg] = Lo[f.msg]

\* The hop budget is spent, and this is not the destination.
Exhausted(n, f) == n # Dst[f.msg] /\ f.hops = 0

Forwarded(f) == [msg |-> f.msg, hops |-> IF f.hops = 0 THEN 0 ELSE f.hops - 1]

\* Variant: the count of hops is not floored.
TakeInUnderflow(n, f) ==
  /\ post[n] = None
  /\ took' = took \cup {<<n, f.msg>>}
  /\ post' = [post EXCEPT ![n] = [Forwarded(f) EXCEPT !.hops = f.hops - 1]]

\* The message waits in _post_ack while the ACK is on the air; no exchange is as
\* short as that.
TakeIn(n, f) ==
  /\ post[n] = None
  /\ took' = took \cup {<<n, f.msg>>}
  /\ post' = [post EXCEPT ![n] = Forwarded(f)]

\* handle_data.  The sender is taken from the announcement.
HearData(n, f) ==
  /\ f.kind = "data"
  /\ LET a == air \ {f}
         m == f.msg
         from == rx[n].from
         reply(kind) == a \cup {F(kind, n, from, m)}
         free(b) == BecomeFree(n, queue[n], flight[n], b, dropped)
     IN IF ~Expected(n, f)
        THEN air' = a /\ UNCHANGED <<queue, flight, memory, took, dropped, refused, forgotten>>
        ELSE /\ rx' = [rx EXCEPT ![n] = None]
             /\ CASE m # rx[n].msg ->
                       /\ free(a)
                       /\ UNCHANGED <<post, seen, done, took, refused, forgotten>>
                  [] m = rx[n].msg /\ Exhausted(n, f) ->
                       /\ RecordSeen(n, m, from) /\ refused' = refused \cup {<<n, m>>}
                       /\ free(reply("hopBudget")) /\ UNCHANGED <<post, done, took>>
                  [] m = rx[n].msg /\ ~Exhausted(n, f) /\ seen[n][m] \notin {None, from} ->
                       /\ free(reply("loopDup"))
                       /\ UNCHANGED <<post, seen, done, took, refused, forgotten>>
                  [] m = rx[n].msg /\ ~Exhausted(n, f) /\ seen[n][m] = from ->
                       /\ StoreCompleted(n, <<from, m>>) /\ free(reply("ack"))
                       /\ UNCHANGED <<post, seen, took, refused, forgotten>>
                  [] OTHER ->
                       /\ StoreCompleted(n, <<from, m>>) /\ RecordSeen(n, m, from)
                       /\ TakeIn(n, f) /\ air' = reply("ack")
                       /\ UNCHANGED <<queue, flight, dropped, refused>>
  /\ UNCHANGED <<hops, delivered>>

\* do_post_ack: deliver, or queue the forward if there is room.
DoPostAck(n) ==
  /\ post[n] # None
  /\ UNCHANGED <<rx, seen, done, took, refused, forgotten>>
  /\ LET m == post[n].msg
     IN /\ post' = [post EXCEPT ![n] = None]
        /\ IF Dst[m] = n
           THEN /\ delivered' = [delivered EXCEPT ![m] = @ + 1]
                /\ BecomeFree(n, queue[n], flight[n], air, dropped)
                /\ UNCHANGED hops
           ELSE /\ hops' = [hops EXCEPT ![n][m] = post[n].hops]
                /\ IF HasRoom(n)
                   THEN BecomeFree(n, queue[n] \cup {m}, flight[n], air, dropped)
                   ELSE BecomeFree(n, queue[n], flight[n], air, dropped \cup {<<n, m>>})
                /\ UNCHANGED delivered

PendingRxExpiryFire(n) ==
  /\ rx[n] # None
  /\ rx' = [rx EXCEPT ![n] = None]
  /\ BecomeFree(n, queue[n], flight[n], air, dropped)
  /\ UNCHANGED <<hops, post, seen, done, history>>

Lose(f) ==
  /\ air' = air \ {f}
  /\ UNCHANGED <<queue, flight, hops, memory, history, dropped>>

----------------------------------------------------------------------------

Hear(n, f) ==
  \/ HearRts(n, f) \/ HearCts(n, f) \/ HearDone(n, f)
  \/ HearData(n, f) \/ HearAck(n, f) \/ HearNack(n, f)

Timer(n) ==
  \/ RtsTimeoutFire(n) \/ AckTimeoutFire(n) \/ RetryFire(n) \/ DoDataTx(n)
  \/ WakeUp(n) \/ DoPostAck(n) \/ PendingRxExpiryFire(n)

Step ==
  \/ \E m \in Msg : Send(m)
  \/ \E n \in Node : Timer(n)
  \/ \E f \in air : \/ Hear(f.to, f) \/ Lose(f)
                    \/ \E n \in Node : Overhear(n, f)

Next ==
  /\ Step
  /\ Cardinality(air') <= MaxAir
  /\ \A m \in Msg : delivered'[m] <= MaxTimes

Spec == Init /\ [][Next]_vars
=============================================================================
