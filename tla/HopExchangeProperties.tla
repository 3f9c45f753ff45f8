----------------------- MODULE HopExchangeProperties -----------------------
(***************************************************************************)
(* What the exchange of a hop promises: to the node that hands a message   *)
(* on, and from end to end.                                                *)
(***************************************************************************)
EXTENDS HopExchange

\* The message in a slot of a node, if there is one.
Carried(slot) == IF slot = None THEN {} ELSE {slot.msg}

Held(n) == queue[n] \cup Carried(flight[n]) \cup Carried(post[n])

Holds(n, m) == m \in Held(n)

\* The message came as far as n, which accepted it or said that it went too far.
Reached(n, m) == <<n, m>> \in took \/ <<n, m>> \in refused

\* Some node knowingly gave these messages up.
Stopped == {p[2] : p \in dropped \cup refused}

\* Every variable has its type.
TypeOK ==
  /\ queue \in [Node -> SUBSET Msg]
  /\ flight \in [Node -> Flight \cup {None}]
  /\ hops \in [Node -> [Msg -> Nat]]
  /\ rx \in [Node -> Announced \cup {None}]
  /\ post \in [Node -> Accepted \cup {None}]
  /\ seen \in [Node -> [Msg -> Node \cup {None}]]
  /\ done \in [Node -> SUBSET (Node \X Msg)]
  /\ air \subseteq Frame
  /\ {took, dropped, refused, forgotten} \subseteq SUBSET (Node \X Msg)
  /\ delivered \in [Msg -> Nat]

\* Lost ACKs, repeated announcements, retries and alternates never make a destination
\* deliver a message twice, as long as its memory of origins (_seen_origins) has not
\* evicted it.
DeliveredOnce ==
  \A m \in Msg : delivered[m] > 1 => <<Dst[m], m>> \in forgotten

\* A node that took a message on has it in hand, delivered it, gave it up knowingly, or
\* a next hop of its route has had it: neither an ACK, nor a terminal CTS, nor a
\* forward overheard ever ends a flight that did not arrive.
HandedOn ==
  \A n \in Node, m \in Msg :
    <<n, m>> \in took => \/ Holds(n, m)
                         \/ n = Dst[m] /\ delivered[m] > 0
                         \/ <<n, m>> \in dropped
                         \/ \E h \in Via[n][m] : Reached(h, m)

\* From end to end: as long as nobody stops it knowingly, a message that was sent is
\* held by some node, or delivered.
NoSilentLoss ==
  \A m \in Msg :
    <<Origin[m], m>> \in took =>
      delivered[m] > 0 \/ m \in Stopped \/ \E n \in Node : Holds(n, m)

\* The exchange of hops as the courier its messages rely on.
Carrier == INSTANCE Courier WITH
  inHand <- UNION {Held(n) : n \in Node},
  stopped <- Stopped,
  forgotten <- {m \in Msg : <<Dst[m], m>> \in forgotten}

\* Every step is one of the courier's: the last copy of a message disappears only in
\* the step that delivers it or stops it, or later.
IsCourier == Carrier!Spec
=============================================================================
