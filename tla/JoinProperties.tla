--------------------------- MODULE JoinProperties ---------------------------
(***************************************************************************)
(* What the claiming of ids promises, to one node and to two that came to  *)
(* share an id.                                                            *)
(***************************************************************************)
EXTENDS Join

CONSTANT Mediator   \* a node that hears, and is heard by, all others

ASSUME MediatorAssumption ==
  /\ Mediator \in Node /\ Range[Mediator] = Node
  /\ \A n \in Node : Mediator \in Range[n]

\* Every variable has its type: an id that nobody found is never claimed.
TypeOK ==
  /\ node \in [Node -> State] /\ used \subseteq Node \X Id

\* id_bind pairs ids and keys one to one, whatever is heard first- or second-hand, and
\* the id a node uses is its own there: what others say never takes it away.
Bijection ==
  \A n \in Node :
    /\ node[n].id # None => node[n].bind[node[n].id] = [key |-> n, auth |-> TRUE]
    /\ \A i, j \in Id :
         KeyAt(node[n], i) # None /\ KeyAt(node[n], i) = KeyAt(node[n], j) => i = j

\* A node that wants an id and has none is on its way to one: its claim is guarded, a
\* timer will claim again, or the application was told that the leaf is full.
NotStranded ==
  \A n \in Node :
    LET s == node[n]
    IN s.asked /\ s.id = None =>
         \/ s.claim # None /\ "guard" \in s.armed
         \/ s.claim = None /\ (s.armed \cap {"listen", "retry"} # {} \/ s.full)

\* A node gives up an id it adopted, without a command, only if a node with a lower key
\* really claimed or used that id, and so not for a denial that others made up or for
\* one that names a third node: of two that share an id, at most one moves.
RightfulYield ==
  [][\A n \in Node :
       LET s == node[n]
           t == node'[n]
       IN s.joined /\ t.id # s.id /\ t.events = s.events
            => \E k \in Node : k < n /\ <<k, s.id>> \in used]_vars

----------------------------------------------------------------------------
\* Two nodes that do not hear each other

\* x is among those that hear f.
OnAirTo(n, x, f) ==
  \E R \in SUBSET (Range[n] \ {n}), c \in Pool \cup {None} : x \in R /\ OnAir(n, f, R, c) /\ Note

Noticed(x) == \E f \in node[x].waiting : f.kind = "bcn" /\ OnAirTo(x, Mediator, f)

Told(x) ==
  \E f \in node[Mediator].waiting :
    f.kind = "deny" /\ f.claimant = x /\ f.id = node[x].id /\ OnAirTo(Mediator, x, f)

Sends(n) ==
  \E f \in node[n].waiting, R \in SUBSET (Range[n] \ {n}), c \in Pool \cup {None} :
    OnAir(n, f, R, c) /\ Note

\* Beacons are periodic, what waits goes on the air, suppression ends, and between two
\* neighbours a frame sent again and again is heard at last.
Fairness ==
  /\ WF_vars((\E e \in Id \X Node : AgeMediated(Mediator, e)) /\ Note)
  /\ \A n \in Node \ {Mediator} :
       /\ SF_vars(Beacon(n) /\ Note) /\ WF_vars(Sends(n))
       /\ SF_vars(Noticed(n)) /\ SF_vars(Told(n))

LiveSpec == Spec /\ Fairness

Shares(n, k) ==
  /\ node[n].joined /\ node[k].joined /\ node[n].id = node[k].id
  /\ node[n].asked /\ node[k].asked

\* Two nodes that adopted one id do not keep it, though neither hears the other: their
\* neighbour notices both and tells one of them, again if the first time was lost.
Heal ==
  \A n, k \in Node \ {Mediator} : n < k => (Shares(n, k) ~> ~Shares(n, k))
=============================================================================
