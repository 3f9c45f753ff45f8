-------------------------------- MODULE Join --------------------------------
(***************************************************************************)
(* The short ids of the static nodes of one leaf (lib/core/node_join,      *)
(* node_hashlocate, node_beacon): a node that wants an id listens, claims  *)
(* one, waits for objections and adopts it.  Nobody assigns ids, so two    *)
(* nodes may come to use the same one; they find out by beacons, by a      *)
(* neighbour that hears both, or by a message that reached the wrong one,  *)
(* and the node with the higher key moves.                                 *)
(***************************************************************************)
EXTENDS Naturals, FiniteSets

CONSTANTS
  Node,       \* static nodes, each named by its key_hash32
  Id,         \* short ids
  Pool,       \* those a node may claim (normal_node_id_min..254)
  Range,      \* node -> the nodes that may hear it
  Flash,      \* node -> the Lease its flash holds at the start: an id it claimed before,
              \* one that its configuration gives it (not joined), or none
  MaxWaiting, \* bound: node -> its frames not on the air yet; a further one is lost
  MaxEvents,  \* bound: node -> its commands, restarts and aged entries
  None

Lease == [id: Id \cup {None}, joined: BOOLEAN]

ASSUME NameAssumption ==
  /\ Node \subseteq Nat /\ Pool \subseteq Id /\ None \notin Id \cup Node
  /\ Range \in [Node -> SUBSET Node] /\ Flash \in [Node -> Lease]
  /\ \A n \in Node : Flash[n].joined => Flash[n].id # None
ASSUME BoundAssumption == MaxWaiting \in [Node -> Nat] /\ MaxEvents \in [Node -> Nat]

Timer == {"listen", "guard", "retry"}   \* kJoinListen, kJoinClaimGuard, kJoinRetry
Row == [key: Node, auth: BOOLEAN]       \* IdBind; auth: heard from the owner itself
ASSUME RowAssumption == None \notin Row

\* Claims, denials and beacons.  `claimant` is whom a denial tells, and the sender
\* of the others.
Frame == [kind: {"claim", "deny", "bcn"}, id: Id, owner: Node, claimant: Node]

State == [
  id: Id \cup {None}, joined: BOOLEAN,  \* _node_id, _joined (adopted by claim)
  claim: Id \cup {None},                \* _join_claim
  armed: SUBSET Timer,
  bind: [Id -> Row \cup {None}],        \* _id_bind
  denied: SUBSET Id,                    \* _join_denied
  mediated: SUBSET (Id \X Node),        \* _mediated_recent
  waiting: SUBSET Frame,                \* sent, not on the air yet
  asked: BOOLEAN,                       \* configured for the leaf
  full: BOOLEAN,                        \* told join_refused since its last claim
  saved: Lease,                         \* what a restart finds
  events: Nat]

VARIABLES
  node,   \* node -> State
  used    \* <<node, id>>: it claimed the id or had it, and somebody may still believe so

vars == <<node, used>>

----------------------------------------------------------------------------
\* Sending

\* tx_initiating, tx_flood: at once or from the deferral ring.  A node that left is on
\* another leaf, where nobody of these listens.
Send(n, s, f) ==
  IF s.asked /\ Cardinality(s.waiting) < MaxWaiting[n]
  THEN [s EXCEPT !.waiting = @ \cup {f}] ELSE s

\* addr_conflict_send_deny
SendDeny(n, s, i, owner, claimant) ==
  Send(n, s, [kind |-> "deny", id |-> i, owner |-> owner, claimant |-> claimant])

----------------------------------------------------------------------------
\* Bindings

KeyAt(s, i) == IF s.bind[i] = None THEN None ELSE s.bind[i].key

\* Variant: the id the node had before keeps its row.
StoreBeside(s, i, row) == [s EXCEPT !.bind[i] = row]

\* id_bind_evict_other_hash_holders, then the row itself
Store(s, i, row) ==
  [s EXCEPT !.bind = [j \in Id |-> IF j = i THEN row
                                   ELSE IF KeyAt(s, j) = row.key THEN None ELSE s.bind[j]]]

\* id_bind_auth_holder_other
HolderElsewhere(s, i, k) == \E j \in Id \ {i} : s.bind[j] = [key |-> k, auth |-> TRUE]

\* What id_bind_set refuses: a second-hand claim against a first-hand row, and
\* anything against the node's own.
Refuses(n, s, i, k, auth) ==
  \/ ~auth /\ HolderElsewhere(s, i, k)
  \/ KeyAt(s, i) \notin {None, k} /\ (~auth \/ (i = s.id /\ KeyAt(s, i) = n))

\* Confidence is upgrade-only.
Bind(n, s, i, k, auth) ==
  IF Refuses(n, s, i, k, auth) THEN s
  ELSE Store(s, i, [key |-> k, auth |-> auth \/ s.bind[i] = [key |-> k, auth |-> TRUE]])

\* Two nodes heard first-hand under one id.
Collides(s, i, k) == i # s.id /\ s.bind[i] # None /\ s.bind[i].auth /\ s.bind[i].key # k

Lower(k, m) == IF k < m THEN k ELSE m
Higher(k, m) == IF k < m THEN m ELSE k

\* Variant: the node with the lower key is told.
MediateUpward(n, s, i, k) ==
  LET loser == Lower(k, KeyAt(s, i))
  IN IF Collides(s, i, k) /\ <<i, loser>> \notin s.mediated
     THEN [SendDeny(n, s, i, Higher(k, KeyAt(s, i)), loser)
             EXCEPT !.mediated = @ \cup {<<i, loser>>}]
     ELSE s

\* The neighbour of two nodes that use one id tells the higher key, once per window.
Mediate(n, s, i, k) ==
  LET loser == Higher(k, KeyAt(s, i))
  IN IF Collides(s, i, k) /\ <<i, loser>> \notin s.mediated
     THEN [SendDeny(n, s, i, Lower(k, KeyAt(s, i)), loser)
             EXCEPT !.mediated = @ \cup {<<i, loser>>}]
     ELSE s

----------------------------------------------------------------------------
\* Claiming

\* set_identity
Identify(n, s, i) ==
  IF i = None THEN [s EXCEPT !.id = None]
  ELSE Bind(n, [s EXCEPT !.id = i], i, n, TRUE)

\* join_choose_candidate_id: the id the node was last known by, else any free one (the
\* routing table may exclude more), else none.
Candidates(n, s) ==
  LET known == {i \in Pool \ s.denied : KeyAt(s, i) = n}
  IN IF known # {} THEN known
     ELSE {i \in Pool \ s.denied : s.bind[i] = None} \cup {None}

\* Variant: a leaf without a free id is not told from one with.
StartClaimBlindly(n, s, c) ==
  IF s.joined \/ s.claim # None THEN s
  ELSE Send(n, [s EXCEPT !.claim = c, !.full = FALSE, !.armed = @ \cup {"guard"}],
            [kind |-> "claim", id |-> c, owner |-> n, claimant |-> n])

\* join_start_claim, c chosen from the candidates
StartClaim(n, s, c) ==
  IF s.joined \/ s.claim # None THEN s
  ELSE IF c = None THEN [s EXCEPT !.full = TRUE]
  ELSE Send(n, [s EXCEPT !.claim = c, !.full = FALSE, !.armed = @ \cup {"guard"}],
            [kind |-> "claim", id |-> c, owner |-> n, claimant |-> n])

\* join_claim_guard_fire: somebody else has the id by now, or it is adopted.
GuardFires(n, s) ==
  LET t == [s EXCEPT !.claim = None, !.armed = @ \ {"guard"}]
  IN IF s.claim = None THEN t
     ELSE IF KeyAt(s, s.claim) \notin {None, n}
          THEN [t EXCEPT !.denied = @ \cup {s.claim}, !.armed = @ \cup {"retry"}]
          ELSE [Identify(n, t, s.claim) EXCEPT !.joined = TRUE]

\* Variant: a pending claim is kept, though its guard is cancelled.
ResetButClaim(n, s) ==
  LET t == IF s.joined
           THEN [s EXCEPT !.denied = @ \cup {s.id},
                          !.bind[s.id] = IF KeyAt(s, s.id) = n THEN None ELSE @]
           ELSE s
  IN Identify(n, [t EXCEPT !.joined = FALSE, !.armed = @ \ {"guard"}], None)

\* reset_join_for_reprovision
Reset(n, s) ==
  LET t == IF s.joined
           THEN [s EXCEPT !.denied = @ \cup {s.id},
                          !.bind[s.id] = IF KeyAt(s, s.id) = n THEN None ELSE @]
           ELSE s
  IN Identify(n, [t EXCEPT !.joined = FALSE, !.claim = None, !.armed = @ \ {"guard"}], None)

\* forced_rejoin
ForcedRejoin(n, s, c) == IF s.joined THEN StartClaim(n, Reset(n, s), c) ELSE s

----------------------------------------------------------------------------
\* Frames

\* Who has the id that k claims, as far as s can tell: the node itself, its table, or a
\* claim of its own with the lower key.
Holder(n, s, i, k) ==
  IF s.joined /\ s.id = i THEN n
  ELSE IF KeyAt(s, i) \notin {None, k} THEN KeyAt(s, i)
  ELSE IF s.claim = i /\ n < k THEN n ELSE None

\* Variant: no back-off is started.
WithdrawForGood(s) ==
  [s EXCEPT !.claim = None, !.denied = @ \cup {s.claim}, !.armed = @ \ {"guard"}]

Withdraw(s) ==
  [s EXCEPT !.claim = None, !.denied = @ \cup {s.claim}, !.armed = (@ \ {"guard"}) \cup {"retry"}]

\* handle_j, CLAIM: whoever knows a holder objects, a node that claims the id too and has
\* the higher key withdraws, and everybody else takes note.
HearClaim(n, s, f) ==
  LET owner == Holder(n, s, f.id, f.owner)
  IN IF owner # None THEN SendDeny(n, s, f.id, owner, f.owner)
     ELSE IF s.claim = f.id THEN Withdraw(s)
     ELSE Bind(n, s, f.id, f.owner, FALSE)

\* Variant: whoever is told, yields.
YieldsToAny(n, s, f) == f.kind = "deny" /\ f.claimant = n /\ s.joined /\ s.id = f.id

\* A node that shares its id with the owner of the denial yields to a lower key.
Yields(n, s, f) ==
  /\ f.kind = "deny" /\ f.claimant = n /\ f.owner < n
  /\ s.joined /\ s.id = f.id

Learn(n, s, f) == Bind(n, s, f.id, f.owner, FALSE)

\* handle_j, DENY
HearDeny(n, s, f, c) ==
  IF Yields(n, s, f) THEN ForcedRejoin(n, Learn(n, s, f), c) ELSE Learn(n, s, f)

\* ingest_beacon: a node defends its own id, and believes the owner of another.
HearBeacon(n, s, f) ==
  IF f.id = s.id THEN SendDeny(n, s, f.id, n, f.owner)
  ELSE Bind(n, Mediate(n, s, f.id, f.owner), f.id, f.owner, TRUE)

Hear(n, s, f, c) ==
  CASE ~s.asked -> s
    [] s.asked /\ f.kind = "claim" -> HearClaim(n, s, f)
    [] s.asked /\ f.kind = "deny" -> HearDeny(n, s, f, c)
    [] s.asked /\ f.kind = "bcn" -> HearBeacon(n, s, f)

\* A frame is heard by some of the other nodes, or by none.
OnAir(n, f, R, c) ==
  /\ \A x \in R :
       Yields(x, node[x], f) => c \in Candidates(x, Reset(x, Learn(x, node[x], f)))
  /\ (\A x \in R : ~Yields(x, node[x], f)) => c = None
  /\ node' = [x \in Node |-> IF x = n THEN [node[n] EXCEPT !.waiting = @ \ {f}]
                             ELSE IF x \in R THEN Hear(x, node[x], f, c)
                             ELSE node[x]]

----------------------------------------------------------------------------
\* Timers

Becomes(n, s) == node' = [node EXCEPT ![n] = s]

\* emit_beacon, periodic or after an adoption
Beacon(n) ==
  /\ node[n].id # None /\ Cardinality(node[n].waiting) < MaxWaiting[n]
  /\ Becomes(n, Send(n, node[n], [kind |-> "bcn", id |-> node[n].id, owner |-> n, claimant |-> n]))

\* The listening is over, or the back-off after a lost claim.
ClaimTimer(n, timer, c) ==
  /\ timer \in node[n].armed
  /\ c \in Candidates(n, node[n])
  /\ Becomes(n, StartClaim(n, [node[n] EXCEPT !.armed = @ \ {timer}], c))

GuardTimer(n) == "guard" \in node[n].armed /\ Becomes(n, GuardFires(n, node[n]))

\* Nobody keeps a mediation longer than mediated_deny_suppress_ms.
AgeMediated(n, e) ==
  /\ e \in node[n].mediated
  /\ Becomes(n, [node[n] EXCEPT !.mediated = @ \ {e}])

----------------------------------------------------------------------------
\* Commands, restarts, and what takes as long as they do

May(n) == node[n].events < MaxEvents[n]
Counted(s) == [s EXCEPT !.events = @ + 1]

Unbound == [i \in Id |-> None]
NoLease == [id |-> None, joined |-> FALSE]

\* provision_apply_live: leave the id and forget the network.
Reprovision(n, s) ==
  [Reset(n, s) EXCEPT !.bind = Unbound, !.saved = NoLease, !.events = @ + 1]

\* CmdKind::join
Listen(s) ==
  IF s.joined \/ s.claim # None THEN s ELSE [s EXCEPT !.armed = @ \cup {"listen"}]

JoinVerb(n) ==
  /\ May(n)
  /\ Becomes(n, Listen([Reprovision(n, node[n]) EXCEPT !.asked = TRUE, !.full = FALSE]))

\* handle_leave
Leave(n) ==
  /\ May(n) /\ node[n].asked
  /\ Becomes(n, [Reprovision(n, node[n]) EXCEPT !.asked = FALSE])

\* persist_cfg_if_needed, on some later turn of the main loop
Persist(n) ==
  LET lease == [id |-> node[n].id, joined |-> node[n].joined]
  IN /\ May(n) /\ node[n].saved # lease
     /\ Becomes(n, [node[n] EXCEPT !.saved = lease])

\* fw_main: an id that was saved is resumed, a configured node without one asks for one.
Boot(n, asked, saved, events) ==
  Identify(n, [id |-> None, joined |-> saved.joined, claim |-> None,
               armed |-> IF asked /\ saved.id = None THEN {"listen"} ELSE {},
               bind |-> Unbound, denied |-> {}, mediated |-> {}, waiting |-> {},
               asked |-> asked, full |-> FALSE, saved |-> saved, events |-> events],
           saved.id)

Reboot(n) ==
  /\ May(n)
  /\ Becomes(n, Boot(n, node[n].asked, node[n].saved, node[n].events + 1))

\* id_bind_age_out: not the node's own row.
AgeRow(n, i) ==
  /\ May(n) /\ node[n].bind[i] # None /\ ~(i = node[n].id /\ KeyAt(node[n], i) = n)
  /\ Becomes(n, Counted([node[n] EXCEPT !.bind[i] = None]))

AgeDenied(n, i) ==
  /\ May(n) /\ i \in node[n].denied
  /\ Becomes(n, Counted([node[n] EXCEPT !.denied = @ \ {i}]))

\* Variant: the node that finds out gives way.
VerifyAndYield(n, k, c) ==
  /\ k # n /\ node[n].id # None /\ <<k, node[n].id>> \in used
  /\ node[n].asked
  /\ c \in Candidates(n, Reset(n, node[n]))
  /\ Becomes(n, ForcedRejoin(n, node[n], c))

\* l2c_confirmed_collision: a message for k came to n, and the search for k found n's own
\* id.  The answer, k's or out of a table, may be old.
VerifyOnDelivery(n, k, c) ==
  /\ k # n /\ node[n].id # None /\ <<k, node[n].id>> \in used
  /\ node[n].asked
  /\ IF n < k THEN c = None /\ Becomes(n, SendDeny(n, node[n], node[n].id, n, k))
     ELSE /\ c \in Candidates(n, Reset(n, node[n]))
          /\ Becomes(n, ForcedRejoin(n, node[n], c))

----------------------------------------------------------------------------

Init ==
  /\ node = [n \in Node |-> Boot(n, TRUE, Flash[n], 0)]
  /\ used = {p \in Node \X Id : p[2] = Flash[p[1]].id}

Step ==
  \E n \in Node :
       \/ \E f \in node[n].waiting, R \in SUBSET (Range[n] \ {n}), c \in Pool \cup {None} :
            OnAir(n, f, R, c)
       \/ Beacon(n) \/ GuardTimer(n)
       \/ \E timer \in {"listen", "retry"}, c \in Pool \cup {None} : ClaimTimer(n, timer, c)
       \/ \E e \in Id \X Node : AgeMediated(n, e)
       \/ JoinVerb(n) \/ Leave(n) \/ Persist(n) \/ Reboot(n)
       \/ \E i \in Id : AgeRow(n, i) \/ AgeDenied(n, i)
       \/ \E k \in Node, c \in Pool \cup {None} : VerifyOnDelivery(n, k, c)

Note ==
  used' = used \cup {p \in Node \X Id : p[2] \in {node'[p[1]].id, node'[p[1]].claim}}

Next == Step /\ Note

Spec == Init /\ [][Next]_vars
=============================================================================
