----------------------------- MODULE JoinProofs -----------------------------
(***************************************************************************)
(* The promises of Join for any nodes, ids and ranges.  Most operators     *)
(* take the state of one node to another one, so the invariant is stated   *)
(* of one node (Core, Awake) and kept operator by operator; what they say  *)
(* of other nodes goes through `used`, which only grows.                   *)
(***************************************************************************)
EXTENDS JoinProperties, TLAPS

Own(n) == [key |-> n, auth |-> TRUE]

\* Every id that a node names for itself or for others is one that its owner used.
Witnessed(n, s, U) ==
  /\ \A i \in Id : i \in {s.id, s.claim, s.saved.id} => <<n, i>> \in U
  /\ \A i \in Id : s.bind[i] # None => <<s.bind[i].key, i>> \in U
  /\ \A f \in s.waiting : <<f.owner, f.id>> \in U /\ (f.kind # "deny" => f.owner = n)

OneToOne(s) ==
  \A i, j \in Id : s.bind[i] # None /\ s.bind[j] # None /\ s.bind[i].key = s.bind[j].key => i = j

Core(n, s, U) ==
  /\ s \in State
  /\ s.joined => s.id # None /\ s.claim = None
  /\ s.saved.joined => s.saved.id # None
  /\ s.id # None => s.bind[s.id] = Own(n)
  /\ OneToOne(s)
  /\ Witnessed(n, s, U)

\* A node that wants an id is on its way to one.
Awake(s) ==
  s.asked /\ s.id = None =>
    \/ s.claim # None /\ "guard" \in s.armed
    \/ s.claim = None /\ (s.armed \cap {"listen", "retry"} # {} \/ s.full)

Inv ==
  /\ used \subseteq Node \X Id
  /\ \A n \in Node : Core(n, node[n], used) /\ Awake(node[n])
  /\ node \in [Node -> State]

\* An adopted id is given up for a lower key only.
Rightful(n, s, t) ==
  s.joined /\ t.id # s.id /\ t.events = s.events => \E k \in Node : k < n /\ <<k, s.id>> \in used

\* What says where a node is in its own procedure.
Same(s, t) ==
  /\ t.id = s.id /\ t.joined = s.joined /\ t.claim = s.claim /\ t.armed = s.armed
  /\ t.asked = s.asked /\ t.full = s.full /\ t.saved = s.saved /\ t.events = s.events

----------------------------------------------------------------------------
\* One node

LEMMA Kept ==
  ASSUME NEW n \in Node, NEW s, NEW U, Core(n, s, U), NEW t \in State,
         t.id = None \/ (t.id = s.id /\ t.bind[t.id] = s.bind[t.id]),
         t.joined => t.id # None /\ t.claim = None,
         t.claim \in {None, s.claim}, t.saved \in {s.saved, NoLease},
         t.waiting \subseteq s.waiting,
         \A i \in Id : t.bind[i] \in {None, s.bind[i]}
  PROVE  Core(n, t, U)
  <1>1. None \notin Id
    BY NameAssumption
  <1>2. OneToOne(t)
    BY DEF Core, OneToOne
  <1>3. Witnessed(n, t, U)
    BY <1>1 DEF Core, Witnessed, NoLease
  <1>4. t.id # None => t.bind[t.id] = Own(n)
    BY DEF Core
  <1>5. t.saved.joined => t.saved.id # None
    BY DEF Core, NoLease
  <1> QED BY <1>2, <1>3, <1>4, <1>5 DEF Core

LEMMA Grown ==
  ASSUME NEW n, NEW s, NEW U, NEW V, U \subseteq V, Core(n, s, U)
  PROVE  Core(n, s, V)
  BY DEF Core, Witnessed

LEMMA KeyTyped ==
  ASSUME NEW s \in State, NEW i \in Id
  PROVE  /\ KeyAt(s, i) \in Node \cup {None}
         /\ KeyAt(s, i) = None <=> s.bind[i] = None
         /\ s.bind[i] # None => KeyAt(s, i) = s.bind[i].key /\ s.bind[i] \in Row
  BY NameAssumption DEF KeyAt, State, Row

LEMMA OwnTyped ==
  ASSUME NEW n \in Node
  PROVE  Own(n) \in Row /\ Own(n).key = n /\ Own(n).auth = TRUE /\ Own(n) # None
  <1>1. Own(n) \in Row
    BY DEF Own, Row
  <1> QED BY <1>1, RowAssumption DEF Own

LEMMA SendKeeps ==
  ASSUME NEW n \in Node, NEW s, NEW U, Core(n, s, U),
         NEW f \in Frame, <<f.owner, f.id>> \in U, f.kind # "deny" => f.owner = n
  PROVE  Core(n, Send(n, s, f), U) /\ Same(s, Send(n, s, f)) /\ Send(n, s, f).bind = s.bind
  <1> DEFINE t == [s EXCEPT !.waiting = @ \cup {f}]
  <1>1. CASE Send(n, s, f) = s
    BY <1>1 DEF Same
  <1>2. CASE Send(n, s, f) = t
    <2>1. s \in State
      BY DEF Core
    <2>2. t \in State
      BY <2>1 DEF State
    <2>3. t.bind = s.bind /\ t.waiting = s.waiting \cup {f} /\ Same(s, t)
      BY <2>1 DEF State, Same
    <2> HIDE DEF t
    <2>4. OneToOne(t) /\ Witnessed(n, t, U)
      BY <2>3 DEF Core, OneToOne, Witnessed, Same
    <2> QED BY <1>2, <2>2, <2>3, <2>4 DEF Core, Same
  <1> QED BY <1>1, <1>2 DEF Send

LEMMA DenyKeeps ==
  ASSUME NEW n \in Node, NEW s, NEW U, Core(n, s, U),
         NEW i \in Id, NEW owner \in Node, NEW claimant \in Node, <<owner, i>> \in U
  PROVE  /\ Core(n, SendDeny(n, s, i, owner, claimant), U)
         /\ Same(s, SendDeny(n, s, i, owner, claimant))
         /\ SendDeny(n, s, i, owner, claimant).bind = s.bind
  <1> DEFINE f == [kind |-> "deny", id |-> i, owner |-> owner, claimant |-> claimant]
  <1>1. f \in Frame /\ f.owner = owner /\ f.id = i /\ f.kind = "deny"
    BY DEF Frame
  <1> HIDE DEF f
  <1>2. SendDeny(n, s, i, owner, claimant) = Send(n, s, f)
    BY DEF SendDeny, f
  <1> QED BY <1>1, <1>2, SendKeeps

\* The row that is stored is the only one of its key; the others are as before or gone.
LEMMA Stored ==
  ASSUME NEW s \in State, NEW i \in Id, NEW row \in Row
  PROVE  /\ Store(s, i, row) \in State
         /\ Same(s, Store(s, i, row)) /\ Store(s, i, row).waiting = s.waiting
         /\ Store(s, i, row).bind[i] = row
         /\ \A j \in Id \ {i} :
              Store(s, i, row).bind[j] = IF KeyAt(s, j) = row.key THEN None ELSE s.bind[j]
  <1> DEFINE B == [j \in Id |-> IF j = i THEN row
                                ELSE IF KeyAt(s, j) = row.key THEN None ELSE s.bind[j]]
  <1>1. B \in [Id -> Row \cup {None}]
    BY DEF State
  <1>2. B[i] = row /\ \A j \in Id \ {i} : B[j] = IF KeyAt(s, j) = row.key THEN None ELSE s.bind[j]
    OBVIOUS
  <1>3. Store(s, i, row) = [s EXCEPT !.bind = B]
    BY DEF Store
  <1> HIDE DEF B
  <1> QED BY <1>1, <1>2, <1>3 DEF State, Same

LEMMA StoreKeeps ==
  ASSUME NEW n \in Node, NEW s \in State, NEW U, NEW i \in Id, NEW row \in Row,
         s.joined => s.id # None /\ s.claim = None, s.saved.joined => s.saved.id # None,
         OneToOne(s), Witnessed(n, s, U), <<row.key, i>> \in U,
         s.id # None => IF i = s.id THEN row = Own(n) ELSE s.bind[s.id] = Own(n) /\ row.key # n
  PROVE  Core(n, Store(s, i, row), U)
  <1> DEFINE t == Store(s, i, row)
  <1>1. /\ t \in State /\ Same(s, t) /\ t.waiting = s.waiting /\ t.bind[i] = row
        /\ \A j \in Id \ {i} : t.bind[j] = IF KeyAt(s, j) = row.key THEN None ELSE s.bind[j]
    BY Stored
  <1> HIDE DEF t
  <1>2. row # None /\ row.key \in Node /\ None \notin Node \cup Id
    BY RowAssumption, NameAssumption DEF Row
  <1>3. \A j \in Id \ {i} :
          t.bind[j] # None => t.bind[j] = s.bind[j] /\ s.bind[j].key # row.key
    BY <1>1, KeyTyped
  <1>4. OneToOne(t)
    BY <1>1, <1>3 DEF OneToOne
  <1>5. Witnessed(n, t, U)
    BY <1>1, <1>3 DEF Witnessed, Same
  <1>6. t.id # None => t.bind[t.id] = Own(n)
    <2> SUFFICES ASSUME t.id # None, t.id # i PROVE t.bind[t.id] = Own(n)
      BY <1>1 DEF Same
    <2>1. s.id \in Id /\ s.id # i /\ t.id = s.id /\ s.bind[s.id] = Own(n) /\ row.key # n
      BY <1>1 DEF Same, State
    <2>2. Own(n) # None /\ Own(n).key = n
      BY OwnTyped
    <2>3. KeyAt(s, s.id) = n
      BY <2>1, <2>2 DEF KeyAt
    <2> QED BY <1>1, <2>1, <2>3
  <1> QED BY <1>1, <1>4, <1>5, <1>6 DEF Core, Same, t

\* Nothing second-hand moves a node's own row, and nobody else is heard as this node.
LEMMA BindKeeps ==
  ASSUME NEW n \in Node, NEW s, NEW U, Core(n, s, U),
         NEW i \in Id, NEW k \in Node, NEW auth \in BOOLEAN, <<k, i>> \in U, ~auth \/ k # n
  PROVE  Core(n, Bind(n, s, i, k, auth), U) /\ Same(s, Bind(n, s, i, k, auth))
  <1> DEFINE row == [key |-> k, auth |-> auth \/ s.bind[i] = [key |-> k, auth |-> TRUE]]
  <1>1. s \in State
    BY DEF Core
  <1>2. CASE Refuses(n, s, i, k, auth)
    BY <1>2 DEF Bind, Same
  <1>3. CASE ~Refuses(n, s, i, k, auth)
    <2>1. Bind(n, s, i, k, auth) = Store(s, i, row)
      BY <1>3 DEF Bind
    <2>2. row \in Row /\ row.key = k /\ row.auth = (auth \/ s.bind[i] = Own(k))
      BY DEF Row, Own
    <2> HIDE DEF row
    <2>3. None \notin Node \cup Id /\ Own(n) # None /\ Own(n).key = n
      BY NameAssumption, OwnTyped
    <2>4. ASSUME s.id # None, i = s.id PROVE row = Own(n)
      <3>1. s.bind[i] = Own(n) /\ KeyAt(s, i) = n
        BY <2>3, <2>4 DEF Core, KeyAt
      <3>2. k = n
        BY <1>3, <2>3, <2>4, <3>1 DEF Refuses
      <3> QED BY <2>2, <3>1, <3>2 DEF Own, Row
    <2>5. ASSUME s.id # None, i # s.id PROVE s.bind[s.id] = Own(n) /\ k # n
      <3>1. s.bind[s.id] = Own(n) /\ s.id \in Id
        BY <1>1, <2>5 DEF Core, State
      <3>2. k = n => HolderElsewhere(s, i, k)
        BY <2>5, <3>1 DEF HolderElsewhere, Own
      <3> QED BY <1>3, <3>1, <3>2 DEF Refuses
    <2>6. Core(n, Store(s, i, row), U)
      BY <1>1, <2>2, <2>4, <2>5, StoreKeeps DEF Core
    <2> QED BY <1>1, <2>1, <2>2, <2>6, Stored
  <1> QED BY <1>2, <1>3

LEMMA MediateKeeps ==
  ASSUME NEW n \in Node, NEW s, NEW U, Core(n, s, U), NEW i \in Id, NEW k \in Node, <<k, i>> \in U
  PROVE  Core(n, Mediate(n, s, i, k), U) /\ Same(s, Mediate(n, s, i, k))
  <1> DEFINE h == KeyAt(s, i)
             loser == Higher(k, h)
             d == SendDeny(n, s, i, Lower(k, h), loser)
             t == [d EXCEPT !.mediated = @ \cup {<<i, loser>>}]
  <1>1. s \in State
    BY DEF Core
  <1>2. CASE Mediate(n, s, i, k) = s
    BY <1>2 DEF Same
  <1>3. CASE Collides(s, i, k) /\ Mediate(n, s, i, k) = t
    <2>1. h \in Node /\ <<h, i>> \in U
      BY <1>1, <1>3, KeyTyped DEF Collides, Core, Witnessed
    <2>2. Lower(k, h) \in Node /\ loser \in Node /\ <<Lower(k, h), i>> \in U
      BY <2>1 DEF Lower, Higher
    <2> HIDE DEF h, loser
    <2>3. Core(n, d, U) /\ Same(s, d)
      BY <2>2, DenyKeeps
    <2> HIDE DEF d
    <2>4. d \in State
      BY <2>3 DEF Core
    <2>5. t \in State /\ Same(d, t) /\ t.bind = d.bind /\ t.waiting = d.waiting
      BY <2>2, <2>4 DEF State, Same
    <2> HIDE DEF t
    <2>6. Core(n, t, U)
      BY <2>3, <2>5 DEF Core, OneToOne, Witnessed, Same
    <2> QED BY <1>3, <2>3, <2>5, <2>6 DEF Same
  <1> QED BY <1>2, <1>3 DEF Mediate

\* A claim that is started is guarded; a leaf that is full is told so.
Started(s, t) ==
  /\ t.id = s.id /\ t.joined = s.joined /\ t.asked = s.asked /\ t.events = s.events
  /\ s.joined \/ s.claim # None => t = s
  /\ ~s.joined /\ s.claim = None =>
       \/ t.claim = None /\ t.full
       \/ t.claim # None /\ "guard" \in t.armed

LEMMA StartClaimKeeps ==
  ASSUME NEW n \in Node, NEW s, NEW U, Core(n, s, U), NEW c \in Id \cup {None}, NEW t,
         t = StartClaim(n, s, c), t.claim \in Id => <<n, t.claim>> \in U
  PROVE  Core(n, t, U) /\ Started(s, t)
  <1>1. s \in State /\ None \notin Id
    BY NameAssumption DEF Core
  <1>2. CASE s.joined \/ s.claim # None
    BY <1>2 DEF StartClaim, Started
  <1>3. CASE ~s.joined /\ s.claim = None /\ c = None
    <2> DEFINE u == [s EXCEPT !.full = TRUE]
    <2>1. u \in State /\ u.id = s.id /\ u.joined = s.joined /\ u.asked = s.asked /\ u.events = s.events
          /\ u.claim = s.claim /\ u.full /\ u.bind = s.bind /\ u.saved = s.saved /\ u.waiting = s.waiting
      BY <1>1 DEF State
    <2>2. t = u
      BY <1>3 DEF StartClaim
    <2> HIDE DEF u
    <2>3. Core(n, u, U)
      BY <2>1 DEF Core, OneToOne, Witnessed
    <2> QED BY <1>3, <2>1, <2>2, <2>3 DEF Started
  <1>4. CASE ~s.joined /\ s.claim = None /\ c # None
    <2> DEFINE u == [s EXCEPT !.claim = c, !.full = FALSE, !.armed = @ \cup {"guard"}]
               f == [kind |-> "claim", id |-> c, owner |-> n, claimant |-> n]
    <2>1. u \in State /\ u.id = s.id /\ u.joined = s.joined /\ u.asked = s.asked /\ u.events = s.events
          /\ u.claim = c /\ "guard" \in u.armed /\ u.bind = s.bind /\ u.saved = s.saved /\ u.waiting = s.waiting
      BY <1>1, <1>4 DEF State, Timer
    <2>2. t = Send(n, u, f)
      BY <1>4 DEF StartClaim
    <2>3. f \in Frame /\ f.owner = n /\ f.id = c
      BY <1>4 DEF Frame
    <2> HIDE DEF u, f
    <2>4. t.claim = c
      BY <1>1, <2>1, <2>2 DEF Send, State
    <2>5. <<n, c>> \in U
      BY <1>4, <2>4
    <2>6. Core(n, u, U)
      BY <1>4, <2>1, <2>5 DEF Core, OneToOne, Witnessed
    <2>7. Core(n, t, U) /\ Same(u, t)
      BY <2>2, <2>3, <2>5, <2>6, SendKeeps
    <2> QED BY <1>1, <1>4, <2>1, <2>4, <2>7 DEF Same, Started
  <1> QED BY <1>2, <1>3, <1>4

\* A node that takes an id that is its own or free in its table has it there.
LEMMA IdentifyKeeps ==
  ASSUME NEW n \in Node, NEW s \in State, NEW U, NEW i \in Id, <<n, i>> \in U,
         OneToOne(s), Witnessed(n, s, U), s.joined => s.claim = None,
         s.saved.joined => s.saved.id # None, KeyAt(s, i) \in {None, n}
  PROVE  /\ Core(n, Identify(n, s, i), U)
         /\ Same([s EXCEPT !.id = i], Identify(n, s, i))
         /\ Identify(n, s, i).bind[i] = Own(n)
  <1> DEFINE t == [s EXCEPT !.id = i]
  <1>1. None \notin Id
    BY NameAssumption
  <1>2. t \in State /\ t.id = i /\ t.joined = s.joined /\ t.bind = s.bind /\ t.claim = s.claim /\ t.saved = s.saved
        /\ t.waiting = s.waiting /\ KeyAt(t, i) = KeyAt(s, i)
    BY <1>1 DEF State, KeyAt
  <1>3. Identify(n, s, i) = Bind(n, t, i, n, TRUE)
    BY <1>1 DEF Identify
  <1> HIDE DEF t
  <1>4. ~Refuses(n, t, i, n, TRUE)
    BY <1>2 DEF Refuses
  <1>5. Identify(n, s, i) = Store(t, i, Own(n))
    BY <1>3, <1>4 DEF Bind, Own
  <1>6. Core(n, Store(t, i, Own(n)), U)
    <2>1. OneToOne(t) /\ Witnessed(n, t, U)
      BY <1>2 DEF OneToOne, Witnessed
    <2>2. (t.joined => t.id # None /\ t.claim = None) /\ (t.saved.joined => t.saved.id # None)
      BY <1>1, <1>2
    <2>3. Own(n) \in Row /\ <<Own(n).key, i>> \in U
      BY OwnTyped
    <2>4. t.id # None =>
            IF i = t.id THEN Own(n) = Own(n) ELSE t.bind[t.id] = Own(n) /\ Own(n).key # n
      BY <1>2
    <2> QED BY <1>2, <2>1, <2>2, <2>3, <2>4, StoreKeeps
  <1>7. Same(t, Identify(n, s, i)) /\ Identify(n, s, i).bind[i] = Own(n)
    <2>1. t \in State /\ Own(n) \in Row
      BY <1>2, OwnTyped
    <2>2. Same(t, Store(t, i, Own(n))) /\ Store(t, i, Own(n)).bind[i] = Own(n)
      BY <2>1, Stored
    <2> QED BY <1>5, <2>2
  <1> QED BY <1>5, <1>6, <1>7 DEF t

\* A node that resets has no id and no claim.
LEMMA ResetKeeps ==
  ASSUME NEW n \in Node, NEW s, NEW U, Core(n, s, U)
  PROVE  /\ Core(n, Reset(n, s), U)
         /\ Reset(n, s).id = None /\ ~Reset(n, s).joined /\ Reset(n, s).claim = None
         /\ Reset(n, s).asked = s.asked /\ Reset(n, s).events = s.events
  <1> DEFINE B == IF s.joined
                  THEN [s.bind EXCEPT ![s.id] = IF KeyAt(s, s.id) = n THEN None ELSE @] ELSE s.bind
             D == IF s.joined THEN s.denied \cup {s.id} ELSE s.denied
             t == [s EXCEPT !.denied = D, !.bind = B, !.joined = FALSE, !.claim = None,
                            !.armed = @ \ {"guard"}, !.id = None]
  <1>1. s \in State /\ (s.joined => s.id \in Id)
    BY DEF Core, State
  <1>2. B \in [Id -> Row \cup {None}] /\ D \subseteq Id /\ \A i \in Id : B[i] \in {None, s.bind[i]}
    BY <1>1 DEF State
  <1>3. Reset(n, s) = t
    BY <1>1 DEF Reset, Identify, State
  <1> HIDE DEF B, D
  <1>4. /\ t \in State /\ t.id = None /\ ~t.joined /\ t.claim = None /\ t.saved = s.saved
        /\ t.waiting = s.waiting /\ t.bind = B /\ t.asked = s.asked /\ t.events = s.events
    BY <1>1, <1>2 DEF State
  <1> HIDE DEF t
  <1>5. Core(n, t, U)
    BY <1>2, <1>4, Kept
  <1> QED BY <1>3, <1>4, <1>5

----------------------------------------------------------------------------
\* What a node hears

\* A step of one node that keeps its part of the invariant.
Good(n, s, t, V) == Core(n, t, V) /\ Awake(t) /\ Rightful(n, s, t)

LEMMA SameGood ==
  ASSUME NEW n, NEW s, NEW t, NEW V, Core(n, t, V), Awake(s), Same(s, t)
  PROVE  Good(n, s, t, V)
  BY DEF Good, Awake, Same, Rightful

\* A node that loses its id has a claim under way or is told that the leaf is full.
LEMMA ForcedRejoinKeeps ==
  ASSUME NEW n \in Node, NEW s, NEW V, Core(n, s, V), Awake(s), NEW c \in Id \cup {None}, NEW t,
         t = ForcedRejoin(n, s, c), t.claim \in Id => <<n, t.claim>> \in V
  PROVE  Core(n, t, V) /\ Awake(t)
  <1>1. CASE ~s.joined
    BY <1>1 DEF ForcedRejoin
  <1>2. CASE s.joined
    <2> DEFINE r == Reset(n, s)
    <2>1. Core(n, r, V) /\ ~r.joined /\ r.claim = None
      BY ResetKeeps
    <2>2. t = StartClaim(n, r, c)
      BY <1>2 DEF ForcedRejoin
    <2> HIDE DEF r
    <2> QED BY <2>1, <2>2, StartClaimKeeps DEF Awake, Started
  <1> QED BY <1>1, <1>2

LEMMA HearClaimKeeps ==
  ASSUME NEW n \in Node, NEW s, NEW V, Core(n, s, V), Awake(s),
         NEW f \in Frame, <<f.owner, f.id>> \in V
  PROVE  Good(n, s, HearClaim(n, s, f), V)
  <1> DEFINE owner == Holder(n, s, f.id, f.owner)
             t == HearClaim(n, s, f)
  <1>1. s \in State /\ None \notin Id /\ None \notin Node /\ f.id \in Id /\ f.owner \in Node
    BY NameAssumption DEF Core, Frame
  <1>2. owner # None => owner \in Node /\ <<owner, f.id>> \in V
    BY <1>1, KeyTyped DEF Holder, Core, Witnessed
  <1> HIDE DEF owner
  <1>3. CASE owner # None
    <2>1. t = SendDeny(n, s, f.id, owner, f.owner)
      BY <1>3 DEF HearClaim, owner
    <2> QED BY <1>1, <1>2, <1>3, <2>1, DenyKeeps, SameGood
  <1>4. CASE owner = None /\ s.claim = f.id
    <2>1. t = Withdraw(s)
      BY <1>4 DEF HearClaim, owner
    <2>2. /\ Withdraw(s) \in State /\ Withdraw(s).id = s.id /\ Withdraw(s).bind = s.bind
          /\ Withdraw(s).joined = s.joined /\ Withdraw(s).claim = None /\ "retry" \in Withdraw(s).armed
          /\ Withdraw(s).saved = s.saved /\ Withdraw(s).waiting = s.waiting
      BY <1>1, <1>4 DEF Withdraw, State, Timer
    <2>3. Core(n, Withdraw(s), V)
      BY <2>2, Kept DEF Core
    <2> QED BY <2>1, <2>2, <2>3 DEF Good, Awake, Rightful
  <1>5. CASE owner = None /\ s.claim # f.id
    <2>1. t = Bind(n, s, f.id, f.owner, FALSE)
      BY <1>5 DEF HearClaim, owner
    <2> QED BY <1>1, <2>1, BindKeeps, SameGood
  <1> QED BY <1>3, <1>4, <1>5

LEMMA HearDenyKeeps ==
  ASSUME NEW n \in Node, NEW s, NEW V, Core(n, s, V), Awake(s), used \subseteq V,
         NEW f \in Frame, <<f.owner, f.id>> \in used, NEW c \in Id \cup {None}, NEW t,
         t = HearDeny(n, s, f, c), t.claim \in Id => <<n, t.claim>> \in V
  PROVE  Good(n, s, t, V)
  <1> DEFINE l == Learn(n, s, f)
  <1>1. f.id \in Id /\ f.owner \in Node
    BY DEF Frame
  <1>2. Core(n, l, V) /\ Same(s, l)
    BY <1>1, BindKeeps DEF Learn
  <1> HIDE DEF l
  <1>3. CASE ~Yields(n, s, f)
    BY <1>2, <1>3, SameGood DEF HearDeny, l
  <1>4. CASE Yields(n, s, f)
    <2>1. t = ForcedRejoin(n, l, c)
      BY <1>4 DEF HearDeny, l
    <2>2. Awake(l)
      BY <1>2 DEF Awake, Same
    <2>3. Core(n, t, V) /\ Awake(t)
      BY <1>2, <2>1, <2>2, ForcedRejoinKeeps
    <2>4. Rightful(n, s, t)
      BY <1>1, <1>4 DEF Yields, Rightful
    <2> QED BY <2>3, <2>4 DEF Good
  <1> QED BY <1>3, <1>4

LEMMA HearBeaconKeeps ==
  ASSUME NEW n \in Node, NEW s, NEW V, Core(n, s, V), Awake(s),
         NEW f \in Frame, <<f.owner, f.id>> \in V, f.owner # n
  PROVE  Good(n, s, HearBeacon(n, s, f), V)
  <1>1. f.id \in Id /\ f.owner \in Node
    BY DEF Frame
  <1>2. CASE f.id = s.id
    <2>1. <<n, f.id>> \in V
      BY <1>1, <1>2 DEF Core, Witnessed
    <2>2. HearBeacon(n, s, f) = SendDeny(n, s, f.id, n, f.owner)
      BY <1>2 DEF HearBeacon
    <2> QED BY <1>1, <2>1, <2>2, DenyKeeps, SameGood
  <1>3. CASE f.id # s.id
    <2> DEFINE m == Mediate(n, s, f.id, f.owner)
    <2>1. Core(n, m, V) /\ Same(s, m)
      BY <1>1, MediateKeeps
    <2>2. HearBeacon(n, s, f) = Bind(n, m, f.id, f.owner, TRUE)
      BY <1>3 DEF HearBeacon
    <2> HIDE DEF m
    <2>3. Core(n, Bind(n, m, f.id, f.owner, TRUE), V) /\ Same(m, Bind(n, m, f.id, f.owner, TRUE))
      BY <1>1, <2>1, BindKeeps
    <2> QED BY <2>1, <2>2, <2>3, SameGood DEF Same
  <1> QED BY <1>2, <1>3

LEMMA HearKeeps ==
  ASSUME NEW n \in Node, NEW s, NEW V, Core(n, s, V), Awake(s), used \subseteq V,
         NEW f \in Frame, <<f.owner, f.id>> \in used, f.kind # "deny" => f.owner # n,
         NEW c \in Id \cup {None}, NEW t,
         t = Hear(n, s, f, c), t.claim \in Id => <<n, t.claim>> \in V
  PROVE  Good(n, s, t, V)
  <1>1. f.kind \in {"claim", "deny", "bcn"} /\ <<f.owner, f.id>> \in V /\ s.asked \in BOOLEAN
    BY DEF Frame, Core, State
  <1>2. CASE ~s.asked
    BY <1>2, SameGood DEF Hear, Same
  <1>3. CASE s.asked /\ f.kind = "claim"
    BY <1>1, <1>3, HearClaimKeeps DEF Hear
  <1>4. CASE s.asked /\ f.kind = "deny"
    BY <1>4, HearDenyKeeps DEF Hear
  <1>5. CASE s.asked /\ f.kind = "bcn"
    BY <1>1, <1>5, HearBeaconKeeps DEF Hear
  <1> QED BY <1>1, <1>2, <1>3, <1>4, <1>5

----------------------------------------------------------------------------
\* Timers, commands and restarts

LEMMA GuardFiresKeeps ==
  ASSUME NEW n \in Node, NEW s, NEW V, Core(n, s, V), Awake(s)
  PROVE  Good(n, s, GuardFires(n, s), V)
  <1> DEFINE t == [s EXCEPT !.claim = None, !.armed = @ \ {"guard"}]
  <1>1. s \in State /\ None \notin Id
    BY NameAssumption DEF Core
  <1>2. /\ t \in State /\ t.id = s.id /\ t.joined = s.joined /\ t.claim = None
        /\ t.armed = s.armed \ {"guard"} /\ t.bind = s.bind /\ t.saved = s.saved
        /\ t.waiting = s.waiting /\ t.asked = s.asked /\ t.full = s.full
    BY <1>1 DEF State
  <1>3. GuardFires(n, s) = IF s.claim = None THEN t
                           ELSE IF KeyAt(s, s.claim) \notin {None, n}
                           THEN [t EXCEPT !.denied = @ \cup {s.claim}, !.armed = @ \cup {"retry"}]
                           ELSE [Identify(n, t, s.claim) EXCEPT !.joined = TRUE]
    BY DEF GuardFires
  <1> HIDE DEF t
  <1>4. CASE s.claim = None
    <2>1. Core(n, t, V)
      BY <1>1, <1>2, Kept DEF Core
    <2> QED BY <1>2, <1>3, <1>4, <2>1 DEF Good, Awake, Rightful
  <1>5. CASE s.claim # None /\ KeyAt(s, s.claim) \notin {None, n}
    <2> DEFINE u == [t EXCEPT !.denied = @ \cup {s.claim}, !.armed = @ \cup {"retry"}]
    <2>1. /\ u \in State /\ u.id = s.id /\ u.joined = s.joined /\ u.claim = None /\ "retry" \in u.armed
          /\ u.bind = s.bind /\ u.saved = s.saved /\ u.waiting = s.waiting
      BY <1>1, <1>2, <1>5 DEF State, Timer
    <2>2. GuardFires(n, s) = u
      BY <1>3, <1>5
    <2> HIDE DEF u
    <2>3. Core(n, u, V)
      BY <1>1, <2>1, Kept DEF Core
    <2> QED BY <2>1, <2>2, <2>3 DEF Good, Awake, Rightful
  <1>6. CASE s.claim # None /\ KeyAt(s, s.claim) \in {None, n}
    <2> DEFINE u == Identify(n, t, s.claim)
               w == [u EXCEPT !.joined = TRUE]
    <2>1. s.claim \in Id /\ <<n, s.claim>> \in V /\ KeyAt(t, s.claim) \in {None, n} /\ ~s.joined
      BY <1>1, <1>2, <1>6 DEF Core, State, Witnessed, KeyAt
    <2>2. OneToOne(t) /\ Witnessed(n, t, V) /\ (t.saved.joined => t.saved.id # None)
      BY <1>1, <1>2 DEF Core, OneToOne, Witnessed
    <2>3. Core(n, u, V) /\ Same([t EXCEPT !.id = s.claim], u) /\ u.bind[s.claim] = Own(n)
      BY <1>2, <2>1, <2>2, IdentifyKeeps
    <2> HIDE DEF u
    <2>4. u \in State /\ u.id = s.claim /\ u.claim = None
      BY <1>2, <2>3 DEF Core, Same, State
    <2>5. /\ w \in State /\ w.id = s.claim /\ w.joined /\ w.claim = None /\ w.bind = u.bind
          /\ w.saved = u.saved /\ w.waiting = u.waiting
      BY <2>4 DEF State
    <2>6. GuardFires(n, s) = w
      BY <1>3, <1>6 DEF u
    <2> HIDE DEF w
    <2>7. Core(n, w, V)
      BY <1>1, <2>1, <2>3, <2>4, <2>5 DEF Core, OneToOne, Witnessed
    <2> QED BY <1>6, <2>1, <2>5, <2>6, <2>7 DEF Good, Awake, Rightful
  <1> QED BY <1>4, <1>5, <1>6

LEMMA ClaimKeeps ==
  ASSUME NEW n \in Node, NEW s, NEW V, Core(n, s, V), Awake(s),
         NEW timer \in {"listen", "retry"}, NEW c \in Id \cup {None}, NEW t,
         t = StartClaim(n, [s EXCEPT !.armed = @ \ {timer}], c),
         t.claim \in Id => <<n, t.claim>> \in V
  PROVE  Good(n, s, t, V)
  <1> DEFINE u == [s EXCEPT !.armed = @ \ {timer}]
  <1>1. s \in State
    BY DEF Core
  <1>2. /\ u \in State /\ u.id = s.id /\ u.joined = s.joined /\ u.claim = s.claim
        /\ u.armed = s.armed \ {timer} /\ u.bind = s.bind /\ u.saved = s.saved
        /\ u.waiting = s.waiting /\ u.asked = s.asked /\ u.events = s.events
    BY <1>1 DEF State
  <1>3. t = StartClaim(n, u, c)
    OBVIOUS
  <1> HIDE DEF u
  <1>4. Core(n, u, V)
    BY <1>1, <1>2, Kept DEF Core
  <1>5. /\ Core(n, t, V) /\ t.id = s.id /\ t.asked = s.asked
        /\ s.joined \/ s.claim # None => t = u
        /\ ~s.joined /\ s.claim = None => \/ t.claim = None /\ t.full
                                          \/ t.claim # None /\ "guard" \in t.armed
    <2>1. Core(n, t, V) /\ Started(u, t)
      BY <1>3, <1>4, StartClaimKeeps
    <2> QED BY <1>2, <2>1 DEF Started
  <1>6. Awake(t)
    <2>1. CASE s.joined
      BY <1>5, <2>1 DEF Awake, Core
    <2>2. CASE ~s.joined /\ s.claim # None
      BY <1>2, <1>5, <2>2 DEF Awake
    <2>3. CASE ~s.joined /\ s.claim = None
      BY <1>5, <2>3 DEF Awake
    <2> QED BY <2>1, <2>2, <2>3
  <1> QED BY <1>5, <1>6 DEF Good, Rightful

LEMMA ReprovisionKeeps ==
  ASSUME NEW n \in Node, NEW s, NEW V, Core(n, s, V), NEW t, t = Reprovision(n, s)
  PROVE  /\ Core(n, t, V) /\ t.id = None /\ ~t.joined /\ t.claim = None
         /\ t.asked = s.asked /\ t.events = s.events + 1
  <1> DEFINE r == Reset(n, s)
             u == [r EXCEPT !.bind = Unbound, !.saved = NoLease, !.events = @ + 1]
  <1>1. /\ Core(n, r, V) /\ r.id = None /\ ~r.joined /\ r.claim = None
        /\ r.asked = s.asked /\ r.events = s.events
    BY ResetKeeps
  <1>2. t = u
    BY DEF Reprovision
  <1> HIDE DEF r
  <1>3. r \in State /\ NoLease \in Lease /\ Unbound \in [Id -> Row \cup {None}]
    BY <1>1 DEF Core, NoLease, Lease, Unbound
  <1>4. /\ u \in State /\ u.id = None /\ ~u.joined /\ u.claim = None /\ u.bind = Unbound
        /\ u.saved = NoLease /\ u.waiting = r.waiting /\ u.asked = s.asked /\ u.events = s.events + 1
    <2>1. u \in State
      <3> DEFINE e == r.events + 1
      <3>1. e \in Nat /\ u = [r EXCEPT !.bind = Unbound, !.saved = NoLease, !.events = e]
        BY <1>3 DEF State
      <3> HIDE DEF u, e
      <3> QED BY <1>3, <3>1 DEF State
    <2>2. /\ u.id = r.id /\ u.joined = r.joined /\ u.claim = r.claim /\ u.bind = Unbound
          /\ u.saved = NoLease /\ u.waiting = r.waiting /\ u.asked = r.asked /\ u.events = r.events + 1
      BY <1>3 DEF State
    <2> QED BY <1>1, <2>1, <2>2
  <1> HIDE DEF u
  <1>5. Core(n, u, V)
    BY <1>1, <1>4, Kept DEF Unbound
  <1> QED BY <1>2, <1>4, <1>5

LEMMA JoinKeeps ==
  ASSUME NEW n \in Node, NEW s, NEW V, Core(n, s, V), NEW t,
         t = Listen([Reprovision(n, s) EXCEPT !.asked = TRUE, !.full = FALSE])
  PROVE  Good(n, s, t, V)
  <1> DEFINE r == Reprovision(n, s)
             u == [r EXCEPT !.asked = TRUE, !.full = FALSE]
             w == [u EXCEPT !.armed = @ \cup {"listen"}]
  <1>1. Core(n, r, V) /\ r.id = None /\ ~r.joined /\ r.claim = None /\ r.events = s.events + 1
    BY ReprovisionKeeps
  <1> HIDE DEF r
  <1>2. r \in State /\ s.events \in Nat
    BY <1>1 DEF Core, State
  <1>3. u \in State /\ ~u.joined /\ u.claim = None /\ u.id = None /\ u.bind = r.bind
        /\ u.saved = r.saved /\ u.waiting = r.waiting /\ u.events = r.events
    BY <1>1, <1>2 DEF State
  <1>4. t = w
    BY <1>3 DEF Listen, r
  <1> HIDE DEF u
  <1>5. w \in State /\ ~w.joined /\ w.claim = None /\ w.id = None /\ w.bind = r.bind
        /\ w.saved = r.saved /\ w.waiting = r.waiting /\ w.events = r.events /\ "listen" \in w.armed
    BY <1>3 DEF State, Timer
  <1> HIDE DEF w
  <1>6. Core(n, w, V)
    BY <1>1, <1>5, Kept
  <1>7. w.events # s.events
    BY <1>1, <1>2, <1>5
  <1> QED BY <1>4, <1>5, <1>6, <1>7 DEF Good, Awake, Rightful

LEMMA LeaveKeeps ==
  ASSUME NEW n \in Node, NEW s, NEW V, Core(n, s, V), NEW t,
         t = [Reprovision(n, s) EXCEPT !.asked = FALSE]
  PROVE  Good(n, s, t, V)
  <1> DEFINE r == Reprovision(n, s)
  <1>1. Core(n, r, V) /\ r.id = None /\ ~r.joined /\ r.claim = None /\ r.events = s.events + 1
    BY ReprovisionKeeps
  <1>2. t = [r EXCEPT !.asked = FALSE]
    OBVIOUS
  <1> HIDE DEF r
  <1>3. r \in State /\ s.events \in Nat
    BY <1>1 DEF Core, State
  <1>4. t \in State /\ ~t.joined /\ t.claim = None /\ t.id = None /\ t.bind = r.bind
        /\ t.saved = r.saved /\ t.waiting = r.waiting /\ t.events = r.events /\ ~t.asked
    BY <1>1, <1>2, <1>3 DEF State
  <1>5. Core(n, t, V)
    BY <1>1, <1>4, Kept
  <1>6. t.events # s.events
    BY <1>1, <1>3, <1>4
  <1> QED BY <1>4, <1>5, <1>6 DEF Good, Awake, Rightful

LEMMA PersistKeeps ==
  ASSUME NEW n \in Node, NEW s, NEW V, Core(n, s, V), Awake(s), NEW t,
         t = [s EXCEPT !.saved = [id |-> s.id, joined |-> s.joined]]
  PROVE  Good(n, s, t, V)
  <1>1. s \in State
    BY DEF Core
  <1>2. [id |-> s.id, joined |-> s.joined] \in Lease
    BY <1>1 DEF State, Lease
  <1>3. /\ t \in State /\ t.id = s.id /\ t.joined = s.joined /\ t.claim = s.claim /\ t.armed = s.armed
        /\ t.bind = s.bind /\ t.saved.id = s.id /\ t.saved.joined = s.joined
        /\ t.waiting = s.waiting /\ t.asked = s.asked /\ t.full = s.full
    BY <1>1, <1>2 DEF State
  <1>4. Core(n, t, V)
    BY <1>3 DEF Core, OneToOne, Witnessed
  <1> QED BY <1>3, <1>4 DEF Good, Awake, Rightful

\* A restarted node has what was saved, or listens for an id.
\* What a restart may find, and what comes of it.
Found(n, lease, V) ==
  /\ lease \in Lease /\ (lease.joined => lease.id # None)
  /\ lease.id \in Id => <<n, lease.id>> \in V

Booted(n, t, V, e) == Core(n, t, V) /\ Awake(t) /\ t.events = e

LEMMA BootKeeps ==
  ASSUME NEW n \in Node, NEW asked \in BOOLEAN, NEW lease, NEW e \in Nat, NEW V,
         Found(n, lease, V), NEW t, t = Boot(n, asked, lease, e)
  PROVE  Booted(n, t, V, e)
  <1> DEFINE b == [id |-> None, joined |-> lease.joined, claim |-> None,
                   armed |-> IF asked /\ lease.id = None THEN {"listen"} ELSE {},
                   bind |-> Unbound, denied |-> {}, mediated |-> {}, waiting |-> {},
                   asked |-> asked, full |-> FALSE, saved |-> lease, events |-> e]
  <1> USE DEF Found
  <1>1. t = Identify(n, b, lease.id)
    BY DEF Boot
  <1>2. lease.joined \in BOOLEAN /\ lease.id \in Id \cup {None} /\ None \notin Id
    BY NameAssumption DEF Lease
  <1>3. Unbound \in [Id -> Row \cup {None}]
    BY DEF Unbound
  <1>4. /\ b \in State /\ b.id = None /\ b.claim = None /\ b.bind = Unbound /\ b.waiting = {}
        /\ b.saved = lease /\ b.joined = lease.joined /\ b.asked = asked /\ b.events = e
        /\ asked /\ lease.id = None => "listen" \in b.armed
    BY <1>2, <1>3 DEF State, Timer
  <1> HIDE DEF b
  <1>5. OneToOne(b) /\ Witnessed(n, b, V)
    BY <1>2, <1>4 DEF OneToOne, Witnessed, Unbound
  <1>6. CASE lease.id = None
    <2>1. t = b
      BY <1>1, <1>4, <1>6 DEF Identify, State
    <2> QED BY <1>4, <1>5, <1>6, <2>1 DEF Core, Awake, Booted
  <1>7. CASE lease.id # None
    <2>1. lease.id \in Id /\ <<n, lease.id>> \in V /\ KeyAt(b, lease.id) \in {None, n}
      BY <1>2, <1>4, <1>7 DEF KeyAt, Unbound
    <2>2. Core(n, t, V) /\ Same([b EXCEPT !.id = lease.id], t)
      BY <1>1, <1>4, <1>5, <2>1, IdentifyKeeps
    <2>3. t.id = lease.id /\ t.events = e
      BY <1>4, <2>2 DEF Same, State
    <2> QED BY <1>7, <2>2, <2>3 DEF Awake, Booted
  <1> QED BY <1>6, <1>7

----------------------------------------------------------------------------
\* All nodes

Carried == Inv' /\ \A k \in Node : Rightful(k, node[k], node'[k])

LEMMA Noted ==
  ASSUME Inv, Note
  PROVE  /\ used \subseteq used' /\ used' \subseteq Node \X Id
         /\ \A k \in Node, i \in Id : i \in {node'[k].id, node'[k].claim} => <<k, i>> \in used'
  BY DEF Inv, Note

LEMMA AllGood ==
  ASSUME Inv, Note, DOMAIN node' = Node, node' = [k \in Node |-> node'[k]],
         \A k \in Node : node'[k] = node[k] \/ Good(k, node[k], node'[k], used')
  PROVE  Carried
  <1>1. used \subseteq used' /\ used' \subseteq Node \X Id
    BY Noted
  <1>2. ASSUME NEW k \in Node
        PROVE  Core(k, node'[k], used') /\ Awake(node'[k]) /\ Rightful(k, node[k], node'[k])
    <2>1. CASE node'[k] = node[k]
      <3>1. Core(k, node[k], used')
        BY <1>1, Grown DEF Inv
      <3> QED BY <2>1, <3>1 DEF Inv, Rightful
    <2>2. CASE Good(k, node[k], node'[k], used')
      BY <2>2 DEF Good
    <2> QED BY <2>1, <2>2
  <1>3. node' \in [Node -> State]
    BY <1>2 DEF Core
  <1>4. Inv'
    BY <1>1, <1>2, <1>3 DEF Inv, Core, Awake, OneToOne, Witnessed
  <1> QED BY <1>2, <1>4 DEF Carried

LEMMA OneGood ==
  ASSUME Inv, Note, NEW n \in Node, NEW t, Becomes(n, t), Good(n, node[n], t, used')
  PROVE  Carried
  <1>1. node' = [node EXCEPT ![n] = t] /\ node \in [Node -> State]
    BY DEF Becomes, Inv
  <1>2. DOMAIN node' = Node /\ node' = [k \in Node |-> node'[k]]
    BY <1>1
  <1>3. node'[n] = t /\ \A k \in Node \ {n} : node'[k] = node[k]
    BY <1>1
  <1> QED BY <1>2, <1>3, AllGood

\* What every node has before a step, with what is used after it.
LEMMA Ready ==
  ASSUME Inv, Note, NEW n \in Node
  PROVE  /\ Core(n, node[n], used') /\ Core(n, node[n], used) /\ Awake(node[n]) /\ node[n] \in State
         /\ \A t : Becomes(n, t) => \A i \in Id : i \in {t.id, t.claim} => <<n, i>> \in used'
  <1>1. Core(n, node[n], used) /\ Awake(node[n]) /\ node \in [Node -> State]
    BY DEF Inv
  <1>2. Core(n, node[n], used')
    BY <1>1, Noted, Grown
  <1>3. \A t : Becomes(n, t) => node'[n] = t
    BY <1>1 DEF Becomes
  <1> QED BY <1>1, <1>2, <1>3, Noted

\* A node that forgets something keeps the rest.
LEMMA Forgets ==
  ASSUME NEW n \in Node, NEW s, NEW V, Core(n, s, V), Awake(s), NEW t \in State,
         t.id = s.id, t.joined = s.joined, t.claim = s.claim, t.armed = s.armed, t.asked = s.asked,
         t.full = s.full, t.saved = s.saved, t.waiting \subseteq s.waiting,
         \A i \in Id : t.bind[i] \in {None, s.bind[i]},
         t.id # None => t.bind[t.id] = s.bind[t.id]
  PROVE  Good(n, s, t, V)
  <1>1. Core(n, t, V)
    BY Kept DEF Core
  <1> QED BY <1>1 DEF Good, Awake, Rightful

LEMMA OnAirKeeps ==
  ASSUME Inv, Note, NEW n \in Node, NEW f \in node[n].waiting, NEW R \in SUBSET (Range[n] \ {n}),
         NEW c \in Pool \cup {None}, OnAir(n, f, R, c)
  PROVE  Carried
  <1>1. node' = [x \in Node |-> IF x = n THEN [node[n] EXCEPT !.waiting = @ \ {f}]
                                ELSE IF x \in R THEN Hear(x, node[x], f, c) ELSE node[x]]
    BY DEF OnAir
  <1>2. f \in Frame /\ <<f.owner, f.id>> \in used /\ (f.kind # "deny" => f.owner = n)
    BY Ready DEF State, Core, Witnessed
  <1>3. c \in Id \cup {None}
    BY NameAssumption
  <1>4. ASSUME NEW x \in Node PROVE node'[x] = node[x] \/ Good(x, node[x], node'[x], used')
    <2>1. CASE x = n
      <3> DEFINE t == [node[n] EXCEPT !.waiting = @ \ {f}]
      <3>1. /\ t \in State /\ t.id = node[n].id /\ t.joined = node[n].joined
            /\ t.claim = node[n].claim /\ t.armed = node[n].armed /\ t.asked = node[n].asked
            /\ t.full = node[n].full /\ t.saved = node[n].saved
            /\ t.waiting \subseteq node[n].waiting /\ t.bind = node[n].bind
        BY Ready DEF State
      <3>2. node'[x] = t
        BY <1>1, <2>1
      <3> HIDE DEF t
      <3>3. Good(n, node[n], t, used')
        BY <3>1, Ready, Forgets
      <3> QED BY <2>1, <3>2, <3>3
    <2>2. CASE x # n /\ x \in R
      <3>1. node'[x] = Hear(x, node[x], f, c)
        BY <1>1, <2>2
      <3>2. node'[x].claim \in Id => <<x, node'[x].claim>> \in used'
        BY Noted
      <3>3. f.kind # "deny" => f.owner # x
        BY <1>2, <2>2
      <3>4. used \subseteq used'
        BY Noted
      <3>5. Core(x, node[x], used') /\ Awake(node[x])
        BY Ready
      <3> QED BY <1>2, <1>3, <3>1, <3>2, <3>3, <3>4, <3>5, HearKeeps
    <2>3. CASE x # n /\ x \notin R
      BY <1>1, <2>3
    <2> QED BY <2>1, <2>2, <2>3
  <1>5. DOMAIN node' = Node /\ node' = [k \in Node |-> node'[k]]
    BY <1>1
  <1> QED BY <1>4, <1>5, AllGood

LEMMA BeaconKeeps ==
  ASSUME Inv, Note, NEW n \in Node, Beacon(n)
  PROVE  Carried
  <1> DEFINE s == node[n]
             f == [kind |-> "bcn", id |-> s.id, owner |-> n, claimant |-> n]
  <1>1. Becomes(n, Send(n, s, f)) /\ s.id # None
    BY DEF Beacon
  <1>2. Core(n, s, used') /\ Awake(s) /\ s \in State
    BY Ready
  <1>3. s.id \in Id /\ <<n, s.id>> \in used'
    BY <1>1, <1>2 DEF State, Core, Witnessed
  <1>4. f \in Frame /\ f.owner = n /\ f.id = s.id
    BY <1>3 DEF Frame
  <1> HIDE DEF s, f
  <1>5. Good(n, s, Send(n, s, f), used')
    BY <1>2, <1>3, <1>4, SendKeeps, SameGood
  <1> QED BY <1>1, <1>5, OneGood DEF s

LEMMA VerifyKeeps ==
  ASSUME Inv, Note, NEW n \in Node, NEW k \in Node, NEW c \in Pool \cup {None},
         VerifyOnDelivery(n, k, c)
  PROVE  Carried
  <1> DEFINE s == node[n]
  <1>1. Core(n, s, used') /\ Awake(s) /\ s \in State
    BY Ready
  <1>2. k # n /\ s.id \in Id /\ <<k, s.id>> \in used /\ <<n, s.id>> \in used'
    BY <1>1 DEF VerifyOnDelivery, State, Core, Witnessed
  <1>3. CASE n < k
    <2>1. Becomes(n, SendDeny(n, s, s.id, n, k))
      BY <1>3 DEF VerifyOnDelivery
    <2>2. Good(n, s, SendDeny(n, s, s.id, n, k), used')
      BY <1>1, <1>2, DenyKeeps, SameGood
    <2> QED BY <2>1, <2>2, OneGood
  <1>4. CASE ~(n < k)
    <2> DEFINE t == ForcedRejoin(n, s, c)
    <2>1. Becomes(n, t)
      BY <1>4 DEF VerifyOnDelivery
    <2>2. t.claim \in Id => <<n, t.claim>> \in used'
      BY <2>1, Ready
    <2>3. c \in Id \cup {None}
      BY NameAssumption
    <2>4. Core(n, t, used') /\ Awake(t)
      BY <1>1, <2>2, <2>3, ForcedRejoinKeeps
    <2>5. k < n
      BY <1>2, <1>4, NameAssumption
    <2>6. Rightful(n, s, t)
      BY <1>2, <2>5 DEF Rightful
    <2> QED BY <2>1, <2>4, <2>6, OneGood DEF Good
  <1> QED BY <1>3, <1>4

LEMMA ClaimTimerKeeps ==
  ASSUME Inv, Note, NEW n \in Node, NEW timer \in {"listen", "retry"}, NEW c \in Pool \cup {None},
         ClaimTimer(n, timer, c)
  PROVE  Carried
  <1> DEFINE t == StartClaim(n, [node[n] EXCEPT !.armed = @ \ {timer}], c)
  <1>1. Becomes(n, t)
    BY DEF ClaimTimer
  <1>2. t.claim \in Id => <<n, t.claim>> \in used'
    BY <1>1, Ready
  <1>3. c \in Id \cup {None}
    BY NameAssumption
  <1>4. Core(n, node[n], used') /\ Awake(node[n])
    BY Ready
  <1>5. Good(n, node[n], t, used')
    BY <1>2, <1>3, <1>4, ClaimKeeps
  <1> QED BY <1>1, <1>5, OneGood

LEMMA RebootKeeps ==
  ASSUME Inv, Note, NEW n \in Node, Reboot(n)
  PROVE  Carried
  <1> DEFINE s == node[n]
             e == s.events + 1
             t == Boot(n, s.asked, s.saved, e)
  <1>1. Becomes(n, t)
    BY DEF Reboot
  <1>2. Core(n, s, used') /\ s \in State
    BY Ready
  <1>3. s.asked \in BOOLEAN /\ s.events \in Nat /\ e \in Nat /\ e # s.events
    BY <1>2 DEF State
  <1>4. Found(n, s.saved, used')
    BY <1>2 DEF Core, State, Witnessed, Found
  <1> HIDE DEF e
  <1>5. t = Boot(n, s.asked, s.saved, e)
    OBVIOUS
  <1> HIDE DEF t, s
  <1>6. Booted(n, t, used', e)
    BY <1>3, <1>4, <1>5, BootKeeps
  <1>7. Core(n, t, used') /\ Awake(t) /\ Rightful(n, s, t)
    BY <1>3, <1>6 DEF Booted, Rightful
  <1> QED BY <1>1, <1>7, OneGood DEF Good, s

LEMMA AgeKeeps ==
  ASSUME Inv, Note, NEW n \in Node,
         \/ \E e \in Id \X Node : AgeMediated(n, e)
         \/ \E i \in Id : AgeRow(n, i) \/ AgeDenied(n, i)
  PROVE  Carried
  <1> DEFINE s == node[n]
  <1>1. Core(n, s, used') /\ Awake(s) /\ s \in State
    BY Ready
  <1>2. ASSUME NEW e \in Id \X Node, AgeMediated(n, e) PROVE Carried
    <2> DEFINE t == [s EXCEPT !.mediated = @ \ {e}]
    <2>1. Becomes(n, t)
      BY <1>2 DEF AgeMediated
    <2>2. /\ t \in State /\ t.id = s.id /\ t.joined = s.joined /\ t.claim = s.claim
          /\ t.armed = s.armed /\ t.asked = s.asked /\ t.full = s.full /\ t.saved = s.saved
          /\ t.waiting = s.waiting /\ t.bind = s.bind
      BY <1>1 DEF State
    <2> HIDE DEF s, t
    <2>3. Good(n, s, t, used')
      BY <1>1, <2>2, Forgets
    <2> QED BY <2>1, <2>3, OneGood DEF s
  <1>3. ASSUME NEW i \in Id, AgeDenied(n, i) PROVE Carried
    <2> DEFINE u == [s EXCEPT !.denied = @ \ {i}]
               e == u.events + 1
               t == Counted(u)
    <2>1. Becomes(n, t) /\ t = [u EXCEPT !.events = e]
      BY <1>3 DEF AgeDenied, Counted
    <2>4. /\ u \in State /\ u.id = s.id /\ u.joined = s.joined /\ u.claim = s.claim
          /\ u.armed = s.armed /\ u.asked = s.asked /\ u.full = s.full /\ u.saved = s.saved
          /\ u.waiting = s.waiting /\ u.bind = s.bind
      BY <1>1 DEF State
    <2> HIDE DEF s, u
    <2>5. e \in Nat
      BY <2>4 DEF State
    <2> HIDE DEF e, t
    <2>2. /\ t \in State /\ t.id = s.id /\ t.joined = s.joined /\ t.claim = s.claim
          /\ t.armed = s.armed /\ t.asked = s.asked /\ t.full = s.full /\ t.saved = s.saved
          /\ t.waiting = s.waiting /\ t.bind = s.bind
      BY <2>1, <2>4, <2>5 DEF State
    <2>3. Good(n, s, t, used')
      BY <1>1, <2>2, Forgets
    <2> QED BY <2>1, <2>3, OneGood DEF s
  <1>4. ASSUME NEW i \in Id, AgeRow(n, i) PROVE Carried
    <2> DEFINE u == [s EXCEPT !.bind[i] = None]
               e == u.events + 1
               t == Counted(u)
    <2>1. Becomes(n, t) /\ ~(i = s.id /\ KeyAt(s, i) = n) /\ t = [u EXCEPT !.events = e]
      BY <1>4 DEF AgeRow, Counted
    <2>2. i # s.id
      BY <1>1, <2>1, OwnTyped, NameAssumption DEF Core, KeyAt
    <2>6. /\ u \in State /\ u.id = s.id /\ u.joined = s.joined /\ u.claim = s.claim
          /\ u.armed = s.armed /\ u.asked = s.asked /\ u.full = s.full /\ u.saved = s.saved
          /\ u.waiting = s.waiting /\ u.bind = [s.bind EXCEPT ![i] = None]
      BY <1>1 DEF State
    <2> HIDE DEF u
    <2>7. e \in Nat
      BY <2>6 DEF State
    <2> HIDE DEF e, t
    <2>3. /\ t \in State /\ t.id = s.id /\ t.joined = s.joined /\ t.claim = s.claim
          /\ t.armed = s.armed /\ t.asked = s.asked /\ t.full = s.full /\ t.saved = s.saved
          /\ t.waiting = s.waiting /\ t.bind = [s.bind EXCEPT ![i] = None]
      BY <2>1, <2>6, <2>7 DEF State
    <2>4. (\A j \in Id : t.bind[j] \in {None, s.bind[j]}) /\ (s.id # None => t.bind[s.id] = s.bind[s.id])
      BY <1>1, <2>2, <2>3 DEF State
    <2> HIDE DEF s
    <2>5. Good(n, s, t, used')
      BY <1>1, <2>3, <2>4, Forgets
    <2> QED BY <2>1, <2>5, OneGood DEF s
  <1> QED BY <1>2, <1>3, <1>4

LEMMA CommandKeeps ==
  ASSUME Inv, Note, NEW n \in Node, JoinVerb(n) \/ Leave(n) \/ Persist(n) \/ GuardTimer(n)
  PROVE  Carried
  <1>1. Core(n, node[n], used') /\ Awake(node[n])
    BY Ready
  <1>2. CASE JoinVerb(n)
    BY <1>1, <1>2, JoinKeeps, OneGood DEF JoinVerb
  <1>3. CASE Leave(n)
    BY <1>1, <1>3, LeaveKeeps, OneGood DEF Leave
  <1>4. CASE Persist(n)
    BY <1>1, <1>4, PersistKeeps, OneGood DEF Persist
  <1>5. CASE GuardTimer(n)
    BY <1>1, <1>5, GuardFiresKeeps, OneGood DEF GuardTimer
  <1> QED BY <1>2, <1>3, <1>4, <1>5

LEMMA StepKeeps ==
  ASSUME Inv, Next
  PROVE  Carried
  <1> PICK n \in Node :
       \/ \E f \in node[n].waiting, R \in SUBSET (Range[n] \ {n}), c \in Pool \cup {None} :
            OnAir(n, f, R, c)
       \/ Beacon(n) \/ GuardTimer(n)
       \/ \E timer \in {"listen", "retry"}, c \in Pool \cup {None} : ClaimTimer(n, timer, c)
       \/ \E e \in Id \X Node : AgeMediated(n, e)
       \/ JoinVerb(n) \/ Leave(n) \/ Persist(n) \/ Reboot(n)
       \/ \E i \in Id : AgeRow(n, i) \/ AgeDenied(n, i)
       \/ \E k \in Node, c \in Pool \cup {None} : VerifyOnDelivery(n, k, c)
    BY DEF Next, Step
  <1>1. Note
    BY DEF Next
  <1>2. CASE \E f \in node[n].waiting, R \in SUBSET (Range[n] \ {n}), c \in Pool \cup {None} :
               OnAir(n, f, R, c)
    BY <1>1, <1>2, OnAirKeeps
  <1>3. CASE \E timer \in {"listen", "retry"}, c \in Pool \cup {None} : ClaimTimer(n, timer, c)
    BY <1>1, <1>3, ClaimTimerKeeps
  <1>4. CASE \E k \in Node, c \in Pool \cup {None} : VerifyOnDelivery(n, k, c)
    BY <1>1, <1>4, VerifyKeeps
  <1>5. CASE (\E e \in Id \X Node : AgeMediated(n, e)) \/ \E i \in Id : AgeRow(n, i) \/ AgeDenied(n, i)
    BY <1>1, <1>5, AgeKeeps
  <1>6. CASE Beacon(n)
    BY <1>1, <1>6, BeaconKeeps
  <1>7. CASE Reboot(n)
    BY <1>1, <1>7, RebootKeeps
  <1>8. CASE JoinVerb(n) \/ Leave(n) \/ Persist(n) \/ GuardTimer(n)
    BY <1>1, <1>8, CommandKeeps
  <1> QED BY <1>2, <1>3, <1>4, <1>5, <1>6, <1>7, <1>8

----------------------------------------------------------------------------
\* The promises

LEMMA InvInit == Init => Inv
  <1> SUFFICES ASSUME Init PROVE Inv
    OBVIOUS
  <1>1. used \subseteq Node \X Id
    BY DEF Init
  <1>2. ASSUME NEW n \in Node PROVE Core(n, node[n], used) /\ Awake(node[n])
    <2> DEFINE t == node[n]
               asked == TRUE
               e == 0
    <2>1. Flash[n] \in Lease /\ (Flash[n].joined => Flash[n].id # None)
      BY NameAssumption
    <2>2. Flash[n].id \in Id => <<n, Flash[n].id>> \in used
      BY DEF Init
    <2>3. Found(n, Flash[n], used)
      BY <2>1, <2>2 DEF Found
    <2>4. t = Boot(n, asked, Flash[n], e) /\ asked \in BOOLEAN /\ e \in Nat
      BY DEF Init
    <2> HIDE DEF t, asked, e
    <2>5. Booted(n, t, used, e)
      BY <2>3, <2>4, BootKeeps
    <2> QED BY <2>5 DEF Booted, t
  <1>3. node \in [Node -> State]
    BY <1>2 DEF Init, Core
  <1> QED BY <1>1, <1>2, <1>3 DEF Inv

LEMMA InvStep == Inv /\ [Next]_vars => Inv'
  <1>1. ASSUME Inv, Next PROVE Inv'
    BY <1>1, StepKeeps DEF Carried
  <1>2. ASSUME Inv, UNCHANGED vars PROVE Inv'
    BY <1>2 DEF Inv, Core, Awake, OneToOne, Witnessed, vars
  <1> QED BY <1>1, <1>2

\* Every row, frame and saved lease names an id that its owner claimed or used, at every
\* node and always; so does what a node denies to others.
THEOREM WitnessedAlways == Spec => [](\A n \in Node : Witnessed(n, node[n], used))
  <1>1. Inv => \A n \in Node : Witnessed(n, node[n], used)
    BY DEF Inv, Core
  <1> QED BY <1>1, InvInit, InvStep, PTL DEF Spec

\* The variables keep their types.
THEOREM TypeCorrect == Spec => []TypeOK
  <1>1. Inv => TypeOK
    BY DEF Inv, TypeOK
  <1> QED BY <1>1, InvInit, InvStep, PTL DEF Spec

\* id_bind is one to one and holds the node's own id, whatever claims, denials and beacons
\* arrive and in whatever order.
THEOREM BijectionAlways == Spec => []Bijection
  <1>1. Inv => Bijection
    <2> SUFFICES ASSUME Inv, NEW n \in Node
                 PROVE  /\ node[n].id # None => node[n].bind[node[n].id] = [key |-> n, auth |-> TRUE]
                        /\ \A i, j \in Id :
                             KeyAt(node[n], i) # None /\ KeyAt(node[n], i) = KeyAt(node[n], j) => i = j
      BY DEF Bijection
    <2>1. Core(n, node[n], used) /\ node[n] \in State
      BY DEF Inv
    <2> QED BY <2>1, KeyTyped DEF Core, OneToOne, Own
  <1> QED BY <1>1, InvInit, InvStep, PTL DEF Spec

\* Nobody that wants an id is left without one and without a way to one.
THEOREM NeverStranded == Spec => []NotStranded
  <1>1. Inv => NotStranded
    BY DEF Inv, NotStranded, Awake
  <1> QED BY <1>1, InvInit, InvStep, PTL DEF Spec

\* Of two nodes that share an id only the one with the higher key gives it up.
THEOREM YieldsRightfully == Spec => RightfulYield
  <1> DEFINE Step1 == \A n \in Node :
               LET s == node[n]
                   t == node'[n]
               IN s.joined /\ t.id # s.id /\ t.events = s.events
                    => \E k \in Node : k < n /\ <<k, s.id>> \in used
  <1>1. Inv /\ [Next]_vars => [Step1]_vars
    BY StepKeeps DEF Carried, Rightful
  <1> QED BY <1>1, InvInit, InvStep, PTL DEF Spec, RightfulYield
=============================================================================
