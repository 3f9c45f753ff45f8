---------------------------- MODULE RemoteProofs ----------------------------
(***************************************************************************)
(* Proofs about Remote, for any number of commands, tables of any size,    *)
(* and every bound: the session is the call its user relies on, an answer  *)
(* is kept until he has it, a prepared action keeps its transcript, and    *)
(* every request has room for its outcome.                                 *)
(*                                                                         *)
(* An id is new when it is drawn, so what a message says can be read off   *)
(* the row that sent for it: an execute request that the target may still  *)
(* act on is the one the row was last sealed as, and a row is sealed anew  *)
(* only after a rollover that proves the target never ran it.              *)
(***************************************************************************)
EXTENDS RemoteProperties, FiniteSetTheorems, TLAPS

----------------------------------------------------------------------------
\* The invariant.

\* The execute requests of a command the target may not act on any more.
Stale(c) == \A m \in net : m.kind = "execute" /\ m.id[1] = c => m.epoch < epoch

\* Not dispatched, and never to be under a sealing of the past.
Unrun(c) == ran[c].times = 0 /\ Stale(c)

\* A message and the row that sent for it.
Tied(m) ==
  LET c == m.id[1]  n == m.id[2]  r == row[c]
  IN /\ r.stage # "idle"
     /\ n <= r.drawn \/ r.stage = "gone"
     /\ m.kind = "execute" =>
          /\ c \in Execute /\ r.stage # "bootstrap"
          /\ (r.sealed /\ n = r.req /\ m.epoch = r.epoch) \/ m.epoch < epoch
     /\ m.kind \in {"safe", "force"} /\ r.stage = "rollover" /\ n = r.did =>
          m.kind = "safe" /\ m.epoch = r.epoch
     /\ m.kind = "rolled" /\ r.stage = "rollover" /\ n = r.did =>
          ran[c].times = 0 /\ r.epoch < m.epoch /\ m.epoch <= epoch
     /\ m.kind = "terminal" =>
          ran[c].times = 1 /\ ran[c].n = n /\ m.code = ran[c].outcome
     /\ m.kind = "output" => m.seq < MaxFrames
     /\ m.kind = "ack" => r.stage = "gone" /\ r.result \in Outcome

MessagesTied ==
  /\ \A m \in net \cup debts : Tied(m)
  /\ \A m \in debts : m.kind = "ack"

\* A row: what it lacks at first, and what it knows of its command.
Numbered(c, r) ==
  /\ r.stage = "idle" => r = EmptyRow
  /\ r.stage # "idle" => r.req # 0
  /\ r.stage # "gone" => r.req <= r.drawn /\ r.did <= r.drawn
  /\ r.stage = "bootstrap" => r.did # 0 /\ ~r.sealed
  /\ r.result \in Outcome =>
       c \in Execute /\ ran[c].times = 1 /\ ran[c].outcome = r.result

RowsNumbered == \A c \in Command : Numbered(c, row[c])

\* A command that ran did so once, as its row was sealed.
RanOnce ==
  \A c \in Command :
    /\ ran[c].times = 0 => ran[c].outcome = "none" /\ fired[c] = 0
    /\ ran[c].times # 0 =>
         /\ ran[c].times = 1 /\ ran[c].outcome \in Outcome
         /\ row[c].sealed /\ ran[c].n = row[c].req /\ ran[c].epoch = row[c].epoch
         /\ ran[c].epoch <= epoch
         /\ ran[c].epoch = epoch => seen[<<c, ran[c].n>>] \in {"completed", "acknowledged"}

\* The tables of the target hold what was asked of it in its epoch.
Asked(kind, i) == \E m \in net : m.kind = kind /\ m.id = i /\ m.epoch = epoch
Held(i) ==
  /\ seen[i] # "free" => Asked("execute", i)
  /\ seen[i] \in {"completed", "acknowledged"} =>
       ran[i[1]].times = 1 /\ ran[i[1]].n = i[2] /\ ran[i[1]].epoch = epoch
  /\ seen[i] = "completed" <=> script[i] # None
  /\ script[i] # None => script[i].code = ran[i[1]].outcome
  /\ seen[i] = "acknowledged" => Asked("ack", i)

TablesHeld ==
  /\ \A i \in Id : Held(i)
  /\ \A p \in Partition : ingress[p] # None => Asked(ingress[p].kind, ingress[p].id)

\* The one deferred action is of a command that was scheduled, and had no effect yet.
Deferred ==
  /\ \A c \in Command :
       /\ fired[c] <= 1
       /\ fired[c] = 1 => ran[c].outcome = "scheduled"
  /\ action # None =>
       /\ ran[action.id[1]].outcome = "scheduled" /\ fired[action.id[1]] = 0
  /\ PromiseHeld

Inv ==
  /\ TypeOK
  /\ MessagesTied
  /\ RowsNumbered
  /\ RanOnce
  /\ TablesHeld
  /\ Deferred

----------------------------------------------------------------------------
\* Messages and rows.

LEMMA Messages ==
  ASSUME NEW i \in Id, NEW e \in 0..MaxEpoch,
         NEW kind \in {"bootstrap", "execute", "safe", "force", "ack",
                       "epoch", "rolled", "refused", "output", "terminal", "already"}
  PROVE  /\ Msg(kind, i, e) \in Message
         /\ Msg(kind, i, e).kind = kind /\ Msg(kind, i, e).id = i /\ Msg(kind, i, e).epoch = e
BY LimitAssumption DEF Msg, Message

LEMMA FullRefusal ==
  ASSUME NEW i \in Id, NEW e \in 0..MaxEpoch
  PROVE  LET m == [Msg("refused", i, e) EXCEPT !.code = "full"]
         IN m \in Message /\ m.kind = "refused" /\ m.id = i
BY LimitAssumption DEF Msg, Message

LEMMA Ids ==
  ASSUME NEW i \in Id
  PROVE  /\ i[1] \in Command /\ i[2] \in 1..MaxDraws /\ i = <<i[1], i[2]>>
BY DEF Id

LEMMA MakeId ==
  ASSUME NEW c \in Command, NEW n \in 0..MaxDraws, n # 0
  PROVE  <<c, n>> \in Id
BY LimitAssumption DEF Id

LEMMA EmptyTyped == EmptyRow \in Row /\ EmptyRow.stage = "idle" /\ EmptyRow.result = "none"
                    /\ EmptyRow.drawn = 0 /\ ~EmptyRow.asm /\ ~EmptyRow.kept
                    /\ ~EmptyRow.sealed /\ EmptyRow.req = 0 /\ EmptyRow.did = 0
BY LimitAssumption DEF EmptyRow, Row, Sending

\* What an operator on a row leaves alone.
Sealing(r, s) == r.req = s.req /\ r.epoch = s.epoch /\ r.sealed = s.sealed

LEMMA Entered ==
  ASSUME NEW r \in Row, NEW stage \in Sending \cup {"complete"}
  PROVE  /\ Enter(r, stage) \in Row
         /\ Enter(r, stage) = [r EXCEPT !.stage = stage, !.waiting = FALSE, !.resent = FALSE]
BY DEF Enter, Row, Sending

LEMMA CompletedRow ==
  ASSUME NEW r \in Row,
         NEW x \in Outcome \cup {"refused", "rolled", "already", "unknown", "error"}
  PROVE  LET t == Completed(r, x)
         IN /\ t \in Row /\ Sealing(t, r) /\ t.drawn = r.drawn /\ t.did = r.did
            /\ t.stage \in {r.stage, "complete"} /\ t.result \in {r.result, x}
            /\ r.asm => t.stage = "complete" /\ t.result = x
            /\ ~r.asm => t = r
  <1>1. CASE ~r.asm
    BY <1>1 DEF Completed, Sealing
  <1>2. CASE r.asm
    <2> DEFINE keep == r.kept \/ Cardinality({c \in Command : row[c].kept}) < ResultSlots
               not == ~keep
               e == Enter(r, "complete")
               t == [e EXCEPT !.result = x, !.kept = keep, !.asm = not]
    <2>1. Completed(r, x) = t
      BY <1>2 DEF Completed
    <2>2. keep \in BOOLEAN /\ not \in BOOLEAN
      BY DEF Row
    <2>3. e \in Row /\ Sealing(e, r) /\ e.drawn = r.drawn /\ e.did = r.did /\ e.stage = "complete"
      <3>1. e \in Row
        BY Entered
      <3>2. Sealing(e, r) /\ e.drawn = r.drawn /\ e.did = r.did /\ e.stage = "complete"
        BY DEF Enter, Row, Sealing
      <3> QED
        BY <3>1, <3>2
    <2> HIDE DEF keep, not, e
    <2>4. t \in Row
      BY <2>2, <2>3 DEF Row
    <2>5. Sealing(t, e) /\ t.drawn = e.drawn /\ t.did = e.did /\ t.stage = e.stage /\ t.result = x
      BY <2>3 DEF Row, Sealing
    <2> QED
      BY <1>2, <2>1, <2>3, <2>4, <2>5 DEF Sealing
  <1> QED
    BY <1>1, <1>2

LEMMA GoneRow ==
  ASSUME NEW r \in Row
  PROVE  /\ Gone(r) \in Row /\ Sealing(Gone(r), r) /\ Gone(r).stage = "gone"
         /\ Gone(r).result = r.result /\ ~Gone(r).asm /\ ~Gone(r).kept
  <1> DEFINE g == [EmptyRow EXCEPT !.stage = "gone", !.req = r.req]
             h == [g EXCEPT !.epoch = r.epoch, !.sealed = r.sealed]
             t == [h EXCEPT !.result = r.result]
  <1>1. Gone(r) = t
    BY DEF Gone
  <1>2. g \in Row /\ g.stage = "gone" /\ g.req = r.req /\ ~g.asm /\ ~g.kept
    BY EmptyTyped DEF Row
  <1> HIDE DEF g
  <1>3. h \in Row /\ Sealing(h, r) /\ h.stage = "gone" /\ ~h.asm /\ ~h.kept
    BY <1>2 DEF Row, Sealing
  <1> HIDE DEF h
  <1>4. t \in Row /\ Sealing(t, h) /\ t.stage = h.stage /\ t.result = r.result
        /\ t.asm = h.asm /\ t.kept = h.kept
    BY <1>3 DEF Row, Sealing
  <1> QED
    BY <1>1, <1>3, <1>4 DEF Sealing

LEMMA SentRow ==
  ASSUME NEW r \in Row
  PROVE  /\ Sent(r) \in Row /\ Sealing(Sent(r), r)
         /\ Sent(r).stage = r.stage /\ Sent(r).did = r.did /\ Sent(r).drawn = r.drawn
         /\ Sent(r).result = r.result /\ Sent(r).asm = r.asm /\ Sent(r).kept = r.kept
  <1> DEFINE q == IF r.resent /\ r.stage = "request" THEN 0 ELSE r.seq
  <1>1. Sent(r) = [r EXCEPT !.waiting = TRUE, !.seq = q]
    BY DEF Sent, Row
  <1>2. q \in 0..MaxFrames
    BY LimitAssumption DEF Row
  <1> HIDE DEF q
  <1> QED
    BY <1>1, <1>2 DEF Row, Sealing

LEMMA DueRow ==
  ASSUME NEW r \in Row
  PROVE  /\ Due(r) \in Row /\ Sealing(Due(r), r)
         /\ Due(r).stage = r.stage /\ Due(r).did = r.did /\ Due(r).drawn = r.drawn
         /\ Due(r).result = r.result /\ Due(r).asm = r.asm /\ Due(r).kept = r.kept
BY DEF Due, Row, Sealing

\* An id that is drawn is new.
LEMMA DrawnRow ==
  ASSUME NEW r \in Row, Draws(r) => r.drawn < MaxDraws
  PROVE  LET t == Drawn(r)
         IN /\ t \in Row /\ t.stage = r.stage /\ t.result = r.result
            /\ t.asm = r.asm /\ t.kept = r.kept /\ t.epoch = r.epoch /\ r.drawn <= t.drawn
            /\ Sealing(t, r) \/ (r.stage = "request" /\ ~r.sealed /\ t.sealed /\ t.req # 0)
            /\ t.did = r.did \/ (r.did = 0 /\ t.did = r.drawn + 1)
            /\ r.stage \in {"compare", "rollover"} => t.did # 0
            /\ r.stage = "request" => t.sealed
            /\ r.stage # "request" => Sealing(t, r)
            /\ t.req # r.req => t.req = t.drawn /\ t.req # 0
            /\ t.did # r.did => t.did = t.drawn
  <1>1. r.drawn \in 0..MaxDraws /\ MaxDraws \in Nat
    BY LimitAssumption DEF Row
  <1>2. CASE ~Draws(r)
    BY <1>1, <1>2 DEF Drawn, Draws, Sealing, Row
  <1>3. CASE Draws(r) /\ r.stage = "request"
    <2> DEFINE n == r.drawn + 1
    <2>1. Drawn(r) = [r EXCEPT !.req = n, !.sealed = TRUE, !.drawn = n]
      BY <1>3 DEF Drawn, Draws
    <2>2. n \in 0..MaxDraws /\ n # 0 /\ r.drawn <= n
      BY <1>1, <1>3
    <2> HIDE DEF n
    <2>3. Drawn(r) \in Row
      BY <2>1, <2>2 DEF Row
    <2> QED
      BY <1>3, <2>1, <2>2, <2>3 DEF Draws, Sealing, Row
  <1>4. CASE Draws(r) /\ r.stage # "request"
    <2> DEFINE n == r.drawn + 1
    <2>1. Drawn(r) = [r EXCEPT !.did = n, !.drawn = n]
      BY <1>4 DEF Drawn, Draws
    <2>2. n \in 0..MaxDraws /\ n # 0 /\ r.drawn <= n /\ n = r.drawn + 1
      BY <1>1, <1>4
    <2> HIDE DEF n
    <2>3. Drawn(r) \in Row
      BY <2>1, <2>2 DEF Row
    <2> QED
      BY <1>4, <2>1, <2>2, <2>3 DEF Draws, Sealing, Row
  <1> QED
    BY <1>2, <1>3, <1>4

----------------------------------------------------------------------------
\* Steps of the controller: the target is as it was, so what ties a message to its row
\* can change with the row only.

\* How a row goes on: sealed as before, unless its command never ran and never will as it
\* was sealed; and with no id for a rollover but the one it had or a new one.
Moves(c, s, r) ==
  /\ s.stage # "gone" /\ r.stage # "idle"
  /\ r \in Row /\ Numbered(c, r)
  /\ s.drawn <= r.drawn \/ r.stage = "gone"
  /\ r.stage = "bootstrap" => s.stage \in {"idle", "bootstrap"}
  /\ Sealing(r, s) \/ Unrun(c)
  /\ r.stage = "rollover" =>
       r.did = 0 \/ (s.stage = "rollover" /\ r.did = s.did /\ Sealing(r, s)) \/ r.did = s.drawn + 1

\* What the user of a command could notice of a step.
Quiet(c) ==
  /\ row'[c].result = row[c].result
  /\ row'[c].stage = "idle" <=> row[c].stage = "idle"

Advance ==
  /\ UNCHANGED target
  /\ \A c \in Command : row'[c] = row[c] \/ Moves(c, row[c], row'[c])
  /\ \A c, d \in Command : c = d \/ Quiet(c) \/ Quiet(d)

LEMMA MoveTies ==
  ASSUME Inv, UNCHANGED target, NEW m \in net \cup debts,
         row'[m.id[1]] = row[m.id[1]] \/ Moves(m.id[1], row[m.id[1]], row'[m.id[1]])
  PROVE  Tied(m)'
  <1> DEFINE c == m.id[1]  n == m.id[2]  s == row[c]  r == row'[c]
  <1>1. m \in Message /\ Tied(m)
    BY DEF Inv, TypeOK, MessagesTied
  <1>2. c \in Command /\ n \in 1..MaxDraws /\ s \in Row /\ m.epoch \in Nat
    BY <1>1, LimitAssumption DEF Inv, TypeOK, Message, Id
  <1>3. ran' = ran /\ epoch' = epoch
    BY DEF target
  <1>4. CASE r = s
    BY <1>1, <1>3, <1>4 DEF Tied
  <1>5. CASE Moves(c, s, r)
    <2>1. s.stage # "idle" /\ n <= s.drawn
      BY <1>1, <1>5 DEF Tied, Moves
    <2>3. n <= r.drawn \/ r.stage = "gone"
      BY <1>2, <1>5, <2>1, LimitAssumption DEF Moves, Row
    <2>4. ASSUME m.kind = "execute"
          PROVE  /\ c \in Execute /\ r.stage # "bootstrap"
                 /\ (r.sealed /\ n = r.req /\ m.epoch = r.epoch) \/ m.epoch < epoch
      BY <1>1, <1>5, <2>1, <2>4 DEF Tied, Moves, Unrun, Stale, Sealing, Inv, MessagesTied
    <2>5. r.stage = "rollover" /\ n = r.did =>
            s.stage = "rollover" /\ n = s.did /\ Sealing(r, s)
      BY <1>2, <1>5, <2>1, LimitAssumption DEF Moves, Row
    <2>6. m.kind # "ack"
      BY <1>1, <1>5 DEF Tied, Moves
    <2> QED
      BY <1>1, <1>3, <1>5, <2>1, <2>3, <2>4, <2>5, <2>6 DEF Tied, Moves, Sealing
  <1> QED
    BY <1>4, <1>5

LEMMA AskedLater ==
  ASSUME net \subseteq net', epoch' = epoch, NEW kind, NEW i, Asked(kind, i)
  PROVE  Asked(kind, i)'
BY DEF Asked

\* The steps of the controller as one: rows move on, and what is sent or owed is tied.
LEMMA Controller ==
  ASSUME Inv, UNCHANGED target, net \subseteq net', net' \subseteq Message,
         known' \in 0..MaxEpoch,
         row' \in [Command -> Row],
         \A c \in Command : row'[c] = row[c] \/ Moves(c, row[c], row'[c]),
         \A m \in net' \cup debts' : m \notin net \cup debts => Tied(m)',
         \A m \in debts' : m.kind = "ack" /\ m \in Message
  PROVE  Inv'
  <1>1. /\ ran' = ran /\ fired' = fired /\ epoch' = epoch /\ owner' = owner /\ seen' = seen
        /\ ingress' = ingress /\ script' = script /\ action' = action
    BY DEF target
  <1>2. TypeOK'
    BY <1>1 DEF Inv, TypeOK
  <1>3. MessagesTied'
    <2>1. ASSUME NEW m \in net \cup debts PROVE Tied(m)'
      <3>1. m.id[1] \in Command
        BY DEF Inv, TypeOK, Message, Id
      <3> QED
        BY <3>1, MoveTies
    <2> QED
      BY <2>1 DEF MessagesTied
  <1>4. RowsNumbered'
    BY <1>1 DEF Inv, RowsNumbered, Numbered, Moves
  <1>5. RanOnce'
    <2> SUFFICES ASSUME NEW c \in Command, ran[c].times # 0
                 PROVE  row'[c].sealed /\ ran[c].n = row'[c].req /\ ran[c].epoch = row'[c].epoch
      BY <1>1 DEF Inv, RanOnce
    <2> QED
      BY DEF Inv, RanOnce, Moves, Unrun, Sealing
  <1>6. TablesHeld'
    <2>1. ASSUME NEW i \in Id PROVE Held(i)'
      <3>1. Held(i)
        BY DEF Inv, TablesHeld
      <3> QED
        BY <1>1, <3>1, AskedLater DEF Held
    <2>2. ASSUME NEW p \in Partition, ingress'[p] # None
          PROVE  Asked(ingress[p].kind, ingress[p].id)'
      BY <1>1, <2>2, AskedLater DEF Inv, TablesHeld
    <2> QED
      BY <1>1, <2>1, <2>2 DEF TablesHeld
  <1>7. Deferred'
    BY <1>1 DEF Inv, Deferred, PromiseHeld
  <1> QED
    BY <1>2, <1>3, <1>4, <1>5, <1>6, <1>7 DEF Inv

LEMMA Rows ==
  ASSUME Inv, NEW c \in Command
  PROVE  row[c] \in Row /\ Numbered(c, row[c])
BY DEF Inv, TypeOK, RowsNumbered

LEMMA Ran ==
  ASSUME Inv, NEW c \in Command, ran[c].times # 0
  PROVE  /\ ran[c].times = 1 /\ ran[c].outcome \in Outcome
         /\ row[c].sealed /\ ran[c].n = row[c].req /\ ran[c].epoch = row[c].epoch
         /\ ran[c].epoch <= epoch /\ ran[c].epoch \in Nat
         /\ ran[c].epoch = epoch => seen[<<c, ran[c].n>>] \in {"completed", "acknowledged"}
  <1>1. RanOnce
    BY DEF Inv
  <1>2. ran[c].epoch \in Nat
    BY LimitAssumption DEF Inv, TypeOK
  <1> QED
    BY <1>1, <1>2 DEF RanOnce

LEMMA OneRow ==
  ASSUME Inv, UNCHANGED target, NEW c \in Command, NEW r, Moves(c, row[c], r),
         row' = [row EXCEPT ![c] = r],
         net \subseteq net', net' \subseteq Message, known' \in 0..MaxEpoch, debts' \subseteq debts,
         \A m \in net' : m \notin net => Tied(m)'
  PROVE  Inv' /\ Advance
  <1>1. row' \in [Command -> Row]
    BY DEF Inv, TypeOK, Moves
  <1>2. \A d \in Command : row'[d] = row[d] \/ Moves(d, row[d], row'[d])
    BY DEF Inv, TypeOK
  <1>3. \A m \in debts' : m.kind = "ack" /\ m \in Message
    BY DEF Inv, TypeOK, MessagesTied
  <1>4. \A d \in Command : d = c \/ row'[d] = row[d]
    BY DEF Inv, TypeOK
  <1>5. \A d, g \in Command : d = g \/ Quiet(d) \/ Quiet(g)
    BY <1>4 DEF Quiet
  <1> QED
    BY <1>1, <1>2, <1>3, <1>5, Controller DEF Advance

\* A row that is sent for goes on, and keeps its sealing.
LEMMA Onward ==
  ASSUME Inv, NEW c \in Command, Live(row[c]), NEW r \in Row, Sealing(r, row[c]),
         row[c].drawn <= r.drawn, r.did <= r.drawn,
         r.stage \notin {"idle", "bootstrap", "rollover"} \/ r.stage = row[c].stage,
         r.stage = "bootstrap" => r.did = row[c].did,
         r.stage = "rollover" => r.did = row[c].did \/ r.did = row[c].drawn + 1,
         r.result = row[c].result \/ r.result \notin Outcome
  PROVE  Moves(c, row[c], r)
  <1>1. row[c] \in Row /\ Numbered(c, row[c])
    BY Rows
  <1>2. r.req <= r.drawn
    BY <1>1, LimitAssumption DEF Numbered, Live, Sealing, Row
  <1>3. Numbered(c, r)
    BY <1>1, <1>2 DEF Numbered, Live, Sealing
  <1> QED
    BY <1>1, <1>3 DEF Moves, Live

\* A message that is sent for a row of its own is tied to it.
LEMMA StartKeeps ==
  ASSUME Inv, NEW c \in Command, NEW ble \in BOOLEAN, Start(c, ble)
  PROVE  Inv' /\ Advance
  <1> DEFINE n == IF known = 0 THEN 2 ELSE 1
             st == IF known = 0 THEN "bootstrap" ELSE "request"
             sl == known # 0
             d == n - 1
             p == [EmptyRow EXCEPT !.stage = st, !.req = 1]
             q == [p EXCEPT !.did = d, !.drawn = n]
             r == [q EXCEPT !.epoch = known, !.sealed = sl, !.asm = TRUE, !.kept = ble]
  <1> PICK m : m = Submission(c, r)
    OBVIOUS
  <1>1. row' = [row EXCEPT ![c] = Sent(r)] /\ net' = net \cup {m} /\ UNCHANGED <<known, debts, target>>
    BY DEF Start, Transmit
  <1>2. /\ n \in 0..MaxDraws /\ n - 1 \in 0..MaxDraws /\ 1 \in 0..MaxDraws /\ n # 0 /\ 1 <= n
        /\ (known = 0 => n - 1 = 1) /\ sl \in BOOLEAN /\ st \in {"bootstrap", "request"}
        /\ known \in 0..MaxEpoch /\ row[c].stage = "idle" /\ (st = "bootstrap" <=> ~sl)
        /\ (st = "bootstrap" => n - 1 = 1) /\ n - 1 <= n
    BY LimitAssumption DEF Start, Inv, TypeOK
  <1> HIDE DEF n, st, sl
  <1>3. q \in Row /\ q.stage = st /\ q.req = 1 /\ q.did = d /\ q.drawn = n /\ q.result = "none"
    <2> HIDE DEF d
    <2>1. d \in 0..MaxDraws
      BY <1>2 DEF d
    <2>2. p \in Row /\ p.stage = st /\ p.req = 1 /\ p.result = "none"
      BY <1>2, EmptyTyped DEF Row, Sending
    <2> HIDE DEF p
    <2> QED
      BY <1>2, <2>1, <2>2 DEF Row
  <1> HIDE DEF q
  <1>4. r \in Row /\ r.stage = st /\ r.req = 1 /\ r.did = d /\ r.drawn = n /\ r.result = "none"
        /\ r.epoch = known /\ r.sealed = sl
    BY <1>2, <1>3 DEF Row
  <1> HIDE DEF r, d
  <1>5. Sent(r) \in Row /\ Sealing(Sent(r), r) /\ Sent(r).stage = st /\ Sent(r).did = d
        /\ Sent(r).drawn = n /\ Sent(r).result = "none"
    BY <1>4, SentRow
  <1>6. row[c] = EmptyRow
    BY <1>2, Rows DEF Numbered
  <1>7. Unrun(c)
    <2>1. ran[c].times = 0
      BY <1>6, EmptyTyped DEF Inv, RanOnce
    <2>2. \A x \in net : x.id[1] # c
      BY <1>2 DEF Inv, MessagesTied, Tied
    <2> QED
      BY <2>1, <2>2 DEF Unrun, Stale
  <1>8. Moves(c, row[c], Sent(r))
    <2>1. Numbered(c, Sent(r))
      BY <1>2, <1>4, <1>5 DEF Numbered, Sealing, Outcome, d
    <2> QED
      BY <1>2, <1>4, <1>5, <1>6, <1>7, <2>1, EmptyTyped DEF Moves
  <1>9. m \in Message /\ Tied(m)'
    <2>1. row'[c] = Sent(r)
      BY <1>1 DEF Inv, TypeOK
    <2>2. CASE known = 0
      <3>1. m = Msg("bootstrap", <<c, d>>, 0) /\ d = 1
        BY <1>2, <1>4, <2>2 DEF Submission, d, st
      <3>2. <<c, d>> \in Id
        BY <1>2, <3>1, MakeId
      <3>3. m \in Message /\ m.kind = "bootstrap" /\ m.id = <<c, 1>>
        BY <3>1, <3>2, Messages, LimitAssumption
      <3> QED
        BY <1>2, <1>5, <2>1, <3>3 DEF Tied
    <2>3. CASE known # 0
      <3>1. m = Msg(Opcode(c), <<c, 1>>, known)
        BY <1>2, <1>4, <2>3 DEF Submission, sl
      <3>2. <<c, 1>> \in Id /\ Opcode(c) \in {"execute", "safe", "force"}
        BY <1>2, MakeId DEF Opcode
      <3>3. m \in Message /\ m.kind = Opcode(c) /\ m.id = <<c, 1>> /\ m.epoch = known
        BY <1>2, <3>1, <3>2, Messages
      <3>4. Sent(r).sealed /\ Sent(r).req = 1 /\ Sent(r).epoch = known /\ Sent(r).stage = "request"
        BY <1>2, <1>4, <1>5, <2>3 DEF Sealing, sl
      <3>5. m.id[1] = c /\ m.id[2] = 1 /\ (m.kind = "execute" => c \in Execute)
        BY <3>3 DEF Opcode
      <3> QED
        BY <1>2, <1>5, <2>1, <3>2, <3>3, <3>4, <3>5 DEF Tied
    <2> QED
      BY <2>2, <2>3
  <1> QED
    <2>1. net' \subseteq Message /\ known' \in 0..MaxEpoch /\ debts' = debts /\ UNCHANGED target
      BY <1>1, <1>2, <1>9 DEF Inv, TypeOK
    <2> QED
      BY <1>1, <1>8, <1>9, <2>1, OneRow

LEMMA Unsealed ==
  ASSUME Inv, NEW c \in Command, ~row[c].sealed
  PROVE  Unrun(c)
BY DEF Inv, RanOnce, MessagesTied, Tied, Unrun, Stale

\* What a row says when it is ready is tied to it, and to the row as it is sent.
LEMMA Submitted ==
  ASSUME Inv, NEW c \in Command, NEW r \in Row, NEW m, m = Submission(c, r),
         r.stage \in Sending, Numbered(c, r),
         r.stage # "request" => r.did # 0, r.stage = "request" => r.sealed,
         row'[c].stage = r.stage, row'[c].did = r.did, row'[c].drawn = r.drawn,
         Sealing(row'[c], r)
  PROVE  m \in Message /\ Tied(m)'
  <1> DEFINE kind == IF r.stage \in {"bootstrap", "compare"} THEN "bootstrap"
                     ELSE IF r.stage = "rollover" THEN "safe" ELSE Opcode(c)
             n == IF r.stage = "request" THEN r.req ELSE r.did
             e == IF r.stage \in {"bootstrap", "compare"} THEN 0 ELSE r.epoch
  <1>1. m = Msg(kind, <<c, n>>, e)
    BY DEF Submission, Sending
  <1>2. n \in 0..MaxDraws /\ n # 0 /\ e \in 0..MaxEpoch /\ n <= r.drawn /\ r.stage # "idle"
    BY LimitAssumption DEF Row, Numbered, Sending
  <1>3. kind \in {"bootstrap", "execute", "safe", "force"}
    BY DEF Opcode
  <1>4. m \in Message /\ m.kind = kind /\ m.id = <<c, n>> /\ m.epoch = e
    <2> HIDE DEF kind, n, e
    <2> QED
      BY <1>1, <1>2, <1>3, MakeId, Messages
  <1>5. kind = "execute" => c \in Execute /\ r.stage = "request" /\ n = r.req /\ e = r.epoch
    BY DEF Opcode, Sending
  <1>6. r.stage = "rollover" => kind = "safe" /\ e = r.epoch
    OBVIOUS
  <1> HIDE DEF kind, n, e
  <1>7. m.id[1] = c /\ m.id[2] = n
    BY <1>4
  <1> QED
    BY <1>2, <1>3, <1>4, <1>5, <1>6, <1>7 DEF Tied, Sealing

LEMMA ServeKeeps ==
  ASSUME Inv, NEW c \in Command, Serve(c)
  PROVE  Inv' /\ Advance
  <1> DEFINE s == row[c]
  <1> PICK d : d = Drawn(Due(s))
    OBVIOUS
  <1>1. s \in Row /\ Numbered(c, s) /\ s.stage \in Sending
    BY Rows DEF Serve
  <1>2. /\ d \in Row /\ d.stage = s.stage /\ d.result = s.result /\ d.asm = s.asm
        /\ s.drawn <= d.drawn
        /\ Sealing(d, s) \/ (~s.sealed /\ s.stage = "request")
        /\ d.did = s.did \/ (s.did = 0 /\ d.did = s.drawn + 1)
        /\ s.stage \in {"compare", "rollover"} => d.did # 0
        /\ s.stage = "request" => d.sealed
        /\ s.stage # "request" => Sealing(d, s)
        /\ d.req # s.req => d.req = d.drawn /\ d.req # 0
        /\ d.did # s.did => d.did = d.drawn
    <2>1. Due(s) \in Row /\ Sealing(Due(s), s) /\ Due(s).stage = s.stage /\ Due(s).did = s.did
          /\ Due(s).drawn = s.drawn /\ Due(s).result = s.result /\ Due(s).asm = s.asm
      BY <1>1, DueRow
    <2>2. Draws(Due(s)) => Due(s).drawn < MaxDraws
      BY DEF Serve
    <2> PICK u : u = Due(s)
      OBVIOUS
    <2>3. u \in Row /\ (Draws(u) => u.drawn < MaxDraws) /\ d = Drawn(u)
      BY <2>1, <2>2
    <2>4. /\ d \in Row /\ d.stage = u.stage /\ d.result = u.result /\ d.asm = u.asm
          /\ u.drawn <= d.drawn /\ d.epoch = u.epoch
          /\ Sealing(d, u) \/ (u.stage = "request" /\ ~u.sealed /\ d.sealed /\ d.req # 0)
          /\ d.did = u.did \/ (u.did = 0 /\ d.did = u.drawn + 1)
          /\ u.stage \in {"compare", "rollover"} => d.did # 0
          /\ u.stage = "request" => d.sealed
          /\ u.stage # "request" => Sealing(d, u)
          /\ d.req # u.req => d.req = d.drawn /\ d.req # 0
          /\ d.did # u.did => d.did = d.drawn
      BY <2>3, DrawnRow
    <2> QED
      BY <2>1, <2>4 DEF Sealing
  <1>3. d.req <= d.drawn /\ d.did <= d.drawn
    <2>1. {d.drawn, s.drawn, s.req, s.did} \subseteq Nat /\ s.req <= s.drawn /\ s.did <= s.drawn
      BY <1>1, <1>2, LimitAssumption DEF Numbered, Sending, Row
    <2> QED
      BY <1>2, <2>1
  <1>4. Numbered(c, d)
    BY <1>1, <1>2, <1>3 DEF Numbered, Sending, Sealing
  <1>5. Moves(c, s, d)
    BY <1>1, <1>2, <1>4, Unsealed DEF Moves, Sending
  <1>6. UNCHANGED <<known, debts, target>> /\ known \in 0..MaxEpoch /\ net \subseteq Message
    BY DEF Serve, Inv, TypeOK
  <1>7. CASE row' = [row EXCEPT ![c] = Sent(d)] /\ Transmit({Submission(c, d)})
    <2> PICK m : m = Submission(c, d)
      OBVIOUS
    <2>1. Sent(d) \in Row /\ Sealing(Sent(d), d) /\ Sent(d).stage = d.stage
          /\ Sent(d).did = d.did /\ Sent(d).drawn = d.drawn /\ Sent(d).result = d.result
      BY <1>2, SentRow
    <2>2. Moves(c, s, Sent(d))
      BY <1>1, <1>5, <2>1 DEF Moves, Numbered, Sealing, Sending
    <2>3. row'[c] = Sent(d)
      BY <1>7 DEF Inv, TypeOK
    <2>4. m \in Message /\ Tied(m)'
      BY <1>1, <1>2, <1>4, <2>1, <2>3, Submitted DEF Numbered, Sending
    <2> QED
      BY <1>6, <1>7, <2>2, <2>4, OneRow DEF Transmit
  <1>8. CASE row' = [row EXCEPT ![c] = d] /\ UNCHANGED net
    BY <1>5, <1>6, <1>8, OneRow
  <1>9. CASE row' = [row EXCEPT ![c] = Completed(d, "error")] /\ UNCHANGED net
    <2> PICK t : t = Completed(d, "error")
      OBVIOUS
    <2>1. t \in Row /\ Sealing(t, d) /\ t.drawn = d.drawn /\ t.did = d.did
          /\ t.stage \in {d.stage, "complete"} /\ t.result \in {d.result, "error"}
      BY <1>2, CompletedRow
    <2>2. Moves(c, s, t)
      BY <1>1, <1>2, <1>5, <2>1 DEF Moves, Numbered, Sealing, Sending, Outcome
    <2> QED
      BY <1>6, <1>9, <2>2, OneRow
  <1> QED
    BY <1>7, <1>8, <1>9 DEF Serve

LEMMA Ends ==
  ASSUME Inv, NEW c \in Command, Live(row[c]),
         NEW x \in {"refused", "rolled", "already", "unknown", "error"}
  PROVE  Moves(c, row[c], Completed(row[c], x))
  <1> PICK t : t = Completed(row[c], x)
    OBVIOUS
  <1>1. row[c] \in Row /\ Numbered(c, row[c])
    BY Rows
  <1>2. t \in Row /\ Sealing(t, row[c]) /\ t.drawn = row[c].drawn /\ t.did = row[c].did
        /\ t.stage \in {row[c].stage, "complete"} /\ t.result \in {row[c].result, x}
    BY <1>1, CompletedRow
  <1>3. row[c].drawn <= t.drawn /\ t.did <= t.drawn
    BY <1>1, <1>2, LimitAssumption DEF Numbered, Live, Row
  <1> QED
    BY <1>2, <1>3, Onward DEF Outcome

LEMMA ExpireKeeps ==
  ASSUME Inv, NEW c \in Command, Expire(c)
  PROVE  Inv' /\ Advance
  <1>1. Live(row[c]) /\ row' = [row EXCEPT ![c] = Completed(row[c], "unknown")]
    BY DEF Expire, Sending, Live
  <1>2. UNCHANGED <<known, debts, net, target>>
    BY DEF Expire
  <1> QED
    BY <1>1, <1>2, Ends, OneRow DEF Inv, TypeOK

LEMMA SessionExpireKeeps ==
  ASSUME Inv, SessionExpire
  PROVE  Inv' /\ Advance
  <1>1. Inv'
    BY Controller, LimitAssumption DEF SessionExpire, Inv, TypeOK, MessagesTied
  <1> QED
    BY <1>1 DEF SessionExpire, Advance, Quiet

LEMMA RetryKeeps ==
  ASSUME Inv, NEW c \in Command, Retry(c)
  PROVE  Inv' /\ Advance
  <1> DEFINE s == row[c]  n == s.drawn + 1  e == Enter(s, "compare")
             q == [e EXCEPT !.did = n, !.drawn = n]
             r == [q EXCEPT !.asm = TRUE, !.result = "none"]
  <1>1. s \in Row /\ Numbered(c, s) /\ Live(s) /\ n \in 0..MaxDraws /\ n <= n /\ s.drawn <= n
    BY Rows, LimitAssumption DEF Retry, Live, Row
  <1>2. e \in Row /\ Sealing(e, s) /\ e.drawn = s.drawn /\ e.stage = "compare"
    <2>1. e \in Row
      BY <1>1, Entered DEF Sending
    <2> QED
      BY <1>1, <2>1 DEF Enter, Row, Sealing
  <1>3. row' = [row EXCEPT ![c] = r]
    <2>1. row' = [row EXCEPT ![c] = [e EXCEPT !.did = n, !.drawn = n, !.asm = TRUE, !.result = "none"]]
      BY DEF Retry
    <2> QED
      BY <2>1
  <1> HIDE DEF n, e
  <1>4. q \in Row /\ Sealing(q, e) /\ q.did = n /\ q.drawn = n /\ q.stage = e.stage
    BY <1>1, <1>2 DEF Row, Sealing
  <1> HIDE DEF q
  <1>5. r \in Row /\ Sealing(r, q) /\ r.did = n /\ r.drawn = n /\ r.stage = q.stage /\ r.result = "none"
    BY <1>4 DEF Row, Sealing
  <1> HIDE DEF r
  <1>6. Moves(c, s, r)
    BY <1>1, <1>2, <1>4, <1>5, Onward DEF Sealing, Outcome
  <1>7. UNCHANGED <<known, debts, net, target>>
    BY DEF Retry
  <1> QED
    BY <1>3, <1>6, <1>7, OneRow DEF Inv, TypeOK

LEMMA Goes ==
  ASSUME Inv, NEW c \in Command, Live(row[c])
  PROVE  Moves(c, row[c], Gone(row[c]))
  <1> PICK t : t = Gone(row[c])
    OBVIOUS
  <1>1. row[c] \in Row /\ Numbered(c, row[c])
    BY Rows
  <1>2. t \in Row /\ Sealing(t, row[c]) /\ t.stage = "gone" /\ t.result = row[c].result
    BY <1>1, GoneRow
  <1> QED
    BY <1>1, <1>2 DEF Moves, Numbered, Live, Sealing

LEMMA AcceptKeeps ==
  ASSUME Inv, NEW c \in Command, Accept(c)
  PROVE  Inv' /\ Advance
  <1> DEFINE s == row[c]
  <1>1. s \in Row /\ Numbered(c, s) /\ s.stage = "complete" /\ Live(s)
    BY Rows DEF Accept, Live
  <1>2. Moves(c, s, Gone(s)) /\ row' = [row EXCEPT ![c] = Gone(s)]
    BY <1>1, Goes DEF Accept
  <1>3. UNCHANGED <<known, net, target>>
    BY DEF Accept
  <1>4. row'[c].stage = "gone" /\ row'[c].result = s.result
    BY <1>1, <1>2, GoneRow DEF Inv, TypeOK
  <1>5. ASSUME NEW m \in debts', m \notin debts
        PROVE  m.kind = "ack" /\ m \in Message /\ Tied(m)'
    <2>1. Owes(c) /\ m = Msg("ack", <<c, s.req>>, known)
      BY <1>5 DEF Accept
    <2>2. s.result \in Outcome /\ s.req \in 0..MaxDraws /\ s.req # 0 /\ known \in 0..MaxEpoch
      BY <1>1, <2>1 DEF Owes, Numbered, Row, Inv, TypeOK
    <2>3. m \in Message /\ m.kind = "ack" /\ m.id = <<c, s.req>>
      BY <2>1, <2>2, MakeId, Messages
    <2> QED
      BY <1>4, <2>2, <2>3 DEF Tied
  <1>6. \A d \in Command : row'[d] = row[d] \/ Moves(d, row[d], row'[d])
    BY <1>2 DEF Inv, TypeOK
  <1>7. row' \in [Command -> Row]
    BY <1>2 DEF Inv, TypeOK, Moves
  <1>8. \A m \in debts' : m.kind = "ack" /\ m \in Message
    BY <1>5 DEF Inv, TypeOK, MessagesTied
  <1>9. \A d \in Command : Quiet(d)
    BY <1>1, <1>2, <1>4 DEF Inv, TypeOK, Quiet
  <1> QED
    BY <1>3, <1>5, <1>6, <1>7, <1>8, <1>9, Controller DEF Inv, TypeOK, Advance

LEMMA SendAckKeeps ==
  ASSUME Inv, SendAck
  PROVE  Inv' /\ Advance
  <1>1. Inv'
    BY Controller DEF SendAck, Transmit, client, Inv, TypeOK, MessagesTied
  <1> QED
    BY <1>1 DEF SendAck, client, Advance, Quiet

LEMMA ClientRebootKeeps ==
  ASSUME Inv, ClientReboot
  PROVE  Inv' /\ Advance
  <1>1. \A c \in Command : row'[c] = row[c] \/ Moves(c, row[c], row'[c])
    BY Goes DEF ClientReboot
  <1>2. row' \in [Command -> Row]
    BY GoneRow DEF ClientReboot, Inv, TypeOK
  <1>3. Inv'
    BY <1>1, <1>2, Controller, LimitAssumption DEF ClientReboot, Inv, TypeOK
  <1>4. \A c \in Command : Quiet(c)
    <2> SUFFICES ASSUME NEW c \in Command, Live(row[c]), row'[c] = Gone(row[c])
                 PROVE  Quiet(c)
      BY DEF ClientReboot, Quiet
    <2> QED
      BY Rows, GoneRow DEF Live, Quiet
  <1> QED
    BY <1>1, <1>3, <1>4 DEF ClientReboot, Advance

----------------------------------------------------------------------------
\* What the controller hears.

LEMMA Heard ==
  ASSUME Inv, NEW c \in Command, NEW n, NEW kind, NEW m \in net, Hears(c, m, kind, n)
  PROVE  /\ m \in Message /\ Tied(m) /\ m.kind = kind /\ m.id[1] = c /\ m.id[2] = n
         /\ m.epoch \in 0..MaxEpoch
BY DEF Inv, TypeOK, MessagesTied, Hears, Message

LEMMA EpochTyped ==
  ASSUME Inv, NEW m \in net, EpochUpdate(m.epoch)
  PROVE  known' \in 0..MaxEpoch /\ debts' \subseteq debts
BY DEF Inv, TypeOK, EpochUpdate, Message

LEMMA BootstrappedKeeps ==
  ASSUME Inv, NEW c \in Command, Bootstrapped(c)
  PROVE  Inv' /\ Advance
  <1> DEFINE s == row[c]  e == Enter(s, "request")
  <1>1. PICK m \in net : /\ Hears(c, m, "epoch", s.did) /\ EpochUpdate(m.epoch)
                         /\ row' = [row EXCEPT ![c] = [e EXCEPT !.epoch = m.epoch, !.sealed = TRUE]]
    BY DEF Bootstrapped
  <1>2. s \in Row /\ Numbered(c, s) /\ s.stage = "bootstrap" /\ ~s.sealed /\ UNCHANGED <<net, target>>
    BY Rows DEF Bootstrapped, Awaits, Numbered
  <1>3. m.epoch \in 0..MaxEpoch
    BY <1>1, Heard
  <1> DEFINE r == [e EXCEPT !.epoch = m.epoch, !.sealed = TRUE]
  <1>4. e \in Row /\ Sealing(e, s) /\ e.drawn = s.drawn /\ e.did = s.did /\ e.stage = "request"
        /\ e.result = s.result
    <2>1. e \in Row
      BY <1>2, Entered DEF Sending
    <2> QED
      BY <1>2, <2>1 DEF Enter, Row, Sealing
  <1> HIDE DEF e
  <1>5. r \in Row /\ r.req = e.req /\ r.drawn = e.drawn /\ r.did = e.did /\ r.stage = e.stage
        /\ r.result = e.result
    BY <1>3, <1>4 DEF Row
  <1>6. s.drawn <= r.drawn
    BY <1>2, <1>4, <1>5, LimitAssumption DEF Row
  <1>7. row' = [row EXCEPT ![c] = r]
    BY <1>1
  <1> HIDE DEF r
  <1>8. Moves(c, s, r)
    BY <1>2, <1>4, <1>5, <1>6, Unsealed DEF Moves, Numbered, Sealing
  <1> QED
    BY <1>1, <1>2, <1>7, <1>8, EpochTyped, OneRow DEF Inv, TypeOK

LEMMA ComparedKeeps ==
  ASSUME Inv, NEW c \in Command, Compared(c)
  PROVE  Inv' /\ Advance
  <1> DEFINE s == row[c]
             room == s.asm \/ Cardinality({d \in Command : row[d].asm}) < AssemblySlots
             r == [s EXCEPT !.asm = room]
  <1>1. s \in Row /\ Numbered(c, s) /\ s.stage = "compare" /\ UNCHANGED <<net, target>>
    BY Rows DEF Compared, Awaits
  <1>2. /\ r = [row[c] EXCEPT !.asm = @ \/ Cardinality({d \in Command : row[d].asm}) < AssemblySlots]
        /\ room \in BOOLEAN
    BY <1>1 DEF Row
  <1>3. PICK m \in net :
          \/ /\ EpochUpdate(m.epoch)
             /\ row' = [row EXCEPT ![c] = Completed(r, "unknown")]
          \/ /\ row' = [row EXCEPT ![c] = [Enter(r, "request") EXCEPT !.seq = 0]]
             /\ UNCHANGED <<known, debts>>
    BY <1>2 DEF Compared
  <1> HIDE DEF room
  <1>4. r \in Row /\ Sealing(r, s) /\ r.drawn = s.drawn /\ r.did = s.did /\ r.stage = s.stage
        /\ r.result = s.result
    BY <1>1, <1>2 DEF Row, Sealing
  <1>5. s.drawn <= s.drawn /\ s.did <= s.drawn /\ Live(s)
    BY <1>1, LimitAssumption DEF Row, Numbered, Live
  <1> HIDE DEF r
  <1>6. CASE EpochUpdate(m.epoch) /\ row' = [row EXCEPT ![c] = Completed(r, "unknown")]
    <2> PICK t : t = Completed(r, "unknown")
      OBVIOUS
    <2>1. t \in Row /\ Sealing(t, r) /\ t.drawn = r.drawn /\ t.did = r.did
          /\ t.stage \in {r.stage, "complete"} /\ t.result \in {r.result, "unknown"}
      BY <1>4, CompletedRow
    <2>2. Moves(c, s, t)
      BY <1>1, <1>4, <1>5, <2>1, Onward DEF Sealing, Outcome
    <2> QED
      BY <1>1, <1>6, <2>2, EpochTyped, OneRow DEF Inv, TypeOK
  <1>7. CASE /\ row' = [row EXCEPT ![c] = [Enter(r, "request") EXCEPT !.seq = 0]]
             /\ UNCHANGED <<known, debts>>
    <2> DEFINE e == Enter(r, "request")  t == [e EXCEPT !.seq = 0]
    <2>1. e \in Row
      BY <1>4, Entered DEF Sending
    <2>2. Sealing(e, r) /\ e.drawn = r.drawn /\ e.did = r.did /\ e.stage = "request"
          /\ e.result = r.result
      BY <1>4, <2>1 DEF Enter, Row, Sealing
    <2> HIDE DEF e
    <2>3. t \in Row /\ Sealing(t, e) /\ t.drawn = e.drawn /\ t.did = e.did /\ t.stage = e.stage
          /\ t.result = e.result
      BY <2>1, LimitAssumption DEF Row, Sealing
    <2>4. row' = [row EXCEPT ![c] = t]
      BY <1>7 DEF e
    <2> HIDE DEF t
    <2>5. Moves(c, s, t)
      BY <1>1, <1>4, <1>5, <2>2, <2>3, Onward DEF Sealing
    <2> QED
      BY <1>1, <1>7, <2>4, <2>5, OneRow DEF Inv, TypeOK
  <1> QED
    BY <1>3, <1>6, <1>7

\* A command whose rollover is answered never ran, and never will as it was sealed.
LEMMA RolledForKeeps ==
  ASSUME Inv, NEW c \in Command, RolledFor(c)
  PROVE  Inv' /\ Advance
  <1> DEFINE s == row[c]  e == Enter(s, "request")
  <1>1. PICK m \in net : /\ Hears(c, m, "rolled", s.did) /\ EpochUpdate(m.epoch)
                         /\ row' = [row EXCEPT ![c] = [e EXCEPT !.epoch = m.epoch, !.sealed = FALSE]]
    BY DEF RolledFor
  <1>2. s \in Row /\ Numbered(c, s) /\ s.stage = "rollover" /\ UNCHANGED <<net, target>>
    BY Rows DEF RolledFor, Awaits
  <1>3. m.epoch \in 0..MaxEpoch /\ ran[c].times = 0 /\ s.epoch < m.epoch /\ m.epoch <= epoch
    BY <1>1, <1>2, Heard DEF Tied
  <1>4. Unrun(c)
    <2> SUFFICES ASSUME NEW x \in net, x.kind = "execute", x.id[1] = c
                 PROVE  x.epoch < epoch
      BY <1>3 DEF Unrun, Stale
    <2>1. Tied(x)
      BY DEF Inv, MessagesTied
    <2>2. s.epoch \in Nat /\ m.epoch \in Nat /\ epoch \in Nat
      BY <1>2, <1>3, LimitAssumption DEF Row, Inv, TypeOK, Epoch
    <2> QED
      BY <1>3, <2>1, <2>2 DEF Tied
  <1> DEFINE r == [e EXCEPT !.epoch = m.epoch, !.sealed = FALSE]
  <1>5. e \in Row
    BY <1>2, Entered DEF Sending
  <1>6. Sealing(e, s) /\ e.drawn = s.drawn /\ e.did = s.did /\ e.stage = "request"
        /\ e.result = s.result
    BY <1>2, <1>5 DEF Enter, Row, Sealing
  <1> HIDE DEF e
  <1>7. r \in Row /\ r.req = e.req /\ r.drawn = e.drawn /\ r.did = e.did /\ r.stage = e.stage
        /\ r.result = e.result
    BY <1>3, <1>5 DEF Row
  <1>8. s.drawn <= r.drawn
    BY <1>2, <1>6, <1>7, LimitAssumption DEF Row
  <1>9. row' = [row EXCEPT ![c] = r]
    BY <1>1
  <1> HIDE DEF r
  <1>10. Moves(c, s, r)
    BY <1>2, <1>4, <1>6, <1>7, <1>8 DEF Moves, Numbered, Sealing
  <1> QED
    BY <1>1, <1>2, <1>9, <1>10, EpochTyped, OneRow DEF Inv, TypeOK

LEMMA RolledOverKeeps ==
  ASSUME Inv, NEW c \in Command, RolledOver(c)
  PROVE  Inv' /\ Advance
  <1>1. Live(row[c]) /\ UNCHANGED <<net, target>>
        /\ row' = [row EXCEPT ![c] = Completed(row[c], "rolled")]
    BY DEF RolledOver, Awaits, Live
  <1>2. known' \in 0..MaxEpoch /\ debts' \subseteq debts
    BY EpochTyped DEF RolledOver
  <1> QED
    BY <1>1, <1>2, Ends, OneRow DEF Inv, TypeOK

LEMMA RefusedKeeps ==
  ASSUME Inv, NEW c \in Command, Refused(c)
  PROVE  Inv' /\ Advance
  <1> DEFINE s == row[c]
  <1>1. /\ UNCHANGED <<known, debts, net, target>>
        /\ \/ /\ s.stage = "request"
              /\ row' = [row EXCEPT ![c] = [Enter(s, "rollover") EXCEPT !.did = 0, !.rolled = TRUE]]
           \/ /\ Live(s)
              /\ row' = [row EXCEPT ![c] = Completed(s, "refused")]
    BY DEF Refused, Awaits, Live
  <1>2. CASE /\ s.stage = "request"
             /\ row' = [row EXCEPT ![c] = [Enter(s, "rollover") EXCEPT !.did = 0, !.rolled = TRUE]]
    <2> DEFINE e == Enter(s, "rollover")  r == [e EXCEPT !.did = 0, !.rolled = TRUE]
    <2>1. s \in Row /\ Numbered(c, s) /\ e \in Row
      BY Rows, Entered DEF Sending
    <2>2. Sealing(e, s) /\ e.drawn = s.drawn /\ e.stage = "rollover" /\ e.result = s.result
      BY <2>1 DEF Enter, Row, Sealing
    <2> HIDE DEF e
    <2>3. r \in Row /\ Sealing(r, e) /\ r.drawn = e.drawn /\ r.stage = e.stage
          /\ r.result = e.result /\ r.did = 0
      <3>1. 0 \in 0..MaxDraws
        BY LimitAssumption
      <3> QED
        BY <2>1, <3>1 DEF Row, Sealing
    <2>4. row' = [row EXCEPT ![c] = r]
      BY <1>2 DEF e
    <2> HIDE DEF r
    <2>5. s.drawn <= r.drawn /\ r.did <= r.drawn /\ r.req <= r.drawn
      BY <1>2, <2>1, <2>2, <2>3, LimitAssumption DEF Row, Numbered, Sealing
    <2>6. Moves(c, s, r)
      BY <1>2, <2>1, <2>2, <2>3, <2>5 DEF Moves, Numbered, Sealing
    <2> QED
      BY <1>1, <2>4, <2>6, OneRow DEF Inv, TypeOK
  <1>3. CASE Live(s) /\ row' = [row EXCEPT ![c] = Completed(s, "refused")]
    BY <1>1, <1>3, Ends, OneRow DEF Inv, TypeOK
  <1> QED
    BY <1>1, <1>2, <1>3

LEMMA AnsweredKeeps ==
  ASSUME Inv, NEW c \in Command, Answered(c)
  PROVE  Inv' /\ Advance
  <1> DEFINE s == row[c]
  <1>1. PICK m \in net :
          /\ m.seq = s.seq
          /\ \/ /\ Hears(c, m, "output", s.req)
                /\ row' = [row EXCEPT ![c].seq = @ + 1]
             \/ /\ Hears(c, m, "terminal", s.req)
                /\ row' = [row EXCEPT ![c] = Completed(s, m.code)]
             \/ /\ Hears(c, m, "already", s.req)
                /\ row' = [row EXCEPT ![c] = Completed(s, "already")]
    BY DEF Answered
  <1>2. s \in Row /\ Numbered(c, s) /\ s.stage = "request" /\ Live(s) /\ c \in Execute
        /\ UNCHANGED <<known, debts, net, target>>
    BY Rows DEF Answered, Awaits, Live
  <1>3. s.drawn <= s.drawn /\ s.did <= s.drawn /\ s.req <= s.drawn
    BY <1>2, LimitAssumption DEF Row, Numbered
  <1>4. CASE Hears(c, m, "output", s.req) /\ row' = [row EXCEPT ![c].seq = @ + 1]
    <2> DEFINE n == s.seq + 1  r == [s EXCEPT !.seq = n]
    <2>1. m.seq < MaxFrames /\ m.seq \in Nat
      BY <1>4, Heard, LimitAssumption DEF Tied, Message
    <2>2. n \in 0..MaxFrames
      BY <1>1, <2>1, LimitAssumption
    <2>3. row' = [row EXCEPT ![c] = r]
      BY <1>4, <1>2 DEF Inv, TypeOK
    <2> HIDE DEF n
    <2>4. r \in Row /\ Sealing(r, s) /\ r.drawn = s.drawn /\ r.did = s.did /\ r.stage = s.stage
          /\ r.result = s.result
      BY <1>2, <2>2 DEF Row, Sealing
    <2> HIDE DEF r
    <2>5. Moves(c, s, r)
      BY <1>2, <1>3, <2>4, Onward DEF Sealing
    <2> QED
      BY <1>2, <2>3, <2>5, OneRow DEF Inv, TypeOK
  <1>5. CASE Hears(c, m, "terminal", s.req) /\ row' = [row EXCEPT ![c] = Completed(s, m.code)]
    <2> PICK t : t = Completed(s, m.code)
      OBVIOUS
    <2>0. Tied(m) /\ m.kind = "terminal" /\ m.id[1] = c
      BY <1>5, Heard
    <2>1. ran[c].times = 1 /\ m.code = ran[c].outcome /\ m.code \in Outcome
      <3>1. ran[c].times = 1
        BY <2>0 DEF Tied
      <3>2. m.code = ran[c].outcome
        BY <2>0 DEF Tied
      <3>3. ran[c].times # 0
        BY <3>1
      <3>4. ran[c].outcome \in Outcome
        BY <3>3, Ran
      <3> QED
        BY <3>1, <3>2, <3>4
    <2>2. t \in Row /\ Sealing(t, s) /\ t.drawn = s.drawn /\ t.did = s.did
          /\ t.stage \in {s.stage, "complete"} /\ t.result \in {s.result, m.code}
      BY <1>2, <2>1, CompletedRow
    <2>3. Numbered(c, t)
      BY <1>2, <1>3, <2>1, <2>2 DEF Numbered, Sealing
    <2>4. Moves(c, s, t)
      BY <1>2, <1>3, <2>2, <2>3 DEF Moves
    <2> QED
      BY <1>2, <1>5, <2>4, OneRow DEF Inv, TypeOK
  <1>6. CASE row' = [row EXCEPT ![c] = Completed(s, "already")]
    BY <1>2, <1>6, Ends, OneRow DEF Inv, TypeOK
  <1> QED
    BY <1>1, <1>4, <1>5, <1>6

LEMMA GarbledKeeps ==
  ASSUME Inv, NEW c \in Command, Garbled(c)
  PROVE  Inv' /\ Advance
  <1> DEFINE s == row[c]
  <1>1. Live(s) /\ s \in Row /\ Numbered(c, s) /\ UNCHANGED <<known, debts, net, target>>
    BY Rows DEF Garbled
  <1>2. CASE /\ s.stage = "request"
             /\ row' = [row EXCEPT ![c] = [Enter(s, "compare") EXCEPT !.did = 0, !.rediscovered = TRUE]]
    <2> DEFINE e == Enter(s, "compare")  r == [e EXCEPT !.did = 0, !.rediscovered = TRUE]
    <2>1. e \in Row
      BY <1>1, Entered DEF Sending
    <2>2. Sealing(e, s) /\ e.drawn = s.drawn /\ e.stage = "compare" /\ e.result = s.result
      BY <1>1, <2>1 DEF Enter, Row, Sealing
    <2> HIDE DEF e
    <2>3. r \in Row /\ Sealing(r, e) /\ r.drawn = e.drawn /\ r.stage = e.stage
          /\ r.result = e.result /\ r.did = 0
      <3>1. 0 \in 0..MaxDraws
        BY LimitAssumption
      <3> QED
        BY <2>1, <3>1 DEF Row, Sealing
    <2>4. row' = [row EXCEPT ![c] = r]
      BY <1>2 DEF e
    <2> HIDE DEF r
    <2>5. s.drawn <= r.drawn /\ r.did <= r.drawn
      BY <1>1, <2>2, <2>3, LimitAssumption DEF Row
    <2>6. Moves(c, s, r)
      BY <1>1, <2>2, <2>3, <2>5, Onward DEF Sealing
    <2> QED
      BY <1>1, <2>4, <2>6, OneRow DEF Inv, TypeOK
  <1>3. CASE row' = [row EXCEPT ![c] = Completed(s, "error")]
    BY <1>1, <1>3, Ends, OneRow DEF Inv, TypeOK
  <1> QED
    BY <1>2, <1>3 DEF Garbled, Awaits

----------------------------------------------------------------------------
\* Steps of the target within an epoch that run nothing.

LEMMA TiedStill ==
  ASSUME Inv, row' = row, ran' = ran, epoch' \in Nat, epoch <= epoch', NEW m \in net \cup debts
  PROVE  Tied(m)'
  <1>1. m \in Message /\ Tied(m)
    BY DEF Inv, TypeOK, MessagesTied
  <1>2. m.epoch \in Nat /\ epoch \in Nat
    BY <1>1, LimitAssumption DEF Message, Inv, TypeOK, Epoch
  <1> QED
    BY <1>1, <1>2 DEF Tied

\* An answer has the id of what is answered.
LEMMA ReplyTied ==
  ASSUME Inv, row' = row, NEW q \in net, NEW m, m.id = q.id,
         m.kind \in {"epoch", "refused", "already"} \/ (m.kind = "output" /\ m.seq < MaxFrames)
  PROVE  Tied(m)'
  <1>1. Tied(q)
    BY DEF Inv, MessagesTied
  <1> QED
    BY <1>1 DEF Tied

LEMMA HeldStill ==
  ASSUME Inv, net \subseteq net', epoch' = epoch, ran' = ran, NEW i \in Id, seen'[i] = seen[i],
         script'[i] = None <=> script[i] = None,
         script[i] # None => script'[i].code = script[i].code
  PROVE  Held(i)'
  <1>1. Held(i)
    BY DEF Inv, TablesHeld
  <1> QED
    BY <1>1, AskedLater DEF Held

LEMMA Target ==
  ASSUME Inv, UNCHANGED client, epoch' = epoch, owner' = owner, ran' = ran, fired' = fired,
         net \subseteq net', net' \subseteq Message, \A m \in net' : m \notin net => Tied(m)',
         seen' \in [Id -> {"free", "admitted", "completed", "acknowledged"}],
         ingress' \in [Partition -> Admitted \cup {None}],
         script' \in [Id -> Script \cup {None}],
         action' \in Action \cup {None},
         \A i \in Id : Held(i)',
         \A i \in Id : seen[i] \in {"completed", "acknowledged"} =>
                         seen'[i] \in {"completed", "acknowledged"},
         \A p \in Partition : (ingress[p] # None => Asked(ingress[p].kind, ingress[p].id))',
         action' # None => action # None /\ action'.id = action.id,
         PromiseHeld'
  PROVE  Inv'
  <1>1. row' = row /\ known' = known /\ debts' = debts
    BY DEF client
  <1>2. TypeOK'
    BY <1>1 DEF Inv, TypeOK
  <1>3. MessagesTied'
    <2>1. epoch' \in Nat /\ epoch <= epoch'
      BY LimitAssumption DEF Inv, TypeOK, Epoch
    <2>2. \A m \in net \cup debts : Tied(m)'
      BY <1>1, <2>1, TiedStill
    <2>3. \A m \in debts' : m.kind = "ack"
      BY <1>1 DEF Inv, MessagesTied
    <2> QED
      BY <1>1, <2>2, <2>3 DEF MessagesTied
  <1>4. RowsNumbered'
    BY <1>1 DEF Inv, RowsNumbered, Numbered
  <1>5. RanOnce'
    <2> SUFFICES ASSUME NEW c \in Command, ran[c].times # 0, ran[c].epoch = epoch
                 PROVE  seen'[<<c, ran[c].n>>] \in {"completed", "acknowledged"}
      BY <1>1 DEF Inv, RanOnce
    <2>1. seen[<<c, ran[c].n>>] \in {"completed", "acknowledged"}
      BY DEF Inv, RanOnce
    <2>2. ran[c].n = row[c].req /\ ran[c].n \in 0..MaxDraws /\ row[c].req # 0
      BY EmptyTyped DEF Inv, RanOnce, TypeOK, RowsNumbered, Numbered
    <2>3. <<c, ran[c].n>> \in Id
      BY <2>2, MakeId
    <2> QED
      BY <2>1, <2>3
  <1>6. TablesHeld'
    BY DEF TablesHeld
  <1>7. Deferred'
    BY DEF Inv, Deferred
  <1> QED
    BY <1>2, <1>3, <1>4, <1>5, <1>6, <1>7 DEF Inv

\* What is in net stays asked for, and its id is one.
LEMMA Current_ ==
  ASSUME Inv, NEW m \in net
  PROVE  /\ m \in Message /\ Tied(m) /\ m.id \in Id /\ epoch \in 0..MaxEpoch
         /\ \A kind : Current(m, kind) => Asked(kind, m.id)
BY LimitAssumption DEF Inv, TypeOK, MessagesTied, Message, Current, Asked, Epoch

LEMMA RxBootstrapKeeps ==
  ASSUME Inv, RxBootstrap
  PROVE  Inv'
  <1>1. PICK q \in net : Transmit({Msg("epoch", q.id, epoch)})
    BY DEF RxBootstrap, Reply
  <1> PICK m : m = Msg("epoch", q.id, epoch)
    OBVIOUS
  <1>2. m \in Message /\ m.kind = "epoch" /\ m.id = q.id
    BY Current_, Messages
  <1>3. UNCHANGED <<client, target>>
    BY DEF RxBootstrap
  <1>4. row' = row
    BY <1>3 DEF client
  <1>5. Tied(m)'
    BY <1>2, <1>4, ReplyTied
  <1>6. net' = net \cup {m}
    BY <1>1 DEF Transmit
  <1>7. net' \subseteq Message /\ known' \in 0..MaxEpoch /\ row' \in [Command -> Row] /\ debts' = debts
        /\ \A x \in debts : x.kind = "ack" /\ x \in Message
    BY <1>2, <1>3, <1>6 DEF client, Inv, TypeOK, MessagesTied
  <1> QED
    BY <1>3, <1>4, <1>5, <1>6, <1>7, Controller

LEMMA AskedTables ==
  ASSUME Inv, net \subseteq net', epoch' = epoch, NEW p \in Partition,
         ingress'[p] \in {ingress[p], None}
  PROVE  (ingress[p] # None => Asked(ingress[p].kind, ingress[p].id))'
  <1> SUFFICES ASSUME ingress'[p] # None
               PROVE  Asked(ingress[p].kind, ingress[p].id)'
    OBVIOUS
  <1> PICK k, i : k = ingress[p].kind /\ i = ingress[p].id
    OBVIOUS
  <1>1. ingress'[p] = ingress[p] /\ Asked(k, i)
    BY DEF Inv, TablesHeld
  <1>2. Asked(k, i)'
    BY <1>1, AskedLater
  <1> QED
    BY <1>1, <1>2

LEMMA AdmitKeeps ==
  ASSUME Inv, Admit
  PROVE  Inv'
  <1> DEFINE row_ == IngressOf("execute")
  <1>1. PICK q \in net :
          /\ Current(q, "execute") /\ seen[q.id] = "free"
          /\ \/ /\ Transmit({[Msg("refused", q.id, epoch) EXCEPT !.code = "full"]})
                /\ UNCHANGED <<seen, ingress>>
             \/ /\ Transmit({Msg("refused", q.id, epoch)})
                /\ UNCHANGED <<seen, ingress>>
             \/ /\ seen' = [seen EXCEPT ![q.id] = "admitted"]
                /\ ingress' = [ingress EXCEPT ![row_] = [kind |-> "execute", id |-> q.id]]
                /\ UNCHANGED net
    BY DEF Admit, Reply
  <1>2. UNCHANGED <<client, epoch, owner, script, action, ran, fired>>
    BY DEF Admit
  <1>3. q.id \in Id /\ Asked("execute", q.id) /\ epoch \in 0..MaxEpoch
    BY <1>1, Current_
  <1>4. row' = row /\ net \subseteq Message /\ PromiseHeld'
    BY <1>2 DEF client, Inv, TypeOK, Deferred, PromiseHeld
  <1>5. ASSUME NEW m, m \in Message, m.kind = "refused", m.id = q.id, Transmit({m}),
               UNCHANGED <<seen, ingress>>
        PROVE  Inv'
    <2>1. Tied(m)'
      BY <1>4, <1>5, ReplyTied
    <2>2. net' = net \cup {m}
      BY <1>5 DEF Transmit
    <2>3. \A i \in Id : Held(i)'
      BY <1>2, <1>5, <2>2, HeldStill
    <2>4. \A p \in Partition : (ingress[p] # None => Asked(ingress[p].kind, ingress[p].id))'
      BY <1>2, <1>5, <2>2, AskedTables
    <2>5. seen' = seen /\ ingress' = ingress /\ net' \subseteq Message /\ net \subseteq net'
          /\ \A x \in net' : x \notin net => Tied(x)'
      BY <1>4, <1>5, <2>1, <2>2
    <2> QED
      BY <1>2, <1>4, <2>3, <2>4, <2>5, Target DEF Inv, TypeOK
  <1>6. CASE Transmit({[Msg("refused", q.id, epoch) EXCEPT !.code = "full"]}) /\ UNCHANGED <<seen, ingress>>
    <2> PICK m : m = [Msg("refused", q.id, epoch) EXCEPT !.code = "full"]
      OBVIOUS
    <2>1. m \in Message /\ m.kind = "refused" /\ m.id = q.id
      BY <1>3, FullRefusal
    <2> QED
      BY <1>5, <1>6, <2>1
  <1>7. CASE Transmit({Msg("refused", q.id, epoch)}) /\ UNCHANGED <<seen, ingress>>
    <2> PICK m : m = Msg("refused", q.id, epoch)
      OBVIOUS
    <2>1. m \in Message /\ m.kind = "refused" /\ m.id = q.id
      BY <1>3, Messages
    <2> QED
      BY <1>5, <1>7, <2>1
  <1>8. CASE /\ seen' = [seen EXCEPT ![q.id] = "admitted"]
             /\ ingress' = [ingress EXCEPT ![row_] = [kind |-> "execute", id |-> q.id]]
             /\ UNCHANGED net
    <2>1. ASSUME NEW i \in Id PROVE Held(i)'
      <3>1. CASE i = q.id
        <4>1. Held(i) /\ Asked("execute", i)'
          BY <1>2, <1>3, <1>8, <3>1, AskedLater DEF Inv, TablesHeld
        <4>2. seen'[i] = "admitted" /\ script' = script /\ seen[i] = "free"
          BY <1>1, <1>2, <1>3, <1>8, <3>1 DEF Inv, TypeOK
        <4> QED
          BY <4>1, <4>2 DEF Held
      <3>2. CASE i # q.id
        BY <1>2, <1>8, <3>2, HeldStill DEF Inv, TypeOK
      <3> QED
        BY <3>1, <3>2
    <2>2. ASSUME NEW p \in Partition
          PROVE  (ingress[p] # None => Asked(ingress[p].kind, ingress[p].id))'
      <3>1. CASE p = row_
        <4>1. ingress'[p] = [kind |-> "execute", id |-> q.id]
          BY <1>8, <3>1 DEF Inv, TypeOK
        <4>2. Asked("execute", q.id)'
          BY <1>2, <1>3, <1>8, AskedLater
        <4> QED
          BY <4>1, <4>2
      <3>2. CASE p # row_
        BY <1>2, <1>8, <3>2, AskedTables DEF Inv, TypeOK
      <3> QED
        BY <3>1, <3>2
    <2>3. seen' \in [Id -> {"free", "admitted", "completed", "acknowledged"}]
      BY <1>8 DEF Inv, TypeOK
    <2>4. ingress' \in [Partition -> Admitted \cup {None}]
      BY <1>3, <1>8 DEF Inv, TypeOK, Admitted
    <2>5. \A i \in Id : seen[i] \in {"completed", "acknowledged"} =>
                          seen'[i] \in {"completed", "acknowledged"}
      BY <1>1, <1>8 DEF Inv, TypeOK
    <2> QED
      BY <1>2, <1>4, <1>8, <2>1, <2>2, <2>3, <2>4, <2>5, Target DEF Inv, TypeOK
  <1> QED
    BY <1>1, <1>6, <1>7, <1>8

LEMMA ReplayKeeps ==
  ASSUME Inv, Replay
  PROVE  Inv'
  <1>1. PICK q \in net :
          /\ Current(q, "execute")
          /\ \/ /\ seen[q.id] = "completed" /\ script[q.id] # None
                /\ script' = [script EXCEPT ![q.id].cursor = 0]
                /\ UNCHANGED net
             \/ /\ seen[q.id] = "acknowledged"
                /\ Transmit({Msg("already", q.id, epoch)})
                /\ UNCHANGED script
    BY DEF Replay, Reply
  <1>2. UNCHANGED <<client, epoch, owner, seen, ingress, action, ran, fired>>
    BY DEF Replay
  <1>3. q.id \in Id /\ epoch \in 0..MaxEpoch
    BY Current_
  <1>4. row' = row /\ net \subseteq Message
    BY <1>2 DEF client, Inv, TypeOK
  <1>5. CASE /\ script[q.id] # None
             /\ script' = [script EXCEPT ![q.id].cursor = 0]
             /\ UNCHANGED net
    <2> DEFINE s == script[q.id]  t == [s EXCEPT !.cursor = 0]
    <2>1. s \in Script
      BY <1>3, <1>5 DEF Inv, TypeOK
    <2>2. 0 \in 0..MaxFrames
      BY LimitAssumption
    <2>3. t \in Script /\ t.code = s.code /\ t.frames = s.frames /\ t.cursor = 0
      BY <2>1, <2>2 DEF Script
    <2>4. script' = [script EXCEPT ![q.id] = t]
      BY <1>3, <1>5 DEF Inv, TypeOK
    <2>5. 0 < s.frames /\ t # None
      BY <2>1, <2>3, LimitAssumption, NoneAssumption DEF Script
    <2> HIDE DEF t
    <2>6. \A i \in Id : script'[i] = IF i = q.id THEN t ELSE script[i]
      BY <2>4 DEF Inv, TypeOK
    <2>7. \A i \in Id : Held(i)'
      BY <1>2, <1>5, <2>3, <2>5, <2>6, HeldStill
    <2>8. \A p \in Partition : (ingress[p] # None => Asked(ingress[p].kind, ingress[p].id))'
      BY <1>2, <1>5, AskedTables
    <2>9. script' \in [Id -> Script \cup {None}]
      BY <2>3, <2>4 DEF Inv, TypeOK
    <2>10. PromiseHeld'
      <3> SUFFICES ASSUME action # None, action.phase = "prepared"
                   PROVE  /\ script'[action.id] # None /\ script'[action.id].code = "scheduled"
                          /\ script'[action.id].cursor < script'[action.id].frames
        BY <1>2 DEF PromiseHeld
      <3>1. action.id \in Id
        BY DEF Inv, TypeOK, Action
      <3>2. /\ script[action.id] # None /\ script[action.id].code = "scheduled"
            /\ script[action.id].cursor < script[action.id].frames
        BY DEF Inv, Deferred, PromiseHeld
      <3> QED
        BY <2>3, <2>5, <2>6, <3>1, <3>2
    <2> QED
      BY <1>2, <1>4, <1>5, <2>7, <2>8, <2>9, <2>10, Target DEF Inv, TypeOK
  <1>6. CASE Transmit({Msg("already", q.id, epoch)}) /\ UNCHANGED script
    <2> PICK m : m = Msg("already", q.id, epoch)
      OBVIOUS
    <2>1. m \in Message /\ m.kind = "already" /\ m.id = q.id
      BY <1>3, Messages
    <2>2. Tied(m)'
      BY <1>4, <2>1, ReplyTied
    <2>3. net' = net \cup {m}
      BY <1>6 DEF Transmit
    <2>4. \A i \in Id : Held(i)'
      BY <1>2, <1>6, <2>3, HeldStill
    <2>5. \A p \in Partition : (ingress[p] # None => Asked(ingress[p].kind, ingress[p].id))'
      BY <1>2, <1>6, <2>3, AskedTables
    <2>6. net' \subseteq Message /\ \A x \in net' : x \notin net => Tied(x)'
      BY <1>4, <2>1, <2>2, <2>3
    <2>7. PromiseHeld'
      BY <1>2, <1>6 DEF Inv, Deferred, PromiseHeld
    <2> QED
      BY <1>2, <1>4, <1>6, <2>3, <2>4, <2>5, <2>6, <2>7, Target DEF Inv, TypeOK
  <1> QED
    BY <1>1, <1>5, <1>6

\* The transcript an ACK releases is not the one a prepared action waits for.
LEMMA RxAckKeeps ==
  ASSUME Inv, RxAck
  PROVE  Inv'
  <1>1. PICK q \in net :
          /\ Current(q, "ack") /\ seen[q.id] # "free"
          /\ ~(action # None /\ action.id = q.id /\ action.phase = "prepared")
          /\ action' = IF action # None /\ action.id = q.id
                       THEN [action EXCEPT !.phase = "due"] ELSE action
          /\ IF seen[q.id] = "completed"
             THEN /\ seen' = [seen EXCEPT ![q.id] = "acknowledged"]
                  /\ script' = [script EXCEPT ![q.id] = None]
             ELSE UNCHANGED <<seen, script>>
    BY DEF RxAck
  <1>2. UNCHANGED <<client, net, epoch, owner, ingress, ran, fired>>
    BY DEF RxAck
  <1>3. q.id \in Id /\ Asked("ack", q.id)
    BY <1>1, Current_
  <1>4. ASSUME NEW i \in Id PROVE Held(i)'
    <2>1. CASE i = q.id /\ seen[i] = "completed"
      <3>1. Held(i)
        BY DEF Inv, TablesHeld
      <3>2. seen'[i] = "acknowledged" /\ script'[i] = None
        BY <1>1, <2>1 DEF Inv, TypeOK
      <3>3. Asked("ack", i)' /\ (Asked("execute", i) => Asked("execute", i)')
        BY <1>2, <1>3, <2>1, AskedLater
      <3> QED
        BY <1>2, <2>1, <3>1, <3>2, <3>3 DEF Held
    <2>2. CASE i # q.id \/ seen[i] # "completed"
      <3>1. seen'[i] = seen[i] /\ script'[i] = script[i]
        BY <1>1, <2>2 DEF Inv, TypeOK
      <3> QED
        BY <1>2, <3>1, HeldStill
    <2> QED
      BY <2>1, <2>2
  <1>5. \A p \in Partition : (ingress[p] # None => Asked(ingress[p].kind, ingress[p].id))'
    BY <1>2, AskedTables
  <1>6. /\ seen' \in [Id -> {"free", "admitted", "completed", "acknowledged"}]
        /\ script' \in [Id -> Script \cup {None}]
    BY <1>1 DEF Inv, TypeOK
  <1>7. action' \in Action \cup {None} /\ (action' # None => action # None /\ action'.id = action.id)
    BY <1>1 DEF Inv, TypeOK, Action
  <1>8. PromiseHeld'
    <2> SUFFICES ASSUME action' # None, action'.phase = "prepared"
                 PROVE  /\ script'[action'.id] # None /\ script'[action'.id].code = "scheduled"
                        /\ script'[action'.id].cursor < script'[action'.id].frames
      BY DEF PromiseHeld
    <2>1. action # None /\ action.id # q.id /\ action' = action /\ action.id \in Id
      BY <1>1 DEF Inv, TypeOK, Action
    <2>2. script'[action.id] = script[action.id]
      BY <1>1, <2>1 DEF Inv, TypeOK
    <2> QED
      BY <2>1, <2>2 DEF Inv, Deferred, PromiseHeld
  <1>9. \A i \in Id : seen[i] \in {"completed", "acknowledged"} =>
                        seen'[i] \in {"completed", "acknowledged"}
    BY <1>1 DEF Inv, TypeOK
  <1> QED
    BY <1>2, <1>4, <1>5, <1>6, <1>7, <1>8, <1>9, Target DEF Inv, TypeOK

LEMMA RxControlKeeps ==
  ASSUME Inv, RxControl
  PROVE  Inv'
  <1>1. PICK q \in net :
          /\ q.kind \in {"safe", "force"} /\ Current(q, q.kind)
          /\ \/ Transmit({Msg("refused", q.id, epoch)}) /\ UNCHANGED ingress
             \/ /\ ingress' = [ingress EXCEPT !["control"] = [kind |-> q.kind, id |-> q.id]]
                /\ UNCHANGED net
    BY DEF RxControl, Reply, Current
  <1>2. UNCHANGED <<client, epoch, owner, seen, script, action, ran, fired>>
    BY DEF RxControl
  <1>3. q.id \in Id /\ Asked(q.kind, q.id) /\ epoch \in 0..MaxEpoch
    BY <1>1, Current_
  <1>4. row' = row /\ net \subseteq Message /\ PromiseHeld'
    BY <1>2 DEF client, Inv, TypeOK, Deferred, PromiseHeld
  <1>5. CASE Transmit({Msg("refused", q.id, epoch)}) /\ UNCHANGED ingress
    <2> PICK m : m = Msg("refused", q.id, epoch)
      OBVIOUS
    <2>1. m \in Message /\ m.kind = "refused" /\ m.id = q.id
      BY <1>3, Messages
    <2>2. Tied(m)'
      BY <1>4, <2>1, ReplyTied
    <2>3. net' = net \cup {m}
      BY <1>5 DEF Transmit
    <2>4. \A i \in Id : Held(i)'
      BY <1>2, <2>3, HeldStill
    <2>5. \A p \in Partition : (ingress[p] # None => Asked(ingress[p].kind, ingress[p].id))'
      BY <1>2, <1>5, <2>3, AskedTables
    <2>6. net' \subseteq Message /\ \A x \in net' : x \notin net => Tied(x)'
      BY <1>4, <2>1, <2>2, <2>3
    <2> QED
      BY <1>2, <1>4, <1>5, <2>3, <2>4, <2>5, <2>6, Target DEF Inv, TypeOK
  <1>6. CASE /\ ingress' = [ingress EXCEPT !["control"] = [kind |-> q.kind, id |-> q.id]]
             /\ UNCHANGED net
    <2>1. \A i \in Id : Held(i)'
      BY <1>2, <1>6, HeldStill
    <2>2. ASSUME NEW p \in Partition
          PROVE  (ingress[p] # None => Asked(ingress[p].kind, ingress[p].id))'
      <3>1. CASE p = "control"
        <4>1. ingress'[p] = [kind |-> q.kind, id |-> q.id]
          BY <1>6, <3>1 DEF Inv, TypeOK
        <4>2. Asked(q.kind, q.id)'
          BY <1>2, <1>3, <1>6, AskedLater
        <4> QED
          BY <4>1, <4>2
      <3>2. CASE p # "control"
        BY <1>2, <1>6, <3>2, AskedTables DEF Inv, TypeOK
      <3> QED
        BY <3>1, <3>2
    <2>3. ingress' \in [Partition -> Admitted \cup {None}]
      BY <1>1, <1>3, <1>6 DEF Inv, TypeOK, Admitted
    <2> QED
      BY <1>2, <1>4, <1>6, <2>1, <2>2, <2>3, Target DEF Inv, TypeOK
  <1> QED
    BY <1>1, <1>5, <1>6

LEMMA ExpireIngressKeeps ==
  ASSUME Inv, NEW p \in Partition, ExpireIngress(p)
  PROVE  Inv'
  <1> DEFINE g == ingress[p]
  <1>1. /\ g # None /\ ingress' = [ingress EXCEPT ![p] = None]
        /\ seen' = [seen EXCEPT ![g.id] = IF g.kind = "execute" /\ seen[g.id] = "admitted"
                                          THEN "free" ELSE seen[g.id]]
        /\ UNCHANGED <<client, net, epoch, owner, script, action, ran, fired>>
    BY DEF ExpireIngress
  <1>2. g.id \in Id
    BY <1>1 DEF Inv, TypeOK, Admitted
  <1>3. \A i \in Id : seen'[i] = seen[i] \/ (seen[i] = "admitted" /\ seen'[i] = "free")
    BY <1>1, <1>2 DEF Inv, TypeOK
  <1>4. ASSUME NEW i \in Id PROVE Held(i)'
    <2>1. CASE seen'[i] = seen[i]
      BY <1>1, <2>1, HeldStill
    <2>2. CASE seen[i] = "admitted" /\ seen'[i] = "free"
      <3>1. Held(i) /\ script' = script
        BY <1>1 DEF Inv, TablesHeld
      <3> QED
        BY <2>2, <3>1 DEF Held
    <2> QED
      BY <1>3, <2>1, <2>2
  <1>5. \A o \in Partition : (ingress[o] # None => Asked(ingress[o].kind, ingress[o].id))'
    BY <1>1, AskedTables DEF Inv, TypeOK
  <1>6. /\ seen' \in [Id -> {"free", "admitted", "completed", "acknowledged"}]
        /\ ingress' \in [Partition -> Admitted \cup {None}]
        /\ \A i \in Id : seen[i] \in {"completed", "acknowledged"} =>
                           seen'[i] \in {"completed", "acknowledged"}
    BY <1>1, <1>2, <1>3 DEF Inv, TypeOK
  <1>7. PromiseHeld'
    BY <1>1 DEF Inv, Deferred, PromiseHeld
  <1> QED
    BY <1>1, <1>4, <1>5, <1>6, <1>7, Target DEF Inv, TypeOK

LEMMA ActionDueKeeps ==
  ASSUME Inv, ActionDue
  PROVE  Inv'
  <1>1. /\ action # None /\ action' = [action EXCEPT !.phase = "due"]
        /\ UNCHANGED <<client, net, epoch, owner, seen, ingress, script, ran, fired>>
    BY DEF ActionDue
  <1>2. action' \in Action /\ action'.id = action.id /\ action'.phase = "due"
    BY <1>1 DEF Inv, TypeOK, Action
  <1>3. PromiseHeld'
    BY <1>2 DEF PromiseHeld
  <1>4. \A i \in Id : Held(i)'
    BY <1>1, HeldStill
  <1>5. \A o \in Partition : (ingress[o] # None => Asked(ingress[o].kind, ingress[o].id))'
    BY <1>1, AskedTables
  <1> QED
    BY <1>1, <1>2, <1>3, <1>4, <1>5, Target DEF Inv, TypeOK

----------------------------------------------------------------------------
\* Steps of the target that run a command, or end an epoch.

\* A command that may be dispatched is the one its row is sealed as, and never ran.
LEMMA Dispatchable ==
  ASSUME Inv, NEW p \in Partition, NEW o \in Outcome, Dispatch(p, o)
  PROVE  LET i == ingress[p].id
         IN /\ i \in Id /\ i[1] \in Execute /\ i[1] \in Command
            /\ seen[i] = "admitted" /\ Asked("execute", i)
            /\ ran[i[1]].times = 0 /\ ran[i[1]].outcome = "none" /\ fired[i[1]] = 0
            /\ row[i[1]].sealed /\ row[i[1]].req = i[2] /\ row[i[1]].epoch = epoch
            /\ row[i[1]].stage \notin {"idle", "bootstrap"}
            /\ ran' = [ran EXCEPT ![i[1]] = [times |-> 1, n |-> i[2], epoch |-> epoch, outcome |-> o]]
  <1> DEFINE i == ingress[p].id  c == i[1]
  <1>1. i \in Id /\ c \in Command /\ i = <<c, i[2]>> /\ seen[i] = "admitted"
    BY Ids DEF Dispatch, Inv, TypeOK, Admitted
  <1>2. Asked("execute", i)
    BY <1>1 DEF Inv, TablesHeld, Held
  <1>3. PICK m \in net : m.kind = "execute" /\ m.id = i /\ m.epoch = epoch
    BY <1>2 DEF Asked
  <1>4. epoch \in Nat
    BY LimitAssumption DEF Inv, TypeOK, Epoch
  <1>5. /\ c \in Execute /\ row[c].stage \notin {"idle", "bootstrap"}
        /\ row[c].sealed /\ row[c].req = i[2] /\ row[c].epoch = epoch
    BY <1>3, <1>4 DEF Inv, MessagesTied, Tied
  <1>6. ran[c].times = 0
    <2> SUFFICES ASSUME ran[c].times # 0 PROVE FALSE
      OBVIOUS
    <2>1. ran[c].n = i[2] /\ ran[c].epoch = epoch
      BY <1>1, <1>5, Ran
    <2>2. seen[<<c, i[2]>>] \in {"completed", "acknowledged"}
      BY <1>1, <2>1, Ran
    <2> QED
      BY <1>1, <2>2
  <1>7. ran[c].outcome = "none" /\ fired[c] = 0
    BY <1>1, <1>6 DEF Inv, RanOnce
  <1>8. ran' = [ran EXCEPT ![c] = [times |-> 1, n |-> i[2], epoch |-> epoch, outcome |-> o]]
    BY <1>6 DEF Dispatch
  <1> QED
    BY <1>1, <1>2, <1>5, <1>6, <1>7, <1>8

\* The ghost of a dispatch agrees with everything that was said before.
LEMMA DispatchTies ==
  ASSUME Inv, NEW p \in Partition, NEW o \in Outcome, Dispatch(p, o), row' = row, fired' = fired,
         epoch' \in Epoch, epoch <= epoch'
  PROVE  /\ \A m \in net \cup debts : Tied(m)'
         /\ RowsNumbered'
         /\ ran' \in [Command -> [times: Nat, n: 0..MaxDraws, epoch: 0..MaxEpoch,
                                  outcome: Outcome \cup {"none"}]]
         /\ \A c \in Command : c = ingress[p].id[1] \/ ran'[c] = ran[c]
         /\ ran'[ingress[p].id[1]] = [times |-> 1, n |-> ingress[p].id[2],
                                      epoch |-> epoch, outcome |-> o]
  <1> PICK i, d : i = ingress[p].id /\ d = i[1]
    OBVIOUS
  <1>1. /\ i \in Id /\ d \in Execute /\ d \in Command
        /\ ran[d].times = 0 /\ ran[d].outcome = "none"
        /\ row[d].epoch = epoch
        /\ ran' = [ran EXCEPT ![d] = [times |-> 1, n |-> i[2], epoch |-> epoch, outcome |-> o]]
    BY Dispatchable
  <1>2. epoch \in Nat /\ epoch' \in Nat /\ epoch \in 0..MaxEpoch /\ i[2] \in 0..MaxDraws
    BY <1>1, Ids, LimitAssumption DEF Inv, TypeOK, Epoch
  <1>3. \A c \in Command : ran'[c] = IF c = d THEN [times |-> 1, n |-> i[2], epoch |-> epoch, outcome |-> o]
                                     ELSE ran[c]
    BY <1>1 DEF Inv, TypeOK
  <1>4. ASSUME NEW m \in net \cup debts PROVE Tied(m)'
    <2>1. m \in Message /\ Tied(m) /\ m.id[1] \in Command /\ m.epoch \in Nat
      BY LimitAssumption, Ids DEF Inv, TypeOK, MessagesTied, Message
    <2>2. CASE m.id[1] # d
      <3>1. ran'[m.id[1]] = ran[m.id[1]]
        BY <1>3, <2>1, <2>2
      <3> QED
        BY <1>2, <2>1, <3>1 DEF Tied
    <2>3. CASE m.id[1] = d
      <3>1. m.kind # "terminal"
        BY <1>1, <2>1, <2>3 DEF Tied
      <3>2. m.kind = "rolled" => ~(row[d].stage = "rollover" /\ m.id[2] = row[d].did)
        BY <1>1, <1>2, <2>1, <2>3 DEF Tied
      <3> QED
        BY <1>2, <2>1, <2>3, <3>1, <3>2 DEF Tied
    <2> QED
      BY <2>2, <2>3
  <1>5. RowsNumbered'
    <2> SUFFICES ASSUME NEW c \in Command PROVE Numbered(c, row[c])'
      BY DEF RowsNumbered
    <2>1. Numbered(c, row[c])
      BY Rows
    <2>2. CASE c # d
      BY <1>3, <2>1, <2>2 DEF Numbered
    <2>3. CASE c = d
      <3>1. row[c].result \notin Outcome
        BY <1>1, <2>1, <2>3 DEF Numbered
      <3> QED
        BY <2>1, <3>1 DEF Numbered
    <2> QED
      BY <2>2, <2>3
  <1>6. ran' \in [Command -> [times: Nat, n: 0..MaxDraws, epoch: 0..MaxEpoch,
                              outcome: Outcome \cup {"none"}]]
    BY <1>1, <1>2 DEF Inv, TypeOK
  <1> QED
    BY <1>1, <1>3, <1>4, <1>5, <1>6

\* The same, when nothing is dispatched.
LEMMA RestTies ==
  ASSUME Inv, row' = row, ran' = ran, epoch' \in Epoch, epoch <= epoch'
  PROVE  /\ \A m \in net \cup debts : Tied(m)'
         /\ RowsNumbered'
  <1>1. epoch' \in Nat
    BY LimitAssumption DEF Epoch
  <1>2. RowsNumbered'
    BY DEF Inv, RowsNumbered, Numbered
  <1> QED
    BY <1>1, <1>2, TiedStill

LEMMA NewEpoch ==
  ASSUME Inv, UNCHANGED client, epoch < MaxEpoch, epoch' = epoch + 1, owner' \in BOOLEAN,
         fired' = fired,
         seen' = [i \in Id |-> "free"], script' = [i \in Id |-> None],
         ingress' = [p \in Partition |-> None],
         action' \in {None, action}, action' # None => action.phase # "prepared",
         net \subseteq net', net' \subseteq Message, \A m \in net' : m \notin net => Tied(m)',
         ran' = ran \/ \E p \in Partition : Dispatch(p, "done")
  PROVE  Inv'
  <1>1. row' = row /\ known' = known /\ debts' = debts
    BY DEF client
  <1>2. epoch' \in Epoch /\ epoch <= epoch' /\ epoch' \in Nat /\ epoch \in Nat /\ epoch # epoch'
    BY LimitAssumption DEF Inv, TypeOK, Epoch
  <1>3. /\ \A m \in net \cup debts : Tied(m)'
        /\ RowsNumbered'
        /\ ran' \in [Command -> [times: Nat, n: 0..MaxDraws, epoch: 0..MaxEpoch,
                                 outcome: Outcome \cup {"none"}]]
    <2>1. CASE ran' = ran
      BY <1>1, <1>2, <2>1, RestTies DEF Inv, TypeOK
    <2>2. CASE \E p \in Partition : Dispatch(p, "done")
      BY <1>1, <1>2, <2>2, DispatchTies DEF Outcome
    <2> QED
      BY <2>1, <2>2
  <1>4. TypeOK'
    BY <1>1, <1>2, <1>3 DEF Inv, TypeOK
  <1>5. MessagesTied'
    BY <1>1, <1>3 DEF Inv, MessagesTied
  <1>6. RanOnce' /\ Deferred'
    <2>1. PromiseHeld'
      BY DEF PromiseHeld
    <2>2. CASE ran' = ran
      <3>1. ASSUME NEW c \in Command, ran[c].times # 0
            PROVE  ran[c].epoch <= epoch' /\ ran[c].epoch # epoch'
        <4>1. ran[c].epoch \in Nat /\ ran[c].epoch <= epoch
          BY <3>1, Ran
        <4> QED
          BY <1>2, <4>1
      <3>2. RanOnce'
        BY <1>1, <2>2, <3>1 DEF Inv, RanOnce
      <3> QED
        BY <2>1, <2>2, <3>2 DEF Inv, Deferred
    <2>3. CASE \E p \in Partition : Dispatch(p, "done")
      <3>1. PICK p \in Partition : Dispatch(p, "done")
        BY <2>3
      <3> PICK i, d : i = ingress[p].id /\ d = i[1]
        OBVIOUS
      <3>2. /\ i \in Id /\ d \in Command /\ ran[d].times = 0 /\ ran[d].outcome = "none"
            /\ fired[d] = 0 /\ row[d].sealed /\ row[d].req = i[2] /\ row[d].epoch = epoch
        BY <3>1, Dispatchable DEF Outcome
      <3>3. /\ \A c \in Command : c = d \/ ran'[c] = ran[c]
            /\ ran'[d] = [times |-> 1, n |-> i[2], epoch |-> epoch, outcome |-> "done"]
        BY <1>1, <1>2, <3>1, DispatchTies DEF Outcome
      <3>4. ASSUME NEW c \in Command, c # d, ran[c].times # 0
            PROVE  ran[c].epoch <= epoch' /\ ran[c].epoch # epoch'
        <4>1. ran[c].epoch \in Nat /\ ran[c].epoch <= epoch
          BY <3>4, Ran
        <4> QED
          BY <1>2, <4>1
      <3>5. RanOnce'
        <4> SUFFICES ASSUME NEW c \in Command
                     PROVE  /\ ran'[c].times = 0 => ran'[c].outcome = "none" /\ fired'[c] = 0
                            /\ ran'[c].times # 0 =>
                                 /\ ran'[c].times = 1 /\ ran'[c].outcome \in Outcome
                                 /\ row'[c].sealed /\ ran'[c].n = row'[c].req
                                 /\ ran'[c].epoch = row'[c].epoch
                                 /\ ran'[c].epoch <= epoch' /\ ran'[c].epoch # epoch'
          BY DEF RanOnce
        <4>1. CASE c = d
          BY <1>1, <1>2, <3>2, <3>3, <4>1 DEF Outcome
        <4>2. CASE c # d /\ ran[c].times = 0
          BY <3>3, <4>2 DEF Inv, RanOnce
        <4>3. CASE c # d /\ ran[c].times # 0
          BY <1>1, <3>3, <3>4, <4>3, Ran
        <4> QED
          BY <4>1, <4>2, <4>3
      <3>6. action' # None => action'.id[1] # d /\ action'.id[1] \in Command /\ action' = action
        BY <3>2, Ids DEF Inv, Deferred, TypeOK, Action
      <3>7. \A c \in Command : fired[c] <= 1 /\ (fired[c] = 1 => ran'[c].outcome = "scheduled")
        BY <3>2, <3>3 DEF Inv, Deferred
      <3>8. Deferred'
        BY <2>1, <3>3, <3>6, <3>7 DEF Inv, Deferred
      <3> QED
        BY <3>5, <3>8
    <2> QED
      BY <2>2, <2>3
  <1>7. TablesHeld'
    BY DEF TablesHeld, Held
  <1> QED
    BY <1>3, <1>4, <1>5, <1>6, <1>7 DEF Inv

\* A rollover that a command asked for is granted only if it never ran: had it run in this
\* epoch, its answer would still be held, or acknowledged and the row gone.
LEMMA RolledTied ==
  ASSUME Inv, NEW h, h \in Admitted, h.kind # "execute", Asked(h.kind, h.id),
         h.kind = "safe" => \A i \in Id : script[i] = None,
         row' = row, ran' = ran, epoch' = epoch + 1,
         NEW m, m.kind = "rolled", m.id = h.id, m.epoch = epoch + 1
  PROVE  Tied(m)'
  <1>1. PICK x \in net : x.kind = h.kind /\ x.id = h.id /\ x.epoch = epoch
    BY DEF Asked
  <1>2. Tied(x) /\ h.kind \in {"safe", "force"} /\ h.id \in Id
    BY <1>1 DEF Inv, MessagesTied, Admitted
  <1> PICK c, n : c = h.id[1] /\ n = h.id[2]
    OBVIOUS
  <1>3. c \in Command /\ epoch \in Nat
    BY <1>2, Ids, LimitAssumption DEF Inv, TypeOK, Epoch
  <1>4. ASSUME row[c].stage = "rollover", n = row[c].did
        PROVE  ran[c].times = 0 /\ row[c].epoch < epoch + 1
    <2>1. h.kind = "safe" /\ row[c].epoch = epoch
      BY <1>1, <1>2, <1>4 DEF Tied
    <2>2. ASSUME ran[c].times # 0 PROVE FALSE
      <3>1. ran[c].epoch = epoch /\ seen[<<c, ran[c].n>>] \in {"completed", "acknowledged"}
            /\ ran[c].n = row[c].req
        BY <1>3, <2>1, <2>2, Ran
      <3>2. row[c].req \in 0..MaxDraws /\ row[c].req # 0
        BY <1>3, <1>4, Rows DEF Row, Numbered
      <3> PICK i : i = <<c, ran[c].n>>
        OBVIOUS
      <3>3. i \in Id /\ i[1] = c /\ Held(i) /\ script[i] = None
        BY <1>3, <2>1, <3>1, <3>2, MakeId DEF Inv, TablesHeld
      <3>4. seen[i] = "acknowledged" /\ Asked("ack", i)
        BY <3>1, <3>3 DEF Held
      <3>5. PICK y \in net : y.kind = "ack" /\ y.id = i
        BY <3>4 DEF Asked
      <3>6. row[c].stage = "gone"
        BY <3>3, <3>5 DEF Inv, MessagesTied, Tied
      <3> QED
        BY <1>4, <3>6
    <2> QED
      BY <1>3, <2>1, <2>2
  <1>5. row[c].stage # "idle" /\ (n <= row[c].drawn \/ row[c].stage = "gone")
    BY <1>1, <1>2 DEF Tied
  <1>6. m.id[1] = c /\ m.id[2] = n /\ m.epoch <= epoch + 1
    BY <1>3
  <1> QED
    BY <1>4, <1>5, <1>6 DEF Tied

LEMMA ServiceControlKeeps ==
  ASSUME Inv, ServiceControl
  PROVE  Inv'
  <1> PICK h : h = ingress["control"]
    OBVIOUS
  <1>1. /\ h \in Admitted /\ h.kind # "execute" /\ h.id \in Id /\ Asked(h.kind, h.id)
        /\ UNCHANGED <<client, owner, ran, fired>>
        /\ \/ /\ ~Owned /\ (h.kind = "safe" => \A i \in Id : script[i] = None)
              /\ InvalidateSlot /\ Transmit({Msg("rolled", h.id, epoch')})
           \/ /\ Transmit({Msg("refused", h.id, epoch)})
              /\ ingress' = [ingress EXCEPT !["control"] = None]
              /\ UNCHANGED <<epoch, seen, script, action>>
    BY DEF ServiceControl, Reply, Inv, TypeOK, Partition, Admitted, TablesHeld
  <1>2. row' = row /\ net \subseteq Message
    BY <1>1 DEF client, Inv, TypeOK
  <1>3. CASE /\ ~Owned /\ (h.kind = "safe" => \A i \in Id : script[i] = None)
             /\ InvalidateSlot /\ Transmit({Msg("rolled", h.id, epoch')})
    <2> PICK m : m = Msg("rolled", h.id, epoch + 1)
      OBVIOUS
    <2>1. epoch' = epoch + 1 /\ epoch + 1 \in 0..MaxEpoch /\ epoch < MaxEpoch
      BY <1>3, LimitAssumption DEF InvalidateSlot, Inv, TypeOK, Epoch
    <2>2. m \in Message /\ m.kind = "rolled" /\ m.id = h.id /\ m.epoch = epoch + 1
      BY <1>1, <2>1, Messages
    <2>3. Tied(m)'
      BY <1>1, <1>2, <1>3, <2>1, <2>2, RolledTied
    <2>4. net' = net \cup {m}
      BY <1>3, <2>1 DEF Transmit
    <2>5. action' \in {None, action} /\ (action' # None => action.phase # "prepared")
      BY <1>3 DEF InvalidateSlot, Owned
    <2>6. net' \subseteq Message /\ net \subseteq net' /\ \A x \in net' : x \notin net => Tied(x)'
      BY <1>2, <2>2, <2>3, <2>4
    <2> QED
      BY <1>1, <1>3, <2>1, <2>5, <2>6, NewEpoch DEF InvalidateSlot, Inv, TypeOK
  <1>4. CASE /\ Transmit({Msg("refused", h.id, epoch)})
             /\ ingress' = [ingress EXCEPT !["control"] = None]
             /\ UNCHANGED <<epoch, seen, script, action>>
    <2> PICK m : m = Msg("refused", h.id, epoch)
      OBVIOUS
    <2>1. m \in Message /\ m.kind = "refused" /\ m.id = h.id
      BY <1>1, Messages, LimitAssumption DEF Inv, TypeOK, Epoch
    <2>2. PICK x \in net : x.id = h.id
      BY <1>1 DEF Asked
    <2>3. Tied(m)'
      BY <1>2, <2>1, <2>2, ReplyTied
    <2>4. net' = net \cup {m}
      BY <1>4 DEF Transmit
    <2>5. \A i \in Id : Held(i)'
      BY <1>1, <1>4, <2>4, HeldStill
    <2>6. ingress' \in [Partition -> Admitted \cup {None}]
          /\ \A p \in Partition : ingress'[p] \in {ingress[p], None}
      BY <1>4 DEF Inv, TypeOK
    <2>7. \A p \in Partition : (ingress[p] # None => Asked(ingress[p].kind, ingress[p].id))'
      BY <1>4, <2>4, <2>6, AskedTables
    <2>8. net' \subseteq Message /\ \A y \in net' : y \notin net => Tied(y)'
      BY <1>2, <2>1, <2>3, <2>4
    <2>9. PromiseHeld'
      BY <1>4 DEF Inv, Deferred, PromiseHeld
    <2> QED
      BY <1>1, <1>4, <2>4, <2>5, <2>6, <2>7, <2>8, <2>9, Target DEF Inv, TypeOK
  <1> QED
    BY <1>1, <1>3, <1>4

LEMMA SendFrameKeeps ==
  ASSUME Inv, NEW i \in Id, SendFrame(i)
  PROVE  Inv'
  <1> DEFINE s == script[i]
             last == s.cursor = s.frames - 1
             code == IF last THEN s.code ELSE "none"
             kind == IF last THEN "terminal" ELSE "output"
             k == s.cursor + 1
             t == [s EXCEPT !.cursor = k]
  <1> PICK m : m = [Msg(kind, i, epoch) EXCEPT !.seq = s.cursor, !.code = code]
    OBVIOUS
  <1>1. /\ s # None /\ s.cursor < s.frames /\ Transmit({m})
        /\ action' = IF code = "scheduled" /\ action # None /\ action.id = i
                        /\ action.phase = "prepared"
                     THEN [action EXCEPT !.phase = "armed"] ELSE action
        /\ script' = [script EXCEPT ![i] = t]
        /\ UNCHANGED <<client, epoch, owner, seen, ingress, ran, fired>>
    BY DEF SendFrame, Unsent, Reply, Inv, TypeOK
  <1>2. s \in Script
    BY <1>1 DEF Inv, TypeOK
  <1>3. /\ s.cursor \in Nat /\ s.frames \in Nat /\ s.frames <= MaxFrames /\ MaxFrames \in Nat
        /\ k \in 0..MaxFrames /\ s.cursor \in 0..MaxFrames /\ s.cursor < MaxFrames
        /\ (~last => k < s.frames)
    BY <1>1, <1>2, LimitAssumption DEF Script
  <1>4. t \in Script /\ t.code = s.code /\ t.frames = s.frames /\ t.cursor = k
    <2> HIDE DEF k
    <2> QED
      BY <1>2, <1>3 DEF Script
  <1>5. Held(i) /\ seen[i] = "completed" /\ Asked("execute", i) /\ s.code = ran[i[1]].outcome
        /\ ran[i[1]].times = 1 /\ ran[i[1]].n = i[2]
    BY <1>1 DEF Inv, TablesHeld, Held
  <1>6. PICK q \in net : q.id = i
    BY <1>5 DEF Asked
  <1>7. m.id = i /\ m.kind = kind /\ m.code = code /\ m.seq = s.cursor
    BY DEF Msg
  <1>8. m \in Message
    <2>1. Msg(kind, i, epoch) \in Message
      BY Messages, LimitAssumption DEF Inv, TypeOK, Epoch
    <2>2. code \in Outcome \cup {"full", "none"}
      BY <1>2 DEF Script
    <2> HIDE DEF code, kind
    <2> QED
      BY <1>3, <2>1, <2>2 DEF Message
  <1>9. row' = row /\ net \subseteq Message /\ net' = net \cup {m}
    BY <1>1 DEF client, Inv, TypeOK, Transmit
  <1>10. Tied(m)'
    <2>1. CASE last
      <3>1. Tied(q)
        BY DEF Inv, MessagesTied
      <3>2. ran' = ran /\ m.kind = "terminal" /\ m.code = s.code
        BY <1>1, <1>7, <2>1
      <3> QED
        BY <1>5, <1>6, <1>7, <1>9, <3>1, <3>2 DEF Tied
    <2>2. CASE ~last
      BY <1>3, <1>6, <1>7, <1>9, <2>2, ReplyTied
    <2> QED
      BY <2>1, <2>2
  <1> PICK u : u = t
    OBVIOUS
  <1>11. \A j \in Id : script'[j] = IF j = i THEN u ELSE script[j]
    BY <1>1 DEF Inv, TypeOK
  <1>12. u # None /\ u.code = s.code /\ script' \in [Id -> Script \cup {None}]
    BY <1>1, <1>4, NoneAssumption DEF Inv, TypeOK
  <1>13. \A j \in Id : Held(j)'
    BY <1>1, <1>9, <1>11, <1>12, HeldStill
  <1>14. \A p \in Partition : (ingress[p] # None => Asked(ingress[p].kind, ingress[p].id))'
    BY <1>1, <1>9, AskedTables
  <1>15. action' \in Action \cup {None} /\ (action' # None => action # None /\ action'.id = action.id)
    BY <1>1 DEF Inv, TypeOK, Action
  <1>16. PromiseHeld'
    <2> SUFFICES ASSUME action' # None, action'.phase = "prepared"
                 PROVE  /\ script'[action'.id] # None /\ script'[action'.id].code = "scheduled"
                        /\ script'[action'.id].cursor < script'[action'.id].frames
      BY DEF PromiseHeld
    <2>1. action' = action /\ action # None /\ action.id \in Id
          /\ ~(code = "scheduled" /\ action.id = i)
      BY <1>1 DEF Inv, TypeOK, Action
    <2>2. /\ script[action.id] # None /\ script[action.id].code = "scheduled"
          /\ script[action.id].cursor < script[action.id].frames
      BY <2>1 DEF Inv, Deferred, PromiseHeld
    <2>3. CASE action.id # i
      BY <1>11, <2>1, <2>2, <2>3
    <2>4. CASE action.id = i
      <3>1. ~last
        BY <2>1, <2>2, <2>4
      <3>2. k < s.frames
        BY <1>3, <3>1
      <3>3. script'[i] = t
        BY <1>11
      <3> QED
        BY <1>1, <1>4, <2>1, <2>2, <2>4, <3>2, <3>3, <1>12
    <2> QED
      BY <2>3, <2>4
  <1> QED
    <2>1. net' \subseteq Message /\ net \subseteq net' /\ \A y \in net' : y \notin net => Tied(y)'
      BY <1>8, <1>9, <1>10
    <2>2. seen' \in [Id -> {"free", "admitted", "completed", "acknowledged"}]
          /\ ingress' \in [Partition -> Admitted \cup {None}]
          /\ \A j \in Id : seen'[j] = seen[j]
      BY <1>1 DEF Inv, TypeOK
    <2> QED
      BY <1>1, <1>12, <1>13, <1>14, <1>15, <1>16, <2>1, <2>2, Target

LEMMA RunKeeps ==
  ASSUME Inv, NEW p \in Partition, Run(p)
  PROVE  Inv'
  <1> PICK i, c : i = ingress[p].id /\ c = i[1]
    OBVIOUS
  <1>1. PICK o \in Outcome, f \in 1..MaxFrames :
          /\ Dispatch(p, o)
          /\ o = "scheduled" => action = None
          /\ action' = IF o = "scheduled" THEN [phase |-> "prepared", id |-> i] ELSE action
          /\ seen' = [seen EXCEPT ![i] = "completed"]
          /\ script' = [script EXCEPT ![i] = [code |-> o, frames |-> f, cursor |-> 0]]
          /\ ingress' = [ingress EXCEPT ![p] = None]
          /\ UNCHANGED <<client, net, epoch, owner, fired>>
    BY DEF Run
  <1>2. /\ i \in Id /\ c \in Execute /\ c \in Command /\ i = <<c, i[2]>>
        /\ seen[i] = "admitted" /\ Asked("execute", i)
        /\ ran[c].times = 0 /\ ran[c].outcome = "none" /\ fired[c] = 0
        /\ row[c].sealed /\ row[c].req = i[2] /\ row[c].epoch = epoch
    BY <1>1, Dispatchable, Ids
  <1>3. row' = row /\ known' = known /\ debts' = debts /\ net' = net /\ epoch' = epoch /\ fired' = fired
    BY <1>1 DEF client
  <1>4. epoch \in Nat /\ epoch' \in Epoch /\ epoch <= epoch'
    BY <1>3, LimitAssumption DEF Inv, TypeOK, Epoch
  <1>5. /\ \A m \in net \cup debts : Tied(m)'
        /\ RowsNumbered'
        /\ ran' \in [Command -> [times: Nat, n: 0..MaxDraws, epoch: 0..MaxEpoch,
                                 outcome: Outcome \cup {"none"}]]
        /\ \A d \in Command : d = c \/ ran'[d] = ran[d]
        /\ ran'[c] = [times |-> 1, n |-> i[2], epoch |-> epoch, outcome |-> o]
    BY <1>1, <1>3, <1>4, DispatchTies
  <1> PICK t : t = [code |-> o, frames |-> f, cursor |-> 0]
    OBVIOUS
  <1>6. t \in Script /\ t # None /\ t.code = o /\ t.cursor = 0 /\ 0 < t.frames
    BY NoneAssumption, LimitAssumption DEF Script
  <1>7. /\ \A j \in Id : seen'[j] = IF j = i THEN "completed" ELSE seen[j]
        /\ \A j \in Id : script'[j] = IF j = i THEN t ELSE script[j]
    BY <1>1, <1>2 DEF Inv, TypeOK
  <1>8. TypeOK'
    <2>1. action' \in Action \cup {None}
      BY <1>1, <1>2 DEF Inv, TypeOK, Action
    <2>2. /\ seen' \in [Id -> {"free", "admitted", "completed", "acknowledged"}]
          /\ script' \in [Id -> Script \cup {None}]
          /\ ingress' \in [Partition -> Admitted \cup {None}]
      BY <1>1, <1>6 DEF Inv, TypeOK
    <2> QED
      BY <1>1, <1>3, <1>5, <2>1, <2>2 DEF Inv, TypeOK
  <1>9. MessagesTied'
    BY <1>3, <1>5 DEF Inv, MessagesTied
  <1>10. RanOnce'
    <2> SUFFICES ASSUME NEW d \in Command
                 PROVE  /\ ran'[d].times = 0 => ran'[d].outcome = "none" /\ fired'[d] = 0
                        /\ ran'[d].times # 0 =>
                             /\ ran'[d].times = 1 /\ ran'[d].outcome \in Outcome
                             /\ row'[d].sealed /\ ran'[d].n = row'[d].req
                             /\ ran'[d].epoch = row'[d].epoch /\ ran'[d].epoch <= epoch'
                             /\ ran'[d].epoch = epoch' =>
                                  seen'[<<d, ran'[d].n>>] \in {"completed", "acknowledged"}
      BY DEF RanOnce
    <2>1. CASE d = c
      BY <1>2, <1>3, <1>4, <1>5, <1>7, <2>1
    <2>2. CASE d # c /\ ran[d].times = 0
      BY <1>3, <1>5, <2>2 DEF Inv, RanOnce
    <2>3. CASE d # c /\ ran[d].times # 0
      <3>1. /\ ran[d].times = 1 /\ ran[d].outcome \in Outcome
            /\ row[d].sealed /\ ran[d].n = row[d].req /\ ran[d].epoch = row[d].epoch
            /\ ran[d].epoch <= epoch
            /\ ran[d].epoch = epoch => seen[<<d, ran[d].n>>] \in {"completed", "acknowledged"}
        BY <2>3, Ran
      <3>2. ran[d].n \in 0..MaxDraws /\ ran[d].n # 0
        BY <2>3, <3>1, Rows, EmptyTyped DEF Row, Numbered
      <3>3. <<d, ran[d].n>> \in Id /\ <<d, ran[d].n>> # i
        BY <1>2, <2>3, <3>2, MakeId
      <3> QED
        BY <1>3, <1>5, <1>7, <2>3, <3>1, <3>3
    <2> QED
      BY <2>1, <2>2, <2>3
  <1>11. TablesHeld'
    <2>1. ASSUME NEW j \in Id PROVE Held(j)'
      <3>1. Held(j) /\ j[1] \in Command /\ j = <<j[1], j[2]>>
        BY Ids DEF Inv, TablesHeld
      <3>2. CASE j = i
        <4>1. Asked("execute", j)'
          BY <1>2, <1>3, <3>2, AskedLater
        <4>2. seen'[j] = "completed" /\ script'[j] = t
          BY <1>7, <3>2
        <4> QED
          BY <1>2, <1>3, <1>5, <1>6, <3>2, <4>1, <4>2 DEF Held
      <3>3. CASE j # i
        <4>1. seen'[j] = seen[j] /\ script'[j] = script[j]
          BY <1>7, <3>3
        <4>2. /\ Asked("execute", j) => Asked("execute", j)'
              /\ Asked("ack", j) => Asked("ack", j)'
          BY <1>3, AskedLater
        <4>3. CASE j[1] # c
          BY <1>3, <1>5, <3>1, <4>1, <4>2, <4>3 DEF Held
        <4>4. CASE j[1] = c
          <5>1. seen[j] \notin {"completed", "acknowledged"} /\ script[j] = None
            BY <1>2, <3>1, <4>4 DEF Held
          <5> QED
            BY <3>1, <4>1, <4>2, <5>1 DEF Held
        <4> QED
          BY <4>3, <4>4
      <3> QED
        BY <3>2, <3>3
    <2>2. \A q \in Partition : (ingress[q] # None => Asked(ingress[q].kind, ingress[q].id))'
      BY <1>1, <1>3, AskedTables DEF Inv, TypeOK
    <2> QED
      BY <2>1, <2>2 DEF TablesHeld
  <1>12. Deferred'
    <2>1. \A d \in Command : fired'[d] <= 1 /\ (fired'[d] = 1 => ran'[d].outcome = "scheduled")
      BY <1>2, <1>3, <1>5 DEF Inv, Deferred
    <2>2. CASE o = "scheduled"
      <3>1. action' = [phase |-> "prepared", id |-> i]
        BY <1>1, <2>2
      <3>2. PromiseHeld'
        BY <1>2, <1>6, <1>7, <2>2, <3>1 DEF PromiseHeld
      <3> QED
        BY <1>2, <1>3, <1>5, <2>1, <2>2, <3>1, <3>2 DEF Deferred
    <2>3. CASE o # "scheduled"
      <3>1. action' = action
        BY <1>1, <2>3
      <3>2. action # None => action.id \in Id /\ action.id[1] \in Command /\ action.id[1] # c
        BY <1>2, Ids DEF Inv, Deferred, TypeOK, Action
      <3>3. PromiseHeld'
        <4> SUFFICES ASSUME action # None, action.phase = "prepared"
                     PROVE  /\ script'[action.id] # None /\ script'[action.id].code = "scheduled"
                            /\ script'[action.id].cursor < script'[action.id].frames
          BY <3>1 DEF PromiseHeld
        <4>1. script'[action.id] = script[action.id]
          BY <1>7, <3>2
        <4> QED
          BY <4>1 DEF Inv, Deferred, PromiseHeld
      <3> QED
        BY <1>3, <1>5, <2>1, <3>1, <3>2, <3>3 DEF Inv, Deferred
    <2> QED
      BY <2>2, <2>3
  <1> QED
    BY <1>5, <1>8, <1>9, <1>10, <1>11, <1>12 DEF Inv

LEMMA Invalidated ==
  ASSUME Inv, InvalidateSlot, UNCHANGED client, owner' \in BOOLEAN, fired' = fired, net' = net,
         ran' = ran \/ \E p \in Partition : Dispatch(p, "done")
  PROVE  Inv'
  <1>1. action' \in {None, action} /\ (action' # None => action.phase # "prepared")
    BY DEF InvalidateSlot, Owned
  <1> QED
    BY <1>1, NewEpoch DEF InvalidateSlot, Inv, TypeOK

LEMMA RunRotatingKeeps ==
  ASSUME Inv, NEW p \in Partition, RunRotating(p)
  PROVE  Inv'
BY Invalidated DEF RunRotating

LEMMA AclChangeKeeps ==
  ASSUME Inv, AclChange
  PROVE  Inv'
BY Invalidated DEF AclChange

LEMMA RebootKeeps ==
  ASSUME Inv, Reboot
  PROVE  Inv'
BY NewEpoch DEF Reboot, Inv, TypeOK

LEMMA TakeActionKeeps ==
  ASSUME Inv, TakeAction
  PROVE  Inv'
  <1> PICK c : c = action.id[1]
    OBVIOUS
  <1>1. /\ action # None /\ action' = None /\ fired' = [fired EXCEPT ![c] = @ + 1]
        /\ UNCHANGED <<client, net, epoch, owner, seen, ingress, script, ran>>
    BY DEF TakeAction
  <1>2. row' = row /\ known' = known /\ debts' = debts
    BY <1>1 DEF client
  <1>3. c \in Command /\ ran[c].outcome = "scheduled" /\ fired[c] = 0 /\ fired'[c] = 1
    BY <1>1, Ids DEF Inv, Deferred, TypeOK, Action
  <1>4. TypeOK'
    <2>1. fired' \in [Command -> Nat]
      BY <1>1, <1>3 DEF Inv, TypeOK
    <2> QED
      BY <1>1, <1>2, <2>1 DEF Inv, TypeOK
  <1>5. MessagesTied' /\ RowsNumbered'
    <2>1. epoch' \in Epoch /\ epoch <= epoch'
      BY <1>1, LimitAssumption DEF Inv, TypeOK, Epoch
    <2> QED
      BY <1>1, <1>2, <2>1, RestTies DEF Inv, MessagesTied
  <1>6. \A d \in Command : d = c \/ fired'[d] = fired[d]
    BY <1>1 DEF Inv, TypeOK
  <1>7. RanOnce'
    BY <1>1, <1>2, <1>3, <1>6 DEF Inv, RanOnce
  <1>8. TablesHeld'
    BY <1>1 DEF Inv, TablesHeld, Held, Asked
  <1>9. Deferred'
    BY <1>1, <1>3, <1>6 DEF Inv, Deferred, PromiseHeld
  <1> QED
    BY <1>4, <1>5, <1>7, <1>8, <1>9 DEF Inv

----------------------------------------------------------------------------
\* The invariant holds.

LEMMA InitInv ==
  ASSUME Init
  PROVE  Inv
  <1>1. TypeOK
    BY EmptyTyped, LimitAssumption DEF Init, TypeOK, Epoch
  <1>2. RowsNumbered
    BY EmptyTyped DEF Init, RowsNumbered, Numbered, Outcome
  <1>3. MessagesTied /\ RanOnce /\ TablesHeld /\ Deferred
    BY DEF Init, MessagesTied, RanOnce, TablesHeld, Held, Deferred, PromiseHeld
  <1> QED
    BY <1>1, <1>2, <1>3 DEF Inv

LEMMA ClientStepInv ==
  ASSUME Inv, NEW c \in Command, ClientStep(c)
  PROVE  Inv' /\ Advance
BY StartKeeps, ServeKeeps, ExpireKeeps, RetryKeeps, AcceptKeeps, BootstrappedKeeps, ComparedKeeps,
   RolledForKeeps, RolledOverKeeps, RefusedKeeps, AnsweredKeeps, GarbledKeeps
DEF ClientStep

LEMMA TargetStepInv ==
  ASSUME Inv, TargetStep
  PROVE  Inv'
BY RxBootstrapKeeps, AdmitKeeps, ReplayKeeps, RxAckKeeps, RxControlKeeps, ServiceControlKeeps,
   ActionDueKeeps, TakeActionKeeps, AclChangeKeeps, RebootKeeps, SendFrameKeeps,
   ExpireIngressKeeps, RunKeeps, RunRotatingKeeps
DEF TargetStep

LEMMA StutterInv ==
  ASSUME Inv, UNCHANGED vars
  PROVE  Inv'
  <1>1. /\ row' = row /\ known' = known /\ debts' = debts /\ net' = net
        /\ epoch' = epoch /\ owner' = owner /\ seen' = seen /\ ingress' = ingress
        /\ script' = script /\ action' = action /\ ran' = ran /\ fired' = fired
    BY DEF vars, client, target
  <1>2. TypeOK' /\ RowsNumbered' /\ RanOnce'
    BY <1>1 DEF Inv, TypeOK, RowsNumbered, Numbered, RanOnce
  <1>3. MessagesTied'
    BY <1>1 DEF Inv, MessagesTied, Tied
  <1>4. TablesHeld' /\ Deferred'
    BY <1>1 DEF Inv, TablesHeld, Held, Asked, Deferred, PromiseHeld
  <1> QED
    BY <1>2, <1>3, <1>4 DEF Inv

LEMMA StepInv ==
  ASSUME Inv, [Next]_vars
  PROVE  Inv'
BY StutterInv, ClientStepInv, TargetStepInv, SendAckKeeps, SessionExpireKeeps, ClientRebootKeeps
DEF Next

\* The inductive invariant: every message is tied to the row that sent for it.
THEOREM AlwaysInv == Spec => []Inv
BY InitInv, StepInv, PTL DEF Spec

LEMMA InvAnswerKept ==
  ASSUME Inv
  PROVE  AnswerKept
  <1> SUFFICES ASSUME NEW c \in Execute, ran[c].times > 0, ran[c].epoch = epoch
               PROVE  LET i == <<c, ran[c].n>>
                      IN \/ /\ seen[i] = "completed" /\ script[i] # None
                            /\ script[i].code = ran[c].outcome
                         \/ /\ seen[i] = "acknowledged" /\ row[c].stage = "gone"
                            /\ row[c].result = ran[c].outcome
    BY DEF AnswerKept
  <1>1. c \in Command /\ ran[c].times # 0
    BY DEF Command
  <1>2. seen[<<c, ran[c].n>>] \in {"completed", "acknowledged"} /\ ran[c].n = row[c].req
        /\ row[c].sealed
    BY <1>1, Ran
  <1>3. row[c].req \in 0..MaxDraws /\ row[c].req # 0
    BY <1>1, <1>2, Rows, EmptyTyped DEF Row, Numbered
  <1> PICK i : i = <<c, ran[c].n>>
    OBVIOUS
  <1>4. i \in Id /\ i[1] = c /\ Held(i)
    BY <1>1, <1>2, <1>3, MakeId DEF Inv, TablesHeld
  <1>5. CASE seen[i] = "completed"
    BY <1>4, <1>5 DEF Held
  <1>6. CASE seen[i] = "acknowledged"
    <2>1. PICK m \in net : m.kind = "ack" /\ m.id = i
      BY <1>4, <1>6 DEF Held, Asked
    <2>2. row[c].stage = "gone" /\ row[c].result \in Outcome
      BY <1>4, <2>1 DEF Inv, MessagesTied, Tied
    <2>3. row[c].result = ran[c].outcome
      BY <1>1, <2>2, Rows DEF Numbered
    <2> QED
      BY <1>6, <2>2, <2>3
  <1> QED
    BY <1>2, <1>5, <1>6

\* Every variable has its type.
THEOREM TypeCorrect == Spec => []TypeOK
  <1>1. Inv => TypeOK
    BY DEF Inv
  <1> QED
    BY <1>1, AlwaysInv, PTL

\* A prepared action always has the transcript whose terminal will arm it.
THEOREM PromisesHeld == Spec => []PromiseHeld
  <1>1. Inv => PromiseHeld
    BY DEF Inv, Deferred
  <1> QED
    BY <1>1, AlwaysInv, PTL

\* Within an epoch a command that ran is remembered, and its answer is there to be sent
\* again until its user has it.
THEOREM AnswersKept == Spec => []AnswerKept
BY AlwaysInv, InvAnswerKept, PTL

----------------------------------------------------------------------------
\* The session is the call.

LEMMA InitIsCall ==
  ASSUME Init
  PROVE  Call!Init
BY EmptyTyped DEF Init, Call!Init, Command, Outcome

\* What a step of the controller is to the user: he asks, or is told, or notices nothing.
LEMMA AdvanceIsCall ==
  ASSUME Inv, Inv', Advance
  PROVE  [Call!Next]_(Call!vars)
  <1> DEFINE told(r) == IF r.result \in Outcome THEN r.result ELSE "none"
  <1>1. ran' = ran /\ fired' = fired
    BY DEF Advance, target
  <1>2. CASE \A c \in Execute : Quiet(c)
    BY <1>1, <1>2 DEF Call!vars, Quiet
  <1>3. CASE \E c \in Execute : ~Quiet(c)
    <2>1. PICK c \in Execute : ~Quiet(c)
      BY <1>3
    <2>2. c \in Command /\ \A d \in Execute : d = c \/ Quiet(d)
      BY <2>1 DEF Advance, Command
    <2>3. Moves(c, row[c], row'[c])
      BY <2>1, <2>2 DEF Advance, Quiet
    <2>4. row'[c].stage # "idle" /\ Numbered(c, row[c]) /\ Numbered(c, row'[c])
      BY <2>2, <2>3, Rows DEF Moves
    <2>5. \A d \in Execute : d = c \/ (row'[d].result = row[d].result
                                        /\ (row'[d].stage = "idle" <=> row[d].stage = "idle"))
      BY <2>2 DEF Quiet
    <2>6. CASE row[c].stage = "idle"
      <3>1. row[c].result = "none" /\ ran[c].times = 0
        BY <2>2, <2>4, <2>6, EmptyTyped, Ran DEF Numbered
      <3>2. told(row[c]) = "none" /\ told(row'[c]) = "none"
        BY <2>4, <3>1 DEF Numbered, Outcome
      <3>3. Call!Ask(c)
        BY <1>1, <2>4, <2>5, <2>6, <3>2 DEF Call!Ask
      <3> QED
        BY <3>3 DEF Call!Next
    <2>7. CASE row[c].stage # "idle"
      <3>1. told(row'[c]) \in {"none", ran[c].outcome}
        BY <2>4 DEF Numbered
      <3>2. Call!Tell(c)
        <4> HIDE DEF told
        <4>1. {d \in Execute : row'[d].stage # "idle"} = {d \in Execute : row[d].stage # "idle"}
          BY <2>4, <2>5, <2>7
        <4>2. \A d \in Execute : d = c \/ told(row'[d]) = told(row[d])
          BY <2>5 DEF told
        <4>3. [d \in Execute |-> told(row'[d])]
                = [[d \in Execute |-> told(row[d])] EXCEPT ![c] = told(row'[c])]
          BY <4>2
        <4> QED
          BY <1>1, <3>1, <4>1, <4>3 DEF Call!Tell, told
      <3> QED
        BY <3>2 DEF Call!Next
    <2> QED
      BY <2>6, <2>7
  <1> QED
    BY <1>2, <1>3

LEMMA DispatchIsCall ==
  ASSUME Inv, NEW p \in Partition, NEW o \in Outcome, Dispatch(p, o), row' = row, fired' = fired
  PROVE  Call!Next
  <1> PICK c, n : c = ingress[p].id[1] /\ n = ingress[p].id[2]
    OBVIOUS
  <1>1. /\ c \in Execute /\ ran[c].times = 0 /\ row[c].stage # "idle"
        /\ ran' = [ran EXCEPT ![c] = [times |-> 1, n |-> n, epoch |-> epoch, outcome |-> o]]
    BY Dispatchable
  <1>2. \A d \in Execute : /\ d # c => ran'[d] = ran[d]
                           /\ d = c => ran'[d].times = 1 /\ ran'[d].outcome = o
    BY <1>1 DEF Inv, TypeOK, Command
  <1>3. [d \in Execute |-> ran'[d].times]
          = [[d \in Execute |-> ran[d].times] EXCEPT ![c] = 1]
    BY <1>2
  <1>4. [d \in Execute |-> ran'[d].outcome]
          = [[d \in Execute |-> ran[d].outcome] EXCEPT ![c] = o]
    BY <1>2
  <1>5. [d \in Execute |-> ran[d].times][c] = 0
    BY <1>1
  <1>6. Call!Run(c)
    BY <1>1, <1>3, <1>4, <1>5 DEF Call!Run
  <1> QED
    BY <1>1, <1>6 DEF Call!Next

LEMMA TakeActionIsCall ==
  ASSUME Inv, TakeAction
  PROVE  [Call!Next]_(Call!vars)
  <1> PICK c : c = action.id[1]
    OBVIOUS
  <1>1. c \in Command /\ ran[c].outcome = "scheduled" /\ fired[c] = 0
    BY Ids DEF TakeAction, Inv, Deferred, TypeOK, Action
  <1>2. row' = row /\ ran' = ran /\ \A d \in Command : fired'[d] = IF d = c THEN 1 ELSE fired[d]
    BY <1>1 DEF TakeAction, client, Inv, TypeOK
  <1>3. CASE c \in Execute
    <2>1. Call!Fire(c)
      BY <1>1, <1>2, <1>3 DEF Call!Fire, Command
    <2> QED
      BY <1>3, <2>1 DEF Call!Next
  <1>4. CASE c \notin Execute
    BY <1>2, <1>4 DEF Call!vars, Command
  <1> QED
    BY <1>3, <1>4

LEMMA StepIsCall ==
  ASSUME Inv, Inv', [Next]_vars
  PROVE  [Call!Next]_(Call!vars)
  <1>1. ASSUME row' = row, ran' = ran, fired' = fired
        PROVE  [Call!Next]_(Call!vars)
    BY <1>1 DEF Call!vars
  <1>2. CASE UNCHANGED vars
    BY <1>1, <1>2 DEF vars, client, target
  <1>3. CASE \E c \in Command : ClientStep(c)
    BY <1>3, ClientStepInv, AdvanceIsCall
  <1>4. CASE SendAck \/ SessionExpire \/ ClientReboot
    BY <1>4, SendAckKeeps, SessionExpireKeeps, ClientRebootKeeps, AdvanceIsCall
  <1>5. CASE TargetStep
    <2>1. CASE \E p \in Partition : Run(p)
      <3>1. PICK p \in Partition, o \in Outcome : Dispatch(p, o) /\ row' = row /\ fired' = fired
        BY <2>1 DEF Run, client
      <3> QED
        BY <3>1, DispatchIsCall
    <2>2. CASE \E p \in Partition : RunRotating(p)
      <3>1. PICK p \in Partition : Dispatch(p, "done") /\ row' = row /\ fired' = fired
        BY <2>2 DEF RunRotating, client
      <3> QED
        BY <3>1, DispatchIsCall DEF Outcome
    <2>3. CASE TakeAction
      BY <2>3, TakeActionIsCall
    <2>4. CASE \/ RxBootstrap \/ Admit \/ Replay \/ RxAck \/ RxControl \/ ServiceControl
               \/ ActionDue \/ AclChange \/ Reboot
               \/ \E i \in Id : SendFrame(i)
               \/ \E p \in Partition : ExpireIngress(p)
      BY <1>1, <2>4 DEF RxBootstrap, Admit, Replay, RxAck, RxControl, ServiceControl, ActionDue,
         AclChange, Reboot, SendFrame, ExpireIngress, client, target
    <2> QED
      BY <1>5, <2>1, <2>2, <2>3, <2>4 DEF TargetStep
  <1> QED
    BY <1>2, <1>3, <1>4, <1>5 DEF Next

\* A command runs at most once after it was asked for, its user is told no outcome but the
\* one it had, and its deferred effect happens at most once and only if it was scheduled.
THEOREM ImplementsCall == Spec => IsCall
BY InitIsCall, StepIsCall, AlwaysInv, PTL DEF Spec, IsCall, Call!Spec
=============================================================================
