------------------------- MODULE RemoteTablesProofs -------------------------
(***************************************************************************)
(* Proofs about the bounded tables of Remote's controller, of any size: a  *)
(* request never lacks the assembly its outcome goes to, and there is      *)
(* always room to owe the acknowledgement of every command under way.      *)
(*                                                                         *)
(* A step takes at most one row of a table, and only one its guard saw     *)
(* free; a retained row is found before the assembly is given up; an       *)
(* acknowledgement takes the place its command held in the count.          *)
(***************************************************************************)
EXTENDS RemoteProofs

Assembled == {c \in Command : row[c].asm}
Retained == {c \in Command : row[c].kept}
Owing == LiveCommands \cap Execute

Room ==
  /\ Accountable
  /\ IsFiniteSet(Assembled) /\ IsFiniteSet(Retained)
  /\ IsFiniteSet(Owing) /\ IsFiniteSet(debts)

\* What the tables admit a row to be.
Placed(c, r) ==
  /\ r.asm => row[c].asm \/ Cardinality(Assembled) < AssemblySlots
  /\ r.kept => row[c].kept \/ Cardinality(Retained) < ResultSlots
  /\ Live(r) => r.asm \/ (r.stage = "complete" /\ r.kept)

----------------------------------------------------------------------------
\* Counting.

LEMMA OneMore ==
  ASSUME NEW S, NEW T, NEW x, NEW n \in Nat, IsFiniteSet(S), Cardinality(S) <= n,
         T \subseteq S \cup {x}, x \in T => x \in S \/ Cardinality(S) < n
  PROVE  IsFiniteSet(T) /\ Cardinality(T) <= n
  <1>1. /\ IsFiniteSet(S \cup {x})
        /\ Cardinality(S \cup {x}) = IF x \in S THEN Cardinality(S) ELSE Cardinality(S) + 1
    BY FS_AddElement
  <1>2. CASE x \in T /\ x \notin S
    <2>1. IsFiniteSet(T) /\ Cardinality(T) <= Cardinality(S \cup {x})
      BY <1>1, FS_Subset
    <2>2. Cardinality(T) \in Nat /\ Cardinality(S) \in Nat
      BY <2>1, FS_CardinalityType
    <2> QED
      BY <1>1, <1>2, <2>1, <2>2
  <1>3. CASE ~(x \in T /\ x \notin S)
    <2>1. IsFiniteSet(T) /\ Cardinality(T) <= Cardinality(S)
      BY <1>3, FS_Subset
    <2>2. Cardinality(T) \in Nat /\ Cardinality(S) \in Nat
      BY <2>1, FS_CardinalityType
    <2> QED
      BY <2>1, <2>2
  <1> QED
    BY <1>2, <1>3

\* The tables after a step that changes one row.
LEMMA OneRowRoom ==
  ASSUME TypeOK, Room, NEW c \in Command, NEW r \in Row, Placed(c, r),
         row' = [row EXCEPT ![c] = r],
         IsFiniteSet(debts'), IsFiniteSet(Owing'),
         Cardinality(debts') + Cardinality(Owing') <= DebtSlots
  PROVE  Room'
  <1>1. AssemblySlots \in Nat /\ ResultSlots \in Nat
    BY LimitAssumption
  <1>2. \A d \in Command : row'[d] = IF d = c THEN r ELSE row[d]
    BY DEF TypeOK
  <1>3. IsFiniteSet(Assembled') /\ Cardinality(Assembled') <= AssemblySlots
    <2>1. Assembled' \subseteq Assembled \cup {c}
      BY <1>2 DEF Assembled
    <2>2. c \in Assembled' => c \in Assembled \/ Cardinality(Assembled) < AssemblySlots
      BY <1>2 DEF Assembled, Placed
    <2>3. IsFiniteSet(Assembled) /\ Cardinality(Assembled) <= AssemblySlots
      BY DEF Room, Accountable, Assembled
    <2> QED
      BY <1>1, <2>1, <2>2, <2>3, OneMore
  <1>4. IsFiniteSet(Retained') /\ Cardinality(Retained') <= ResultSlots
    <2>1. Retained' \subseteq Retained \cup {c}
      BY <1>2 DEF Retained
    <2>2. c \in Retained' => c \in Retained \/ Cardinality(Retained) < ResultSlots
      BY <1>2 DEF Retained, Placed
    <2>3. IsFiniteSet(Retained) /\ Cardinality(Retained) <= ResultSlots
      BY DEF Room, Accountable, Retained
    <2> QED
      BY <1>1, <2>1, <2>2, <2>3, OneMore
  <1>5. \A d \in LiveCommands' : row'[d].asm \/ (row'[d].stage = "complete" /\ row'[d].kept)
    BY <1>2 DEF LiveCommands, Placed, Room, Accountable
  <1> QED
    BY <1>3, <1>4, <1>5 DEF Room, Accountable, Assembled, Retained, Owing

\* ... and what is owed, when no command is new and no acknowledgement either.
LEMMA SettledRoom ==
  ASSUME TypeOK, Room, NEW c \in Command, NEW r \in Row, Placed(c, r),
         row' = [row EXCEPT ![c] = r], Live(row[c]), debts' \subseteq debts
  PROVE  Room'
  <1>1. Owing' \subseteq Owing
    BY DEF Owing, LiveCommands, TypeOK
  <1>2. /\ IsFiniteSet(Owing) /\ IsFiniteSet(debts)
        /\ Cardinality(debts) + Cardinality(Owing) <= DebtSlots
    BY DEF Room, Accountable, Owing
  <1>3. IsFiniteSet(Owing') /\ Cardinality(Owing') <= Cardinality(Owing)
    BY <1>1, <1>2, FS_Subset
  <1>4. IsFiniteSet(debts') /\ Cardinality(debts') <= Cardinality(debts)
    BY <1>2, FS_Subset
  <1>5. {Cardinality(Owing'), Cardinality(Owing), Cardinality(debts'), Cardinality(debts),
         DebtSlots} \subseteq Nat
    BY <1>2, <1>3, <1>4, FS_CardinalityType, LimitAssumption
  <1>6. Cardinality(debts') + Cardinality(Owing') <= DebtSlots
    BY <1>2, <1>3, <1>4, <1>5
  <1> QED
    BY <1>3, <1>4, <1>6, OneRowRoom

\* A step that leaves the controller alone.
LEMMA SameRoom ==
  ASSUME Room, UNCHANGED client
  PROVE  Room'
BY DEF Room, Accountable, client, LiveCommands, Assembled, Retained, Owing

\* A row as the tables have it already.
LEMMA PlacedStill ==
  ASSUME TypeOK, Room, NEW c \in Command, NEW r, Live(row[c]),
         r.asm = row[c].asm, r.kept = row[c].kept,
         r.stage = row[c].stage \/ row[c].stage # "complete"
  PROVE  Placed(c, r)
BY DEF Placed, Room, Accountable, LiveCommands, Live

----------------------------------------------------------------------------
\* What an outcome takes: the retained row first, and its assembly if there is none.
LEMMA CompletedTables ==
  ASSUME NEW r \in Row,
         NEW x \in Outcome \cup {"refused", "rolled", "already", "unknown", "error"}
  PROVE  LET t == Completed(r, x)
             keep == r.kept \/ Cardinality(Retained) < ResultSlots
         IN /\ ~r.asm => t = r
            /\ r.asm => t.stage = "complete" /\ t.kept = keep /\ t.asm = ~keep
  <1> DEFINE keep == r.kept \/ Cardinality({d \in Command : row[d].kept}) < ResultSlots
             not == ~keep
             e == Enter(r, "complete")
  <1>1. Completed(r, x) = IF ~r.asm THEN r
                          ELSE [e EXCEPT !.result = x, !.kept = keep, !.asm = not]
    BY DEF Completed
  <1>2. e \in Row /\ e.stage = "complete"
    <2>1. e \in Row
      BY Entered
    <2>2. e.stage = "complete"
      BY DEF Enter, Row
    <2> QED
      BY <2>1, <2>2
  <1>3. keep = (r.kept \/ Cardinality(Retained) < ResultSlots)
    BY DEF Retained
  <1> HIDE DEF e, keep
  <1>4. LET t == [e EXCEPT !.result = x, !.kept = keep, !.asm = not]
        IN t.stage = e.stage /\ t.kept = keep /\ t.asm = not
    BY <1>2 DEF Row
  <1> QED
    BY <1>1, <1>2, <1>3, <1>4

LEMMA CompletedPlaced ==
  ASSUME TypeOK, NEW c \in Command, NEW r \in Row,
         NEW x \in Outcome \cup {"refused", "rolled", "already", "unknown", "error"},
         Placed(c, r), Live(r)
  PROVE  Placed(c, Completed(r, x))
  <1>1. CASE ~r.asm
    BY <1>1, CompletedTables
  <1>2. CASE r.asm
    <2> DEFINE t == Completed(r, x)  keep == r.kept \/ Cardinality(Retained) < ResultSlots
    <2>1. t.stage = "complete" /\ t.kept = keep /\ t.asm = ~keep
      BY <1>2, CompletedTables
    <2> HIDE DEF t
    <2>2. r.asm => row[c].asm \/ Cardinality(Assembled) < AssemblySlots
      BY DEF Placed
    <2>3. t.kept => row[c].kept \/ Cardinality(Retained) < ResultSlots
      BY <2>1 DEF Placed
    <2>4. t.asm \/ (t.stage = "complete" /\ t.kept)
      BY <2>1
    <2> HIDE DEF keep
    <2>5. Placed(c, t)
      BY <1>2, <2>2, <2>3, <2>4 DEF Placed
    <2> QED
      BY <2>5 DEF t
  <1> QED
    BY <1>1, <1>2

\* The end of a request.
LEMMA EndRoom ==
  ASSUME TypeOK, Room, NEW c \in Command, Live(row[c]), debts' \subseteq debts,
         NEW x \in Outcome \cup {"refused", "rolled", "already", "unknown", "error"},
         row' = [row EXCEPT ![c] = Completed(row[c], x)]
  PROVE  Room'
  <1>1. row[c] \in Row
    BY DEF TypeOK
  <1>2. Placed(c, Completed(row[c], x))
    BY <1>1, PlacedStill, CompletedPlaced
  <1> QED
    BY <1>1, <1>2, CompletedRow, SettledRoom

----------------------------------------------------------------------------
\* The steps of the controller.

LEMMA StartRoom ==
  ASSUME TypeOK, Room, NEW c \in Command, NEW ble \in BOOLEAN, Start(c, ble)
  PROVE  Room'
  <1> DEFINE n == IF known = 0 THEN 2 ELSE 1
             st == IF known = 0 THEN "bootstrap" ELSE "request"
             sl == known # 0
             d == n - 1
             p == [EmptyRow EXCEPT !.stage = st, !.req = 1]
             q == [p EXCEPT !.did = d, !.drawn = n]
             r == [q EXCEPT !.epoch = known, !.sealed = sl, !.asm = TRUE, !.kept = ble]
  <1>1. row' = [row EXCEPT ![c] = Sent(r)] /\ debts' = debts
    BY DEF Start
  <1>2. /\ n \in 0..MaxDraws /\ d \in 0..MaxDraws /\ 1 \in 0..MaxDraws /\ sl \in BOOLEAN
        /\ st \in {"bootstrap", "request"} /\ known \in 0..MaxEpoch
    BY LimitAssumption DEF Start, TypeOK
  <1> HIDE DEF n, st, sl, d
  <1>3. p \in Row /\ p.stage = st
    BY <1>2, EmptyTyped DEF Row, Sending
  <1> HIDE DEF p
  <1>4. q \in Row /\ q.stage = st
    BY <1>2, <1>3 DEF Row
  <1> HIDE DEF q
  <1>5. r \in Row /\ r.stage = st /\ r.asm /\ r.kept = ble
    BY <1>2, <1>4 DEF Row
  <1> HIDE DEF r
  <1> PICK t : t = Sent(r)
    OBVIOUS
  <1>6. t \in Row /\ t.asm /\ t.kept = ble
    BY <1>5, SentRow
  <1>7. Placed(c, t)
    BY <1>6 DEF Placed, Start, Assembled, Retained
  <1>8. IsFiniteSet(Owing') /\ IsFiniteSet(debts')
        /\ Cardinality(debts') + Cardinality(Owing') <= DebtSlots
    <2>1. /\ IsFiniteSet(Owing) /\ IsFiniteSet(debts)
          /\ Cardinality(debts) + Cardinality(Owing) <= DebtSlots
      BY DEF Room, Accountable, Owing
    <2>2. Cardinality(Owing) \in Nat /\ Cardinality(debts) \in Nat /\ DebtSlots \in Nat
      BY <2>1, FS_CardinalityType, LimitAssumption
    <2> DEFINE m == DebtSlots - Cardinality(debts)
    <2>3. m \in Nat /\ Cardinality(Owing) <= m
      BY <2>1, <2>2
    <2>4. Owing' \subseteq Owing \cup {c}
      BY <1>1 DEF Owing, LiveCommands, TypeOK
    <2>5. c \in Owing' => Cardinality(debts) + Cardinality(Owing) < DebtSlots
      BY DEF Start, Owing
    <2>6. c \in Owing' => c \in Owing \/ Cardinality(Owing) < m
      BY <2>2, <2>5
    <2> HIDE DEF m
    <2>7. IsFiniteSet(Owing') /\ Cardinality(Owing') <= m
      BY <2>1, <2>3, <2>4, <2>6, OneMore
    <2>8. Cardinality(Owing') \in Nat
      BY <2>7, FS_CardinalityType
    <2> QED
      BY <1>1, <2>1, <2>2, <2>7, <2>8 DEF m
  <1> QED
    BY <1>1, <1>6, <1>7, <1>8, OneRowRoom

LEMMA ServeRoom ==
  ASSUME TypeOK, Room, NEW c \in Command, Serve(c)
  PROVE  Room'
  <1> DEFINE s == row[c]
  <1> PICK u : u = Due(s)
    OBVIOUS
  <1> PICK d : d = Drawn(u)
    OBVIOUS
  <1>1. s \in Row /\ Live(s) /\ s.stage \in Sending /\ debts' = debts
    BY DEF Serve, Live, Sending, TypeOK
  <1>2. u \in Row /\ u.stage = s.stage /\ u.asm = s.asm /\ u.kept = s.kept
        /\ (Draws(u) => u.drawn < MaxDraws)
    BY <1>1, DueRow DEF Serve
  <1>3. d \in Row /\ d.stage = s.stage /\ d.asm = s.asm /\ d.kept = s.kept
    BY <1>2, DrawnRow
  <1>4. Placed(c, d) /\ Live(d)
    BY <1>1, <1>3, PlacedStill DEF Live
  <1>5. CASE row' = [row EXCEPT ![c] = Sent(d)]
    <2> PICK t : t = Sent(d)
      OBVIOUS
    <2>1. t \in Row /\ t.stage = s.stage /\ t.asm = s.asm /\ t.kept = s.kept
      BY <1>3, SentRow
    <2>2. Placed(c, t)
      BY <1>1, <2>1, PlacedStill
    <2> QED
      BY <1>1, <1>5, <2>1, <2>2, SettledRoom
  <1>6. CASE row' = [row EXCEPT ![c] = d]
    BY <1>1, <1>3, <1>4, <1>6, SettledRoom
  <1>7. CASE row' = [row EXCEPT ![c] = Completed(d, "error")]
    <2>1. Completed(d, "error") \in Row /\ Placed(c, Completed(d, "error"))
      BY <1>3, <1>4, CompletedRow, CompletedPlaced
    <2> QED
      BY <1>1, <1>7, <2>1, SettledRoom
  <1> QED
    BY <1>5, <1>6, <1>7 DEF Serve

LEMMA RetryRoom ==
  ASSUME TypeOK, Room, NEW c \in Command, Retry(c)
  PROVE  Room'
  <1> DEFINE s == row[c]  n == s.drawn + 1  e == Enter(s, "compare")
             q == [e EXCEPT !.did = n, !.drawn = n]
             r == [q EXCEPT !.asm = TRUE, !.result = "none"]
  <1>1. s \in Row /\ Live(s) /\ n \in 0..MaxDraws /\ debts' = debts
    BY LimitAssumption DEF Retry, Live, Row, TypeOK
  <1>2. e \in Row /\ e.kept = s.kept
    <2>1. e \in Row
      BY <1>1, Entered DEF Sending
    <2> QED
      BY <1>1, <2>1 DEF Enter, Row
  <1>3. row' = [row EXCEPT ![c] = r]
    BY DEF Retry
  <1> HIDE DEF n, e
  <1>4. q \in Row /\ q.kept = s.kept
    BY <1>1, <1>2 DEF Row
  <1> HIDE DEF q
  <1>5. r \in Row /\ r.kept = s.kept /\ r.asm
    BY <1>4 DEF Row
  <1> HIDE DEF r
  <1>6. Placed(c, r)
    BY <1>5 DEF Placed, Retry, Assembled
  <1> QED
    BY <1>1, <1>3, <1>5, <1>6, SettledRoom

\* The acknowledgement takes the place of the command in what may be owed.
LEMMA AcceptRoom ==
  ASSUME TypeOK, Room, NEW c \in Command, Accept(c)
  PROVE  Room'
  <1> PICK t : t = Gone(row[c])
    OBVIOUS
  <1>1. t \in Row /\ t.stage = "gone" /\ ~t.asm /\ ~t.kept
    BY GoneRow DEF TypeOK
  <1>2. row' = [row EXCEPT ![c] = t] /\ Live(row[c]) /\ Placed(c, t)
    BY <1>1 DEF Accept, Live, Placed
  <1>3. CASE ~Owes(c)
    BY <1>1, <1>2, <1>3, SettledRoom DEF Accept
  <1>4. CASE Owes(c)
    <2>1. /\ IsFiniteSet(Owing) /\ IsFiniteSet(debts)
          /\ Cardinality(debts) + Cardinality(Owing) <= DebtSlots
      BY DEF Room, Accountable, Owing
    <2>2. c \in Owing /\ Owing' = Owing \ {c}
      BY <1>1, <1>2, <1>4 DEF Owes, Owing, LiveCommands, Live, TypeOK
    <2>3. IsFiniteSet(Owing') /\ Cardinality(Owing') = Cardinality(Owing) - 1
      BY <2>1, <2>2, FS_RemoveElement
    <2>4. IsFiniteSet(debts') /\ Cardinality(debts') <= Cardinality(debts) + 1
      <3> PICK m : debts' = debts \cup {m}
        BY <1>4 DEF Accept
      <3>1. Cardinality(debts) \in Nat
        BY <2>1, FS_CardinalityType
      <3>2. /\ IsFiniteSet(debts \cup {m})
            /\ Cardinality(debts \cup {m})
                 = IF m \in debts THEN Cardinality(debts) ELSE Cardinality(debts) + 1
        BY <2>1, FS_AddElement
      <3> QED
        BY <3>1, <3>2
    <2>5. {Cardinality(Owing'), Cardinality(Owing), Cardinality(debts'), Cardinality(debts),
           DebtSlots} \subseteq Nat
      BY <2>1, <2>3, <2>4, FS_CardinalityType, LimitAssumption
    <2>6. Cardinality(debts') + Cardinality(Owing') <= DebtSlots
      BY <2>1, <2>3, <2>4, <2>5
    <2> QED
      BY <1>1, <1>2, <2>3, <2>4, <2>6, OneRowRoom
  <1> QED
    BY <1>3, <1>4

\* A restart empties every table.
LEMMA ClientRebootRoom ==
  ASSUME TypeOK, Room, ClientReboot
  PROVE  Room'
  <1>1. \A c \in Command : /\ ~Live(row'[c])
                           /\ row'[c].asm => row[c].asm
                           /\ row'[c].kept => row[c].kept
    BY GoneRow DEF ClientReboot, Live, TypeOK
  <1>2. Owing' = {} /\ LiveCommands' = {} /\ debts' = {}
    BY <1>1 DEF ClientReboot, Owing, LiveCommands
  <1>3. Assembled' \subseteq Assembled /\ Retained' \subseteq Retained
    BY <1>1 DEF Assembled, Retained
  <1>4. IsFiniteSet(Assembled) /\ IsFiniteSet(Retained)
        /\ Cardinality(Assembled) <= AssemblySlots /\ Cardinality(Retained) <= ResultSlots
    BY DEF Room, Accountable, Assembled, Retained
  <1>5. /\ IsFiniteSet(Assembled') /\ Cardinality(Assembled') <= Cardinality(Assembled)
        /\ IsFiniteSet(Retained') /\ Cardinality(Retained') <= Cardinality(Retained)
    BY <1>3, <1>4, FS_Subset
  <1>6. {Cardinality(Assembled), Cardinality(Retained), Cardinality(Assembled'),
         Cardinality(Retained'), AssemblySlots, ResultSlots, DebtSlots} \subseteq Nat
    BY <1>4, <1>5, FS_CardinalityType, LimitAssumption
  <1>7. /\ Cardinality(Assembled') <= AssemblySlots /\ Cardinality(Retained') <= ResultSlots
        /\ Cardinality({}) + Cardinality({}) <= DebtSlots /\ IsFiniteSet({})
    BY <1>4, <1>5, <1>6, FS_EmptySet
  <1> QED
    BY <1>2, <1>5, <1>7 DEF Room, Accountable, Assembled, Retained, Owing

LEMMA EpochUpdated ==
  ASSUME NEW e, EpochUpdate(e)
  PROVE  debts' \subseteq debts
BY DEF EpochUpdate

LEMMA BootstrappedRoom ==
  ASSUME TypeOK, Room, NEW c \in Command, Bootstrapped(c)
  PROVE  Room'
  <1> DEFINE s == row[c]  e == Enter(s, "request")
  <1>1. PICK m \in net : /\ EpochUpdate(m.epoch)
                         /\ row' = [row EXCEPT ![c] = [e EXCEPT !.epoch = m.epoch, !.sealed = TRUE]]
    BY DEF Bootstrapped
  <1>2. s \in Row /\ s.stage = "bootstrap" /\ Live(s) /\ m.epoch \in 0..MaxEpoch
    BY DEF Bootstrapped, Awaits, Live, TypeOK, Message
  <1> DEFINE r == [e EXCEPT !.epoch = m.epoch, !.sealed = TRUE]
  <1>3. e \in Row /\ e.asm = s.asm /\ e.kept = s.kept
    <2>1. e \in Row
      BY <1>2, Entered DEF Sending
    <2> QED
      BY <1>2, <2>1 DEF Enter, Row
  <1>4. row' = [row EXCEPT ![c] = r]
    BY <1>1
  <1> HIDE DEF e
  <1>5. r \in Row /\ r.asm = s.asm /\ r.kept = s.kept
    BY <1>2, <1>3 DEF Row
  <1> HIDE DEF r
  <1>6. Placed(c, r)
    BY <1>2, <1>5, PlacedStill
  <1> QED
    BY <1>1, <1>2, <1>4, <1>5, <1>6, EpochUpdated, SettledRoom

LEMMA ComparedRoom ==
  ASSUME TypeOK, Room, NEW c \in Command, Compared(c)
  PROVE  Room'
  <1> DEFINE s == row[c]
             room == s.asm \/ Cardinality({d \in Command : row[d].asm}) < AssemblySlots
             r == [s EXCEPT !.asm = room]
  <1>1. s \in Row /\ s.stage = "compare" /\ Live(s)
    BY DEF Compared, Awaits, Live, TypeOK
  <1>2. /\ r = [row[c] EXCEPT !.asm = @ \/ Cardinality({d \in Command : row[d].asm}) < AssemblySlots]
        /\ room \in BOOLEAN
    BY <1>1 DEF Row
  <1>3. PICK m \in net :
          \/ /\ EpochUpdate(m.epoch)
             /\ row' = [row EXCEPT ![c] = Completed(r, "unknown")]
          \/ /\ row' = [row EXCEPT ![c] = [Enter(r, "request") EXCEPT !.seq = 0]]
             /\ UNCHANGED <<known, debts>>
    BY <1>2 DEF Compared
  <1>4. s.asm
    BY <1>1 DEF Room, Accountable, LiveCommands
  <1>5. room
    BY <1>4
  <1> HIDE DEF room
  <1>6. r \in Row /\ r.stage = s.stage /\ r.asm = room /\ r.kept = s.kept
    BY <1>1, <1>2 DEF Row
  <1>7. s.asm = room
    BY <1>1, <1>2, <1>4, <1>5 DEF Row
  <1> HIDE DEF r
  <1>8. Placed(c, r) /\ Live(r)
    BY <1>1, <1>6, <1>7, PlacedStill DEF Live
  <1>9. CASE EpochUpdate(m.epoch) /\ row' = [row EXCEPT ![c] = Completed(r, "unknown")]
    <2>1. Completed(r, "unknown") \in Row /\ Placed(c, Completed(r, "unknown"))
      BY <1>6, <1>8, CompletedRow, CompletedPlaced
    <2> QED
      BY <1>1, <1>9, <2>1, EpochUpdated, SettledRoom
  <1>10. CASE /\ row' = [row EXCEPT ![c] = [Enter(r, "request") EXCEPT !.seq = 0]]
              /\ UNCHANGED <<known, debts>>
    <2> DEFINE e == Enter(r, "request")  t == [e EXCEPT !.seq = 0]
    <2>1. e \in Row /\ e.asm = r.asm /\ e.kept = r.kept
      <3>1. e \in Row
        BY <1>6, Entered DEF Sending
      <3> QED
        BY <1>6, <3>1 DEF Enter, Row
    <2> HIDE DEF e
    <2>2. t \in Row /\ t.asm = e.asm /\ t.kept = e.kept
      BY <2>1, LimitAssumption DEF Row
    <2>3. row' = [row EXCEPT ![c] = t]
      BY <1>10 DEF e
    <2> HIDE DEF t
    <2>4. Placed(c, t)
      BY <1>1, <1>6, <1>7, <2>1, <2>2, PlacedStill
    <2> QED
      BY <1>1, <1>10, <2>2, <2>3, <2>4, SettledRoom
  <1> QED
    BY <1>3, <1>9, <1>10

LEMMA RolledForRoom ==
  ASSUME TypeOK, Room, NEW c \in Command, RolledFor(c)
  PROVE  Room'
  <1> DEFINE s == row[c]  e == Enter(s, "request")
  <1>1. PICK m \in net : /\ EpochUpdate(m.epoch)
                         /\ row' = [row EXCEPT ![c] = [e EXCEPT !.epoch = m.epoch, !.sealed = FALSE]]
    BY DEF RolledFor
  <1>2. s \in Row /\ s.stage = "rollover" /\ Live(s) /\ m.epoch \in 0..MaxEpoch
    BY DEF RolledFor, Awaits, Live, TypeOK, Message
  <1> DEFINE r == [e EXCEPT !.epoch = m.epoch, !.sealed = FALSE]
  <1>3. e \in Row /\ e.asm = s.asm /\ e.kept = s.kept
    <2>1. e \in Row
      BY <1>2, Entered DEF Sending
    <2> QED
      BY <1>2, <2>1 DEF Enter, Row
  <1>4. row' = [row EXCEPT ![c] = r]
    BY <1>1
  <1> HIDE DEF e
  <1>5. r \in Row /\ r.asm = s.asm /\ r.kept = s.kept
    BY <1>2, <1>3 DEF Row
  <1> HIDE DEF r
  <1>6. Placed(c, r)
    BY <1>2, <1>5, PlacedStill
  <1> QED
    BY <1>1, <1>2, <1>4, <1>5, <1>6, EpochUpdated, SettledRoom

LEMMA RefusedRoom ==
  ASSUME TypeOK, Room, NEW c \in Command, Refused(c)
  PROVE  Room'
  <1> DEFINE s == row[c]
  <1>1. /\ debts' = debts /\ Live(s) /\ s \in Row
        /\ \/ /\ s.stage = "request"
              /\ row' = [row EXCEPT ![c] = [Enter(s, "rollover") EXCEPT !.did = 0, !.rolled = TRUE]]
           \/ row' = [row EXCEPT ![c] = Completed(s, "refused")]
    BY DEF Refused, Awaits, Live, TypeOK
  <1>2. CASE /\ s.stage = "request"
             /\ row' = [row EXCEPT ![c] = [Enter(s, "rollover") EXCEPT !.did = 0, !.rolled = TRUE]]
    <2> DEFINE e == Enter(s, "rollover")  r == [e EXCEPT !.did = 0, !.rolled = TRUE]
    <2>1. e \in Row /\ e.asm = s.asm /\ e.kept = s.kept
      <3>1. e \in Row
        BY <1>1, Entered DEF Sending
      <3> QED
        BY <1>1, <3>1 DEF Enter, Row
    <2> HIDE DEF e
    <2>2. r \in Row /\ r.asm = e.asm /\ r.kept = e.kept
      <3>1. 0 \in 0..MaxDraws
        BY LimitAssumption
      <3> QED
        BY <2>1, <3>1 DEF Row
    <2>3. row' = [row EXCEPT ![c] = r]
      BY <1>2 DEF e
    <2> HIDE DEF r
    <2>4. Placed(c, r)
      BY <1>1, <1>2, <2>1, <2>2, PlacedStill
    <2> QED
      BY <1>1, <2>2, <2>3, <2>4, SettledRoom
  <1>3. CASE row' = [row EXCEPT ![c] = Completed(s, "refused")]
    BY <1>1, <1>3, EndRoom
  <1> QED
    BY <1>1, <1>2, <1>3

LEMMA AnsweredRoom ==
  ASSUME Inv, Room, NEW c \in Command, Answered(c)
  PROVE  Room'
  <1> DEFINE s == row[c]
  <1>1. PICK m \in net :
          /\ m.seq = s.seq
          /\ \/ /\ Hears(c, m, "output", s.req)
                /\ row' = [row EXCEPT ![c].seq = @ + 1]
             \/ /\ Hears(c, m, "terminal", s.req)
                /\ row' = [row EXCEPT ![c] = Completed(s, m.code)]
             \/ row' = [row EXCEPT ![c] = Completed(s, "already")]
    BY DEF Answered
  <1>2. TypeOK /\ s \in Row /\ s.stage = "request" /\ Live(s) /\ debts' = debts
    BY Rows DEF Answered, Awaits, Live, Inv
  <1>3. CASE Hears(c, m, "output", s.req) /\ row' = [row EXCEPT ![c].seq = @ + 1]
    <2> DEFINE n == s.seq + 1  r == [s EXCEPT !.seq = n]
    <2>1. m.seq < MaxFrames /\ m.seq \in Nat
      BY <1>3, Heard, LimitAssumption DEF Tied, Message
    <2>2. n \in 0..MaxFrames
      BY <1>1, <2>1, LimitAssumption
    <2>3. row' = [row EXCEPT ![c] = r]
      BY <1>2, <1>3 DEF TypeOK
    <2> HIDE DEF n
    <2>4. r \in Row /\ r.asm = s.asm /\ r.kept = s.kept
      BY <1>2, <2>2 DEF Row
    <2> HIDE DEF r
    <2>5. Placed(c, r)
      BY <1>2, <2>4, PlacedStill
    <2> QED
      BY <1>2, <2>3, <2>4, <2>5, SettledRoom
  <1>4. CASE Hears(c, m, "terminal", s.req) /\ row' = [row EXCEPT ![c] = Completed(s, m.code)]
    <2>1. Tied(m) /\ m.kind = "terminal" /\ m.id[1] = c
      BY <1>4, Heard
    <2>2. ran[c].times # 0 /\ m.code = ran[c].outcome
      BY <2>1 DEF Tied
    <2>3. m.code \in Outcome
      BY <2>2, Ran
    <2> QED
      BY <1>2, <1>4, <2>3, EndRoom
  <1>5. CASE row' = [row EXCEPT ![c] = Completed(s, "already")]
    BY <1>2, <1>5, EndRoom
  <1> QED
    BY <1>1, <1>3, <1>4, <1>5

LEMMA GarbledRoom ==
  ASSUME TypeOK, Room, NEW c \in Command, Garbled(c)
  PROVE  Room'
  <1> DEFINE s == row[c]
  <1>1. Live(s) /\ s \in Row /\ debts' = debts
    BY DEF Garbled, TypeOK
  <1>2. CASE /\ s.stage = "request"
             /\ row' = [row EXCEPT ![c] = [Enter(s, "compare") EXCEPT !.did = 0, !.rediscovered = TRUE]]
    <2> DEFINE e == Enter(s, "compare")  r == [e EXCEPT !.did = 0, !.rediscovered = TRUE]
    <2>1. e \in Row /\ e.asm = s.asm /\ e.kept = s.kept
      <3>1. e \in Row
        BY <1>1, Entered DEF Sending
      <3> QED
        BY <1>1, <3>1 DEF Enter, Row
    <2> HIDE DEF e
    <2>2. r \in Row /\ r.asm = e.asm /\ r.kept = e.kept
      <3>1. 0 \in 0..MaxDraws
        BY LimitAssumption
      <3> QED
        BY <2>1, <3>1 DEF Row
    <2>3. row' = [row EXCEPT ![c] = r]
      BY <1>2 DEF e
    <2> HIDE DEF r
    <2>4. Placed(c, r)
      BY <1>1, <1>2, <2>1, <2>2, PlacedStill
    <2> QED
      BY <1>1, <2>2, <2>3, <2>4, SettledRoom
  <1>3. CASE row' = [row EXCEPT ![c] = Completed(s, "error")]
    BY <1>1, <1>3, EndRoom
  <1> QED
    BY <1>2, <1>3 DEF Garbled, Awaits

----------------------------------------------------------------------------
LEMMA InitRoom ==
  ASSUME Init
  PROVE  Room
  <1>1. \A c \in Command : row[c] = EmptyRow
    BY DEF Init
  <1>2. Assembled = {} /\ Retained = {} /\ LiveCommands = {} /\ debts = {}
    BY <1>1, EmptyTyped DEF Init, Assembled, Retained, LiveCommands, Live
  <1>3. IsFiniteSet({}) /\ Cardinality({}) = 0 /\ 0 <= AssemblySlots /\ 0 <= ResultSlots
        /\ 0 + 0 <= DebtSlots
    BY FS_EmptySet, LimitAssumption
  <1>4. Owing = {}
    BY <1>2 DEF Owing
  <1> QED
    BY <1>2, <1>3, <1>4 DEF Room, Accountable, Assembled, Retained, Owing

LEMMA StepRoom ==
  ASSUME Inv, Room, [Next]_vars
  PROVE  Room'
  <1>1. TypeOK
    BY DEF Inv
  <1>2. CASE \E c \in Command : ClientStep(c)
    <2> PICK c \in Command : ClientStep(c)
      BY <1>2
    <2>1. CASE \/ \E ble \in BOOLEAN : Start(c, ble)
               \/ Serve(c) \/ Retry(c) \/ Accept(c)
      BY <1>1, <2>1, StartRoom, ServeRoom, RetryRoom, AcceptRoom
    <2>2. CASE Bootstrapped(c) \/ Compared(c) \/ RolledFor(c) \/ Refused(c) \/ Answered(c) \/ Garbled(c)
      BY <1>1, <2>2, BootstrappedRoom, ComparedRoom, RolledForRoom, RefusedRoom, AnsweredRoom, GarbledRoom
    <2>3. CASE Expire(c)
      <3>1. Live(row[c]) /\ debts' = debts /\ row' = [row EXCEPT ![c] = Completed(row[c], "unknown")]
        BY <2>3 DEF Expire, Sending, Live
      <3> QED
        BY <1>1, <3>1, EndRoom
    <2>4. CASE RolledOver(c)
      <3>1. Live(row[c]) /\ debts' \subseteq debts
            /\ row' = [row EXCEPT ![c] = Completed(row[c], "rolled")]
        BY <2>4, EpochUpdated DEF RolledOver, Awaits, Live
      <3> QED
        BY <1>1, <3>1, EndRoom
    <2> QED
      BY <2>1, <2>2, <2>3, <2>4 DEF ClientStep
  <1>3. CASE SendAck \/ SessionExpire
    BY <1>3 DEF SendAck, SessionExpire, client, Room, Accountable, LiveCommands, Assembled, Retained, Owing
  <1>4. CASE ClientReboot
    BY <1>1, <1>4, ClientRebootRoom
  <1>5. CASE TargetStep \/ UNCHANGED vars
    <2>1. UNCHANGED client
      BY <1>5 DEF TargetStep, vars, RxBootstrap, Admit, Replay, RxAck, RxControl, ServiceControl,
         ActionDue, TakeAction, AclChange, Reboot, SendFrame, ExpireIngress, Run, RunRotating
    <2> QED
      BY <2>1, SameRoom
  <1> QED
    BY <1>2, <1>3, <1>4, <1>5 DEF Next

\* Every request under way has the assembly or the retained row its outcome goes to, the
\* tables never hold more than their room, and there is room to owe every acknowledgement.
THEOREM AlwaysAccountable == Spec => []Accountable
  <1>1. Init => Room
    BY InitRoom
  <1>2. Inv /\ Room /\ [Next]_vars => Room'
    BY StepRoom
  <1>3. Room => Accountable
    BY DEF Room
  <1> QED
    BY <1>1, <1>2, <1>3, AlwaysInv, PTL DEF Spec
=============================================================================
