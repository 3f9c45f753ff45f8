-------------------------- MODULE InboxStoreProofs --------------------------
(***************************************************************************)
(* The inbox's invariant is inductive: one lemma per action, one step per  *)
(* part of the invariant in each.                                          *)
(***************************************************************************)
EXTENDS InboxStoreProperties, FiniteSetTheorems, TLAPS

\* The ring closes, and a segment's successor is another one.
LEMMA Ringed ==
  ASSUME NEW i \in Ring
  PROVE  After(i) \in Ring /\ After(i) # i /\ 0 \in Ring
  BY SizeAssumption DEF After, Ring

\* What the operations write into the metadata keeps its type.
LEMMA MetaUpdates ==
  ASSUME NEW m \in Meta
  PROVE  /\ m.head \in Ring /\ m.tail \in Ring /\ m.epoch \in Nat /\ m.next \in Nat
         /\ \A i \in Ring : [m EXCEPT !.head = i] \in Meta /\ [m EXCEPT !.tail = i] \in Meta
         /\ \A n \in Nat : [m EXCEPT !.next = n] \in Meta /\ [m EXCEPT !.cursor = n] \in Meta
         /\ \A s \in {"empty", "pending", "nonEmpty"} : [m EXCEPT !.state = s] \in Meta
         /\ \A e \in Nat : [m EXCEPT !.head = 0, !.tail = 0, !.epoch = e, !.state = "empty"] \in Meta
  <1>1. 0 \in Ring
    BY SizeAssumption DEF Ring
  <1> QED BY <1>1 DEF Meta

\* What happens to a job keeps its type.
LEMMA JobUpdates ==
  /\ NoJob \in Job /\ [NoJob EXCEPT !.op = "clear"] \in Job /\ [NoJob EXCEPT !.op = "wipe"] \in Job
  /\ [NoJob EXCEPT !.op = "clear"].op = "clear" /\ [NoJob EXCEPT !.op = "wipe"].op = "wipe"
  /\ [NoJob EXCEPT !.op = "clear"].at = 0 /\ [NoJob EXCEPT !.op = "wipe"].at = 0
  /\ \A j \in Job : /\ [j EXCEPT !.ok = FALSE] \in Job /\ [j EXCEPT !.at = @ + 1] \in Job
                    /\ [j EXCEPT !.at = @ + 1, !.ok = FALSE] \in Job
                    /\ [j EXCEPT !.at = @ + 1].op = j.op
                    /\ [j EXCEPT !.at = @ + 1, !.ok = FALSE].op = j.op
                    /\ j.seq \in Nat /\ j.of \in Nat /\ j.at \in Nat
  <1>1. ASSUME NEW j \in Job
        PROVE  /\ [j EXCEPT !.ok = FALSE] \in Job /\ [j EXCEPT !.at = @ + 1] \in Job
               /\ [j EXCEPT !.at = @ + 1, !.ok = FALSE] \in Job
               /\ [j EXCEPT !.at = @ + 1].op = j.op
               /\ [j EXCEPT !.at = @ + 1, !.ok = FALSE].op = j.op
               /\ j.seq \in Nat /\ j.of \in Nat /\ j.at \in Nat
    <2>1. j.seq \in Nat /\ j.of \in Nat /\ j.at \in Nat /\ j.at + 1 \in Nat
      BY DEF Job
    <2>2. [j EXCEPT !.ok = FALSE] \in Job
      BY DEF Job
    <2>3. [j EXCEPT !.at = @ + 1] \in Job /\ [j EXCEPT !.at = @ + 1].op = j.op
      BY <2>1 DEF Job
    <2>4. /\ [j EXCEPT !.at = @ + 1, !.ok = FALSE] \in Job
          /\ [j EXCEPT !.at = @ + 1, !.ok = FALSE].op = j.op
      BY <2>1 DEF Job
    <2> QED BY <2>1, <2>2, <2>3, <2>4
  <1>2. NoJob \in Job
    BY DEF Job, NoJob
  <1>3. /\ [NoJob EXCEPT !.op = "clear"] \in Job
        /\ [NoJob EXCEPT !.op = "wipe"] \in Job
        /\ [NoJob EXCEPT !.op = "clear"].op = "clear"
        /\ [NoJob EXCEPT !.op = "wipe"].op = "wipe"
        /\ [NoJob EXCEPT !.op = "clear"].at = 0
        /\ [NoJob EXCEPT !.op = "wipe"].at = 0
    BY DEF Job, NoJob
  <1> QED BY <1>1, <1>2, <1>3

\* Erasing a segment, adding a frame to one, completing its last frame.
LEMMA SegUpdates ==
  ASSUME NEW s \in [Ring -> Seq(Frame)], NEW i \in Ring
  PROVE  /\ [s EXCEPT ![i] = <<>>] \in [Ring -> Seq(Frame)]
         /\ \A f \in Frame : /\ [s EXCEPT ![i] = Append(@, f)] \in [Ring -> Seq(Frame)]
                             /\ [s EXCEPT ![i] = Append(@, f)][i] # <<>>
  <1>1. [s EXCEPT ![i] = <<>>] \in [Ring -> Seq(Frame)]
    OBVIOUS
  <1>2. ASSUME NEW f \in Frame
        PROVE  /\ [s EXCEPT ![i] = Append(@, f)] \in [Ring -> Seq(Frame)]
               /\ [s EXCEPT ![i] = Append(@, f)][i] # <<>>
    OBVIOUS
  <1> QED BY <1>1, <1>2

\* Completing the last frame of a segment keeps its length.
LEMMA WholeTyped ==
  ASSUME NEW q \in Seq(Frame), q # <<>>
  PROVE  Whole(q) \in Seq(Frame) /\ Whole(q) # <<>>
  <1> DEFINE n == Len(q)
             w == [q[n] EXCEPT !.whole = TRUE]
  <1>1. n \in DOMAIN q /\ q[n] \in Frame
    OBVIOUS
  <1>2. w \in Frame
    BY <1>1 DEF Frame
  <1>3. Whole(q) = [q EXCEPT ![n] = w]
    BY DEF Whole
  <1> HIDE DEF w
  <1>4. [q EXCEPT ![n] = w] \in Seq(Frame) /\ Len([q EXCEPT ![n] = w]) = n /\ n > 0
    BY <1>1, <1>2
  <1> QED BY <1>3, <1>4

\* The newest of a set of numbers, and the number after all others, are numbers.
LEMMA NewestTyped == ASSUME NEW N, N \subseteq Nat PROVE Newest(N) \in Nat
  BY DEF Newest

\* What a reader takes from the segments are frames.
LEMMA ReadTyped ==
  ASSUME NEW s \in [Ring -> Seq(Frame)], NEW m \in Meta
  PROVE  ReadSince(s, m) \subseteq Frame
  <1>1. Live(m) \subseteq Ring
    BY SizeAssumption DEF Live, Meta, Ring
  <1>2. ASSUME NEW i \in Ring PROVE Parsed(s[i]) \subseteq Frame
    <2>1. s[i] \in Seq(Frame)
      OBVIOUS
    <2>2. \A k \in DOMAIN s[i] : s[i][k] \in Frame
      BY <2>1
    <2> QED BY <2>2 DEF Parsed
  <1> QED BY <1>1, <1>2 DEF ReadSince

\* The number restored at a mount is a number.
LEMMA NextTyped ==
  ASSUME NEW s \in [Ring -> Seq(Frame)], NEW m \in Meta
  PROVE  RestoreNext(s, m) \in Nat
  <1>1. {f.seq : f \in ReadSince(s, m)} \subseteq Nat
    BY ReadTyped DEF Frame
  <1>2. m.next \in Nat
    BY DEF Meta
  <1> QED BY <1>1, <1>2, NewestTyped DEF RestoreNext

\* What is delivered are numbers of messages.
LEMMA PulledTyped ==
  ASSUME NEW s \in [Ring -> Seq(Frame)], NEW m \in Meta
  PROVE  Pull(s, m) \subseteq Nat
  BY ReadTyped DEF Pull, Messages, Frame

\* The records of the live segments can be counted.
LEMMA HeldTyped ==
  ASSUME NEW s \in [Ring -> Seq(Frame)], NEW m \in Meta
  PROVE  Held(s, m) \in Nat
  <1> DEFINE F(i) == {i} \X DOMAIN s[i]
             G == {F(i) : i \in Live(m)}
  <1>1. Live(m) \subseteq Ring /\ IsFiniteSet(Ring) /\ IsFiniteSet(Live(m))
    <2>1. Live(m) \subseteq Ring
      BY SizeAssumption DEF Live, Meta, Ring
    <2>2. IsFiniteSet(Ring)
      BY FS_Interval, SizeAssumption DEF Ring
    <2> QED BY <2>1, <2>2, FS_Subset
  <1>2. IsFiniteSet(G)
    <2> DEFINE g == [i \in Live(m) |-> F(i)]
    <2>1. g \in Surjection(Live(m), G)
      BY DEF Surjection
    <2> HIDE DEF g, G
    <2> QED BY <1>1, <2>1, FS_Surjection
  <1>3. \A i \in Live(m) : IsFiniteSet(F(i))
    <2> TAKE i \in Live(m)
    <2>1. s[i] \in Seq(Frame)
      BY <1>1
    <2>2. DOMAIN s[i] = 1..Len(s[i]) /\ Len(s[i]) \in Nat
      BY <2>1
    <2>3. IsFiniteSet(DOMAIN s[i])
      BY <2>2, FS_Interval
    <2>4. IsFiniteSet({i})
      BY FS_Singleton
    <2> QED BY <2>3, <2>4, FS_Product
  <1>4. IsFiniteSet(UNION G)
    BY <1>2, <1>3, FS_UNION
  <1> QED BY <1>4, FS_CardinalityType DEF Held

\* What a mount makes of the metadata.
LEMMA ResolvedFacts ==
  ASSUME NEW d \in Meta, NEW none \in BOOLEAN
  PROVE  LET m == Resolved(d, none)
         IN /\ m \in Meta
            /\ m.state = "nonEmpty" => ~none
            /\ m.epoch # d.epoch => d.state = "nonEmpty" /\ none /\ m.state = "empty"
            /\ m.state = "empty" =>
                 d.state = "empty" \/ (none /\ d.state = "pending") \/ m.epoch # d.epoch
            /\ m.state # "pending"
  <1>1. CASE d.state = "pending"
    <2>1. Resolved(d, none) = [d EXCEPT !.state = IF none THEN "empty" ELSE "nonEmpty"]
      BY <1>1 DEF Resolved
    <2> QED BY <1>1, <2>1 DEF Meta
  <1>2. CASE d.state = "nonEmpty" /\ none
    <2>1. Resolved(d, none) = [d EXCEPT !.epoch = @ + 1, !.head = 0, !.tail = 0, !.state = "empty"]
      BY <1>2 DEF Resolved
    <2>2. d.epoch \in Nat /\ d.epoch + 1 \in Nat
      BY DEF Meta
    <2>3. Resolved(d, none) \in Meta
      <3>1. [d EXCEPT !.head = 0, !.tail = 0, !.epoch = d.epoch + 1, !.state = "empty"] \in Meta
        BY <2>2, MetaUpdates
      <3>2. Resolved(d, none) = [d EXCEPT !.head = 0, !.tail = 0, !.epoch = d.epoch + 1, !.state = "empty"]
        BY <2>1 DEF Meta
      <3> QED BY <3>1, <3>2
    <2>4. Resolved(d, none).state = "empty"
      BY <2>1 DEF Meta
    <2>5. Resolved(d, none).epoch = d.epoch + 1
      BY <2>1 DEF Meta
    <2>6. Resolved(d, none).epoch # d.epoch
      BY <2>2, <2>5
    <2>7. "empty" # "nonEmpty" /\ "empty" # "pending"
      OBVIOUS
    <2> QED BY <1>2, <2>3, <2>4, <2>6, <2>7, Zenon
  <1>3. CASE d.state # "pending" /\ ~(d.state = "nonEmpty" /\ none)
    <2>1. Resolved(d, none) = d
      BY <1>3 DEF Resolved
    <2> QED BY <1>3, <2>1 DEF Meta
  <1> QED BY <1>1, <1>2, <1>3

\* A mount resolves an attempted append by looking, and tells a loss by an epoch.
LEMMA MountInductive == Inductive /\ Mount => Inductive'
<1> SUFFICES ASSUME Inductive, Mount PROVE Inductive'
  OBVIOUS
<1> USE SizeAssumption DEF Inductive
<1>1. LET m == Resolved(disk, NoRecords)
      IN /\ ram' = m /\ disk' = m /\ seg' = seg /\ pc = "off" /\ pc' = "rest" /\ job' = NoJob
         /\ dirty' = FALSE /\ sealed' = Torn(seg[m.head]) /\ total' = Held(seg, m)
         /\ next' = RestoreNext(seg, m) /\ unsaved' = 0
         /\ m.epoch # disk.epoch => acked' = {}
         /\ m.epoch = disk.epoch => acked' = acked
         /\ harm' = IF harm # "outside" /\ m.epoch = disk.epoch THEN harm ELSE "none"
         /\ faults' = faults /\ cuts' = cuts
         /\ erased' \in {{}, erased} /\ acked' \in {{}, acked}
  BY DEF Mount, Saved, Works, Forget, history, bounds
<1>2. LET m == ram' IN
     /\ m \in Meta
     /\ m.state = "nonEmpty" => ~NoRecords
     /\ m.epoch # disk.epoch => disk.state = "nonEmpty" /\ NoRecords /\ m.state = "empty"
     /\ m.state = "empty" =>
          disk.state = "empty" \/ (NoRecords /\ disk.state = "pending") \/ m.epoch # disk.epoch
     /\ m.state # "pending"
  BY <1>1, ResolvedFacts DEF TypeOK, NoRecords
<1>3. NoRecords' = NoRecords /\ (sealed' => seg[ram'.head] # <<>>)
    <2>1. seg' = seg /\ sealed' = Torn(seg[ram'.head])
      BY <1>1
    <2>2. \A q : Torn(q) => q # <<>>
      BY DEF Torn
    <2> QED BY <2>1, <2>2 DEF NoRecords
<1>4. TypeOK'
  <2>1. seg' \in [Ring -> Seq(Frame)]
    BY <1>1 DEF TypeOK
  <2>2. disk' \in Meta /\ ram' \in Meta
    BY <1>1, <1>2
  <2>3. job' \in Job
    BY <1>1, JobUpdates
  <2>4. dirty' \in BOOLEAN /\ sealed' \in BOOLEAN
    BY <1>1 DEF Torn
  <2>5. total' \in Nat /\ next' \in Nat /\ unsaved' \in Nat /\ faults' \in Nat /\ cuts' \in Nat
    BY <1>1, <1>2, HeldTyped, NextTyped DEF TypeOK
  <2>6. pc' \in Steps
    BY DEF TypeOK, Steps, Mount, Saved, Works, Forget, history, bounds
  <2>7. acked' \subseteq Nat /\ erased' \subseteq Nat /\ harm' \in Harms
    <3>1. acked' \subseteq Nat /\ erased' \subseteq Nat
      BY <1>1 DEF TypeOK
    <3>2. harm' \in Harms
      BY <1>1 DEF TypeOK, Harms
    <3> QED BY <3>1, <3>2
  <2> QED
    BY <2>1, <2>2, <2>3, <2>4, <2>5, <2>6, <2>7 DEF TypeOK
<1>5. Settled'
  BY <1>1 DEF Settled
<1>6. HeadHeld'
  BY <1>1, <1>3 DEF HeadHeld
<1>7. Harmed'
  BY <1>1 DEF Harmed
<1>8. Present'
  BY <1>1, <1>2, <1>3 DEF Present, Harmed, Marked, TypeOK, Meta, Harms
<1>9. Marked'
  BY <1>1, <1>2, <1>3 DEF Marked, Present, Harmed
<1> QED BY <1>4, <1>5, <1>6, <1>7, <1>8, <1>9

\* A message that begins only takes its number.
LEMMA RecordInductive == Inductive /\ Record => Inductive'
<1> SUFFICES ASSUME Inductive, Record PROVE Inductive'
  OBVIOUS
<1> USE SizeAssumption DEF Inductive
<1>1. TypeOK'
  <2>1. seg' \in [Ring -> Seq(Frame)]
    BY SizeAssumption DEF TypeOK, Record, Begin, medium, history, bounds
  <2>2. disk' \in Meta /\ ram' \in Meta
    BY MetaUpdates, Ringed DEF TypeOK, Record, Begin, medium, history, bounds
  <2>3. job' \in Job
    BY DEF TypeOK, Record, Begin, Job
  <2>4. dirty' \in BOOLEAN /\ sealed' \in BOOLEAN
    BY DEF TypeOK, Record, Begin, medium, history, bounds
  <2>5. total' \in Nat /\ next' \in Nat /\ unsaved' \in Nat /\ faults' \in Nat /\ cuts' \in Nat
    BY DEF TypeOK, Record, Begin, medium, history, bounds
  <2>6. pc' \in Steps
    BY DEF TypeOK, Steps, Record, Begin, medium, history, bounds
  <2>7. acked' \subseteq Nat /\ erased' \subseteq Nat /\ harm' \in Harms
    BY DEF TypeOK, Harms, Record, Begin, medium, history, bounds
  <2> QED
    BY <2>1, <2>2, <2>3, <2>4, <2>5, <2>6, <2>7 DEF TypeOK
<1>2. Settled'
  BY <1>1 DEF Settled, TypeOK, Meta, Record, Begin, medium, history, bounds
<1>3. HeadHeld'
  BY <1>1 DEF HeadHeld, TypeOK, Meta, Record, Begin, medium, history, bounds
<1>4. Harmed'
  BY <1>1 DEF Harmed, TypeOK, Meta, NoRecords, NoJob, Record, Begin, medium, history, bounds
<1>5. Present'
  BY <1>1 DEF Present, TypeOK, Meta, HeadHeld, NoRecords, Record, Begin, medium, history, bounds
<1>6. Marked'
  BY <1>1 DEF Marked, TypeOK, Meta, Settled, Record, Begin, medium, history, bounds
<1> QED BY <1>1, <1>2, <1>3, <1>4, <1>5, <1>6

\* A deletion that begins only takes its number.
LEMMA EraseInductive == Inductive /\ Erase => Inductive'
<1> SUFFICES ASSUME Inductive, Erase PROVE Inductive'
  OBVIOUS
<1> USE SizeAssumption DEF Inductive
<1>1. TypeOK'
  <2>1. seg' \in [Ring -> Seq(Frame)]
    BY SizeAssumption DEF TypeOK, Erase, Begin, medium, history, bounds
  <2>2. disk' \in Meta /\ ram' \in Meta
    BY MetaUpdates, Ringed DEF TypeOK, Erase, Begin, medium, history, bounds
  <2>3. job' \in Job
    BY PulledTyped DEF TypeOK, Erase, Begin, Job
  <2>4. dirty' \in BOOLEAN /\ sealed' \in BOOLEAN
    BY DEF TypeOK, Erase, Begin, medium, history, bounds
  <2>5. total' \in Nat /\ next' \in Nat /\ unsaved' \in Nat /\ faults' \in Nat /\ cuts' \in Nat
    BY DEF TypeOK, Erase, Begin, medium, history, bounds
  <2>6. pc' \in Steps
    BY DEF TypeOK, Steps, Erase, Begin, medium, history, bounds
  <2>7. acked' \subseteq Nat /\ erased' \subseteq Nat /\ harm' \in Harms
    BY DEF TypeOK, Harms, Erase, Begin, medium, history, bounds
  <2> QED
    BY <2>1, <2>2, <2>3, <2>4, <2>5, <2>6, <2>7 DEF TypeOK
<1>2. Settled'
  BY <1>1 DEF Settled, TypeOK, Meta, Erase, Begin, medium, history, bounds
<1>3. HeadHeld'
  BY <1>1 DEF HeadHeld, TypeOK, Meta, Erase, Begin, medium, history, bounds
<1>4. Harmed'
  BY <1>1 DEF Harmed, TypeOK, Meta, NoRecords, NoJob, Erase, Begin, medium, history, bounds
<1>5. Present'
  BY <1>1 DEF Present, TypeOK, Meta, HeadHeld, NoRecords, Erase, Begin, medium, history, bounds
<1>6. Marked'
  BY <1>1 DEF Marked, TypeOK, Meta, Settled, Erase, Begin, medium, history, bounds
<1> QED BY <1>1, <1>2, <1>3, <1>4, <1>5, <1>6

\* A save that failed before is made up for before anything is written.
LEMMA RetryInductive == Inductive /\ Retry => Inductive'
<1> SUFFICES ASSUME Inductive, Retry PROVE Inductive'
  OBVIOUS
<1> USE SizeAssumption DEF Inductive
<1>1. [job EXCEPT !.ok = FALSE] \in Job
  BY JobUpdates DEF TypeOK
<1>2. /\ RollStep # "mark" => seg[ram.head] # <<>>
      /\ RollStep = "dropTail" => ram.tail # ram.head
      /\ RollStep \in {"mark", "dropTail", "openHead"}
    <2>1. ram.head \in Ring /\ After(ram.head) # ram.head
      BY MetaUpdates, Ringed DEF TypeOK
    <2>2. pc = "retry" /\ seg[ram.head] \in Seq(Frame)
      BY <2>1 DEF TypeOK, Retry
    <2>3. NeedsRoll => seg[ram.head] # <<>>
      BY <2>2, SizeAssumption DEF NeedsRoll, HeadHeld
    <2> QED BY <2>1, <2>3 DEF RollStep
<1>3. /\ \/ pc' = RollStep /\ job' = job /\ disk' = ram' /\ dirty' = FALSE /\ (dirty = FALSE => disk' = disk)
         \/ pc' = "batch" /\ disk' = disk /\ dirty' = dirty
      /\ ram' = ram /\ seg' = seg /\ sealed' = sealed /\ acked' = acked /\ harm' = harm
    <2>1. dirty \in BOOLEAN /\ (~dirty => ram = disk)
      BY DEF TypeOK, Settled, Retry
    <2> QED BY <2>1 DEF Retry, Saved, Unsaved, Works, Fails, GoTo, Refuse, history, bounds
<1>4. TypeOK'
  <2>1. seg' \in [Ring -> Seq(Frame)]
    BY <1>1, <1>2, <1>3, SizeAssumption DEF TypeOK, Retry, Saved, Unsaved, Works, Fails, GoTo, Refuse, history, bounds
  <2>2. disk' \in Meta /\ ram' \in Meta
    BY <1>1, <1>2, <1>3, MetaUpdates, Ringed DEF TypeOK, Retry, Saved, Unsaved, Works, Fails, GoTo, Refuse, history, bounds
  <2>3. job' \in Job
    BY <1>1, <1>2, <1>3, JobUpdates DEF TypeOK, Retry, Saved, Unsaved, Works, Fails, GoTo, Refuse, history, bounds
  <2>4. dirty' \in BOOLEAN /\ sealed' \in BOOLEAN
    BY <1>1, <1>2, <1>3 DEF TypeOK, Retry, Saved, Unsaved, Works, Fails, GoTo, Refuse, history, bounds
  <2>5. total' \in Nat /\ next' \in Nat /\ unsaved' \in Nat /\ faults' \in Nat /\ cuts' \in Nat
    BY <1>1, <1>2, <1>3 DEF TypeOK, Retry, Saved, Unsaved, Works, Fails, GoTo, Refuse, history, bounds
  <2>6. pc' \in Steps
    BY <1>2, <1>3 DEF Steps
  <2>7. acked' \subseteq Nat /\ erased' \subseteq Nat /\ harm' \in Harms
    BY DEF TypeOK, Harms, Retry, Saved, Unsaved, Works, Fails, GoTo, Refuse, history, bounds
  <2> QED
    BY <2>1, <2>2, <2>3, <2>4, <2>5, <2>6, <2>7 DEF TypeOK
<1>5. Settled'
  <2>1. pc' \in {"mark", "dropTail", "openHead", "batch"}
    BY <1>2, <1>3
  <2>2. ~dirty' => ram' = disk'
    BY <1>3 DEF Settled, Retry
  <2>3. pc' # "batch" => ~dirty'
    BY <1>2, <1>3
  <2> QED BY <2>1, <2>2, <2>3 DEF Settled
<1>6. HeadHeld'
  BY <1>2, <1>3 DEF HeadHeld, Retry
<1>7. Harmed'
  BY <1>2, <1>3 DEF Harmed, Retry
<1>8. Present'
  BY <1>2, <1>3 DEF Present, NoRecords, Settled, Retry
<1>9. Marked'
  BY <1>3 DEF Marked, Settled, Retry
<1> QED BY <1>4, <1>5, <1>6, <1>7, <1>8, <1>9

\* The oldest segment makes room for the head, erased or not.
LEMMA DropTailInductive == Inductive /\ DropTail => Inductive'
<1> SUFFICES ASSUME Inductive, DropTail PROVE Inductive'
  OBVIOUS
<1> USE SizeAssumption DEF Inductive
<1>1. ram.head \in Ring /\ ram.tail \in Ring /\ After(ram.head) \in Ring /\ After(ram.head) # ram.head
  BY MetaUpdates, Ringed DEF TypeOK
<1>2. [seg EXCEPT ![ram.tail] = <<>>] \in [Ring -> Seq(Frame)] /\ Len(seg[ram.tail]) \in Nat
  BY <1>1, SegUpdates DEF TypeOK
<1>3. [ram EXCEPT !.tail = After(@)] \in Meta
  BY MetaUpdates, Ringed DEF TypeOK
<1>4. PassTail => ram' = [ram EXCEPT !.tail = After(@)] /\ acked' \subseteq acked
  BY DEF PassTail
<1>5. EraseTail => total' \in Nat
  BY <1>2 DEF TypeOK, EraseTail
<1>6. TypeOK'
  <2>1. seg' \in [Ring -> Seq(Frame)]
    BY <1>1, <1>2, <1>3, <1>4, <1>5, SizeAssumption DEF TypeOK, DropTail, EraseTail, Erased, Works, Fails, GoTo, bounds
  <2>2. disk' \in Meta /\ ram' \in Meta
    BY <1>1, <1>2, <1>3, <1>4, <1>5, MetaUpdates, Ringed DEF TypeOK, DropTail, EraseTail, Erased, Works, Fails, GoTo, bounds
  <2>3. job' \in Job
    BY <1>1, <1>2, <1>3, <1>4, <1>5, JobUpdates DEF TypeOK, DropTail, EraseTail, Erased, Works, Fails, GoTo, bounds
  <2>4. dirty' \in BOOLEAN /\ sealed' \in BOOLEAN
    BY <1>1, <1>2, <1>3, <1>4, <1>5 DEF TypeOK, DropTail, EraseTail, Erased, Works, Fails, GoTo, bounds
  <2>5. total' \in Nat /\ next' \in Nat /\ unsaved' \in Nat /\ faults' \in Nat /\ cuts' \in Nat
    <3>1. total' \in Nat
      BY <1>5 DEF TypeOK, DropTail
    <3>2. faults' \in Nat /\ cuts' \in Nat
      BY DEF TypeOK, DropTail, EraseTail, Erased, Works, Fails, bounds
    <3>3. next' \in Nat /\ unsaved' \in Nat
      BY DEF TypeOK, DropTail
    <3> QED BY <3>1, <3>2, <3>3
  <2>6. pc' \in Steps
    BY DEF TypeOK, Steps, DropTail, EraseTail, Erased, Works, Fails, GoTo, bounds
  <2>7. acked' \subseteq Nat /\ erased' \subseteq Nat /\ harm' \in Harms
    BY <1>4 DEF TypeOK, Harms, DropTail
  <2> QED
    BY <2>1, <2>2, <2>3, <2>4, <2>5, <2>6, <2>7 DEF TypeOK
<1>7. Settled'
  BY <1>1, <1>2, <1>3, <1>4, <1>5, <1>6 DEF Settled, TypeOK, Meta, DropTail, EraseTail, Erased, Works, Fails, GoTo, bounds
<1>8. HeadHeld'
  BY <1>1, <1>2, <1>3, <1>4, <1>5, <1>6 DEF HeadHeld, TypeOK, Meta, DropTail, EraseTail, Erased, Works, Fails, GoTo, bounds
<1>9. Harmed'
  BY <1>1, <1>2, <1>3, <1>4, <1>5, <1>6 DEF Harmed, TypeOK, Meta, NoRecords, NoJob, DropTail, EraseTail, Erased, Works, Fails, GoTo, bounds
<1>10. Present'
  BY <1>1, <1>2, <1>3, <1>4, <1>5, <1>6 DEF Present, TypeOK, Meta, HeadHeld, NoRecords, DropTail, EraseTail, Erased, Works, Fails, GoTo, bounds
<1>11. Marked'
  BY <1>1, <1>2, <1>3, <1>4, <1>5, <1>6 DEF Marked, TypeOK, Meta, Settled, DropTail, EraseTail, Erased, Works, Fails, GoTo, bounds
<1> QED BY <1>6, <1>7, <1>8, <1>9, <1>10, <1>11

\* The new head is empty before the roll counts.
LEMMA OpenHeadInductive == Inductive /\ OpenHead => Inductive'
<1> SUFFICES ASSUME Inductive, OpenHead PROVE Inductive'
  OBVIOUS
<1> USE SizeAssumption DEF Inductive
<1>1. ram.head \in Ring /\ ram.tail \in Ring /\ After(ram.head) \in Ring /\ After(ram.head) # ram.head
  BY MetaUpdates, Ringed DEF TypeOK
<1>2. [seg EXCEPT ![After(ram.head)] = <<>>] \in [Ring -> Seq(Frame)]
  BY <1>1, SegUpdates DEF TypeOK
<1>3. [ram EXCEPT !.head = After(@)] \in Meta
  BY MetaUpdates, Ringed DEF TypeOK
<1>4. [job EXCEPT !.ok = FALSE] \in Job
  BY JobUpdates DEF TypeOK
<1>5. TypeOK'
  <2>1. seg' \in [Ring -> Seq(Frame)]
    BY <1>1, <1>2, <1>3, <1>4, SizeAssumption DEF TypeOK, OpenHead, Erased, Works, Fails, GoTo, Refuse, history, bounds
  <2>2. disk' \in Meta /\ ram' \in Meta
    BY <1>1, <1>2, <1>3, <1>4, MetaUpdates, Ringed DEF TypeOK, OpenHead, Erased, Works, Fails, GoTo, Refuse, history, bounds
  <2>3. job' \in Job
    BY <1>1, <1>2, <1>3, <1>4, JobUpdates DEF TypeOK, OpenHead, Erased, Works, Fails, GoTo, Refuse, history, bounds
  <2>4. dirty' \in BOOLEAN /\ sealed' \in BOOLEAN
    BY <1>1, <1>2, <1>3, <1>4 DEF TypeOK, OpenHead, Erased, Works, Fails, GoTo, Refuse, history, bounds
  <2>5. total' \in Nat /\ next' \in Nat /\ unsaved' \in Nat /\ faults' \in Nat /\ cuts' \in Nat
    BY DEF TypeOK, OpenHead, Erased, Works, Fails, GoTo, Refuse, history, bounds
  <2>6. pc' \in Steps
    BY DEF TypeOK, Steps, OpenHead, Erased, Works, Fails, GoTo, Refuse, history, bounds
  <2>7. acked' \subseteq Nat /\ erased' \subseteq Nat /\ harm' \in Harms
    BY DEF TypeOK, Harms, OpenHead, Erased, Works, Fails, GoTo, Refuse, history, bounds
  <2> QED
    BY <2>1, <2>2, <2>3, <2>4, <2>5, <2>6, <2>7 DEF TypeOK
<1>6. Settled'
  BY <1>1, <1>2, <1>3, <1>4, <1>5 DEF Settled, TypeOK, Meta, OpenHead, Erased, Works, Fails, GoTo, Refuse, history, bounds
<1>7. HeadHeld'
  BY <1>1, <1>2, <1>3, <1>4, <1>5 DEF HeadHeld, TypeOK, Meta, OpenHead, Erased, Works, Fails, GoTo, Refuse, history, bounds
<1>8. Harmed'
  BY <1>1, <1>2, <1>3, <1>4, <1>5 DEF Harmed, TypeOK, Meta, NoRecords, NoJob, OpenHead, Erased, Works, Fails, GoTo, Refuse, history, bounds
<1>9. Present'
  BY <1>1, <1>2, <1>3, <1>4, <1>5 DEF Present, TypeOK, Meta, HeadHeld, NoRecords, OpenHead, Erased, Works, Fails, GoTo, Refuse, history, bounds
<1>10. Marked'
  BY <1>1, <1>2, <1>3, <1>4, <1>5 DEF Marked, TypeOK, Meta, Settled, OpenHead, Erased, Works, Fails, GoTo, Refuse, history, bounds
<1> QED BY <1>5, <1>6, <1>7, <1>8, <1>9, <1>10

\* A roll that cannot be saved leaves the store knowing it.
LEMMA SaveRollInductive == Inductive /\ SaveRoll => Inductive'
<1> SUFFICES ASSUME Inductive, SaveRoll PROVE Inductive'
  OBVIOUS
<1> USE SizeAssumption DEF Inductive
<1>1. [job EXCEPT !.ok = FALSE] \in Job
  BY JobUpdates DEF TypeOK
<1>2. TypeOK'
  <2>1. seg' \in [Ring -> Seq(Frame)]
    BY <1>1, SizeAssumption DEF TypeOK, SaveRoll, Saved, Unsaved, Works, Fails, GoTo, Refuse, history, bounds
  <2>2. disk' \in Meta /\ ram' \in Meta
    BY <1>1, MetaUpdates, Ringed DEF TypeOK, SaveRoll, Saved, Unsaved, Works, Fails, GoTo, Refuse, history, bounds
  <2>3. job' \in Job
    BY <1>1, JobUpdates DEF TypeOK, SaveRoll, Saved, Unsaved, Works, Fails, GoTo, Refuse, history, bounds
  <2>4. dirty' \in BOOLEAN /\ sealed' \in BOOLEAN
    BY <1>1 DEF TypeOK, SaveRoll, Saved, Unsaved, Works, Fails, GoTo, Refuse, history, bounds
  <2>5. total' \in Nat /\ next' \in Nat /\ unsaved' \in Nat /\ faults' \in Nat /\ cuts' \in Nat
    BY <1>1 DEF TypeOK, SaveRoll, Saved, Unsaved, Works, Fails, GoTo, Refuse, history, bounds
  <2>6. pc' \in Steps
    BY DEF TypeOK, Steps, SaveRoll, Saved, Unsaved, Works, Fails, GoTo, Refuse, history, bounds
  <2>7. acked' \subseteq Nat /\ erased' \subseteq Nat /\ harm' \in Harms
    BY DEF TypeOK, Harms, SaveRoll, Saved, Unsaved, Works, Fails, GoTo, Refuse, history, bounds
  <2> QED
    BY <2>1, <2>2, <2>3, <2>4, <2>5, <2>6, <2>7 DEF TypeOK
<1>3. Settled'
  BY <1>1, <1>2 DEF Settled, TypeOK, Meta, SaveRoll, Saved, Unsaved, Works, Fails, GoTo, Refuse, history, bounds
<1>4. HeadHeld'
  BY <1>1, <1>2 DEF HeadHeld, TypeOK, Meta, SaveRoll, Saved, Unsaved, Works, Fails, GoTo, Refuse, history, bounds
<1>5. Harmed'
  BY <1>1, <1>2 DEF Harmed, TypeOK, Meta, NoRecords, NoJob, SaveRoll, Saved, Unsaved, Works, Fails, GoTo, Refuse, history, bounds
<1>6. Present'
  BY <1>1, <1>2 DEF Present, TypeOK, Meta, HeadHeld, NoRecords, SaveRoll, Saved, Unsaved, Works, Fails, GoTo, Refuse, history, bounds
<1>7. Marked'
  BY <1>1, <1>2 DEF Marked, TypeOK, Meta, Settled, SaveRoll, Saved, Unsaved, Works, Fails, GoTo, Refuse, history, bounds
<1> QED BY <1>2, <1>3, <1>4, <1>5, <1>6, <1>7

\* An attempt is marked before its bytes are written.
LEMMA MarkInductive == Inductive /\ Mark => Inductive'
<1> SUFFICES ASSUME Inductive, Mark PROVE Inductive'
  OBVIOUS
<1> USE SizeAssumption DEF Inductive
<1>1. [job EXCEPT !.ok = FALSE] \in Job
  BY JobUpdates DEF TypeOK
<1>2. TypeOK'
  <2>1. seg' \in [Ring -> Seq(Frame)]
    BY <1>1, SizeAssumption DEF TypeOK, Mark, Claim, Saved, Unsaved, Works, Fails, GoTo, Refuse, history, bounds
  <2>2. disk' \in Meta /\ ram' \in Meta
    BY <1>1, MetaUpdates, Ringed DEF TypeOK, Mark, Claim, Saved, Unsaved, Works, Fails, GoTo, Refuse, history, bounds
  <2>3. job' \in Job
    BY <1>1, JobUpdates DEF TypeOK, Mark, Claim, Saved, Unsaved, Works, Fails, GoTo, Refuse, history, bounds
  <2>4. dirty' \in BOOLEAN /\ sealed' \in BOOLEAN
    BY <1>1 DEF TypeOK, Mark, Claim, Saved, Unsaved, Works, Fails, GoTo, Refuse, history, bounds
  <2>5. total' \in Nat /\ next' \in Nat /\ unsaved' \in Nat /\ faults' \in Nat /\ cuts' \in Nat
    BY <1>1 DEF TypeOK, Mark, Claim, Saved, Unsaved, Works, Fails, GoTo, Refuse, history, bounds
  <2>6. pc' \in Steps
    BY DEF TypeOK, Steps, Mark, Claim, Saved, Unsaved, Works, Fails, GoTo, Refuse, history, bounds
  <2>7. acked' \subseteq Nat /\ erased' \subseteq Nat /\ harm' \in Harms
    BY DEF TypeOK, Harms, Mark, Claim, Saved, Unsaved, Works, Fails, GoTo, Refuse, history, bounds
  <2> QED
    BY <2>1, <2>2, <2>3, <2>4, <2>5, <2>6, <2>7 DEF TypeOK
<1>3. Settled'
  BY <1>1, <1>2 DEF Settled, TypeOK, Meta, Mark, Claim, Saved, Unsaved, Works, Fails, GoTo, Refuse, history, bounds
<1>4. HeadHeld'
  BY <1>1, <1>2 DEF HeadHeld, TypeOK, Meta, Mark, Claim, Saved, Unsaved, Works, Fails, GoTo, Refuse, history, bounds
<1>5. Harmed'
  BY <1>1, <1>2 DEF Harmed, TypeOK, Meta, NoRecords, NoJob, Mark, Claim, Saved, Unsaved, Works, Fails, GoTo, Refuse, history, bounds
<1>6. Present'
  BY <1>1, <1>2 DEF Present, TypeOK, Meta, HeadHeld, NoRecords, Mark, Claim, Saved, Unsaved, Works, Fails, GoTo, Refuse, history, bounds
<1>7. Marked'
  BY <1>1, <1>2 DEF Marked, TypeOK, Meta, Settled, Mark, Claim, Saved, Unsaved, Works, Fails, GoTo, Refuse, history, bounds
<1> QED BY <1>2, <1>3, <1>4, <1>5, <1>6, <1>7

\* From the first byte on the head segment holds something.
LEMMA HeaderInductive == Inductive /\ Header => Inductive'
<1> SUFFICES ASSUME Inductive, Header PROVE Inductive'
  OBVIOUS
<1> USE SizeAssumption DEF Inductive
<1>1. ram.head \in Ring /\ ram.tail \in Ring /\ After(ram.head) \in Ring /\ After(ram.head) # ram.head
  BY MetaUpdates, Ringed DEF TypeOK
<1>2. \A w \in BOOLEAN : [seq |-> job.seq, of |-> job.of, whole |-> w] \in Frame
  BY JobUpdates DEF TypeOK, Frame
<1>3. \A w \in BOOLEAN : Put(w) => seg' \in [Ring -> Seq(Frame)] /\ seg'[ram.head] # <<>>
    <2> SUFFICES ASSUME NEW w \in BOOLEAN, Put(w)
                 PROVE  seg' \in [Ring -> Seq(Frame)] /\ seg'[ram.head] # <<>>
      OBVIOUS
    <2> DEFINE f == [seq |-> job.seq, of |-> job.of, whole |-> w]
    <2>1. f \in Frame /\ seg' = [seg EXCEPT ![ram.head] = Append(@, f)]
      BY <1>2 DEF Put
    <2> HIDE DEF f
    <2> QED BY <1>1, <2>1, SegUpdates DEF TypeOK
<1>4. [job EXCEPT !.ok = FALSE] \in Job
  BY JobUpdates DEF TypeOK
<1>5. total' \in {total, total + 1}
  BY DEF Header, Tear
<1>6. faults' \in {faults, faults + 1} /\ cuts' = cuts
  BY DEF Header, Works, Fails, bounds
<1>7. TypeOK'
  <2>1. seg' \in [Ring -> Seq(Frame)]
    BY <1>1, <1>2, <1>3, <1>4, <1>5, <1>6, SizeAssumption DEF TypeOK, Header, Tear, Works, Fails, GoTo, Refuse, history, bounds
  <2>2. disk' \in Meta /\ ram' \in Meta
    BY <1>1, <1>2, <1>3, <1>4, <1>5, <1>6, MetaUpdates, Ringed DEF TypeOK, Header, Tear, Works, Fails, GoTo, Refuse, history, bounds
  <2>3. job' \in Job
    BY <1>1, <1>2, <1>3, <1>4, <1>5, <1>6, JobUpdates DEF TypeOK, Header, Tear, Works, Fails, GoTo, Refuse, history, bounds
  <2>4. dirty' \in BOOLEAN /\ sealed' \in BOOLEAN
    BY <1>1, <1>2, <1>3, <1>4, <1>5, <1>6 DEF TypeOK, Header, Tear, Works, Fails, GoTo, Refuse, history, bounds
  <2>5. total' \in Nat /\ next' \in Nat /\ unsaved' \in Nat /\ faults' \in Nat /\ cuts' \in Nat
    <3>1. total' \in Nat
      BY <1>5 DEF TypeOK
    <3>2. faults' \in Nat /\ cuts' \in Nat
      BY <1>6 DEF TypeOK
    <3>3. next' \in Nat /\ unsaved' \in Nat
      BY DEF TypeOK, Header
    <3> QED BY <3>1, <3>2, <3>3
  <2>6. pc' \in Steps
    BY DEF TypeOK, Steps, Header, Tear, Works, Fails, GoTo, Refuse, history, bounds
  <2>7. acked' \subseteq Nat /\ erased' \subseteq Nat /\ harm' \in Harms
    BY DEF TypeOK, Harms, Header, Tear, Works, Fails, GoTo, Refuse, history, bounds
  <2> QED
    BY <2>1, <2>2, <2>3, <2>4, <2>5, <2>6, <2>7 DEF TypeOK
<1>8. Settled'
  BY <1>1, <1>2, <1>3, <1>4, <1>5, <1>6, <1>7 DEF Settled, TypeOK, Meta, Header, Tear, Works, Fails, GoTo, Refuse, history, bounds
<1>9. HeadHeld'
  BY <1>1, <1>2, <1>3, <1>4, <1>5, <1>6, <1>7 DEF HeadHeld, TypeOK, Meta, Header, Tear, Works, Fails, GoTo, Refuse, history, bounds
<1>10. Harmed'
  BY <1>1, <1>2, <1>3, <1>4, <1>5, <1>6, <1>7 DEF Harmed, TypeOK, Meta, NoRecords, NoJob, Header, Tear, Works, Fails, GoTo, Refuse, history, bounds
<1>11. Present'
  BY <1>1, <1>2, <1>3, <1>4, <1>5, <1>6, <1>7 DEF Present, TypeOK, Meta, HeadHeld, NoRecords, Header, Tear, Works, Fails, GoTo, Refuse, history, bounds
<1>12. Marked'
  BY <1>1, <1>2, <1>3, <1>4, <1>5, <1>6, <1>7 DEF Marked, TypeOK, Meta, Settled, Header, Tear, Works, Fails, GoTo, Refuse, history, bounds
<1> QED BY <1>7, <1>8, <1>9, <1>10, <1>11, <1>12

\* Whole or torn, the record stays where its header is.
LEMMA BodyInductive == Inductive /\ Body => Inductive'
<1> SUFFICES ASSUME Inductive, Body PROVE Inductive'
  OBVIOUS
<1> USE SizeAssumption DEF Inductive
<1>1. ram.head \in Ring /\ ram.tail \in Ring /\ After(ram.head) \in Ring /\ After(ram.head) # ram.head
  BY MetaUpdates, Ringed DEF TypeOK
<1>2. seg[ram.head] # <<>>
  BY DEF HeadHeld, Body
<1>3. Complete => seg' \in [Ring -> Seq(Frame)] /\ seg'[ram.head] # <<>>
  BY <1>1, <1>2, WholeTyped DEF TypeOK, Complete
<1>4. [job EXCEPT !.ok = FALSE] \in Job
  BY JobUpdates DEF TypeOK
<1>5. TypeOK'
  <2>1. seg' \in [Ring -> Seq(Frame)]
    BY <1>1, <1>2, <1>3, <1>4, SizeAssumption DEF TypeOK, Body, Tear, Works, Fails, GoTo, Refuse, history, bounds
  <2>2. disk' \in Meta /\ ram' \in Meta
    BY <1>1, <1>2, <1>3, <1>4, MetaUpdates, Ringed DEF TypeOK, Body, Tear, Works, Fails, GoTo, Refuse, history, bounds
  <2>3. job' \in Job
    BY <1>1, <1>2, <1>3, <1>4, JobUpdates DEF TypeOK, Body, Tear, Works, Fails, GoTo, Refuse, history, bounds
  <2>4. dirty' \in BOOLEAN /\ sealed' \in BOOLEAN
    BY <1>1, <1>2, <1>3, <1>4 DEF TypeOK, Body, Tear, Works, Fails, GoTo, Refuse, history, bounds
  <2>5. total' \in Nat /\ next' \in Nat /\ unsaved' \in Nat /\ faults' \in Nat /\ cuts' \in Nat
    BY DEF TypeOK, Body, Tear, Works, Fails, GoTo, Refuse, history, bounds
  <2>6. pc' \in Steps
    BY DEF TypeOK, Steps, Body, Tear, Works, Fails, GoTo, Refuse, history, bounds
  <2>7. acked' \subseteq Nat /\ erased' \subseteq Nat /\ harm' \in Harms
    BY DEF TypeOK, Harms, Body, Tear, Works, Fails, GoTo, Refuse, history, bounds
  <2> QED
    BY <2>1, <2>2, <2>3, <2>4, <2>5, <2>6, <2>7 DEF TypeOK
<1>6. Settled'
  BY <1>1, <1>2, <1>3, <1>4, <1>5 DEF Settled, TypeOK, Meta, Body, Tear, Works, Fails, GoTo, Refuse, history, bounds
<1>7. HeadHeld'
  BY <1>1, <1>2, <1>3, <1>4, <1>5 DEF HeadHeld, TypeOK, Meta, Body, Tear, Works, Fails, GoTo, Refuse, history, bounds
<1>8. Harmed'
  BY <1>1, <1>2, <1>3, <1>4, <1>5 DEF Harmed, TypeOK, Meta, NoRecords, NoJob, Body, Tear, Works, Fails, GoTo, Refuse, history, bounds
<1>9. Present'
  BY <1>1, <1>2, <1>3, <1>4, <1>5 DEF Present, TypeOK, Meta, HeadHeld, NoRecords, Body, Tear, Works, Fails, GoTo, Refuse, history, bounds
<1>10. Marked'
  BY <1>1, <1>2, <1>3, <1>4, <1>5 DEF Marked, TypeOK, Meta, Settled, Body, Tear, Works, Fails, GoTo, Refuse, history, bounds
<1> QED BY <1>5, <1>6, <1>7, <1>8, <1>9, <1>10

\* A record that is there is claimed, or its attempt stays marked.
LEMMA ResolveInductive == Inductive /\ Resolve => Inductive'
<1> SUFFICES ASSUME Inductive, Resolve PROVE Inductive'
  OBVIOUS
<1> USE SizeAssumption DEF Inductive
<1>1. TypeOK'
  <2>1. seg' \in [Ring -> Seq(Frame)]
    BY SizeAssumption DEF TypeOK, Resolve, Saved, Unsaved, Works, Fails, GoTo, history, bounds
  <2>2. disk' \in Meta /\ ram' \in Meta
    BY MetaUpdates, Ringed DEF TypeOK, Resolve, Saved, Unsaved, Works, Fails, GoTo, history, bounds
  <2>3. job' \in Job
    BY JobUpdates DEF TypeOK, Resolve, Saved, Unsaved, Works, Fails, GoTo, history, bounds
  <2>4. dirty' \in BOOLEAN /\ sealed' \in BOOLEAN
    BY DEF TypeOK, Resolve, Saved, Unsaved, Works, Fails, GoTo, history, bounds
  <2>5. total' \in Nat /\ next' \in Nat /\ unsaved' \in Nat /\ faults' \in Nat /\ cuts' \in Nat
    BY DEF TypeOK, Resolve, Saved, Unsaved, Works, Fails, GoTo, history, bounds
  <2>6. pc' \in Steps
    BY DEF TypeOK, Steps, Resolve, Saved, Unsaved, Works, Fails, GoTo, history, bounds
  <2>7. acked' \subseteq Nat /\ erased' \subseteq Nat /\ harm' \in Harms
    BY DEF TypeOK, Harms, Resolve, Saved, Unsaved, Works, Fails, GoTo, history, bounds
  <2> QED
    BY <2>1, <2>2, <2>3, <2>4, <2>5, <2>6, <2>7 DEF TypeOK
<1>2. Settled'
  BY <1>1 DEF Settled, TypeOK, Meta, Resolve, Saved, Unsaved, Works, Fails, GoTo, history, bounds
<1>3. HeadHeld'
  BY <1>1 DEF HeadHeld, TypeOK, Meta, Resolve, Saved, Unsaved, Works, Fails, GoTo, history, bounds
<1>4. Harmed'
  BY <1>1 DEF Harmed, TypeOK, Meta, NoRecords, NoJob, Resolve, Saved, Unsaved, Works, Fails, GoTo, history, bounds
<1>5. Present'
  BY <1>1 DEF Present, TypeOK, Meta, HeadHeld, NoRecords, Resolve, Saved, Unsaved, Works, Fails, GoTo, history, bounds
<1>6. Marked'
  BY <1>1 DEF Marked, TypeOK, Meta, Settled, Resolve, Saved, Unsaved, Works, Fails, GoTo, history, bounds
<1> QED BY <1>1, <1>2, <1>3, <1>4, <1>5, <1>6

\* The segments the cap takes are not the head.
LEMMA EvictInductive == Inductive /\ Evict => Inductive'
<1> SUFFICES ASSUME Inductive, Evict PROVE Inductive'
  OBVIOUS
<1> USE SizeAssumption DEF Inductive
<1>1. ram.head \in Ring /\ ram.tail \in Ring /\ After(ram.head) \in Ring /\ After(ram.head) # ram.head
  BY MetaUpdates, Ringed DEF TypeOK
<1>2. [seg EXCEPT ![ram.tail] = <<>>] \in [Ring -> Seq(Frame)] /\ Len(seg[ram.tail]) \in Nat
  BY <1>1, SegUpdates DEF TypeOK
<1>3. [ram EXCEPT !.tail = After(@)] \in Meta
  BY MetaUpdates, Ringed DEF TypeOK
<1>4. PassTail => ram' = [ram EXCEPT !.tail = After(@)] /\ acked' \subseteq acked
  BY DEF PassTail
<1>5. EraseTail => total' \in Nat
  BY <1>2 DEF TypeOK, EraseTail
<1>6. TypeOK'
  <2>1. seg' \in [Ring -> Seq(Frame)]
    BY <1>1, <1>2, <1>3, <1>4, <1>5, SizeAssumption DEF TypeOK, Evict, EraseTail, Erased, Works, Fails, GoTo, bounds
  <2>2. disk' \in Meta /\ ram' \in Meta
    BY <1>1, <1>2, <1>3, <1>4, <1>5, MetaUpdates, Ringed DEF TypeOK, Evict, EraseTail, Erased, Works, Fails, GoTo, bounds
  <2>3. job' \in Job
    BY <1>1, <1>2, <1>3, <1>4, <1>5, JobUpdates DEF TypeOK, Evict, EraseTail, Erased, Works, Fails, GoTo, bounds
  <2>4. dirty' \in BOOLEAN /\ sealed' \in BOOLEAN
    BY <1>1, <1>2, <1>3, <1>4, <1>5 DEF TypeOK, Evict, EraseTail, Erased, Works, Fails, GoTo, bounds
  <2>5. total' \in Nat /\ next' \in Nat /\ unsaved' \in Nat /\ faults' \in Nat /\ cuts' \in Nat
    <3>1. total' \in Nat
      BY <1>5 DEF TypeOK, Evict
    <3>2. faults' \in Nat /\ cuts' \in Nat
      BY DEF TypeOK, Evict, EraseTail, Erased, Works, Fails, bounds
    <3>3. next' \in Nat /\ unsaved' \in Nat
      BY DEF TypeOK, Evict
    <3> QED BY <3>1, <3>2, <3>3
  <2>6. pc' \in Steps
    BY DEF TypeOK, Steps, Evict, EraseTail, Erased, Works, Fails, GoTo, bounds
  <2>7. acked' \subseteq Nat /\ erased' \subseteq Nat /\ harm' \in Harms
    BY <1>4 DEF TypeOK, Harms, Evict
  <2> QED
    BY <2>1, <2>2, <2>3, <2>4, <2>5, <2>6, <2>7 DEF TypeOK
<1>7. Settled'
  BY <1>1, <1>2, <1>3, <1>4, <1>5, <1>6 DEF Settled, TypeOK, Meta, Evict, EraseTail, Erased, Works, Fails, GoTo, bounds
<1>8. HeadHeld'
  BY <1>1, <1>2, <1>3, <1>4, <1>5, <1>6 DEF HeadHeld, TypeOK, Meta, Evict, EraseTail, Erased, Works, Fails, GoTo, bounds
<1>9. Harmed'
  BY <1>1, <1>2, <1>3, <1>4, <1>5, <1>6 DEF Harmed, TypeOK, Meta, NoRecords, NoJob, Evict, EraseTail, Erased, Works, Fails, GoTo, bounds
<1>10. Present'
  BY <1>1, <1>2, <1>3, <1>4, <1>5, <1>6 DEF Present, TypeOK, Meta, HeadHeld, NoRecords, Evict, EraseTail, Erased, Works, Fails, GoTo, bounds
<1>11. Marked'
  BY <1>1, <1>2, <1>3, <1>4, <1>5, <1>6 DEF Marked, TypeOK, Meta, Settled, Evict, EraseTail, Erased, Works, Fails, GoTo, bounds
<1> QED BY <1>6, <1>7, <1>8, <1>9, <1>10, <1>11

\* An eviction that cannot be saved leaves the store knowing it.
LEMMA SaveTailInductive == Inductive /\ SaveTail => Inductive'
<1> SUFFICES ASSUME Inductive, SaveTail PROVE Inductive'
  OBVIOUS
<1> USE SizeAssumption DEF Inductive
<1>1. TypeOK'
  <2>1. seg' \in [Ring -> Seq(Frame)]
    BY SizeAssumption DEF TypeOK, SaveTail, Saved, Unsaved, Works, Fails, GoTo, history, bounds
  <2>2. disk' \in Meta /\ ram' \in Meta
    BY MetaUpdates, Ringed DEF TypeOK, SaveTail, Saved, Unsaved, Works, Fails, GoTo, history, bounds
  <2>3. job' \in Job
    BY JobUpdates DEF TypeOK, SaveTail, Saved, Unsaved, Works, Fails, GoTo, history, bounds
  <2>4. dirty' \in BOOLEAN /\ sealed' \in BOOLEAN
    BY DEF TypeOK, SaveTail, Saved, Unsaved, Works, Fails, GoTo, history, bounds
  <2>5. total' \in Nat /\ next' \in Nat /\ unsaved' \in Nat /\ faults' \in Nat /\ cuts' \in Nat
    BY DEF TypeOK, SaveTail, Saved, Unsaved, Works, Fails, GoTo, history, bounds
  <2>6. pc' \in Steps
    BY DEF TypeOK, Steps, SaveTail, Saved, Unsaved, Works, Fails, GoTo, history, bounds
  <2>7. acked' \subseteq Nat /\ erased' \subseteq Nat /\ harm' \in Harms
    BY DEF TypeOK, Harms, SaveTail, Saved, Unsaved, Works, Fails, GoTo, history, bounds
  <2> QED
    BY <2>1, <2>2, <2>3, <2>4, <2>5, <2>6, <2>7 DEF TypeOK
<1>2. Settled'
  BY <1>1 DEF Settled, TypeOK, Meta, SaveTail, Saved, Unsaved, Works, Fails, GoTo, history, bounds
<1>3. HeadHeld'
  BY <1>1 DEF HeadHeld, TypeOK, Meta, SaveTail, Saved, Unsaved, Works, Fails, GoTo, history, bounds
<1>4. Harmed'
  BY <1>1 DEF Harmed, TypeOK, Meta, NoRecords, NoJob, SaveTail, Saved, Unsaved, Works, Fails, GoTo, history, bounds
<1>5. Present'
  BY <1>1 DEF Present, TypeOK, Meta, HeadHeld, NoRecords, SaveTail, Saved, Unsaved, Works, Fails, GoTo, history, bounds
<1>6. Marked'
  BY <1>1 DEF Marked, TypeOK, Meta, Settled, SaveTail, Saved, Unsaved, Works, Fails, GoTo, history, bounds
<1> QED BY <1>1, <1>2, <1>3, <1>4, <1>5, <1>6

\* What is acknowledged is under a marker that says so.
LEMMA AcknowledgeInductive == Inductive /\ Acknowledge => Inductive'
<1> SUFFICES ASSUME Inductive, Acknowledge PROVE Inductive'
  OBVIOUS
<1> USE SizeAssumption DEF Inductive
<1>1. TypeOK'
  <2>1. seg' \in [Ring -> Seq(Frame)]
    BY SizeAssumption DEF TypeOK, Acknowledge, GoTo, medium, core, bounds
  <2>2. disk' \in Meta /\ ram' \in Meta
    BY MetaUpdates, Ringed DEF TypeOK, Acknowledge, GoTo, medium, core, bounds
  <2>3. job' \in Job
    BY JobUpdates DEF TypeOK, Acknowledge, GoTo, medium, core, bounds
  <2>4. dirty' \in BOOLEAN /\ sealed' \in BOOLEAN
    BY DEF TypeOK, Acknowledge, GoTo, medium, core, bounds
  <2>5. total' \in Nat /\ next' \in Nat /\ unsaved' \in Nat /\ faults' \in Nat /\ cuts' \in Nat
    BY DEF TypeOK, Acknowledge, GoTo, medium, core, bounds
  <2>6. pc' \in Steps
    BY DEF TypeOK, Steps, Acknowledge, GoTo, medium, core, bounds
  <2>7. acked' \subseteq Nat /\ erased' \subseteq Nat /\ harm' \in Harms
    BY JobUpdates DEF TypeOK, Harms, Acknowledge, GoTo, medium, core, bounds
  <2> QED
    BY <2>1, <2>2, <2>3, <2>4, <2>5, <2>6, <2>7 DEF TypeOK
<1>2. Settled'
  BY <1>1 DEF Settled, TypeOK, Meta, Acknowledge, GoTo, medium, core, bounds
<1>3. HeadHeld'
  BY <1>1 DEF HeadHeld, TypeOK, Meta, Acknowledge, GoTo, medium, core, bounds
<1>4. Harmed'
  BY <1>1 DEF Harmed, TypeOK, Meta, NoRecords, NoJob, Acknowledge, GoTo, medium, core, bounds
<1>5. Present'
  BY <1>1 DEF Present, TypeOK, Meta, HeadHeld, NoRecords, Acknowledge, GoTo, medium, core, bounds
<1>6. Marked'
  BY <1>1 DEF Marked, TypeOK, Meta, Settled, Acknowledge, GoTo, medium, core, bounds
<1> QED BY <1>1, <1>2, <1>3, <1>4, <1>5, <1>6

\* A counter that cannot be saved is taken back.
LEMMA CountInductive == Inductive /\ Count => Inductive'
<1> SUFFICES ASSUME Inductive, Count PROVE Inductive'
  OBVIOUS
<1> USE SizeAssumption DEF Inductive
<1>1. TypeOK'
  <2>1. seg' \in [Ring -> Seq(Frame)]
    BY SizeAssumption DEF TypeOK, Count, Persist, PersistFails, Saved, Unsaved, Works, Fails, history, bounds
  <2>2. disk' \in Meta /\ ram' \in Meta
    BY MetaUpdates, Ringed DEF TypeOK, Count, Persist, PersistFails, Saved, Unsaved, Works, Fails, history, bounds
  <2>3. job' \in Job
    BY JobUpdates DEF TypeOK, Count, Persist, PersistFails, Saved, Unsaved, Works, Fails, history, bounds
  <2>4. dirty' \in BOOLEAN /\ sealed' \in BOOLEAN
    BY DEF TypeOK, Count, Persist, PersistFails, Saved, Unsaved, Works, Fails, history, bounds
  <2>5. total' \in Nat /\ next' \in Nat /\ unsaved' \in Nat /\ faults' \in Nat /\ cuts' \in Nat
    BY DEF TypeOK, Count, Persist, PersistFails, Saved, Unsaved, Works, Fails, history, bounds
  <2>6. pc' \in Steps
    BY DEF TypeOK, Steps, Count, Persist, PersistFails, Saved, Unsaved, Works, Fails, history, bounds
  <2>7. acked' \subseteq Nat /\ erased' \subseteq Nat /\ harm' \in Harms
    BY JobUpdates DEF TypeOK, Harms, Count, Persist, PersistFails, Saved, Unsaved, Works, Fails, history, bounds
  <2> QED
    BY <2>1, <2>2, <2>3, <2>4, <2>5, <2>6, <2>7 DEF TypeOK
<1>2. Settled'
  BY <1>1 DEF Settled, TypeOK, Meta, Count, Persist, PersistFails, Saved, Unsaved, Works, Fails, history, bounds
<1>3. HeadHeld'
  BY <1>1 DEF HeadHeld, TypeOK, Meta, Count, Persist, PersistFails, Saved, Unsaved, Works, Fails, history, bounds
<1>4. Harmed'
  BY <1>1 DEF Harmed, TypeOK, Meta, NoRecords, NoJob, Count, Persist, PersistFails, Saved, Unsaved, Works, Fails, history, bounds
<1>5. Present'
  BY <1>1 DEF Present, TypeOK, Meta, HeadHeld, NoRecords, Count, Persist, PersistFails, Saved, Unsaved, Works, Fails, history, bounds
<1>6. Marked'
  BY <1>1 DEF Marked, TypeOK, Meta, Settled, Count, Persist, PersistFails, Saved, Unsaved, Works, Fails, history, bounds
<1> QED BY <1>1, <1>2, <1>3, <1>4, <1>5, <1>6

\* A counter that cannot be saved is taken back.
LEMMA FlushInductive == Inductive /\ Flush => Inductive'
<1> SUFFICES ASSUME Inductive, Flush PROVE Inductive'
  OBVIOUS
<1> USE SizeAssumption DEF Inductive
<1>1. TypeOK'
  <2>1. seg' \in [Ring -> Seq(Frame)]
    BY SizeAssumption DEF TypeOK, Flush, Persist, PersistFails, Saved, Unsaved, Works, Fails, history, bounds
  <2>2. disk' \in Meta /\ ram' \in Meta
    BY MetaUpdates, Ringed DEF TypeOK, Flush, Persist, PersistFails, Saved, Unsaved, Works, Fails, history, bounds
  <2>3. job' \in Job
    BY JobUpdates DEF TypeOK, Flush, Persist, PersistFails, Saved, Unsaved, Works, Fails, history, bounds
  <2>4. dirty' \in BOOLEAN /\ sealed' \in BOOLEAN
    BY DEF TypeOK, Flush, Persist, PersistFails, Saved, Unsaved, Works, Fails, history, bounds
  <2>5. total' \in Nat /\ next' \in Nat /\ unsaved' \in Nat /\ faults' \in Nat /\ cuts' \in Nat
    BY DEF TypeOK, Flush, Persist, PersistFails, Saved, Unsaved, Works, Fails, history, bounds
  <2>6. pc' \in Steps
    BY DEF TypeOK, Steps, Flush, Persist, PersistFails, Saved, Unsaved, Works, Fails, history, bounds
  <2>7. acked' \subseteq Nat /\ erased' \subseteq Nat /\ harm' \in Harms
    BY DEF TypeOK, Harms, Flush, Persist, PersistFails, Saved, Unsaved, Works, Fails, history, bounds
  <2> QED
    BY <2>1, <2>2, <2>3, <2>4, <2>5, <2>6, <2>7 DEF TypeOK
<1>2. Settled'
  BY <1>1 DEF Settled, TypeOK, Meta, Flush, Persist, PersistFails, Saved, Unsaved, Works, Fails, history, bounds
<1>3. HeadHeld'
  BY <1>1 DEF HeadHeld, TypeOK, Meta, Flush, Persist, PersistFails, Saved, Unsaved, Works, Fails, history, bounds
<1>4. Harmed'
  BY <1>1 DEF Harmed, TypeOK, Meta, NoRecords, NoJob, Flush, Persist, PersistFails, Saved, Unsaved, Works, Fails, history, bounds
<1>5. Present'
  BY <1>1 DEF Present, TypeOK, Meta, HeadHeld, NoRecords, Flush, Persist, PersistFails, Saved, Unsaved, Works, Fails, history, bounds
<1>6. Marked'
  BY <1>1 DEF Marked, TypeOK, Meta, Settled, Flush, Persist, PersistFails, Saved, Unsaved, Works, Fails, history, bounds
<1> QED BY <1>1, <1>2, <1>3, <1>4, <1>5, <1>6

\* No record is destroyed before the counter is safe.
LEMMA ClearInductive == Inductive /\ Clear => Inductive'
<1> SUFFICES ASSUME Inductive, Clear PROVE Inductive'
  OBVIOUS
<1> USE SizeAssumption DEF Inductive
<1>1. \/ pc' = "wipe" /\ job' = [NoJob EXCEPT !.op = "clear"] /\ disk' = ram' /\ ram'.epoch = ram.epoch
      \/ pc' = "rest" /\ disk' = ram' /\ ram'.epoch = ram.epoch
      \/ pc' = "rest" /\ disk' = disk /\ ram' = ram
  BY DEF Clear, Persist, PersistFails, Saved, Unsaved, TypeOK, Meta
<1>2. TypeOK'
  <2>1. seg' \in [Ring -> Seq(Frame)]
    BY <1>1, SizeAssumption DEF TypeOK, Clear, Persist, PersistFails, Saved, Unsaved, Works, Fails, history, bounds
  <2>2. disk' \in Meta /\ ram' \in Meta
    BY <1>1, MetaUpdates, Ringed DEF TypeOK, Clear, Persist, PersistFails, Saved, Unsaved, Works, Fails, history, bounds
  <2>3. job' \in Job
    BY <1>1, JobUpdates DEF TypeOK, Clear, Persist, PersistFails, Saved, Unsaved, Works, Fails, history, bounds
  <2>4. dirty' \in BOOLEAN /\ sealed' \in BOOLEAN
    BY <1>1 DEF TypeOK, Clear, Persist, PersistFails, Saved, Unsaved, Works, Fails, history, bounds
  <2>5. total' \in Nat /\ next' \in Nat /\ unsaved' \in Nat /\ faults' \in Nat /\ cuts' \in Nat
    BY <1>1 DEF TypeOK, Clear, Persist, PersistFails, Saved, Unsaved, Works, Fails, history, bounds
  <2>6. pc' \in Steps
    BY DEF TypeOK, Steps, Clear, Persist, PersistFails, Saved, Unsaved, Works, Fails, history, bounds
  <2>7. acked' \subseteq Nat /\ erased' \subseteq Nat /\ harm' \in Harms
    BY DEF TypeOK, Harms, Clear, Persist, PersistFails, Saved, Unsaved, Works, Fails, history, bounds
  <2> QED
    BY <2>1, <2>2, <2>3, <2>4, <2>5, <2>6, <2>7 DEF TypeOK
<1>3. Settled'
  BY <1>1, <1>2 DEF Settled, TypeOK, Meta, Clear, Persist, PersistFails, Saved, Unsaved, Works, Fails, history, bounds
<1>4. HeadHeld'
  BY <1>1, <1>2 DEF HeadHeld, TypeOK, Meta, Clear, Persist, PersistFails, Saved, Unsaved, Works, Fails, history, bounds
<1>5. Harmed'
  <2>1. pc' = "wipe" => job'.op = "clear" /\ job'.at = 0
    BY <1>1, JobUpdates
  <2>2. harm' = harm /\ harm # "outside" /\ (harm = "none" => ram.epoch = disk.epoch)
    BY DEF Harmed, Clear
  <2> QED BY <1>1, <2>1, <2>2 DEF Harmed
<1>6. Present'
  BY <1>1, <1>2 DEF Present, TypeOK, Meta, HeadHeld, NoRecords, Clear, Persist, PersistFails, Saved, Unsaved, Works, Fails, history, bounds
<1>7. Marked'
  BY <1>1, <1>2 DEF Marked, TypeOK, Meta, Settled, Clear, Persist, PersistFails, Saved, Unsaved, Works, Fails, history, bounds
<1> QED BY <1>2, <1>3, <1>4, <1>5, <1>6, <1>7

\* A wipe begins with the records still in place.
LEMMA WipeInductive == Inductive /\ Wipe => Inductive'
<1> SUFFICES ASSUME Inductive, Wipe PROVE Inductive'
  OBVIOUS
<1> USE SizeAssumption DEF Inductive
<1>1. TypeOK'
  <2>1. seg' \in [Ring -> Seq(Frame)]
    BY SizeAssumption DEF TypeOK, Wipe, medium, core, history, bounds
  <2>2. disk' \in Meta /\ ram' \in Meta
    BY MetaUpdates, Ringed DEF TypeOK, Wipe, medium, core, history, bounds
  <2>3. job' \in Job
    BY JobUpdates DEF TypeOK, Wipe, medium, core, history, bounds
  <2>4. dirty' \in BOOLEAN /\ sealed' \in BOOLEAN
    BY DEF TypeOK, Wipe, medium, core, history, bounds
  <2>5. total' \in Nat /\ next' \in Nat /\ unsaved' \in Nat /\ faults' \in Nat /\ cuts' \in Nat
    BY DEF TypeOK, Wipe, medium, core, history, bounds
  <2>6. pc' \in Steps
    BY DEF TypeOK, Steps, Wipe, medium, core, history, bounds
  <2>7. acked' \subseteq Nat /\ erased' \subseteq Nat /\ harm' \in Harms
    BY DEF TypeOK, Harms, Wipe, medium, core, history, bounds
  <2> QED
    BY <2>1, <2>2, <2>3, <2>4, <2>5, <2>6, <2>7 DEF TypeOK
<1>2. Settled'
  BY <1>1 DEF Settled, TypeOK, Meta, Wipe, medium, core, history, bounds
<1>3. HeadHeld'
  BY <1>1 DEF HeadHeld, TypeOK, Meta, Wipe, medium, core, history, bounds
<1>4. Harmed'
  BY <1>1 DEF Harmed, TypeOK, Meta, NoRecords, NoJob, Wipe, medium, core, history, bounds
<1>5. Present'
  BY <1>1 DEF Present, TypeOK, Meta, HeadHeld, NoRecords, Wipe, medium, core, history, bounds
<1>6. Marked'
  BY <1>1 DEF Marked, TypeOK, Meta, Settled, Wipe, medium, core, history, bounds
<1> QED BY <1>1, <1>2, <1>3, <1>4, <1>5, <1>6

\* From the first segment on the wipe answers for the loss.
LEMMA WipeSegmentInductive == Inductive /\ WipeSegment => Inductive'
<1> SUFFICES ASSUME Inductive, WipeSegment PROVE Inductive'
  OBVIOUS
<1> USE SizeAssumption DEF Inductive
<1>1. job.at \in Ring /\ job.op \in {"clear", "wipe"}
    <2>1. job.at \in Nat /\ job.at < Segs
      BY JobUpdates DEF TypeOK, WipeSegment
    <2> QED BY <2>1, SizeAssumption DEF Harmed, WipeSegment, Ring
<1>2. [seg EXCEPT ![job.at] = <<>>] \in [Ring -> Seq(Frame)]
  BY <1>1, SegUpdates DEF TypeOK
<1>3. harm' \in {"clear", "wipe"} /\ job'.op = job.op
  BY <1>1, JobUpdates DEF TypeOK, WipeSegment
<1>4. TypeOK'
  <2>1. seg' \in [Ring -> Seq(Frame)]
    BY <1>1, <1>2, <1>3, SizeAssumption DEF TypeOK, WipeSegment, Erased, Works, Fails, core, history, bounds
  <2>2. disk' \in Meta /\ ram' \in Meta
    BY <1>1, <1>2, <1>3, MetaUpdates, Ringed DEF TypeOK, WipeSegment, Erased, Works, Fails, core, history, bounds
  <2>3. job' \in Job
    BY <1>1, <1>2, <1>3, JobUpdates DEF TypeOK, WipeSegment, Erased, Works, Fails, core, history, bounds
  <2>4. dirty' \in BOOLEAN /\ sealed' \in BOOLEAN
    BY <1>1, <1>2, <1>3 DEF TypeOK, WipeSegment, Erased, Works, Fails, core, history, bounds
  <2>5. total' \in Nat /\ next' \in Nat /\ unsaved' \in Nat /\ faults' \in Nat /\ cuts' \in Nat
    BY <1>1, <1>2, <1>3 DEF TypeOK, WipeSegment, Erased, Works, Fails, core, history, bounds
  <2>6. pc' \in Steps
    BY DEF TypeOK, Steps, WipeSegment, Erased, Works, Fails, core, history, bounds
  <2>7. acked' \subseteq Nat /\ erased' \subseteq Nat /\ harm' \in Harms
    BY <1>3 DEF TypeOK, Harms, WipeSegment, Erased, Works, Fails, core, history, bounds
  <2> QED
    BY <2>1, <2>2, <2>3, <2>4, <2>5, <2>6, <2>7 DEF TypeOK
<1>5. Settled'
  BY <1>1, <1>2, <1>3, <1>4 DEF Settled, TypeOK, Meta, WipeSegment, Erased, Works, Fails, core, history, bounds
<1>6. HeadHeld'
  BY <1>1, <1>2, <1>3, <1>4 DEF HeadHeld, TypeOK, Meta, WipeSegment, Erased, Works, Fails, core, history, bounds
<1>7. Harmed'
  BY <1>1, <1>3 DEF Harmed, WipeSegment, Erased, Works, Fails, core, history, bounds
<1>8. Present'
  BY <1>3 DEF Present
<1>9. Marked'
  BY <1>3 DEF Marked
<1> QED BY <1>4, <1>5, <1>6, <1>7, <1>8, <1>9

\* A wipe that could be saved has told its loss.
LEMMA WipeSaveInductive == Inductive /\ WipeSave => Inductive'
<1> SUFFICES ASSUME Inductive, WipeSave PROVE Inductive'
  OBVIOUS
<1> USE SizeAssumption DEF Inductive
<1>1. \A e \in WipeEpochs : /\ e \in Nat
                              /\ [ram EXCEPT !.head = 0, !.tail = 0, !.epoch = e, !.state = "empty"] \in Meta
    <2>1. ram.epoch \in Nat
      BY MetaUpdates DEF TypeOK
    <2>2. \A e \in WipeEpochs : e \in Nat
      BY <2>1 DEF WipeEpochs
    <2> QED BY <2>2, MetaUpdates DEF TypeOK
<1>2. PICK e \in Nat :
         LET m == [ram EXCEPT !.head = 0, !.tail = 0, !.epoch = e, !.state = "empty"]
         IN /\ m \in Meta /\ m.state = "empty" /\ m.epoch = e
            /\ \/ disk' = m /\ ram' = m /\ dirty' = dirty /\ Works
                  /\ harm' = (IF e = ram.epoch /\ acked \cup erased # {} THEN harm ELSE "none")
               \/ disk' = disk /\ ram' = m /\ dirty' = TRUE /\ harm' = harm /\ Fails
            /\ IF e # ram.epoch THEN Forget ELSE UNCHANGED history
    <2>1. PICK e \in WipeEpochs :
            LET m == [ram EXCEPT !.head = 0, !.tail = 0, !.epoch = e, !.state = "empty"]
            IN /\ \/ Saved(m) /\ harm' = (IF e = ram.epoch /\ acked \cup erased # {} THEN harm ELSE "none")
                     /\ UNCHANGED dirty
                  \/ Unsaved(m) /\ dirty' = TRUE /\ UNCHANGED harm
               /\ IF e # ram.epoch THEN Forget ELSE UNCHANGED history
      BY DEF WipeSave
    <2> DEFINE m == [ram EXCEPT !.head = 0, !.tail = 0, !.epoch = e, !.state = "empty"]
    <2>2. e \in Nat /\ m \in Meta
      BY <1>1
    <2>3. m.state = "empty" /\ m.epoch = e
      BY DEF TypeOK, Meta
    <2> HIDE DEF m
    <2>4. \/ Saved(m) /\ harm' = (IF e = ram.epoch /\ acked \cup erased # {} THEN harm ELSE "none")
             /\ UNCHANGED dirty
          \/ Unsaved(m) /\ dirty' = TRUE /\ UNCHANGED harm
      BY <2>1 DEF m
    <2> USE DEF m
    <2> QED BY <2>1, <2>2, <2>3, <2>4 DEF Saved, Unsaved
<1>3. harm \in {"clear", "wipe"} /\ pc = "wipe"
    <2>1. pc = "wipe" /\ job.at = Segs /\ Segs > 0
      BY SizeAssumption DEF WipeSave
    <2> QED BY <2>1 DEF Harmed, TypeOK, Harms
<1>4. seg' = seg /\ total' = 0 /\ sealed' = FALSE /\ pc' \in {"resetCursor", "off"} /\ job' = NoJob /\ next' = next /\ unsaved' = unsaved
  BY DEF WipeSave
<1>5. TypeOK'
  <2>1. seg' \in [Ring -> Seq(Frame)]
    BY <1>4 DEF TypeOK
  <2>2. disk' \in Meta /\ ram' \in Meta
    BY <1>2 DEF TypeOK
  <2>3. job' \in Job
    BY <1>4, JobUpdates
  <2>4. dirty' \in BOOLEAN /\ sealed' \in BOOLEAN
    BY <1>2, <1>4 DEF TypeOK
  <2>5. total' \in Nat /\ next' \in Nat /\ unsaved' \in Nat /\ faults' \in Nat /\ cuts' \in Nat
    BY <1>2, <1>4 DEF TypeOK, Works, Fails, bounds
  <2>6. pc' \in Steps
    BY <1>4 DEF Steps
  <2>7. acked' \subseteq Nat /\ erased' \subseteq Nat /\ harm' \in Harms
    BY <1>2 DEF TypeOK, Harms, Forget, history
  <2> QED
    BY <2>1, <2>2, <2>3, <2>4, <2>5, <2>6, <2>7 DEF TypeOK
<1>6. Settled'
  BY <1>2, <1>4, <1>3 DEF Settled
<1>7. HeadHeld'
  BY <1>4 DEF HeadHeld
<1>8. Harmed'
  BY <1>2, <1>3, <1>4 DEF Harmed
<1>9. Present'
  BY <1>2, <1>3, <1>4 DEF Present, Forget, history
<1>10. Marked'
  BY <1>2, <1>3, <1>4 DEF Marked, Forget, history
<1> QED BY <1>5, <1>6, <1>7, <1>8, <1>9, <1>10

\* A cursor that cannot be saved is taken back.
LEMMA ResetCursorInductive == Inductive /\ ResetCursor => Inductive'
<1> SUFFICES ASSUME Inductive, ResetCursor PROVE Inductive'
  OBVIOUS
<1> USE SizeAssumption DEF Inductive
<1>1. [ram EXCEPT !.cursor = 0] \in Meta
  BY MetaUpdates, 0 \in Nat DEF TypeOK
<1>2. TypeOK'
  <2>1. seg' \in [Ring -> Seq(Frame)]
    BY <1>1, SizeAssumption DEF TypeOK, ResetCursor, Saved, Unsaved, Works, Fails, history, bounds
  <2>2. disk' \in Meta /\ ram' \in Meta
    BY <1>1, MetaUpdates, Ringed DEF TypeOK, ResetCursor, Saved, Unsaved, Works, Fails, history, bounds
  <2>3. job' \in Job
    BY <1>1, JobUpdates DEF TypeOK, ResetCursor, Saved, Unsaved, Works, Fails, history, bounds
  <2>4. dirty' \in BOOLEAN /\ sealed' \in BOOLEAN
    BY <1>1 DEF TypeOK, ResetCursor, Saved, Unsaved, Works, Fails, history, bounds
  <2>5. total' \in Nat /\ next' \in Nat /\ unsaved' \in Nat /\ faults' \in Nat /\ cuts' \in Nat
    BY <1>1 DEF TypeOK, ResetCursor, Saved, Unsaved, Works, Fails, history, bounds
  <2>6. pc' \in Steps
    BY DEF TypeOK, Steps, ResetCursor, Saved, Unsaved, Works, Fails, history, bounds
  <2>7. acked' \subseteq Nat /\ erased' \subseteq Nat /\ harm' \in Harms
    BY DEF TypeOK, Harms, ResetCursor, Saved, Unsaved, Works, Fails, history, bounds
  <2> QED
    BY <2>1, <2>2, <2>3, <2>4, <2>5, <2>6, <2>7 DEF TypeOK
<1>3. Settled'
  BY <1>1, <1>2 DEF Settled, TypeOK, Meta, ResetCursor, Saved, Unsaved, Works, Fails, history, bounds
<1>4. HeadHeld'
  BY <1>1, <1>2 DEF HeadHeld, TypeOK, Meta, ResetCursor, Saved, Unsaved, Works, Fails, history, bounds
<1>5. Harmed'
  BY <1>1, <1>2 DEF Harmed, TypeOK, Meta, NoRecords, NoJob, ResetCursor, Saved, Unsaved, Works, Fails, history, bounds
<1>6. Present'
  BY <1>1, <1>2 DEF Present, TypeOK, Meta, HeadHeld, NoRecords, ResetCursor, Saved, Unsaved, Works, Fails, history, bounds
<1>7. Marked'
  BY <1>1, <1>2 DEF Marked, TypeOK, Meta, Settled, ResetCursor, Saved, Unsaved, Works, Fails, history, bounds
<1> QED BY <1>2, <1>3, <1>4, <1>5, <1>6, <1>7

\* A power cut leaves both media as they are.
LEMMA PowerCutInductive == Inductive /\ PowerCut => Inductive'
<1> SUFFICES ASSUME Inductive, PowerCut PROVE Inductive'
  OBVIOUS
<1> USE SizeAssumption DEF Inductive
<1>1. TypeOK'
  <2>1. seg' \in [Ring -> Seq(Frame)]
    BY SizeAssumption DEF TypeOK, PowerCut, medium, core, history
  <2>2. disk' \in Meta /\ ram' \in Meta
    BY MetaUpdates, Ringed DEF TypeOK, PowerCut, medium, core, history
  <2>3. job' \in Job
    BY JobUpdates DEF TypeOK, PowerCut, medium, core, history
  <2>4. dirty' \in BOOLEAN /\ sealed' \in BOOLEAN
    BY DEF TypeOK, PowerCut, medium, core, history
  <2>5. total' \in Nat /\ next' \in Nat /\ unsaved' \in Nat /\ faults' \in Nat /\ cuts' \in Nat
    BY DEF TypeOK, PowerCut, medium, core, history
  <2>6. pc' \in Steps
    BY DEF TypeOK, Steps, PowerCut, medium, core, history
  <2>7. acked' \subseteq Nat /\ erased' \subseteq Nat /\ harm' \in Harms
    BY DEF TypeOK, Harms, PowerCut, medium, core, history
  <2> QED
    BY <2>1, <2>2, <2>3, <2>4, <2>5, <2>6, <2>7 DEF TypeOK
<1>2. Settled'
  BY <1>1 DEF Settled, TypeOK, Meta, PowerCut, medium, core, history
<1>3. HeadHeld'
  BY <1>1 DEF HeadHeld, TypeOK, Meta, PowerCut, medium, core, history
<1>4. Harmed'
  BY <1>1 DEF Harmed, TypeOK, Meta, NoRecords, NoJob, PowerCut, medium, core, history
<1>5. Present'
  BY <1>1 DEF Present, TypeOK, Meta, HeadHeld, NoRecords, PowerCut, medium, core, history
<1>6. Marked'
  BY <1>1 DEF Marked, TypeOK, Meta, Settled, PowerCut, medium, core, history
<1> QED BY <1>1, <1>2, <1>3, <1>4, <1>5, <1>6

\* Records lost from outside leave a marker that knows of them.
LEMMA RecordsLostInductive == Inductive /\ RecordsLost => Inductive'
<1> SUFFICES ASSUME Inductive, RecordsLost PROVE Inductive'
  OBVIOUS
<1> USE SizeAssumption DEF Inductive
<1>1. TypeOK'
  <2>1. seg' \in [Ring -> Seq(Frame)]
    BY SizeAssumption DEF TypeOK, RecordsLost, core, history, bounds
  <2>2. disk' \in Meta /\ ram' \in Meta
    BY MetaUpdates, Ringed DEF TypeOK, RecordsLost, core, history, bounds
  <2>3. job' \in Job
    BY JobUpdates DEF TypeOK, RecordsLost, core, history, bounds
  <2>4. dirty' \in BOOLEAN /\ sealed' \in BOOLEAN
    BY DEF TypeOK, RecordsLost, core, history, bounds
  <2>5. total' \in Nat /\ next' \in Nat /\ unsaved' \in Nat /\ faults' \in Nat /\ cuts' \in Nat
    BY DEF TypeOK, RecordsLost, core, history, bounds
  <2>6. pc' \in Steps
    BY DEF TypeOK, Steps, RecordsLost, core, history, bounds
  <2>7. acked' \subseteq Nat /\ erased' \subseteq Nat /\ harm' \in Harms
    BY DEF TypeOK, Harms, RecordsLost, core, history, bounds
  <2> QED
    BY <2>1, <2>2, <2>3, <2>4, <2>5, <2>6, <2>7 DEF TypeOK
<1>2. Settled'
  BY <1>1 DEF Settled, TypeOK, Meta, RecordsLost, core, history, bounds
<1>3. HeadHeld'
  BY <1>1 DEF HeadHeld, TypeOK, Meta, RecordsLost, core, history, bounds
<1>4. Harmed'
  BY <1>1 DEF Harmed, TypeOK, Meta, NoRecords, NoJob, RecordsLost, core, history, bounds
<1>5. Present'
  BY <1>1 DEF Present, TypeOK, Meta, HeadHeld, NoRecords, RecordsLost, core, history, bounds
<1>6. Marked'
  BY <1>1 DEF Marked, TypeOK, Meta, Settled, RecordsLost, core, history, bounds
<1> QED BY <1>1, <1>2, <1>3, <1>4, <1>5, <1>6

\* A cursor that cannot be saved is taken back.
LEMMA MarkReadInductive == ASSUME NEW c \in Cursors, Inductive, MarkRead(c) PROVE Inductive'
<1> USE SizeAssumption DEF Inductive
<1>1. c \in Nat /\ [ram EXCEPT !.cursor = c] \in Meta
  BY MetaUpdates DEF TypeOK
<1>2. TypeOK'
  <2>1. seg' \in [Ring -> Seq(Frame)]
    BY <1>1, SizeAssumption DEF TypeOK, MarkRead, Saved, Unsaved, Works, Fails, history, bounds
  <2>2. disk' \in Meta /\ ram' \in Meta
    BY <1>1, MetaUpdates, Ringed DEF TypeOK, MarkRead, Saved, Unsaved, Works, Fails, history, bounds
  <2>3. job' \in Job
    BY <1>1, JobUpdates DEF TypeOK, MarkRead, Saved, Unsaved, Works, Fails, history, bounds
  <2>4. dirty' \in BOOLEAN /\ sealed' \in BOOLEAN
    BY <1>1 DEF TypeOK, MarkRead, Saved, Unsaved, Works, Fails, history, bounds
  <2>5. total' \in Nat /\ next' \in Nat /\ unsaved' \in Nat /\ faults' \in Nat /\ cuts' \in Nat
    BY <1>1 DEF TypeOK, MarkRead, Saved, Unsaved, Works, Fails, history, bounds
  <2>6. pc' \in Steps
    BY DEF TypeOK, Steps, MarkRead, Saved, Unsaved, Works, Fails, history, bounds
  <2>7. acked' \subseteq Nat /\ erased' \subseteq Nat /\ harm' \in Harms
    BY DEF TypeOK, Harms, MarkRead, Saved, Unsaved, Works, Fails, history, bounds
  <2> QED
    BY <2>1, <2>2, <2>3, <2>4, <2>5, <2>6, <2>7 DEF TypeOK
<1>3. Settled'
  BY <1>1, <1>2 DEF Settled, TypeOK, Meta, MarkRead, Saved, Unsaved, Works, Fails, history, bounds
<1>4. HeadHeld'
  BY <1>1, <1>2 DEF HeadHeld, TypeOK, Meta, MarkRead, Saved, Unsaved, Works, Fails, history, bounds
<1>5. Harmed'
  BY <1>1, <1>2 DEF Harmed, TypeOK, Meta, NoRecords, NoJob, MarkRead, Saved, Unsaved, Works, Fails, history, bounds
<1>6. Present'
  BY <1>1, <1>2 DEF Present, TypeOK, Meta, HeadHeld, NoRecords, MarkRead, Saved, Unsaved, Works, Fails, history, bounds
<1>7. Marked'
  BY <1>1, <1>2 DEF Marked, TypeOK, Meta, Settled, MarkRead, Saved, Unsaved, Works, Fails, history, bounds
<1> QED BY <1>2, <1>3, <1>4, <1>5, <1>6, <1>7

\* The start of a new device satisfies the invariant.
LEMMA InitInductive == Init => Inductive
<1> SUFFICES ASSUME Init PROVE Inductive
  OBVIOUS
<1> USE SizeAssumption
<1>1. 0 \in Ring /\ FreshMeta \in Meta
  BY DEF Ring, FreshMeta, Meta
<1>2. TypeOK
  <2>1. seg \in [Ring -> Seq(Frame)]
    BY DEF Init
  <2> QED BY <2>1, <1>1, JobUpdates DEF Init, TypeOK, Steps, Harms
<1>3. disk.state = "empty" /\ ram = disk /\ NoRecords
  BY DEF Init, FreshMeta, NoRecords
<1> QED BY <1>2, <1>3 DEF Init, Inductive, Settled, HeadHeld, Harmed, Present, Marked

\* Nothing in the invariant depends on more than the variables.
LEMMA StutterInductive == Inductive /\ UNCHANGED vars => Inductive'
<1> SUFFICES ASSUME Inductive, UNCHANGED vars PROVE Inductive'
  OBVIOUS
<1>1. NoRecords' = NoRecords
  BY DEF vars, NoRecords
<1>2. TypeOK'
  BY DEF vars, Inductive, TypeOK
<1> QED BY <1>1, <1>2 DEF vars, Inductive, Settled, HeadHeld, Harmed, Present, Marked

\* Every step of the inbox keeps the invariant.
LEMMA NextInductive == Inductive /\ [Next]_vars => Inductive'
<1> SUFFICES ASSUME Inductive, [Next]_vars PROVE Inductive'
  OBVIOUS
<1>1. CASE Mount \/ Record \/ Erase
  BY <1>1, MountInductive, RecordInductive, EraseInductive
<1>2. CASE AppendSteps
  BY <1>2, RetryInductive, DropTailInductive, OpenHeadInductive, SaveRollInductive, MarkInductive,
     HeaderInductive, BodyInductive, ResolveInductive, EvictInductive, SaveTailInductive,
     AcknowledgeInductive, CountInductive DEF AppendSteps
<1>3. CASE Flush \/ \E c \in Cursors : MarkRead(c)
  BY <1>3, FlushInductive, MarkReadInductive
<1>4. CASE Clear \/ Wipe \/ WipeSegment \/ WipeSave \/ ResetCursor
  BY <1>4, ClearInductive, WipeInductive, WipeSegmentInductive, WipeSaveInductive, ResetCursorInductive
<1>5. CASE PowerCut \/ RecordsLost
  BY <1>5, PowerCutInductive, RecordsLostInductive
<1>6. CASE UNCHANGED vars
  BY <1>6, StutterInductive
<1> QED BY <1>1, <1>2, <1>3, <1>4, <1>5, <1>6 DEF Next

\* The invariant holds of every run, for every ring, cap, batch and fault bound.
THEOREM InductiveAlways == Spec => []Inductive
<1>1. Init => Inductive
  BY InitInductive
<1>2. Inductive /\ [Next]_vars => Inductive'
  BY NextInductive
<1> QED BY <1>1, <1>2, PTL DEF Spec

\* The metadata on the medium is one that a mount accepts, at every cut.
THEOREM InboxTypeCorrect == Spec => []TypeOK
<1>1. Inductive => TypeOK
  BY DEF Inductive
<1> QED BY <1>1, InductiveAlways, PTL

\* No failed save leaves the mounted store believing what its medium does not
\* hold, unless it knows so (the rollbacks of set_next_seq and set_read_cursor,
\* _meta_dirty everywhere else).
THEOREM MediumAgrees == Spec => []RamAgreesWithMedium
<1>1. Inductive => RamAgreesWithMedium
  BY DEF Inductive, Settled, RamAgreesWithMedium, AtRest
<1> QED BY <1>1, InductiveAlways, PTL

\* As long as records are not lost from outside under an unresolved append, no
\* acknowledged message lies under a marker that says "no records"
\* (append_pending, resolve_pending).
THEOREM MarkersHonest ==
  ASSUME "blindLoss" \notin Harsh
  PROVE  Spec => []MarkerHonest
<1>1. Inductive => MarkerHonest
  BY DEF Inductive, Marked, MarkerHonest
<1> QED BY <1>1, InductiveAlways, PTL

\* Outside a loss, no step moves the epoch: every reader may trust its cursor.
LEMMA EpochKept == Inductive /\ [Next]_vars => (ram'.epoch # ram.epoch => harm # "none")
<1> SUFFICES ASSUME Inductive, [Next]_vars, harm = "none" PROVE ram'.epoch = ram.epoch
  OBVIOUS
<1>0. ram \in Meta /\ disk \in Meta /\ ram.epoch = disk.epoch
  BY DEF Inductive, TypeOK, Harmed
<1>1. CASE Mount
  <2>1. ram' = Resolved(disk, NoRecords)
    BY <1>1 DEF Mount, Saved
  <2>2. disk.state = "nonEmpty" => ~NoRecords
    BY DEF Inductive, Present
  <2> QED BY <1>0, <2>1, <2>2, ResolvedFacts DEF NoRecords
<1>2. CASE WipeSave
  BY <1>2, SizeAssumption DEF WipeSave, Inductive, Harmed, TypeOK, Harms
<1>3. CASE Record \/ Erase \/ Acknowledge \/ Wipe \/ WipeSegment \/ PowerCut \/ RecordsLost
  BY <1>3 DEF Record, Erase, Begin, Acknowledge, Wipe, WipeSegment, PowerCut, RecordsLost, core
<1>4. CASE Retry \/ OpenHead \/ SaveRoll \/ Mark \/ Header \/ Body \/ Resolve \/ SaveTail
  BY <1>0, <1>4 DEF Retry, OpenHead, SaveRoll, Mark, Claim, Header, Body, Resolve, SaveTail, Saved, Unsaved, Meta
<1>5. CASE DropTail \/ Evict
  BY <1>0, <1>5 DEF DropTail, Evict, PassTail, Meta
<1>6. CASE Count \/ Flush \/ Clear \/ ResetCursor \/ \E c \in Cursors : MarkRead(c)
  BY <1>0, <1>6 DEF Count, Flush, Clear, ResetCursor, MarkRead, Persist, PersistFails, Saved, Unsaved, Meta
<1>7. CASE UNCHANGED vars
  BY <1>7 DEF vars
<1> QED BY <1>1, <1>2, <1>3, <1>4, <1>5, <1>6, <1>7 DEF Next, AppendSteps

\* A new epoch is told only when records were destroyed: no boot, no power cut
\* and no failing write makes the readers start again.
THEOREM EpochsTold == Spec => EpochOnlyOnLoss
<1>1. Inductive /\ [Next]_vars => [ram'.epoch # ram.epoch => harm # "none"]_vars
  BY EpochKept
<1> QED BY <1>1, InductiveAlways, PTL DEF Spec, EpochOnlyOnLoss
=============================================================================
