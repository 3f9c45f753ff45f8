--------------------------- MODULE InboxKeptProofs ---------------------------
(***************************************************************************)
(* No message is lost and no deletion is undone: where the records lie in  *)
(* the ring, from the steps of an append through every failing write,      *)
(* power cut, clear and wipe.                                              *)
(*                                                                         *)
(* The theorems are about stores without the failures on top of a failure  *)
(* that Harsh names: with those the promises do not hold.                  *)
(***************************************************************************)
EXTENDS InboxStoreProofs, WellFoundedInduction

----------------------------------------------------------------------------
\* The ring

\* The segment after the last one is the first one.
LEMMA AfterIs ==
  ASSUME NEW i \in Ring
  PROVE  After(i) = (IF i = Segs - 1 THEN 0 ELSE i + 1) /\ i \in Nat /\ i < Segs
  <1>1. Segs \in Nat /\ Segs > 1 /\ i \in 0..(Segs - 1)
    BY SizeAssumption DEF Ring
  <1>2. CASE i = Segs - 1
    BY <1>1, <1>2 DEF After
  <1>3. CASE i # Segs - 1
    <2>1. i + 1 < Segs /\ i + 1 \in Nat
      BY <1>1, <1>3
    <2>2. (i + 1) % Segs = i + 1
      BY <1>1, <2>1
    <2> QED BY <1>1, <1>3, <2>2 DEF After
  <1> QED BY <1>1, <1>2, <1>3

\* The live segments are those no further from the tail than the head is.
LEMMA LiveIs ==
  ASSUME NEW m \in Meta
  PROVE  /\ Live(m) = {i \in Ring : Position(m, i) <= Position(m, m.head)}
         /\ m.head \in Ring /\ m.tail \in Ring
         /\ \A i \in Ring : i \in Nat /\ i < Segs
         /\ Segs \in Nat /\ Segs > 1
  <1>1. Segs \in Nat /\ Segs > 1 /\ m.head \in Ring /\ m.tail \in Ring
    BY SizeAssumption DEF Meta
  <1>2. \A i \in Ring : i \in Nat /\ i < Segs
    BY <1>1 DEF Ring
  <1>3. ASSUME NEW i PROVE i \in Live(m) <=> i \in Ring /\ Position(m, i) <= Position(m, m.head)
    BY <1>1, <1>2 DEF Live, Position, Ring
  <1> QED BY <1>1, <1>2, <1>3

\* The tail is the first of them and the head the last.
LEMMA LiveEnds ==
  ASSUME NEW m \in Meta
  PROVE  /\ Live(m) \subseteq Ring /\ m.head \in Live(m) /\ m.tail \in Live(m)
         /\ \A i \in Live(m) : /\ Position(m, i) \in Nat
                               /\ Position(m, i) <= Position(m, m.head)
                               /\ Position(m, i) <= Position(m, m.tail) => i = m.tail
  BY LiveIs DEF Position

\* Only the two ends count.
LEMMA SameEnds ==
  ASSUME NEW m, NEW n, m.head = n.head, m.tail = n.tail
  PROVE  Live(m) = Live(n) /\ \A i : Position(m, i) = Position(n, i)
  BY DEF Live, Position

\* The ring without its tail keeps the order of the rest.
LEMMA TailPassed ==
  ASSUME NEW m \in Meta, NEW n \in Meta, n.head = m.head, n.tail = After(m.tail),
         m.tail # m.head
  PROVE  /\ Live(n) = Live(m) \ {m.tail}
         /\ \A i, j \in Live(n) : Position(m, i) <= Position(m, j) <=> Position(n, i) <= Position(n, j)
  <1>1. m.head \in Ring /\ m.tail \in Ring /\ Segs \in Nat /\ Segs > 1
    BY LiveIs
  <1>2. n.tail = (IF m.tail = Segs - 1 THEN 0 ELSE m.tail + 1)
    BY <1>1, AfterIs
  <1>3. \A i \in Ring : i \in Nat /\ i < Segs
    BY LiveIs
  <1>4. ASSUME NEW i \in Ring
        PROVE  i \in Live(n) <=> i \in Live(m) /\ i # m.tail
    BY <1>1, <1>2, <1>3, LiveIs DEF Position
  <1>5. Live(n) = Live(m) \ {m.tail}
    BY <1>4, LiveIs
  <1>6. ASSUME NEW i \in Live(n), NEW j \in Live(n)
        PROVE  Position(m, i) <= Position(m, j) <=> Position(n, i) <= Position(n, j)
    <2>1. i \in Ring /\ j \in Ring /\ i \in Live(m) /\ j \in Live(m) /\ i # m.tail /\ j # m.tail
      BY <1>5, LiveIs
    <2> QED BY <2>1, <1>1, <1>2, <1>3, LiveIs DEF Position
  <1> QED BY <1>5, <1>6

\* A new head comes behind all others.
LEMMA HeadMoved ==
  ASSUME NEW m \in Meta, NEW n \in Meta, n.head = After(m.head), n.tail = m.tail,
         After(m.head) # m.tail
  PROVE  /\ Live(n) = Live(m) \cup {After(m.head)} /\ After(m.head) \notin Live(m)
         /\ \A i : Position(m, i) = Position(n, i)
  <1>1. m.head \in Ring /\ m.tail \in Ring /\ Segs \in Nat /\ Segs > 1
    BY LiveIs
  <1>2. n.head = (IF m.head = Segs - 1 THEN 0 ELSE m.head + 1) /\ n.head \in Ring
    BY <1>1, AfterIs, Ringed
  <1>3. \A i \in Ring : i \in Nat /\ i < Segs
    BY LiveIs
  <1>4. ASSUME NEW i \in Ring
        PROVE  i \in Live(n) <=> i \in Live(m) \/ i = n.head
    BY <1>1, <1>2, <1>3, LiveIs DEF Position
  <1>5. n.head \notin Live(m)
    BY <1>1, <1>2, <1>3, LiveIs DEF Position
  <1>6. Live(n) = Live(m) \cup {After(m.head)}
    BY <1>2, <1>4, LiveIs
  <1> QED BY <1>5, <1>6 DEF Position

----------------------------------------------------------------------------
\* The records of a segment

\* What a reader takes from a segment are its first whole frames.
LEMMA ParsedIs ==
  ASSUME NEW q \in Seq(Frame)
  PROVE  /\ Parsed(q) \subseteq Frame
         /\ \A f : f \in Parsed(q) <=> \E k \in 1..Len(q) : f = q[k] /\ \A i \in 1..k : q[i].whole
         /\ Len(q) \in Nat /\ DOMAIN q = 1..Len(q)
  <1>1. Len(q) \in Nat /\ DOMAIN q = 1..Len(q) /\ \A k \in 1..Len(q) : q[k] \in Frame
    OBVIOUS
  <1> QED BY <1>1 DEF Parsed

\* Nothing is read from an empty segment.
LEMMA ParsedNone == Parsed(<<>>) = {} /\ ~Torn(<<>>)
  BY DEF Parsed, Torn

\* A frame behind the others hides none of them, and is not read itself before it
\* is whole.
LEMMA ParsedAppend ==
  ASSUME NEW q \in Seq(Frame), NEW f \in Frame, ~f.whole
  PROVE  Parsed(Append(q, f)) = Parsed(q)
  <1> DEFINE r == Append(q, f)
             n == Len(q)
  <1>1. /\ r \in Seq(Frame) /\ Len(r) = n + 1 /\ n \in Nat /\ r[n + 1] = f
        /\ \A k \in 1..n : r[k] = q[k]
    OBVIOUS
  <1> HIDE DEF r, n
  <1>2. ASSUME NEW g PROVE g \in Parsed(r) <=> g \in Parsed(q)
    <2>1. g \in Parsed(r) <=> \E k \in 1..(n + 1) : g = r[k] /\ \A i \in 1..k : r[i].whole
      BY <1>1, ParsedIs
    <2>2. g \in Parsed(q) <=> \E k \in 1..n : g = q[k] /\ \A i \in 1..k : q[i].whole
      BY ParsedIs DEF n
    <2>3. \A k \in 1..(n + 1) : (\A i \in 1..k : r[i].whole) => k \in 1..n
      BY <1>1
    <2>4. \A k \in 1..n : (\A i \in 1..k : r[i].whole) <=> (\A i \in 1..k : q[i].whole)
      BY <1>1
    <2>5. \A k \in 1..n : k \in 1..(n + 1)
      BY <1>1
    <2> QED BY <2>1, <2>2, <2>3, <2>4, <2>5, <1>1
  <1> QED BY <1>2 DEF r

\* Behind whole frames a frame is read as soon as it is whole, and hides nothing.
LEMMA ParsedWhole ==
  ASSUME NEW q \in Seq(Frame), q # <<>>, NEW f,
         \A k \in 1..(Len(q) - 1) : q[k].whole, f = [q[Len(q)] EXCEPT !.whole = TRUE],
         ~q[Len(q)].whole
  PROVE  Parsed(Whole(q)) = Parsed(q) \cup {f} /\ ~Torn(Whole(q))
  <1> DEFINE r == Whole(q)
             n == Len(q)
  <1>1. n \in Nat /\ n > 0 /\ n \in 1..n /\ q[n] \in Frame /\ DOMAIN q = 1..n
    OBVIOUS
  <1>2. f \in Frame /\ f.whole
    BY <1>1 DEF Frame
  <1>3. r = [q EXCEPT ![n] = f]
    BY DEF Whole
  <1>4. r[n] = f /\ \A k \in 1..n : k # n => r[k] = q[k]
    BY <1>1, <1>3
  <1>5. DOMAIN r = 1..n
    BY <1>1, <1>3
  <1> HIDE DEF r, n
  <1>6. \A k \in 1..n : r[k].whole
    <2> TAKE k \in 1..n
    <2>1. k # n => k \in 1..(Len(q) - 1)
      BY <1>1 DEF n
    <2> QED BY <1>2, <1>4, <2>1
  <1>7. Parsed(r) = {r[k] : k \in 1..n}
    <2>1. {j \in 1..n : \A i \in 1..j : r[i].whole} = 1..n
      BY <1>1, <1>6
    <2> QED BY <1>5, <2>1 DEF Parsed
  <1>8. \A k \in 1..n : (\A i \in 1..k : q[i].whole) <=> k # n
    <2> TAKE k \in 1..n
    <2>1. n \in 1..n /\ ~q[n].whole
      BY <1>1 DEF n
    <2>2. k # n => \A i \in 1..k : i \in 1..(Len(q) - 1)
      BY <1>1 DEF n
    <2> QED BY <2>1, <2>2
  <1>9. Parsed(q) = {q[k] : k \in {j \in 1..n : j # n}}
    <2>1. {j \in 1..n : \A i \in 1..j : q[i].whole} = {j \in 1..n : j # n}
      BY <1>8
    <2> QED BY <1>1, <2>1 DEF Parsed
  <1>10. Parsed(r) = Parsed(q) \cup {f}
    <2>1. \A g : g \in Parsed(r) <=> g = f \/ \E k \in 1..n : k # n /\ g = r[k]
      BY <1>1, <1>4, <1>7
    <2>2. \A g : g \in Parsed(q) <=> \E k \in 1..n : k # n /\ g = q[k]
      BY <1>9
    <2> QED BY <2>1, <2>2, <1>4
  <1> QED BY <1>10, <1>6, <1>5 DEF Torn, r

\* What is read of the messages in the live segments.
LEMMA MessageIs ==
  ASSUME NEW s, NEW m, NEW k
  PROVE  k \in Messages(ReadSince(s, m))
           <=> \E i \in Live(m) : \E f \in Parsed(s[i]) : f.of = 0 /\ f.seq = k
  BY DEF Messages, ReadSince

\* When a segment goes, what is lost is what was in it.
LEMMA MessagesLost ==
  ASSUME NEW s, NEW t, NEW m, NEW n, NEW x,
         Live(m) \ {x} \subseteq Live(n),
         \A i \in Live(m) \ {x} : Parsed(s[i]) \subseteq Parsed(t[i])
  PROVE  \A k \in Messages(ReadSince(s, m)) :
           k \in Messages(Parsed(s[x])) \/ k \in Messages(ReadSince(t, n))
  <1> TAKE k \in Messages(ReadSince(s, m))
  <1>1. PICK i \in Live(m) : \E f \in Parsed(s[i]) : f.of = 0 /\ f.seq = k
    BY MessageIs
  <1>2. PICK f \in Parsed(s[i]) : f.of = 0 /\ f.seq = k
    BY <1>1
  <1>3. CASE i = x
    BY <1>2, <1>3 DEF Messages
  <1>4. CASE i # x
    <2>1. i \in Live(n) /\ f \in Parsed(t[i])
      BY <1>4, <1>2
    <2>2. \E ii \in Live(n) : \E ff \in Parsed(t[ii]) : ff.of = 0 /\ ff.seq = k
      BY <2>1, <1>2
    <2> QED BY <2>2, MessageIs
  <1> QED BY <1>3, <1>4

\* When nothing goes, nothing is lost.
LEMMA MessagesStay ==
  ASSUME NEW s, NEW t, NEW m, NEW n,
         Live(m) \subseteq Live(n), \A i \in Live(m) : Parsed(s[i]) \subseteq Parsed(t[i])
  PROVE  Messages(ReadSince(s, m)) \subseteq Messages(ReadSince(t, n))
  BY MessageIs

\* But for segment x the segments of m keep their records and their order in n,
\* which has no others.
Remains(s, t, m, n, x) ==
  /\ Live(m) \ {x} \subseteq Live(n)
  /\ \A i \in Live(n) : Parsed(t[i]) = {} \/ (i \in Live(m) \ {x} /\ Parsed(t[i]) = Parsed(s[i]))
  /\ \A i \in Live(m) \ {x} : Parsed(t[i]) = Parsed(s[i])
  /\ \A i, j \in Live(m) \ {x} :
       Position(m, i) <= Position(m, j) => Position(n, i) <= Position(n, j)

\* A deletion outlives its message when the first segment goes or stays.
LEMMA OutlivedRest ==
  ASSUME NEW s, NEW t, NEW gone, NEW m \in Meta, NEW n \in Meta, NEW x,
         Outlived(s, gone, m), x = m.tail \/ x \notin Live(m), Remains(s, t, m, n, x)
  PROVE  Outlived(t, gone, n)
  <1> SUFFICES ASSUME NEW i \in Live(n), NEW f \in Parsed(t[i]), f.of = 0, f.seq \in gone
               PROVE  \E j \in Live(n) : /\ Position(n, i) <= Position(n, j)
                                         /\ \E g \in Parsed(t[j]) : g.of = f.seq
    BY DEF Outlived
  <1>1. i \in Live(m) /\ i # x /\ f \in Parsed(s[i])
    BY DEF Remains
  <1>2. PICK j \in Live(m) : Position(m, i) <= Position(m, j) /\ \E g \in Parsed(s[j]) : g.of = f.seq
    BY <1>1 DEF Outlived
  <1>3. j # x
    <2> SUFFICES ASSUME j = x PROVE FALSE
      OBVIOUS
    <2>1. j = m.tail /\ Position(m, i) <= Position(m, m.tail)
      BY <1>2
    <2>2. i = m.tail
      BY <2>1, <1>1, LiveEnds
    <2> QED BY <2>1, <2>2, <1>1
  <1>4. j \in Live(n) /\ Position(n, i) <= Position(n, j) /\ \E g \in Parsed(t[j]) : g.of = f.seq
    BY <1>1, <1>2, <1>3 DEF Remains
  <1> QED BY <1>4

\* A new record at the head leaves what outlived its message in place.
LEMMA OutlivedAppend ==
  ASSUME NEW s, NEW t, NEW gone, NEW m \in Meta, NEW f,
         Outlived(s, gone, m), f.of # 0 \/ f.seq \notin gone,
         \A i \in Live(m) : Parsed(s[i]) \subseteq Parsed(t[i]) /\ Parsed(t[i]) \subseteq Parsed(s[i]) \cup {f}
  PROVE  Outlived(t, gone, m)
  BY DEF Outlived

\* A deletion at the head outlives every message.
LEMMA OutlivedHead ==
  ASSUME NEW s, NEW gone, NEW m \in Meta, NEW of, Outlived(s, gone, m),
         \E g \in Parsed(s[m.head]) : g.of = of
  PROVE  Outlived(s, gone \cup {of}, m)
  <1>1. m.head \in Live(m) /\ \A i \in Live(m) : Position(m, i) <= Position(m, m.head)
    BY LiveEnds
  <1> QED BY <1>1 DEF Outlived

\* Fewer deletions are still outlived, also by a view with the same ends.
LEMMA OutlivedSame ==
  ASSUME NEW s, NEW gone, NEW less, less \subseteq gone, NEW m, NEW n, Outlived(s, gone, m),
         m.head = n.head, m.tail = n.tail
  PROVE  Outlived(s, less, n)
  BY SameEnds DEF Outlived

----------------------------------------------------------------------------
\* Numbers

\* The numbers are well ordered, by a relation of pairs.
LEMMA WellOrdered ==
  ASSUME NEW T, T \subseteq Nat, T # {}
  PROVE  \E t \in T : \A u \in T : t <= u
  <1> DEFINE R == OpToRel(<, Nat)
  <1>1. \A x, y \in Nat : x < y => <<x, y>> \in R
    BY DEF OpToRel
  <1>2. IsWellFoundedOn(R, Nat)
    BY NatLessThanWellFounded
  <1> HIDE DEF R
  <1>3. PICK t \in T : \A u \in T : ~(<<u, t>> \in R)
    BY <1>2, WFMin
  <1>4. ASSUME NEW u \in T PROVE t <= u
    <2>1. t \in Nat /\ u \in Nat
      OBVIOUS
    <2>2. ~(u < t)
      BY <1>1, <1>3, <2>1, Zenon
    <2> QED BY <2>1, <2>2
  <1> QED BY <1>4

\* Numbers below a bound have a largest one.
LEMMA LargestNumber ==
  ASSUME NEW b \in Nat, NEW N, N \subseteq 0..b, N # {}
  PROVE  \E n \in N : \A k \in N : k <= n
  <1> DEFINE T == {b - n : n \in N}
  <1>0. \A n \in N : n \in Nat /\ n <= b /\ b - n \in Nat
    OBVIOUS
  <1>1. T \subseteq Nat /\ T # {}
    BY <1>0
  <1>2. PICK t \in T : \A u \in T : t <= u
    BY <1>1, WellOrdered
  <1>4. PICK n \in N : t = b - n
    OBVIOUS
  <1>5. ASSUME NEW k \in N PROVE k <= n
    <2>1. b - k \in T
      OBVIOUS
    <2>2. t <= b - k
      BY <1>2, <2>1
    <2> QED BY <1>0, <1>4, <2>2
  <1> QED BY <1>5

\* The newest of bounded numbers is not below any of them.
LEMMA NewestTops ==
  ASSUME NEW b \in Nat, NEW N, N \subseteq 0..b, NEW n \in N
  PROVE  n <= Newest(N)
  <1> DEFINE top == {k \in N : \A j \in N : j <= k}
  <1>1. top # {}
    BY LargestNumber
  <1>2. Newest(N) \in top
    BY <1>1 DEF Newest
  <1> QED BY <1>2

\* The number restored at a mount is above all that can be read, and not below the
\* saved one.
LEMMA RestoredAbove ==
  ASSUME NEW s \in [Ring -> Seq(Frame)], NEW m \in Meta,
         \A i \in Ring : \A k \in DOMAIN s[i] : s[i][k].seq \in 1..MaxSeq
  PROVE  /\ RestoreNext(s, m) \in Nat /\ m.next <= RestoreNext(s, m) /\ 0 < RestoreNext(s, m)
         /\ \A f \in ReadSince(s, m) : f.seq < RestoreNext(s, m)
         /\ \A k \in Messages(ReadSince(s, m)) : k < RestoreNext(s, m)
  <1> DEFINE N == {f.seq : f \in ReadSince(s, m)}
             n == Newest(N)
  <1>1. MaxSeq \in Nat /\ m.next \in Nat
    BY SizeAssumption DEF Meta
  <1>2. \A f \in ReadSince(s, m) : f.seq \in 1..MaxSeq
    <2> SUFFICES ASSUME NEW i \in Live(m), NEW f \in Parsed(s[i]) PROVE f.seq \in 1..MaxSeq
      BY DEF ReadSince
    <2>1. i \in Ring /\ s[i] \in Seq(Frame)
      BY LiveEnds
    <2>2. PICK k \in DOMAIN s[i] : f = s[i][k]
      BY DEF Parsed
    <2> QED BY <2>1, <2>2
  <1>3. N \subseteq 0..MaxSeq /\ N \subseteq Nat
    BY <1>1, <1>2
  <1>4. n \in Nat
    BY <1>3, NewestTyped
  <1>5. \A k \in N : k <= n
    BY <1>1, <1>3, NewestTops
  <1>6. RestoreNext(s, m) = IF n + 1 > m.next THEN n + 1 ELSE m.next
    BY DEF RestoreNext
  <1> HIDE DEF n, N
  <1>7. \A k \in N : k < RestoreNext(s, m)
    BY <1>1, <1>3, <1>4, <1>5, <1>6
  <1>8. /\ \A k \in Messages(ReadSince(s, m)) : k \in N
        /\ \A f \in ReadSince(s, m) : f.seq \in N
    BY DEF Messages, N
  <1> QED BY <1>1, <1>4, <1>6, <1>7, <1>8

----------------------------------------------------------------------------
\* Steps that leave the records where they are

\* Two views of the same segments, the second with no less of a claim.
SameView(n, m) == n.head = m.head /\ n.tail = m.tail /\ (n.state = "empty" => m.state = "empty")

\* No record that can be read goes, and every view is one there was before.
Still ==
  /\ \A i \in Ring : Parsed(seg[i]) \subseteq Parsed(seg'[i])
  /\ acked' = acked /\ harm' = harm
  /\ \A n \in Views' : \E m \in Views : SameView(n, m)
  /\ disk.next <= disk'.next

\* While the store is mounted the views are the medium's and its own.
LEMMA ViewsOn ==
  ASSUME pc # "off",
         SameView(disk', disk) \/ SameView(disk', ram),
         SameView(ram', disk) \/ SameView(ram', ram)
  PROVE  \A n \in Views' : \E m \in Views : SameView(n, m)
  BY DEF Views

\* Such a step loses no message and brings none back.
LEMMA StillKeeps ==
  ASSUME Inductive, Warned, Kept, Still, pc # "off", TypeOK',
         pc' # "off" => next <= next'
  PROVE  /\ Kept'
         /\ harm' = "clear" => \A m \in Views' : m.state = "empty" => \A s \in acked' : s < disk'.next
  <1>1. /\ disk.next \in Nat /\ disk'.next \in Nat /\ next \in Nat /\ next' \in Nat
        /\ acked \subseteq Nat
    BY DEF Inductive, TypeOK, Meta
  <1>2. \A s \in acked : s < disk.next => s < disk'.next
    BY <1>1 DEF Still
  <1>3. ASSUME harm' \in {"none", "clear"}, NEW n \in Views', NEW s \in acked'
        PROVE  s \in Messages(ReadSince(seg', n)) \/ (harm' = "clear" /\ Excused(s)')
    <2>1. PICK m \in Views : SameView(n, m)
      BY DEF Still
    <2>2. s \in Messages(ReadSince(seg, m)) \/ (harm = "clear" /\ Excused(s))
      BY <1>3 DEF Kept, Still
    <2>3. Messages(ReadSince(seg, m)) \subseteq Messages(ReadSince(seg', n))
      <3>1. m \in Meta /\ Live(m) \subseteq Ring
        BY LiveEnds DEF Views, Inductive, TypeOK
      <3>2. Live(m) \subseteq Live(n)
        BY <2>1, SameEnds DEF SameView
      <3>3. \A i \in Live(m) : Parsed(seg[i]) \subseteq Parsed(seg'[i])
        BY <3>1 DEF Still
      <3> QED BY <3>2, <3>3, MessagesStay
    <2>4. Excused(s) => s < disk.next
      BY DEF Excused
    <2>5. s < disk.next => s < disk'.next
      BY <1>2 DEF Still
    <2> QED BY <2>2, <2>3, <2>4, <2>5 DEF Excused, Still
  <1>4. ASSUME harm' # "wipe", pc' # "off", NEW s \in acked'
        PROVE  s < next'
    BY <1>1, <1>4 DEF Kept, Still
  <1>5. ASSUME harm' = "clear", NEW n \in Views', n.state = "empty", NEW s \in acked'
        PROVE  s < disk'.next
    <2>1. PICK m \in Views : SameView(n, m)
      BY DEF Still
    <2>2. s < disk.next
      BY <1>5, <2>1 DEF Warned, SameView, Still
    <2> QED BY <1>2, <2>2 DEF Still
  <1> QED BY <1>3, <1>4, <1>5 DEF Kept

\* Nor does it undo a deletion when no message that was deleted is written.
LEMMA GrownBuries ==
  ASSUME TypeOK, Buried, Still, erased' \subseteq erased,
         NEW f, f.of # 0 \/ f.seq \notin erased,
         \A i \in Ring : Parsed(seg'[i]) \subseteq Parsed(seg[i]) \cup {f}
  PROVE  Buried'
  <1> SUFFICES ASSUME harm' = "none", NEW n \in Views' PROVE Outlived(seg', erased', n)
    BY DEF Buried
  <1>1. PICK m \in Views : SameView(n, m)
    BY DEF Still
  <1>2. Outlived(seg, erased, m)
    BY DEF Buried, Still
  <1>3. m \in Meta /\ Live(m) \subseteq Ring
    BY LiveEnds DEF Views, TypeOK
  <1>4. \A i \in Live(m) : /\ Parsed(seg[i]) \subseteq Parsed(seg'[i])
                           /\ Parsed(seg'[i]) \subseteq Parsed(seg[i]) \cup {f}
    BY <1>3 DEF Still
  <1>5. Outlived(seg', erased, m)
    BY <1>2, <1>3, <1>4, OutlivedAppend
  <1> QED BY <1>1, <1>5, OutlivedSame DEF SameView

\* Nor when nothing at all is written.
LEMMA StillBuries ==
  ASSUME Buried, Still, erased' \subseteq erased, seg' = seg
  PROVE  Buried'
  <1> SUFFICES ASSUME harm' = "none", NEW n \in Views' PROVE Outlived(seg', erased', n)
    BY DEF Buried
  <1>1. PICK m \in Views : SameView(n, m)
    BY DEF Still
  <1>2. Outlived(seg, erased, m)
    BY DEF Buried, Still
  <1> QED BY <1>1, <1>2, OutlivedSame DEF SameView, Still

\* A number taken for a message means nothing that was deleted.
LEMMA RecordKeeping == ASSUME Harsh = {}, Inductive, Keeping, Record PROVE Keeping'
<1>1. TypeOK /\ Inductive' /\ TypeOK'
  BY RecordInductive DEF Inductive
<1>2. pc # "off" /\ pc' # "off"
  BY DEF Record, Begin, history, bounds, medium
<1>3. /\ seg' = seg /\ acked' = acked /\ erased' \subseteq erased /\ harm' = harm
      /\ next <= next' /\ disk.next <= disk'.next
  <2>1. disk'.next \in {disk.next, ram.next, next}
    BY <1>1 DEF TypeOK, Meta, Record, Begin, history, bounds, medium
  <2>2. next \in Nat /\ disk.next \in Nat /\ ram.next = disk.next /\ disk.next <= next
    BY <1>1, <1>2 DEF Keeping, Counting, TypeOK, Meta
  <2>3. next' \in {next, next + 1}
    BY DEF Record, Begin, history, bounds, medium
  <2>4. seg' = seg /\ acked' = acked /\ erased' \subseteq erased /\ harm' = harm
    BY DEF Record, Begin, history, bounds, medium
  <2> QED BY <2>1, <2>2, <2>3, <2>4
<1>4. /\ SameView(disk', disk) \/ SameView(disk', ram)
      /\ SameView(ram', disk) \/ SameView(ram', ram)
  BY <1>1 DEF SameView, TypeOK, Meta, Record, Begin, history, bounds, medium
<1>5. Still
  BY <1>2, <1>3, <1>4, ViewsOn DEF Still
<1>6. Turning'
  BY <1>1 DEF Keeping, Turning, Inductive, Settled, TypeOK, Meta, Record, Begin, history, bounds, medium
<1>7. Counting'
  BY <1>1, <1>3 DEF Keeping, Counting, Appending, TypeOK, Meta, Job, Record, Begin, history, bounds, medium
<1>8. Sealing'
  BY <1>1, <1>3 DEF Keeping, Sealing, Written, TypeOK, Meta, Job, Record, Begin, history, bounds, medium
<1>9. Landed'
  BY <1>1, <1>3 DEF Keeping, Landed, HasLanded, Written, TypeOK, Meta, Job, Record, Begin, history, bounds, medium
<1>10. Kept' /\ (harm' = "clear" => \A m \in Views' : m.state = "empty" => \A s \in acked' : s < disk'.next)
  BY <1>1, <1>2, <1>3, <1>5, StillKeeps DEF Keeping
<1>11. Warned'
  BY <1>1, <1>3, <1>10 DEF Keeping, Warned, Kept, Views, TypeOK, Meta, Job, Record, Begin, history, bounds, medium
<1>12. Buried'
  BY <1>3, <1>5, StillBuries DEF Keeping
<1> QED BY <1>6, <1>7, <1>8, <1>9, <1>10, <1>11, <1>12 DEF Keeping

\* Nor does the number of a deletion.
LEMMA EraseKeeping == ASSUME Harsh = {}, Inductive, Keeping, Erase PROVE Keeping'
<1>1. TypeOK /\ Inductive' /\ TypeOK'
  BY EraseInductive DEF Inductive
<1>2. pc # "off" /\ pc' # "off"
  BY DEF Erase, Begin, history, bounds, medium
<1>3. /\ seg' = seg /\ acked' = acked /\ erased' \subseteq erased /\ harm' = harm
      /\ next <= next' /\ disk.next <= disk'.next
  <2>1. disk'.next \in {disk.next, ram.next, next}
    BY <1>1 DEF TypeOK, Meta, Erase, Begin, history, bounds, medium
  <2>2. next \in Nat /\ disk.next \in Nat /\ ram.next = disk.next /\ disk.next <= next
    BY <1>1, <1>2 DEF Keeping, Counting, TypeOK, Meta
  <2>3. next' \in {next, next + 1}
    BY DEF Erase, Begin, history, bounds, medium
  <2>4. seg' = seg /\ acked' = acked /\ erased' \subseteq erased /\ harm' = harm
    BY DEF Erase, Begin, history, bounds, medium
  <2> QED BY <2>1, <2>2, <2>3, <2>4
<1>4. /\ SameView(disk', disk) \/ SameView(disk', ram)
      /\ SameView(ram', disk) \/ SameView(ram', ram)
  BY <1>1 DEF SameView, TypeOK, Meta, Erase, Begin, history, bounds, medium
<1>5. Still
  BY <1>2, <1>3, <1>4, ViewsOn DEF Still
<1>6. Turning'
  BY <1>1 DEF Keeping, Turning, Inductive, Settled, TypeOK, Meta, Erase, Begin, history, bounds, medium
<1>7a. job'.of \in Nat \ {0}
  <2>1. PICK of \in Pull(seg, ram) : Begin("erase", of)
    BY DEF Erase
  <2>2. PICK f \in ReadSince(seg, ram) : f.seq = of
    BY DEF Pull, Messages
  <2>3. PICK i \in Live(ram) : f \in Parsed(seg[i])
    BY DEF ReadSince
  <2>4. i \in Ring /\ \E k \in DOMAIN seg[i] : f = seg[i][k]
    BY <2>3, <1>1, LiveEnds DEF Parsed, TypeOK
  <2>5. of \in 1..MaxSeq
    BY <2>2, <2>4 DEF Keeping, Counting
  <2> QED BY <2>1, <2>5 DEF Begin
<1>7. Counting'
  BY <1>7a, <1>1, <1>3 DEF Keeping, Counting, Appending, TypeOK, Meta, Job, Erase, Begin, history, bounds, medium
<1>8. Sealing'
  BY <1>1, <1>3 DEF Keeping, Sealing, Written, TypeOK, Meta, Job, Erase, Begin, history, bounds, medium
<1>9. Landed'
  BY <1>1, <1>3 DEF Keeping, Landed, HasLanded, Written, TypeOK, Meta, Job, Erase, Begin, history, bounds, medium
<1>10. Kept' /\ (harm' = "clear" => \A m \in Views' : m.state = "empty" => \A s \in acked' : s < disk'.next)
  BY <1>1, <1>2, <1>3, <1>5, StillKeeps DEF Keeping
<1>11. Warned'
  BY <1>1, <1>3, <1>10 DEF Keeping, Warned, Kept, Views, TypeOK, Meta, Job, Erase, Begin, history, bounds, medium
<1>12. Buried'
  BY <1>3, <1>5, StillBuries DEF Keeping
<1> QED BY <1>6, <1>7, <1>8, <1>9, <1>10, <1>11, <1>12 DEF Keeping

\* Making up for a failed save moves nothing, and finds out where the append goes.
LEMMA RetryKeeping == ASSUME Harsh = {}, Inductive, Keeping, Retry PROVE Keeping'
<1>0. /\ RollStep \in {"mark", "dropTail", "openHead"}
      /\ RollStep = "mark" => ~sealed
      /\ RollStep = "dropTail" => After(ram.head) = ram.tail
      /\ RollStep = "openHead" => After(ram.head) # ram.tail
  BY DEF RollStep, NeedsRoll
<1>1. TypeOK /\ Inductive' /\ TypeOK'
  BY RetryInductive DEF Inductive
<1>2. pc # "off" /\ pc' # "off"
  BY <1>0 DEF Retry, Saved, Unsaved, Works, Fails, GoTo, Refuse, history, bounds
<1>3. /\ seg' = seg /\ acked' = acked /\ erased' \subseteq erased /\ harm' = harm
      /\ next <= next' /\ disk.next <= disk'.next
  <2>1. disk'.next \in {disk.next, ram.next, next}
    BY <1>1 DEF TypeOK, Meta, Retry, Saved, Unsaved, Works, Fails, GoTo, Refuse, history, bounds
  <2>2. next \in Nat /\ disk.next \in Nat /\ ram.next = disk.next /\ disk.next <= next
    BY <1>1, <1>2 DEF Keeping, Counting, TypeOK, Meta
  <2>3. next' \in {next, next + 1}
    BY DEF Retry, Saved, Unsaved, Works, Fails, GoTo, Refuse, history, bounds
  <2>4. seg' = seg /\ acked' = acked /\ erased' \subseteq erased /\ harm' = harm
    BY DEF Retry, Saved, Unsaved, Works, Fails, GoTo, Refuse, history, bounds
  <2> QED BY <2>1, <2>2, <2>3, <2>4
<1>4. /\ SameView(disk', disk) \/ SameView(disk', ram)
      /\ SameView(ram', disk) \/ SameView(ram', ram)
  BY <1>1 DEF SameView, TypeOK, Meta, Retry, Saved, Unsaved, Works, Fails, GoTo, Refuse, history, bounds
<1>5. Still
  BY <1>2, <1>3, <1>4, ViewsOn DEF Still
<1>6. Turning'
  BY <1>0, <1>1 DEF Keeping, Turning, Inductive, Settled, TypeOK, Meta, Retry, Saved, Unsaved, Works, Fails, GoTo, Refuse, history, bounds
<1>7. Counting'
  BY <1>1, <1>3 DEF Keeping, Counting, Appending, TypeOK, Meta, Job, Retry, Saved, Unsaved, Works, Fails, GoTo, Refuse, history, bounds
<1>8. Sealing'
  BY <1>0, <1>1, <1>3 DEF Keeping, Sealing, Written, TypeOK, Meta, Job, Retry, Saved, Unsaved, Works, Fails, GoTo, Refuse, history, bounds
<1>9. Landed'
  BY <1>0, <1>1, <1>3 DEF Keeping, Landed, HasLanded, Written, TypeOK, Meta, Job, Retry, Saved, Unsaved, Works, Fails, GoTo, Refuse, history, bounds
<1>10. Kept' /\ (harm' = "clear" => \A m \in Views' : m.state = "empty" => \A s \in acked' : s < disk'.next)
  BY <1>1, <1>2, <1>3, <1>5, StillKeeps DEF Keeping
<1>11. Warned'
  BY <1>0, <1>1, <1>3, <1>10 DEF Keeping, Warned, Kept, Views, TypeOK, Meta, Job, Retry, Saved, Unsaved, Works, Fails, GoTo, Refuse, history, bounds
<1>12. Buried'
  BY <1>3, <1>5, StillBuries DEF Keeping
<1> QED BY <1>6, <1>7, <1>8, <1>9, <1>10, <1>11, <1>12 DEF Keeping

\* Once saved, the roll is what a restart sees.
LEMMA SaveRollKeeping == ASSUME Harsh = {}, Inductive, Keeping, SaveRoll PROVE Keeping'
<1>1. TypeOK /\ Inductive' /\ TypeOK'
  BY SaveRollInductive DEF Inductive
<1>2. pc # "off" /\ pc' # "off"
  BY DEF SaveRoll, Saved, Unsaved, Works, Fails, GoTo, Refuse, history, bounds
<1>3. /\ seg' = seg /\ acked' = acked /\ erased' \subseteq erased /\ harm' = harm
      /\ next <= next' /\ disk.next <= disk'.next
  <2>1. disk'.next \in {disk.next, ram.next, next}
    BY <1>1 DEF TypeOK, Meta, SaveRoll, Saved, Unsaved, Works, Fails, GoTo, Refuse, history, bounds
  <2>2. next \in Nat /\ disk.next \in Nat /\ ram.next = disk.next /\ disk.next <= next
    BY <1>1, <1>2 DEF Keeping, Counting, TypeOK, Meta
  <2>3. next' \in {next, next + 1}
    BY DEF SaveRoll, Saved, Unsaved, Works, Fails, GoTo, Refuse, history, bounds
  <2>4. seg' = seg /\ acked' = acked /\ erased' \subseteq erased /\ harm' = harm
    BY DEF SaveRoll, Saved, Unsaved, Works, Fails, GoTo, Refuse, history, bounds
  <2> QED BY <2>1, <2>2, <2>3, <2>4
<1>4. /\ SameView(disk', disk) \/ SameView(disk', ram)
      /\ SameView(ram', disk) \/ SameView(ram', ram)
  BY <1>1 DEF SameView, TypeOK, Meta, SaveRoll, Saved, Unsaved, Works, Fails, GoTo, Refuse, history, bounds
<1>5. Still
  BY <1>2, <1>3, <1>4, ViewsOn DEF Still
<1>6. Turning'
  BY <1>1 DEF Keeping, Turning, Inductive, Settled, TypeOK, Meta, SaveRoll, Saved, Unsaved, Works, Fails, GoTo, Refuse, history, bounds
<1>7. Counting'
  BY <1>1, <1>3 DEF Keeping, Counting, Appending, TypeOK, Meta, Job, SaveRoll, Saved, Unsaved, Works, Fails, GoTo, Refuse, history, bounds
<1>8. Sealing'
  BY <1>1, <1>3 DEF Keeping, Sealing, Written, TypeOK, Meta, Job, SaveRoll, Saved, Unsaved, Works, Fails, GoTo, Refuse, history, bounds
<1>9. Landed'
  BY <1>1, <1>3 DEF Keeping, Landed, HasLanded, Written, TypeOK, Meta, Job, SaveRoll, Saved, Unsaved, Works, Fails, GoTo, Refuse, history, bounds
<1>10. Kept' /\ (harm' = "clear" => \A m \in Views' : m.state = "empty" => \A s \in acked' : s < disk'.next)
  BY <1>1, <1>2, <1>3, <1>5, StillKeeps DEF Keeping
<1>11. Warned'
  BY <1>1, <1>3, <1>10 DEF Keeping, Warned, Kept, Views, TypeOK, Meta, Job, SaveRoll, Saved, Unsaved, Works, Fails, GoTo, Refuse, history, bounds
<1>12. Buried'
  BY <1>3, <1>5, StillBuries DEF Keeping
<1> QED BY <1>6, <1>7, <1>8, <1>9, <1>10, <1>11, <1>12 DEF Keeping

\* The marker moves nothing.
LEMMA MarkKeeping == ASSUME Harsh = {}, Inductive, Keeping, Mark PROVE Keeping'
<1>1. TypeOK /\ Inductive' /\ TypeOK'
  BY MarkInductive DEF Inductive
<1>2. pc # "off" /\ pc' # "off"
  BY DEF Mark, Claim, Saved, Unsaved, Works, Fails, GoTo, Refuse, history, bounds
<1>3. /\ seg' = seg /\ acked' = acked /\ erased' \subseteq erased /\ harm' = harm
      /\ next <= next' /\ disk.next <= disk'.next
  <2>1. disk'.next \in {disk.next, ram.next, next}
    BY <1>1 DEF TypeOK, Meta, Mark, Claim, Saved, Unsaved, Works, Fails, GoTo, Refuse, history, bounds
  <2>2. next \in Nat /\ disk.next \in Nat /\ ram.next = disk.next /\ disk.next <= next
    BY <1>1, <1>2 DEF Keeping, Counting, TypeOK, Meta
  <2>3. next' \in {next, next + 1}
    BY DEF Mark, Claim, Saved, Unsaved, Works, Fails, GoTo, Refuse, history, bounds
  <2>4. seg' = seg /\ acked' = acked /\ erased' \subseteq erased /\ harm' = harm
    BY DEF Mark, Claim, Saved, Unsaved, Works, Fails, GoTo, Refuse, history, bounds
  <2> QED BY <2>1, <2>2, <2>3, <2>4
<1>4. /\ SameView(disk', disk) \/ SameView(disk', ram)
      /\ SameView(ram', disk) \/ SameView(ram', ram)
  BY <1>1 DEF SameView, TypeOK, Meta, Mark, Claim, Saved, Unsaved, Works, Fails, GoTo, Refuse, history, bounds
<1>5. Still
  BY <1>2, <1>3, <1>4, ViewsOn DEF Still
<1>6. Turning'
  BY <1>1 DEF Keeping, Turning, Inductive, Settled, TypeOK, Meta, Mark, Claim, Saved, Unsaved, Works, Fails, GoTo, Refuse, history, bounds
<1>7. Counting'
  BY <1>1, <1>3 DEF Keeping, Counting, Appending, TypeOK, Meta, Job, Mark, Claim, Saved, Unsaved, Works, Fails, GoTo, Refuse, history, bounds
<1>8. Sealing'
  BY <1>1, <1>3 DEF Keeping, Sealing, Written, TypeOK, Meta, Job, Mark, Claim, Saved, Unsaved, Works, Fails, GoTo, Refuse, history, bounds
<1>9. Landed'
  BY <1>1, <1>3 DEF Keeping, Landed, HasLanded, Written, TypeOK, Meta, Job, Mark, Claim, Saved, Unsaved, Works, Fails, GoTo, Refuse, history, bounds
<1>10. Kept' /\ (harm' = "clear" => \A m \in Views' : m.state = "empty" => \A s \in acked' : s < disk'.next)
  BY <1>1, <1>2, <1>3, <1>5, StillKeeps DEF Keeping
<1>11. Warned'
  BY <1>1, <1>3, <1>10 DEF Keeping, Warned, Kept, Views, TypeOK, Meta, Job, Mark, Claim, Saved, Unsaved, Works, Fails, GoTo, Refuse, history, bounds
<1>12. Buried'
  BY <1>3, <1>5, StillBuries DEF Keeping
<1> QED BY <1>6, <1>7, <1>8, <1>9, <1>10, <1>11, <1>12 DEF Keeping

\* Nor does its resolution.
LEMMA ResolveKeeping == ASSUME Harsh = {}, Inductive, Keeping, Resolve PROVE Keeping'
<1>1. TypeOK /\ Inductive' /\ TypeOK'
  BY ResolveInductive DEF Inductive
<1>2. pc # "off" /\ pc' # "off"
  BY DEF Resolve, Saved, Unsaved, Works, Fails, GoTo, history, bounds
<1>3. /\ seg' = seg /\ acked' = acked /\ erased' \subseteq erased /\ harm' = harm
      /\ next <= next' /\ disk.next <= disk'.next
  <2>1. disk'.next \in {disk.next, ram.next, next}
    BY <1>1 DEF TypeOK, Meta, Resolve, Saved, Unsaved, Works, Fails, GoTo, history, bounds
  <2>2. next \in Nat /\ disk.next \in Nat /\ ram.next = disk.next /\ disk.next <= next
    BY <1>1, <1>2 DEF Keeping, Counting, TypeOK, Meta
  <2>3. next' \in {next, next + 1}
    BY DEF Resolve, Saved, Unsaved, Works, Fails, GoTo, history, bounds
  <2>4. seg' = seg /\ acked' = acked /\ erased' \subseteq erased /\ harm' = harm
    BY DEF Resolve, Saved, Unsaved, Works, Fails, GoTo, history, bounds
  <2> QED BY <2>1, <2>2, <2>3, <2>4
<1>4. /\ SameView(disk', disk) \/ SameView(disk', ram)
      /\ SameView(ram', disk) \/ SameView(ram', ram)
  BY <1>1 DEF SameView, TypeOK, Meta, Resolve, Saved, Unsaved, Works, Fails, GoTo, history, bounds
<1>5. Still
  BY <1>2, <1>3, <1>4, ViewsOn DEF Still
<1>6. Turning'
  BY <1>1 DEF Keeping, Turning, Inductive, Settled, TypeOK, Meta, Resolve, Saved, Unsaved, Works, Fails, GoTo, history, bounds
<1>7. Counting'
  BY <1>1, <1>3 DEF Keeping, Counting, Appending, TypeOK, Meta, Job, Resolve, Saved, Unsaved, Works, Fails, GoTo, history, bounds
<1>8. Sealing'
  BY <1>1, <1>3 DEF Keeping, Sealing, Written, TypeOK, Meta, Job, Resolve, Saved, Unsaved, Works, Fails, GoTo, history, bounds
<1>9. Landed'
  BY <1>1, <1>3 DEF Keeping, Landed, HasLanded, Written, TypeOK, Meta, Job, Resolve, Saved, Unsaved, Works, Fails, GoTo, history, bounds
<1>10. Kept' /\ (harm' = "clear" => \A m \in Views' : m.state = "empty" => \A s \in acked' : s < disk'.next)
  BY <1>1, <1>2, <1>3, <1>5, StillKeeps DEF Keeping
<1>11. Warned'
  BY <1>1, <1>3, <1>10 DEF Keeping, Warned, Kept, Views, TypeOK, Meta, Job, Resolve, Saved, Unsaved, Works, Fails, GoTo, history, bounds
<1>12. Buried'
  BY <1>3, <1>5, StillBuries DEF Keeping
<1> QED BY <1>6, <1>7, <1>8, <1>9, <1>10, <1>11, <1>12 DEF Keeping

\* A tail that was saved is what a restart sees.
LEMMA SaveTailKeeping == ASSUME Harsh = {}, Inductive, Keeping, SaveTail PROVE Keeping'
<1>1. TypeOK /\ Inductive' /\ TypeOK'
  BY SaveTailInductive DEF Inductive
<1>2. pc # "off" /\ pc' # "off"
  BY DEF SaveTail, Saved, Unsaved, Works, Fails, GoTo, history, bounds
<1>3. /\ seg' = seg /\ acked' = acked /\ erased' \subseteq erased /\ harm' = harm
      /\ next <= next' /\ disk.next <= disk'.next
  <2>1. disk'.next \in {disk.next, ram.next, next}
    BY <1>1 DEF TypeOK, Meta, SaveTail, Saved, Unsaved, Works, Fails, GoTo, history, bounds
  <2>2. next \in Nat /\ disk.next \in Nat /\ ram.next = disk.next /\ disk.next <= next
    BY <1>1, <1>2 DEF Keeping, Counting, TypeOK, Meta
  <2>3. next' \in {next, next + 1}
    BY DEF SaveTail, Saved, Unsaved, Works, Fails, GoTo, history, bounds
  <2>4. seg' = seg /\ acked' = acked /\ erased' \subseteq erased /\ harm' = harm
    BY DEF SaveTail, Saved, Unsaved, Works, Fails, GoTo, history, bounds
  <2> QED BY <2>1, <2>2, <2>3, <2>4
<1>4. /\ SameView(disk', disk) \/ SameView(disk', ram)
      /\ SameView(ram', disk) \/ SameView(ram', ram)
  BY <1>1 DEF SameView, TypeOK, Meta, SaveTail, Saved, Unsaved, Works, Fails, GoTo, history, bounds
<1>5. Still
  BY <1>2, <1>3, <1>4, ViewsOn DEF Still
<1>6. Turning'
  BY <1>1 DEF Keeping, Turning, Inductive, Settled, TypeOK, Meta, SaveTail, Saved, Unsaved, Works, Fails, GoTo, history, bounds
<1>7. Counting'
  BY <1>1, <1>3 DEF Keeping, Counting, Appending, TypeOK, Meta, Job, SaveTail, Saved, Unsaved, Works, Fails, GoTo, history, bounds
<1>8. Sealing'
  BY <1>1, <1>3 DEF Keeping, Sealing, Written, TypeOK, Meta, Job, SaveTail, Saved, Unsaved, Works, Fails, GoTo, history, bounds
<1>9. Landed'
  BY <1>1, <1>3 DEF Keeping, Landed, HasLanded, Written, TypeOK, Meta, Job, SaveTail, Saved, Unsaved, Works, Fails, GoTo, history, bounds
<1>10. Kept' /\ (harm' = "clear" => \A m \in Views' : m.state = "empty" => \A s \in acked' : s < disk'.next)
  BY <1>1, <1>2, <1>3, <1>5, StillKeeps DEF Keeping
<1>11. Warned'
  BY <1>1, <1>3, <1>10 DEF Keeping, Warned, Kept, Views, TypeOK, Meta, Job, SaveTail, Saved, Unsaved, Works, Fails, GoTo, history, bounds
<1>12. Buried'
  BY <1>3, <1>5, StillBuries DEF Keeping
<1> QED BY <1>6, <1>7, <1>8, <1>9, <1>10, <1>11, <1>12 DEF Keeping

\* A flush saves the counter and moves nothing.
LEMMA FlushKeeping == ASSUME Harsh = {}, Inductive, Keeping, Flush PROVE Keeping'
<1>1. TypeOK /\ Inductive' /\ TypeOK'
  BY FlushInductive DEF Inductive
<1>2. pc # "off" /\ pc' # "off"
  BY DEF Flush, Persist, PersistFails, Saved, Unsaved, Works, Fails, history, bounds
<1>3. /\ seg' = seg /\ acked' = acked /\ erased' \subseteq erased /\ harm' = harm
      /\ next <= next' /\ disk.next <= disk'.next
  <2>1. disk'.next \in {disk.next, ram.next, next}
    BY <1>1 DEF TypeOK, Meta, Flush, Persist, PersistFails, Saved, Unsaved, Works, Fails, history, bounds
  <2>2. next \in Nat /\ disk.next \in Nat /\ ram.next = disk.next /\ disk.next <= next
    BY <1>1, <1>2 DEF Keeping, Counting, TypeOK, Meta
  <2>3. next' \in {next, next + 1}
    BY DEF Flush, Persist, PersistFails, Saved, Unsaved, Works, Fails, history, bounds
  <2>4. seg' = seg /\ acked' = acked /\ erased' \subseteq erased /\ harm' = harm
    BY DEF Flush, Persist, PersistFails, Saved, Unsaved, Works, Fails, history, bounds
  <2> QED BY <2>1, <2>2, <2>3, <2>4
<1>4. /\ SameView(disk', disk) \/ SameView(disk', ram)
      /\ SameView(ram', disk) \/ SameView(ram', ram)
  BY <1>1 DEF SameView, TypeOK, Meta, Flush, Persist, PersistFails, Saved, Unsaved, Works, Fails, history, bounds
<1>5. Still
  BY <1>2, <1>3, <1>4, ViewsOn DEF Still
<1>6. Turning'
  BY <1>1 DEF Keeping, Turning, Inductive, Settled, TypeOK, Meta, Flush, Persist, PersistFails, Saved, Unsaved, Works, Fails, history, bounds
<1>7. Counting'
  BY <1>1, <1>3 DEF Keeping, Counting, Appending, TypeOK, Meta, Job, Flush, Persist, PersistFails, Saved, Unsaved, Works, Fails, history, bounds
<1>8. Sealing'
  BY <1>1, <1>3 DEF Keeping, Sealing, Written, TypeOK, Meta, Job, Flush, Persist, PersistFails, Saved, Unsaved, Works, Fails, history, bounds
<1>9. Landed'
  BY <1>1, <1>3 DEF Keeping, Landed, HasLanded, Written, TypeOK, Meta, Job, Flush, Persist, PersistFails, Saved, Unsaved, Works, Fails, history, bounds
<1>10. Kept' /\ (harm' = "clear" => \A m \in Views' : m.state = "empty" => \A s \in acked' : s < disk'.next)
  BY <1>1, <1>2, <1>3, <1>5, StillKeeps DEF Keeping
<1>11. Warned'
  BY <1>1, <1>3, <1>10 DEF Keeping, Warned, Kept, Views, TypeOK, Meta, Job, Flush, Persist, PersistFails, Saved, Unsaved, Works, Fails, history, bounds
<1>12. Buried'
  BY <1>3, <1>5, StillBuries DEF Keeping
<1> QED BY <1>6, <1>7, <1>8, <1>9, <1>10, <1>11, <1>12 DEF Keeping

\* A clear saves the counter before it destroys anything.
LEMMA ClearKeeping == ASSUME Harsh = {}, Inductive, Keeping, Clear PROVE Keeping'
<1>1. TypeOK /\ Inductive' /\ TypeOK'
  BY ClearInductive DEF Inductive
<1>2. pc # "off" /\ pc' # "off"
  BY DEF Clear, Persist, PersistFails, Saved, Unsaved, NoJob, Works, Fails, history, bounds
<1>3. /\ seg' = seg /\ acked' = acked /\ erased' \subseteq erased /\ harm' = harm
      /\ next <= next' /\ disk.next <= disk'.next
  <2>1. disk'.next \in {disk.next, ram.next, next}
    BY <1>1 DEF TypeOK, Meta, Clear, Persist, PersistFails, Saved, Unsaved, NoJob, Works, Fails, history, bounds
  <2>2. next \in Nat /\ disk.next \in Nat /\ ram.next = disk.next /\ disk.next <= next
    BY <1>1, <1>2 DEF Keeping, Counting, TypeOK, Meta
  <2>3. next' \in {next, next + 1}
    BY DEF Clear, Persist, PersistFails, Saved, Unsaved, NoJob, Works, Fails, history, bounds
  <2>4. seg' = seg /\ acked' = acked /\ erased' \subseteq erased /\ harm' = harm
    BY DEF Clear, Persist, PersistFails, Saved, Unsaved, NoJob, Works, Fails, history, bounds
  <2> QED BY <2>1, <2>2, <2>3, <2>4
<1>4. /\ SameView(disk', disk) \/ SameView(disk', ram)
      /\ SameView(ram', disk) \/ SameView(ram', ram)
  BY <1>1 DEF SameView, TypeOK, Meta, Clear, Persist, PersistFails, Saved, Unsaved, NoJob, Works, Fails, history, bounds
<1>5. Still
  BY <1>2, <1>3, <1>4, ViewsOn DEF Still
<1>6. Turning'
  BY <1>1 DEF Keeping, Turning, Inductive, Settled, TypeOK, Meta, Clear, Persist, PersistFails, Saved, Unsaved, NoJob, Works, Fails, history, bounds
<1>7. Counting'
  BY <1>1, <1>3 DEF Keeping, Counting, Appending, TypeOK, Meta, Job, Clear, Persist, PersistFails, Saved, Unsaved, NoJob, Works, Fails, history, bounds
<1>8a. pc' = "wipe" => job'.at = 0 /\ job'.op = "clear" /\ disk'.next = next
  BY <1>1, JobUpdates DEF TypeOK, Meta, Clear, Persist, PersistFails, Saved, Unsaved
<1>8. Sealing'
  <2>1. pc = "rest" /\ pc' \in {"rest", "wipe"} /\ ram'.head = ram.head /\ sealed' = sealed
    BY <1>1 DEF Clear, Persist, PersistFails, Saved, Unsaved, TypeOK, Meta
  <2>2. Torn(seg'[ram'.head]) => sealed'
    BY <2>1, <1>3 DEF Keeping, Sealing
  <2>3. pc' = "wipe" => \A i \in 0..(job'.at - 1) : FALSE
    BY <1>8a
  <2> QED BY <2>1, <2>2, <2>3 DEF Sealing
<1>9. Landed'
  BY <1>1, <1>3 DEF Keeping, Landed, HasLanded, Written, TypeOK, Meta, Job, Clear, Persist, PersistFails, Saved, Unsaved, NoJob, Works, Fails, history, bounds
<1>10. Kept' /\ (harm' = "clear" => \A m \in Views' : m.state = "empty" => \A s \in acked' : s < disk'.next)
  BY <1>1, <1>2, <1>3, <1>5, StillKeeps DEF Keeping
<1>11. Warned'
  <2>1. pc' = "wipe" => job'.at = 0 /\ (harm' # "wipe" => \A s \in acked' : s < disk'.next)
    BY <1>8a, <1>2, <1>3 DEF Keeping, Kept
  <2> QED BY <2>1, <1>1, <1>10 DEF Warned, TypeOK, Job
<1>12. Buried'
  BY <1>3, <1>5, StillBuries DEF Keeping
<1> QED BY <1>6, <1>7, <1>8, <1>9, <1>10, <1>11, <1>12 DEF Keeping

\* The start of a wipe destroys nothing.
LEMMA WipeKeeping == ASSUME Harsh = {}, Inductive, Keeping, Wipe PROVE Keeping'
<1>1. TypeOK /\ Inductive' /\ TypeOK'
  BY WipeInductive DEF Inductive
<1>2. pc # "off" /\ pc' # "off"
  BY DEF Wipe, NoJob, medium, core, history, bounds
<1>3. /\ seg' = seg /\ acked' = acked /\ erased' \subseteq erased /\ harm' = harm
      /\ next <= next' /\ disk.next <= disk'.next
  <2>1. disk'.next \in {disk.next, ram.next, next}
    BY <1>1 DEF TypeOK, Meta, Wipe, NoJob, medium, core, history, bounds
  <2>2. next \in Nat /\ disk.next \in Nat /\ ram.next = disk.next /\ disk.next <= next
    BY <1>1, <1>2 DEF Keeping, Counting, TypeOK, Meta
  <2>3. next' \in {next, next + 1}
    BY DEF Wipe, NoJob, medium, core, history, bounds
  <2>4. seg' = seg /\ acked' = acked /\ erased' \subseteq erased /\ harm' = harm
    BY DEF Wipe, NoJob, medium, core, history, bounds
  <2> QED BY <2>1, <2>2, <2>3, <2>4
<1>4. /\ SameView(disk', disk) \/ SameView(disk', ram)
      /\ SameView(ram', disk) \/ SameView(ram', ram)
  BY <1>1 DEF SameView, TypeOK, Meta, Wipe, NoJob, medium, core, history, bounds
<1>5. Still
  BY <1>2, <1>3, <1>4, ViewsOn DEF Still
<1>6. Turning'
  BY <1>1 DEF Keeping, Turning, Inductive, Settled, TypeOK, Meta, Wipe, NoJob, medium, core, history, bounds
<1>7. Counting'
  BY <1>1, <1>3 DEF Keeping, Counting, Appending, TypeOK, Meta, Job, Wipe, NoJob, medium, core, history, bounds
<1>8. Sealing'
  BY <1>1, <1>3 DEF Keeping, Sealing, Written, TypeOK, Meta, Job, Wipe, NoJob, medium, core, history, bounds
<1>9. Landed'
  BY <1>1, <1>3 DEF Keeping, Landed, HasLanded, Written, TypeOK, Meta, Job, Wipe, NoJob, medium, core, history, bounds
<1>10. Kept' /\ (harm' = "clear" => \A m \in Views' : m.state = "empty" => \A s \in acked' : s < disk'.next)
  BY <1>1, <1>2, <1>3, <1>5, StillKeeps DEF Keeping
<1>11. Warned'
  BY <1>1, <1>3, <1>10 DEF Keeping, Warned, Kept, Views, TypeOK, Meta, Job, Wipe, NoJob, medium, core, history, bounds
<1>12. Buried'
  BY <1>3, <1>5, StillBuries DEF Keeping
<1> QED BY <1>6, <1>7, <1>8, <1>9, <1>10, <1>11, <1>12 DEF Keeping

\* The cursor is reset without moving anything.
LEMMA ResetCursorKeeping == ASSUME Harsh = {}, Inductive, Keeping, ResetCursor PROVE Keeping'
<1>1. TypeOK /\ Inductive' /\ TypeOK'
  BY ResetCursorInductive DEF Inductive
<1>2. pc # "off" /\ pc' # "off"
  BY DEF ResetCursor, NoJob, Saved, Unsaved, Works, Fails, history, bounds
<1>3. /\ seg' = seg /\ acked' = acked /\ erased' \subseteq erased /\ harm' = harm
      /\ next <= next' /\ disk.next <= disk'.next
  <2>1. disk'.next \in {disk.next, ram.next, next}
    BY <1>1 DEF TypeOK, Meta, ResetCursor, NoJob, Saved, Unsaved, Works, Fails, history, bounds
  <2>2. next \in Nat /\ disk.next \in Nat /\ ram.next = disk.next /\ disk.next <= next
    BY <1>1, <1>2 DEF Keeping, Counting, TypeOK, Meta
  <2>3. next' \in {next, next + 1}
    BY DEF ResetCursor, NoJob, Saved, Unsaved, Works, Fails, history, bounds
  <2>4. seg' = seg /\ acked' = acked /\ erased' \subseteq erased /\ harm' = harm
    BY DEF ResetCursor, NoJob, Saved, Unsaved, Works, Fails, history, bounds
  <2> QED BY <2>1, <2>2, <2>3, <2>4
<1>4. /\ SameView(disk', disk) \/ SameView(disk', ram)
      /\ SameView(ram', disk) \/ SameView(ram', ram)
  BY <1>1 DEF SameView, TypeOK, Meta, ResetCursor, NoJob, Saved, Unsaved, Works, Fails, history, bounds
<1>5. Still
  BY <1>2, <1>3, <1>4, ViewsOn DEF Still
<1>6. Turning'
  BY <1>1 DEF Keeping, Turning, Inductive, Settled, TypeOK, Meta, ResetCursor, NoJob, Saved, Unsaved, Works, Fails, history, bounds
<1>7. Counting'
  BY <1>1, <1>3 DEF Keeping, Counting, Appending, TypeOK, Meta, Job, ResetCursor, NoJob, Saved, Unsaved, Works, Fails, history, bounds
<1>8. Sealing'
  BY <1>1, <1>3 DEF Keeping, Sealing, Written, TypeOK, Meta, Job, ResetCursor, NoJob, Saved, Unsaved, Works, Fails, history, bounds
<1>9. Landed'
  BY <1>1, <1>3 DEF Keeping, Landed, HasLanded, Written, TypeOK, Meta, Job, ResetCursor, NoJob, Saved, Unsaved, Works, Fails, history, bounds
<1>10. Kept' /\ (harm' = "clear" => \A m \in Views' : m.state = "empty" => \A s \in acked' : s < disk'.next)
  BY <1>1, <1>2, <1>3, <1>5, StillKeeps DEF Keeping
<1>11. Warned'
  BY <1>1, <1>3, <1>10 DEF Keeping, Warned, Kept, Views, TypeOK, Meta, Job, ResetCursor, NoJob, Saved, Unsaved, Works, Fails, history, bounds
<1>12. Buried'
  BY <1>3, <1>5, StillBuries DEF Keeping
<1> QED BY <1>6, <1>7, <1>8, <1>9, <1>10, <1>11, <1>12 DEF Keeping

\* Nor is it when it is set.
LEMMA MarkReadKeeping ==
  ASSUME Harsh = {}, Inductive, Keeping, NEW c \in Cursors, MarkRead(c)
  PROVE  Keeping'
<1>1. TypeOK /\ Inductive' /\ TypeOK'
  BY MarkReadInductive DEF Inductive
<1>2. pc # "off" /\ pc' # "off"
  BY DEF MarkRead, Saved, Unsaved, Works, Fails, history, bounds
<1>3. /\ seg' = seg /\ acked' = acked /\ erased' \subseteq erased /\ harm' = harm
      /\ next <= next' /\ disk.next <= disk'.next
  <2>1. disk'.next \in {disk.next, ram.next, next}
    BY <1>1 DEF TypeOK, Meta, MarkRead, Saved, Unsaved, Works, Fails, history, bounds
  <2>2. next \in Nat /\ disk.next \in Nat /\ ram.next = disk.next /\ disk.next <= next
    BY <1>1, <1>2 DEF Keeping, Counting, TypeOK, Meta
  <2>3. next' \in {next, next + 1}
    BY DEF MarkRead, Saved, Unsaved, Works, Fails, history, bounds
  <2>4. seg' = seg /\ acked' = acked /\ erased' \subseteq erased /\ harm' = harm
    BY DEF MarkRead, Saved, Unsaved, Works, Fails, history, bounds
  <2> QED BY <2>1, <2>2, <2>3, <2>4
<1>4. /\ SameView(disk', disk) \/ SameView(disk', ram)
      /\ SameView(ram', disk) \/ SameView(ram', ram)
  BY <1>1 DEF SameView, TypeOK, Meta, MarkRead, Saved, Unsaved, Works, Fails, history, bounds
<1>5. Still
  BY <1>2, <1>3, <1>4, ViewsOn DEF Still
<1>6. Turning'
  BY <1>1 DEF Keeping, Turning, Inductive, Settled, TypeOK, Meta, MarkRead, Saved, Unsaved, Works, Fails, history, bounds
<1>7. Counting'
  BY <1>1, <1>3 DEF Keeping, Counting, Appending, TypeOK, Meta, Job, MarkRead, Saved, Unsaved, Works, Fails, history, bounds
<1>8. Sealing'
  BY <1>1, <1>3 DEF Keeping, Sealing, Written, TypeOK, Meta, Job, MarkRead, Saved, Unsaved, Works, Fails, history, bounds
<1>9. Landed'
  BY <1>1, <1>3 DEF Keeping, Landed, HasLanded, Written, TypeOK, Meta, Job, MarkRead, Saved, Unsaved, Works, Fails, history, bounds
<1>10. Kept' /\ (harm' = "clear" => \A m \in Views' : m.state = "empty" => \A s \in acked' : s < disk'.next)
  BY <1>1, <1>2, <1>3, <1>5, StillKeeps DEF Keeping
<1>11. Warned'
  BY <1>1, <1>3, <1>10 DEF Keeping, Warned, Kept, Views, TypeOK, Meta, Job, MarkRead, Saved, Unsaved, Works, Fails, history, bounds
<1>12. Buried'
  BY <1>3, <1>5, StillBuries DEF Keeping
<1> QED BY <1>6, <1>7, <1>8, <1>9, <1>10, <1>11, <1>12 DEF Keeping

\* A power cut leaves what is on the media.
LEMMA PowerCutKeeping == ASSUME Harsh = {}, Inductive, Keeping, PowerCut PROVE Keeping'
<1>1. TypeOK /\ Inductive' /\ TypeOK'
  BY PowerCutInductive DEF Inductive
<1>2. pc # "off" /\ pc' = "off" /\ seg' = seg /\ disk' = disk /\ acked' = acked /\ erased' = erased /\ harm' = harm
  BY DEF PowerCut, medium, history
<1>3. Still
  <2>1. Views' = {disk} /\ disk \in Views /\ SameView(disk, disk)
    BY <1>2 DEF Views, SameView
  <2>2. disk.next <= disk'.next
    BY <1>1, <1>2 DEF TypeOK, Meta
  <2> QED BY <2>1, <2>2, <1>2 DEF Still
<1>4. Kept' /\ (harm' = "clear" => \A m \in Views' : m.state = "empty" => \A s \in acked' : s < disk'.next)
  BY <1>1, <1>2, <1>3, StillKeeps DEF Keeping
<1>5. Buried'
  BY <1>2, <1>3, StillBuries DEF Keeping
<1>6. Turning' /\ Counting' /\ Sealing' /\ Landed'
  BY <1>2 DEF Keeping, Turning, Counting, Sealing, Landed, HasLanded, Appending
<1>7. Warned'
  BY <1>2, <1>4 DEF Warned
<1> QED BY <1>4, <1>5, <1>6, <1>7 DEF Keeping

\* A message is reported as stored only when it can be read, before and after a
\* restart.
LEMMA AcknowledgeKeeping == ASSUME Harsh = {}, Inductive, Keeping, Acknowledge PROVE Keeping'
<1>1. TypeOK /\ Inductive' /\ TypeOK'
  BY AcknowledgeInductive DEF Inductive
<1>2. /\ pc = "acknowledge" /\ pc' = "batch" /\ seg' = seg /\ disk' = disk /\ ram' = ram /\ next' = next
      /\ sealed' = sealed /\ job' = job /\ erased' = erased /\ harm' = harm
      /\ acked' = IF job.op = "record" THEN acked \cup {job.seq} ELSE acked
  BY DEF Acknowledge, GoTo, medium, core
<1>3. Views' = Views /\ Views = {disk, ram}
  BY <1>2 DEF Views
<1>4. Written \in Parsed(seg[ram.head]) /\ disk.head = ram.head
  BY <1>2 DEF Keeping, Landed, HasLanded
<1>5. job.op = "record" => job.of = 0 /\ job.seq < next
  BY <1>2 DEF Keeping, Counting, Appending
<1>6. job.op = "record" => \A m \in Views : job.seq \in Messages(ReadSince(seg, m))
  <2> SUFFICES ASSUME job.op = "record", NEW m \in Views PROVE job.seq \in Messages(ReadSince(seg, m))
    OBVIOUS
  <2>1. m \in Meta /\ m.head = ram.head
    BY <1>1, <1>3, <1>4 DEF TypeOK
  <2>2. m.head \in Live(m)
    BY <2>1, LiveEnds
  <2>3. Written.of = 0 /\ Written.seq = job.seq
    BY <1>5 DEF Written
  <2> QED BY <1>4, <2>1, <2>2, <2>3, MessageIs
<1>7. Kept'
  <2>1. ASSUME harm \in {"none", "clear"}, NEW m \in Views, NEW s \in acked'
        PROVE  s \in Messages(ReadSince(seg, m)) \/ (harm = "clear" /\ s < disk.next)
    BY <2>1, <1>2, <1>6 DEF Keeping, Kept, Excused
  <2>2. ASSUME harm # "wipe", NEW s \in acked' PROVE s < next
    BY <2>2, <1>2, <1>5 DEF Keeping, Kept
  <2> QED BY <2>1, <2>2, <1>2, <1>3 DEF Kept, Excused
<1>8. Buried'
  BY <1>2, <1>3 DEF Keeping, Buried
<1>9. Turning'
  BY <1>2 DEF Turning
<1>10. Counting'
  BY <1>2 DEF Keeping, Counting, Appending
<1>11. Sealing'
  BY <1>2 DEF Keeping, Sealing
<1>12. Landed'
  BY <1>2, <1>4 DEF Landed, Written
<1>13. Warned'
  <2>1. \A m \in Views : m.state # "empty"
    BY <1>2, <1>3 DEF Inductive, Settled
  <2> QED BY <2>1, <1>2, <1>3 DEF Warned
<1> QED BY <1>7, <1>8, <1>9, <1>10, <1>11, <1>12, <1>13 DEF Keeping

\* A deletion is reported as done only when its record outlives the message.
LEMMA CountKeeping == ASSUME Harsh = {}, Inductive, Keeping, Count PROVE Keeping'
<1>1. TypeOK /\ Inductive' /\ TypeOK'
  BY CountInductive DEF Inductive
<1>2. pc = "batch" /\ pc' = "rest" /\ seg' = seg /\ acked' = acked /\ harm' = harm /\ next' = next /\ sealed' = sealed
  BY DEF Count
<1>3. /\ erased' = erased \/ (job.op = "erase" /\ job.ok /\ erased' = erased \cup {job.of})
      /\ disk'.next \in {disk.next, ram.next, next} /\ ram'.next = disk'.next
  <2>1. ram.next = disk.next
    BY <1>2 DEF Keeping, Counting
  <2> QED BY <1>1, <2>1 DEF Count, Persist, PersistFails, Saved, Unsaved, TypeOK, Meta
<1>4. next \in Nat /\ disk.next \in Nat /\ ram.next = disk.next /\ disk.next <= next /\ 0 < next
  BY <1>1, <1>2 DEF Keeping, Counting, TypeOK, Meta
<1>5. /\ SameView(disk', disk) \/ SameView(disk', ram)
      /\ SameView(ram', disk) \/ SameView(ram', ram)
  BY <1>1 DEF Count, Persist, PersistFails, Saved, Unsaved, SameView, TypeOK, Meta
<1>6. Still
  BY <1>2, <1>3, <1>4, <1>5, ViewsOn DEF Still
<1>7. Kept' /\ (harm' = "clear" => \A m \in Views' : m.state = "empty" => \A s \in acked' : s < disk'.next)
  BY <1>1, <1>2, <1>4, <1>6, StillKeeps DEF Keeping
<1>8. Buried'
  <2> SUFFICES ASSUME harm' = "none", NEW n \in Views' PROVE Outlived(seg', erased', n)
    BY DEF Buried
  <2>1. PICK m \in Views : SameView(n, m)
    BY <1>6 DEF Still
  <2>2. Outlived(seg, erased, m) /\ m \in Meta
    BY <1>1, <1>2 DEF Keeping, Buried, Views, TypeOK
  <2>3. Outlived(seg, erased', m)
    <3>1. CASE job.op = "erase" /\ job.ok /\ erased' = erased \cup {job.of}
      <4>1. Written \in Parsed(seg[ram.head]) /\ disk.head = ram.head
        BY <1>2, <3>1 DEF Keeping, Landed, HasLanded
      <4>2. m.head = ram.head
        BY <4>1 DEF Views
      <4>3. \E g \in Parsed(seg[m.head]) : g.of = job.of
        BY <4>1, <4>2 DEF Written
      <4> QED BY <2>2, <3>1, <4>3, OutlivedHead
    <3> QED BY <3>1, <1>3, <2>2
  <2> QED BY <2>1, <2>3, <1>2, OutlivedSame DEF SameView
<1>9. Turning'
  BY <1>2 DEF Turning
<1>10. Counting'
  BY <1>2, <1>3, <1>4 DEF Keeping, Counting, Appending
<1>11. Sealing'
  <2>1. ram'.head = ram.head
    BY <1>1 DEF Count, Persist, PersistFails, Saved, Unsaved, TypeOK, Meta
  <2> QED BY <2>1, <1>2 DEF Keeping, Sealing
<1>12. Landed'
  BY <1>2 DEF Landed, HasLanded
<1>13. Warned'
  BY <1>2, <1>7 DEF Warned
<1> QED BY <1>7, <1>8, <1>9, <1>10, <1>11, <1>12, <1>13 DEF Keeping

\* The record under way, whole and torn.
LEMMA WrittenIs ==
  ASSUME TypeOK
  PROVE  /\ Written \in Frame /\ [Written EXCEPT !.whole = FALSE] \in Frame
         /\ [Written EXCEPT !.whole = FALSE] = [seq |-> job.seq, of |-> job.of, whole |-> FALSE]
         /\ [[Written EXCEPT !.whole = FALSE] EXCEPT !.whole = TRUE] = Written
         /\ ~[Written EXCEPT !.whole = FALSE].whole
  <1> DEFINE w == Written
             t == [w EXCEPT !.whole = FALSE]
             u == [seq |-> job.seq, of |-> job.of, whole |-> FALSE]
  <1>1. /\ w \in Frame /\ w.seq = job.seq /\ w.of = job.of /\ w.whole = TRUE
        /\ u \in Frame /\ u.seq = job.seq /\ u.of = job.of /\ u.whole = FALSE
    BY JobUpdates DEF TypeOK, Frame, Written
  <1> HIDE DEF w, u
  <1>2. t \in Frame /\ t.seq = w.seq /\ t.of = w.of /\ t.whole = FALSE
    BY <1>1 DEF Frame
  <1>3. t = u
    BY <1>1, <1>2 DEF Frame
  <1> HIDE DEF t
  <1>4. [t EXCEPT !.whole = TRUE] \in Frame
    BY <1>2 DEF Frame
  <1>5. [t EXCEPT !.whole = TRUE] = w
    BY <1>1, <1>2, <1>4 DEF Frame
  <1> QED BY <1>1, <1>2, <1>3, <1>5 DEF t, u, w

\* A header, whole or not, hides nothing that could be read.
LEMMA HeaderKeeping == ASSUME Harsh = {}, Inductive, Keeping, Header PROVE Keeping'
<1>1. TypeOK /\ Inductive' /\ TypeOK' /\ seg \in [Ring -> Seq(Frame)] /\ ram.head \in Ring
  BY HeaderInductive DEF Inductive, TypeOK, Meta
<1>2. /\ pc = "header" /\ disk' = disk /\ ram' = ram /\ next' = next
      /\ acked' = acked /\ erased' = erased /\ harm' = harm
      /\ job'.seq = job.seq /\ job'.of = job.of /\ job'.op = job.op
      /\ \/ pc' = "body" /\ Put(FALSE) /\ sealed' = sealed
         \/ pc' = "batch" /\ ~job'.ok /\ Put(FALSE) /\ sealed'
         \/ pc' = "batch" /\ ~job'.ok /\ seg' = seg /\ sealed' = sealed
  BY <1>1 DEF Header, Tear, Works, Fails, GoTo, Refuse, history, bounds, TypeOK, Job
<1>3. ~sealed /\ ~Torn(seg[ram.head])
  BY <1>2 DEF Keeping, Sealing
<1> DEFINE f == [seq |-> job.seq, of |-> job.of, whole |-> FALSE]
           q == seg[ram.head]
<1>4. f \in Frame /\ ~f.whole /\ q \in Seq(Frame) /\ f.seq = job.seq
  BY <1>1, JobUpdates DEF TypeOK, Frame
<1>5. Put(FALSE) => /\ seg'[ram.head] = Append(q, f)
                    /\ \A i \in Ring : i # ram.head => seg'[i] = seg[i]
  BY <1>1 DEF Put
<1>6. f = [Written EXCEPT !.whole = FALSE]
  BY <1>1, WrittenIs
<1>7. job.seq \in 1..MaxSeq
  BY <1>2 DEF Keeping, Counting, Appending
<1> HIDE DEF f
<1>8. /\ Parsed(Append(q, f)) = Parsed(q)
      /\ Len(Append(q, f)) = Len(q) + 1 /\ Len(q) \in Nat /\ Append(q, f)[Len(q) + 1] = f
      /\ \A k \in 1..Len(q) : Append(q, f)[k] = q[k]
      /\ DOMAIN Append(q, f) = 1..(Len(q) + 1) /\ DOMAIN q = 1..Len(q)
  <2>1. Parsed(Append(q, f)) = Parsed(q)
    BY <1>4, ParsedAppend
  <2> QED BY <2>1, <1>4
<1> HIDE DEF q
<1>9. \A i \in Ring : Parsed(seg'[i]) = Parsed(seg[i])
  BY <1>2, <1>5, <1>8 DEF q
<1>10. disk.next <= disk'.next /\ next <= next' /\ pc # "off" /\ pc' # "off"
  <2>1. disk' = disk /\ next' = next /\ pc # "off" /\ pc' # "off"
    BY <1>2
  <2>2. disk.next \in Nat /\ next \in Nat
    BY <1>1 DEF TypeOK, Meta
  <2> QED BY <2>1, <2>2
<1>11. /\ SameView(disk', disk) \/ SameView(disk', ram)
       /\ SameView(ram', disk) \/ SameView(ram', ram)
  BY <1>2 DEF SameView
<1>12. Still
  BY <1>2, <1>9, <1>10, <1>11, ViewsOn DEF Still
<1>13. Kept' /\ (harm' = "clear" => \A m \in Views' : m.state = "empty" => \A s \in acked' : s < disk'.next)
  BY <1>1, <1>10, <1>12, StillKeeps DEF Keeping
<1>14. Buried'
  <2>1. job.seq \notin erased
    BY <1>2 DEF Keeping, Counting, Appending
  <2>2. f.of # 0 \/ f.seq \notin erased
    BY <2>1, <1>4
  <2>3. \A i \in Ring : Parsed(seg'[i]) \subseteq Parsed(seg[i]) \cup {f}
    BY <1>9
  <2> QED BY <1>1, <1>2, <1>12, <2>2, <2>3, GrownBuries DEF Keeping
<1>15. Turning'
  BY <1>2 DEF Turning
<1>16. Counting'
  <2>1. \A i \in Ring : \A k \in DOMAIN seg'[i] : seg'[i][k].seq \in 1..MaxSeq
    <3> SUFFICES ASSUME NEW i \in Ring, NEW k \in DOMAIN seg'[i] PROVE seg'[i][k].seq \in 1..MaxSeq
      OBVIOUS
    <3>1. CASE seg'[i] = seg[i]
      BY <3>1 DEF Keeping, Counting
    <3>2. CASE i = ram.head /\ seg'[i] = Append(q, f)
      <4>1. k \in 1..Len(q) \/ k = Len(q) + 1
        BY <3>2, <1>8
      <4>2. CASE k \in 1..Len(q)
        BY <4>2, <3>2, <1>8 DEF Keeping, Counting, q
      <4>3. CASE k = Len(q) + 1
        BY <4>3, <3>2, <1>8, <1>7, <1>4
      <4> QED BY <4>1, <4>2, <4>3
    <3> QED BY <3>1, <3>2, <1>2, <1>5 DEF q
  <2> QED BY <2>1, <1>2 DEF Keeping, Counting, Appending
<1>17. Sealing'
  <2>1. CASE pc' = "body"
    <3>1. \A k \in 1..Len(q) : q[k].whole
      BY <1>3, <1>8 DEF Torn, q
    <3>2. seg'[ram'.head] = Append(q, f) /\ Written' = Written
      BY <2>1, <1>2, <1>5 DEF Written, q
    <3>3. /\ Len(Append(q, f)) > 0 /\ \A k \in 1..(Len(Append(q, f)) - 1) : Append(q, f)[k].whole
          /\ Append(q, f)[Len(Append(q, f))] = [Written EXCEPT !.whole = FALSE]
      BY <3>1, <1>6, <1>8
    <3> QED BY <2>1, <3>2, <3>3, <1>2, <1>3 DEF Sealing
  <2>2. CASE pc' # "body"
    BY <2>2, <1>2, <1>3 DEF Sealing
  <2> QED BY <2>1, <2>2
<1>18. Landed'
  BY <1>2 DEF Landed, HasLanded
<1>19. Warned'
  BY <1>2, <1>13 DEF Warned
<1> QED BY <1>13, <1>14, <1>15, <1>16, <1>17, <1>18, <1>19 DEF Keeping

\* The record can be read from the moment it is whole, however the attempt ends.
LEMMA BodyKeeping == ASSUME Harsh = {}, Inductive, Keeping, Body PROVE Keeping'
<1>1. TypeOK /\ Inductive' /\ TypeOK' /\ seg \in [Ring -> Seq(Frame)] /\ ram.head \in Ring
  BY BodyInductive DEF Inductive, TypeOK, Meta
<1>2. /\ pc = "body" /\ disk' = disk /\ ram' = ram /\ next' = next
      /\ acked' = acked /\ erased' = erased /\ harm' = harm
      /\ job'.seq = job.seq /\ job'.of = job.of /\ job'.op = job.op
      /\ \/ pc' = "resolve" /\ Complete
         \/ pc' = "batch" /\ ~job'.ok /\ seg' = seg /\ sealed'
         \/ pc' = "batch" /\ ~job'.ok /\ Complete /\ sealed'
  BY <1>1 DEF Body, Tear, Works, Fails, GoTo, Refuse, history, bounds, TypeOK, Job
<1>3. ram = disk
  BY <1>2 DEF Inductive, Settled
<1> DEFINE q == seg[ram.head]
           n == Len(q)
<1>4. /\ n > 0 /\ q \in Seq(Frame) /\ n \in Nat /\ DOMAIN q = 1..n
      /\ \A k \in 1..(n - 1) : q[k].whole
      /\ q[n] = [Written EXCEPT !.whole = FALSE]
  <2>1. q \in Seq(Frame)
    BY <1>1
  <2> QED BY <2>1, <1>2 DEF Keeping, Sealing
<1>5. Written = [q[n] EXCEPT !.whole = TRUE] /\ ~q[n].whole /\ q # <<>>
  <2>1. q # <<>>
    BY <1>4
  <2> QED BY <2>1, <1>1, <1>4, WrittenIs
<1>6. Parsed(Whole(q)) = Parsed(q) \cup {Written} /\ ~Torn(Whole(q))
  BY <1>4, <1>5, ParsedWhole
<1>7. Complete => /\ seg'[ram.head] = Whole(q)
                  /\ \A i \in Ring : i # ram.head => seg'[i] = seg[i]
  BY <1>1 DEF Complete
<1>8. /\ \A k \in 1..n : Whole(q)[k].seq = q[k].seq
      /\ DOMAIN Whole(q) = 1..n
  BY <1>4, <1>5 DEF Whole, Written
<1> HIDE DEF q, n
<1>9. \A i \in Ring : /\ Parsed(seg[i]) \subseteq Parsed(seg'[i])
                      /\ Parsed(seg'[i]) \subseteq Parsed(seg[i]) \cup {Written}
  BY <1>2, <1>6, <1>7 DEF q
<1>10. disk.next <= disk'.next /\ next <= next' /\ pc # "off" /\ pc' # "off"
  BY <1>1, <1>2 DEF TypeOK, Meta
<1>11. /\ SameView(disk', disk) \/ SameView(disk', ram)
       /\ SameView(ram', disk) \/ SameView(ram', ram)
  BY <1>2 DEF SameView
<1>12. Still
  BY <1>2, <1>9, <1>10, <1>11, ViewsOn DEF Still
<1>13. Kept' /\ (harm' = "clear" => \A m \in Views' : m.state = "empty" => \A s \in acked' : s < disk'.next)
  BY <1>1, <1>10, <1>12, StillKeeps DEF Keeping
<1>14. Buried'
  <2>1. Written.of # 0 \/ Written.seq \notin erased
    BY <1>2 DEF Keeping, Counting, Appending, Written
  <2>2. \A i \in Ring : Parsed(seg'[i]) \subseteq Parsed(seg[i]) \cup {Written}
    BY <1>9
  <2> QED BY <1>1, <1>2, <1>12, <2>1, <2>2, GrownBuries DEF Keeping
<1>15. Turning'
  BY <1>2 DEF Turning
<1>16. Counting'
  <2>1. \A i \in Ring : \A k \in DOMAIN seg'[i] : seg'[i][k].seq \in 1..MaxSeq
    <3> SUFFICES ASSUME NEW i \in Ring, NEW k \in DOMAIN seg'[i] PROVE seg'[i][k].seq \in 1..MaxSeq
      OBVIOUS
    <3>1. CASE seg'[i] = seg[i]
      BY <3>1 DEF Keeping, Counting
    <3>2. CASE i = ram.head /\ seg'[i] = Whole(q)
      <4>1. k \in 1..n /\ k \in DOMAIN seg[i] /\ seg'[i][k].seq = seg[i][k].seq
        BY <3>2, <1>4, <1>8 DEF q
      <4> QED BY <4>1 DEF Keeping, Counting
    <3> QED BY <3>1, <3>2, <1>2, <1>7
  <2> QED BY <2>1, <1>2 DEF Keeping, Counting, Appending
<1>17. Sealing'
  BY <1>2, <1>6, <1>7 DEF Sealing
<1>18. Landed'
  <2>1. CASE Complete
    BY <2>1, <1>2, <1>3, <1>6, <1>7 DEF Landed, Written
  <2>2. CASE ~Complete
    BY <2>2, <1>2 DEF Landed, HasLanded
  <2> QED BY <2>1, <2>2
<1>19. Warned'
  BY <1>2, <1>13 DEF Warned
<1> QED BY <1>13, <1>14, <1>15, <1>16, <1>17, <1>18, <1>19 DEF Keeping

----------------------------------------------------------------------------
\* Steps that take a segment

\* A segment that is emptied holds nothing, and the others what they held.
LEMMA Emptied ==
  ASSUME NEW s \in [Ring -> Seq(Frame)], NEW x \in Ring
  PROVE  LET t == [s EXCEPT ![x] = <<>>]
         IN /\ t[x] = <<>> /\ Parsed(t[x]) = {} /\ ~Torn(t[x])
            /\ \A i \in Ring : i # x => t[i] = s[i]
            /\ (\A i \in Ring : \A k \in DOMAIN s[i] : s[i][k].seq \in 1..MaxSeq)
                 => \A i \in Ring : \A k \in DOMAIN t[i] : t[i][k].seq \in 1..MaxSeq
  <1> DEFINE t == [s EXCEPT ![x] = <<>>]
  <1>1. t[x] = <<>> /\ \A i \in Ring : i # x => t[i] = s[i]
    OBVIOUS
  <1> HIDE DEF t
  <1>2. Parsed(t[x]) = {} /\ ~Torn(t[x])
    BY <1>1, ParsedNone
  <1>3. DOMAIN t[x] = {}
    BY <1>1
  <1> QED BY <1>1, <1>2, <1>3 DEF t

\* A view that keeps what another one showed of the messages kept, and claims no
\* less, will do.
LEMMA MovedKeeps ==
  ASSUME TypeOK, TypeOK', Kept, Warned, pc # "off", pc' # "off",
         acked' \subseteq acked, harm' = harm, next' = next, disk' = disk,
         \A n \in Views' : \E m \in Views :
           /\ n.state = "empty" => m.state = "empty"
           /\ \A s \in acked' : s \in Messages(ReadSince(seg, m)) => s \in Messages(ReadSince(seg', n))
  PROVE  /\ Kept'
         /\ harm' = "clear" => \A m \in Views' : m.state = "empty" => \A s \in acked' : s < disk'.next
  <1>1. ASSUME harm' \in {"none", "clear"}, NEW n \in Views', NEW s \in acked'
        PROVE  s \in Messages(ReadSince(seg', n)) \/ (harm' = "clear" /\ s < disk'.next)
    <2>1. PICK m \in Views :
            \A k \in acked' : k \in Messages(ReadSince(seg, m)) => k \in Messages(ReadSince(seg', n))
      OBVIOUS
    <2>2. s \in Messages(ReadSince(seg, m)) \/ (harm = "clear" /\ s < disk.next)
      BY <1>1 DEF Kept, Excused
    <2> QED BY <2>1, <2>2
  <1>2. ASSUME harm' = "clear", NEW n \in Views', n.state = "empty", NEW s \in acked'
        PROVE  s < disk'.next
    <2>1. PICK m \in Views : n.state = "empty" => m.state = "empty"
      OBVIOUS
    <2> QED BY <1>2, <2>1 DEF Warned
  <1>3. harm' # "wipe" => \A s \in acked' : s < next'
    BY DEF Kept
  <1> QED BY <1>1, <1>2, <1>3 DEF Kept, Excused

\* The views after drop-oldest took the tail, whether or not it could be erased
\* and the new tail saved, show all but the messages in it.
LEMMA TailTaken ==
  ASSUME NEW s \in [Ring -> Seq(Frame)], NEW t, NEW gone, NEW m \in Meta, NEW n \in Meta,
         m.tail # m.head, t = s \/ t = [s EXCEPT ![m.tail] = <<>>],
         n.head = m.head, n.tail = m.tail \/ n.tail = After(m.tail)
  PROVE  /\ \A k \in Messages(ReadSince(s, m)) :
              k \in Messages(Parsed(s[m.tail])) \/ k \in Messages(ReadSince(t, n))
         /\ Outlived(s, gone, m) => Outlived(t, gone, n)
  <1>0. PICK x : x = m.tail
    OBVIOUS
  <1>1. x \in Ring /\ Live(m) \subseteq Ring
    BY <1>0, LiveEnds
  <1>2. \A i \in Ring : i # x => t[i] = s[i]
    BY <1>0, <1>1, Emptied
  <1>3. /\ Live(m) \ {x} \subseteq Live(n) /\ Live(n) \subseteq Live(m)
        /\ n.tail = After(m.tail) => x \notin Live(n)
        /\ \A i, j \in Live(m) \ {x} :
             Position(m, i) <= Position(m, j) => Position(n, i) <= Position(n, j)
    <2>1. CASE n.tail = m.tail
      <3>1. Live(m) = Live(n) /\ \A i : Position(m, i) = Position(n, i)
        BY <2>1, SameEnds
      <3>2. n.tail # After(m.tail)
        BY <1>0, <1>1, <2>1, Ringed
      <3> QED BY <3>1, <3>2
    <2>2. CASE n.tail = After(m.tail)
      BY <1>0, <2>2, TailPassed
    <2> QED BY <2>1, <2>2
  <1>4. \A i \in Live(m) \ {x} : Parsed(t[i]) = Parsed(s[i])
    BY <1>1, <1>2
  <1>5. \A k \in Messages(ReadSince(s, m)) :
          k \in Messages(Parsed(s[x])) \/ k \in Messages(ReadSince(t, n))
    BY <1>3, <1>4, MessagesLost
  <1>6. ASSUME Outlived(s, gone, m) PROVE Outlived(t, gone, n)
    <2>1. CASE t = s /\ n.tail = m.tail
      BY <1>6, <2>1, OutlivedSame
    <2>2. CASE Parsed(t[x]) = {} \/ x \notin Live(n)
      <3>1. \A i \in Live(n) :
              Parsed(t[i]) = {} \/ (i \in Live(m) \ {x} /\ Parsed(t[i]) = Parsed(s[i]))
        BY <1>3, <1>4, <2>2
      <3>2. x = m.tail \/ x \notin Live(m)
        BY <1>0
      <3>3. Live(m) \ {x} \subseteq Live(n)
        BY <1>3
      <3>4. \A i, j \in Live(m) \ {x} :
              Position(m, i) <= Position(m, j) => Position(n, i) <= Position(n, j)
        BY <1>3
      <3>5. Remains(s, t, m, n, x)
        BY <1>4, <3>1, <3>3, <3>4 DEF Remains
      <3> QED BY <1>6, <3>2, <3>5, OutlivedRest
    <2> QED BY <1>0, <1>1, <1>3, <2>1, <2>2, Emptied
  <1> QED BY <1>0, <1>5, <1>6

\* So drop-oldest loses nothing else, at once or at a restart.
LEMMA TailStep ==
  ASSUME TypeOK, TypeOK', Kept, Buried, Warned, pc # "off", pc' # "off",
         disk' = disk, disk.head = ram.head, disk.tail = ram.tail, ram.tail # ram.head,
         ram'.head = ram.head, ram'.tail = After(ram.tail), ram'.state = ram.state,
         seg' = seg \/ seg' = [seg EXCEPT ![ram.tail] = <<>>],
         acked' = acked \ Messages(Parsed(seg[ram.tail])),
         harm' = harm, erased' = erased, next' = next
  PROVE  /\ Kept' /\ Buried'
         /\ harm' = "clear" => \A m \in Views' : m.state = "empty" => \A s \in acked' : s < disk'.next
  <1>1. /\ ram \in Meta /\ disk \in Meta /\ ram' \in Meta /\ seg \in [Ring -> Seq(Frame)]
        /\ Views = {disk, ram} /\ Views' = {disk, ram'}
    BY DEF TypeOK, Views
  <1>2. ASSUME NEW n \in Views'
        PROVE  /\ \A k \in Messages(ReadSince(seg, ram)) :
                    k \in Messages(Parsed(seg[ram.tail])) \/ k \in Messages(ReadSince(seg', n))
               /\ Outlived(seg, erased, ram) => Outlived(seg', erased, n)
    <2>1. n \in Meta /\ n.head = ram.head /\ (n.tail = ram.tail \/ n.tail = After(ram.tail))
      BY <1>1
    <2> QED BY <1>1, <2>1, TailTaken
  <1>3. ASSUME NEW n \in Views'
        PROVE  \E m \in Views :
                 /\ n.state = "empty" => m.state = "empty"
                 /\ \A s \in acked' : s \in Messages(ReadSince(seg, m)) => s \in Messages(ReadSince(seg', n))
    <2>1. \A s \in acked' : s \in Messages(ReadSince(seg, ram)) => s \in Messages(ReadSince(seg', n))
      BY <1>2
    <2>2. CASE n = disk
      <3>1. ReadSince(seg, disk) = ReadSince(seg, ram)
        BY SameEnds DEF ReadSince
      <3> QED BY <1>1, <2>1, <2>2, <3>1
    <2>3. CASE n = ram'
      BY <1>1, <2>1, <2>3
    <2> QED BY <1>1, <2>2, <2>3
  <1>4. Kept' /\ (harm' = "clear" => \A m \in Views' : m.state = "empty" => \A s \in acked' : s < disk'.next)
    <2>1. acked' \subseteq acked
      OBVIOUS
    <2> QED BY <1>3, <2>1, MovedKeeps
  <1>5. Buried'
    BY <1>1, <1>2 DEF Buried
  <1> QED BY <1>4, <1>5

\* The segment that becomes the head is one no message is kept in.
LEMMA HeadTaken ==
  ASSUME NEW s \in [Ring -> Seq(Frame)], NEW t, NEW gone, NEW m \in Meta, NEW n \in Meta,
         NEW x, x = After(m.head), t = [s EXCEPT ![x] = <<>>],
         x # m.tail,
         \/ n.head = x /\ n.tail = m.tail
         \/ n.head = m.head /\ n.tail = m.tail
         \/ n.head = m.head /\ n.tail = x /\ m.tail = After(n.tail)
  PROVE  /\ Messages(ReadSince(s, m)) \subseteq Messages(ReadSince(t, n))
         /\ Outlived(s, gone, m) => Outlived(t, gone, n)
  <1>1. x \in Ring /\ Live(m) \subseteq Ring /\ Live(n) \subseteq Ring /\ x # m.head
    BY LiveEnds, LiveIs, Ringed
  <1>2. x \notin Live(m)
    <2>1. PICK c : c = [m EXCEPT !.head = x]
      OBVIOUS
    <2>2. c \in Meta /\ c.head = After(m.head) /\ c.tail = m.tail
      BY <1>1, <2>1 DEF Meta
    <2> QED BY <2>2, HeadMoved
  <1>3. Parsed(t[x]) = {} /\ \A i \in Ring : i # x => Parsed(t[i]) = Parsed(s[i])
    BY <1>1, Emptied
  <1>4. /\ Live(m) \subseteq Live(n) /\ Live(n) \subseteq Live(m) \cup {x}
        /\ \A i, j \in Live(m) : Position(m, i) <= Position(m, j) => Position(n, i) <= Position(n, j)
    <2>1. CASE n.head = x /\ n.tail = m.tail
      BY <2>1, HeadMoved
    <2>2. CASE n.head = m.head /\ n.tail = m.tail
      BY <2>2, SameEnds
    <2>3. CASE n.head = m.head /\ n.tail = x /\ m.tail = After(n.tail)
      <3>1. n.tail # n.head
        BY <1>1, <2>3
      <3>2. /\ Live(m) = Live(n) \ {x}
            /\ \A i, j \in Live(m) : Position(n, i) <= Position(n, j) <=> Position(m, i) <= Position(m, j)
        BY <2>3, <3>1, TailPassed
      <3> QED BY <3>2
    <2> QED BY <2>1, <2>2, <2>3
  <1>5. \A i \in Live(m) : i # x /\ i \in Ring
    BY <1>1, <1>2
  <1>6. Messages(ReadSince(s, m)) \subseteq Messages(ReadSince(t, n))
    <2>1. \A i \in Live(m) : Parsed(s[i]) \subseteq Parsed(t[i])
      BY <1>3, <1>5
    <2> QED BY <1>4, <2>1, MessagesStay
  <1>7. ASSUME Outlived(s, gone, m) PROVE Outlived(t, gone, n)
    <2>1. Live(m) \ {x} \subseteq Live(n) /\ x \notin Live(m)
      BY <1>2, <1>4
    <2>2. \A i \in Live(n) : Parsed(t[i]) = {} \/ (i \in Live(m) \ {x} /\ Parsed(t[i]) = Parsed(s[i]))
      BY <1>3, <1>4, <1>5
    <2>3. \A i \in Live(m) \ {x} : Parsed(t[i]) = Parsed(s[i])
      BY <1>3, <1>5
    <2>4. \A i, j \in Live(m) \ {x} :
            Position(m, i) <= Position(m, j) => Position(n, i) <= Position(n, j)
      BY <1>4
    <2>5. x = m.tail \/ x \notin Live(m)
      BY <1>2
    <2>6. Remains(s, t, m, n, x)
      BY <2>1, <2>2, <2>3, <2>4 DEF Remains
    <2> QED BY <1>7, <2>5, <2>6, OutlivedRest
  <1> QED BY <1>6, <1>7

\* Drop-oldest before a roll takes the messages of the tail and no others.
LEMMA DropTailKeeping == ASSUME Harsh = {}, Inductive, Keeping, DropTail PROVE Keeping'
<1>1. TypeOK /\ Inductive' /\ TypeOK' /\ seg \in [Ring -> Seq(Frame)] /\ ram.head \in Ring /\ ram.tail \in Ring
  BY DropTailInductive DEF Inductive, TypeOK, Meta
<1>2. /\ pc = "dropTail" /\ pc' = "openHead" /\ disk' = disk /\ next' = next /\ sealed' = sealed
      /\ job' = job /\ erased' = erased /\ harm' = harm
      /\ acked' = acked \ Messages(Parsed(seg[ram.tail]))
      /\ seg' = seg \/ seg' = [seg EXCEPT ![ram.tail] = <<>>]
  BY DEF DropTail, PassTail, EraseTail, Erased, GoTo
<1>3. ram'.head = ram.head /\ ram'.tail = After(ram.tail) /\ ram'.state = ram.state /\ ram'.next = ram.next
  BY <1>1 DEF DropTail, PassTail, TypeOK, Meta
<1>4. ram = disk /\ After(ram.head) = ram.tail /\ ram.tail # ram.head
  BY <1>1, <1>2, Ringed DEF Keeping, Turning, Inductive, Settled
<1>5. Kept' /\ Buried' /\ (harm' = "clear" => \A m \in Views' : m.state = "empty" => \A s \in acked' : s < disk'.next)
  BY <1>1, <1>2, <1>3, <1>4, TailStep DEF Keeping
<1>6. /\ \A i \in Ring : i # ram.tail => seg'[i] = seg[i]
      /\ \A i \in Ring : \A k \in DOMAIN seg'[i] : seg'[i][k].seq \in 1..MaxSeq
  BY <1>1, <1>2, Emptied DEF Keeping, Counting
<1>7. Turning'
  <2>1. After(ram.tail) # ram.tail
    BY <1>1, Ringed
  <2> QED BY <2>1, <1>2, <1>3, <1>4 DEF Turning
<1>8. Counting'
  BY <1>2, <1>3, <1>6 DEF Keeping, Counting, Appending
<1>9. Sealing'
  <2>1. seg'[ram'.head] = seg[ram.head]
    BY <1>1, <1>3, <1>4, <1>6
  <2> QED BY <2>1, <1>2 DEF Keeping, Sealing
<1>10. Landed'
  BY <1>2 DEF Landed, HasLanded
<1>11. Warned'
  BY <1>2, <1>5 DEF Warned
<1> QED BY <1>5, <1>7, <1>8, <1>9, <1>10, <1>11 DEF Keeping

\* The same behind an append, and the record just written is not among them.
LEMMA EvictKeeping == ASSUME Harsh = {}, Inductive, Keeping, Evict PROVE Keeping'
<1>1. TypeOK /\ Inductive' /\ TypeOK' /\ seg \in [Ring -> Seq(Frame)] /\ ram.head \in Ring /\ ram.tail \in Ring
  BY EvictInductive DEF Inductive, TypeOK, Meta
<1>2. /\ pc = "evict" /\ pc' \in {"saveTail", "acknowledge"} /\ disk' = disk /\ next' = next /\ sealed' = sealed
      /\ job' = job /\ erased' = erased /\ harm' = harm
      /\ \/ /\ ram.tail # ram.head /\ seg' = [seg EXCEPT ![ram.tail] = <<>>]
            /\ acked' = acked \ Messages(Parsed(seg[ram.tail]))
            /\ ram' = [ram EXCEPT !.tail = After(@)]
         \/ seg' = seg /\ acked' = acked /\ ram' = ram
  BY DEF Evict, PassTail, EraseTail, Erased, GoTo
<1>3. disk.head = ram.head /\ disk.tail = ram.tail
  BY <1>2 DEF Keeping, Turning
<1>4. ram'.head = ram.head /\ ram'.state = ram.state /\ ram'.next = ram.next
  BY <1>1, <1>2 DEF TypeOK, Meta
<1>5. Kept' /\ Buried' /\ (harm' = "clear" => \A m \in Views' : m.state = "empty" => \A s \in acked' : s < disk'.next)
  <2>1. CASE ram.tail # ram.head /\ ram' = [ram EXCEPT !.tail = After(@)]
    <3>1. ram'.tail = After(ram.tail)
      BY <1>1, <2>1 DEF TypeOK, Meta
    <3>2. CASE seg' = seg /\ acked' = acked /\ ram' = ram
      <4>1. ram'.tail = ram.tail
        BY <3>2
      <4> QED BY <3>1, <4>1, <1>1, Ringed
    <3>3. CASE seg' = [seg EXCEPT ![ram.tail] = <<>>] /\ acked' = acked \ Messages(Parsed(seg[ram.tail]))
      BY <1>1, <1>2, <1>3, <1>4, <2>1, <3>1, <3>3, TailStep DEF Keeping
    <3> QED BY <1>2, <3>2, <3>3
  <2>2. CASE seg' = seg /\ acked' = acked /\ ram' = ram
    <3>1. disk.next <= disk'.next /\ next <= next' /\ pc # "off" /\ pc' # "off"
      <4>1. disk' = disk /\ next' = next /\ pc # "off" /\ pc' # "off"
        BY <1>2
      <4> QED BY <4>1, <1>1 DEF TypeOK, Meta
    <3>2. SameView(disk', disk) /\ SameView(ram', ram)
      BY <1>2, <2>2 DEF SameView
    <3>3. Still
      BY <1>2, <2>2, <3>1, <3>2, ViewsOn DEF Still
    <3> QED BY <1>1, <1>2, <2>2, <3>1, <3>3, StillKeeps, StillBuries DEF Keeping
  <2> QED BY <1>2, <2>1, <2>2
<1>6. /\ seg'[ram.head] = seg[ram.head]
      /\ \A i \in Ring : \A k \in DOMAIN seg'[i] : seg'[i][k].seq \in 1..MaxSeq
  <2>1. CASE seg' = seg
    BY <2>1 DEF Keeping, Counting
  <2>2. CASE ram.tail # ram.head /\ seg' = [seg EXCEPT ![ram.tail] = <<>>]
    BY <2>2, <1>1, Emptied DEF Keeping, Counting
  <2> QED BY <2>1, <2>2, <1>2
<1>7. Turning'
  BY <1>2 DEF Turning
<1>8. Counting'
  BY <1>2, <1>4, <1>6 DEF Keeping, Counting, Appending
<1>9. Sealing'
  BY <1>2, <1>4, <1>6 DEF Keeping, Sealing
<1>10. Landed'
  BY <1>2, <1>4, <1>6 DEF Keeping, Landed, HasLanded, Written
<1>11. Warned'
  BY <1>2, <1>5 DEF Warned
<1> QED BY <1>5, <1>7, <1>8, <1>9, <1>10, <1>11 DEF Keeping

\* The segment that becomes the head has nothing left to lose, whichever tail a
\* restart would find.
LEMMA OpenHeadKeeping == ASSUME Harsh = {}, Inductive, Keeping, OpenHead PROVE Keeping'
<1>1. /\ TypeOK /\ Inductive' /\ TypeOK' /\ seg \in [Ring -> Seq(Frame)] /\ ram.head \in Ring /\ ram.tail \in Ring
      /\ After(ram.head) \in Ring /\ ram \in Meta /\ disk \in Meta /\ ram' \in Meta
  BY OpenHeadInductive, Ringed DEF Inductive, TypeOK, Meta
<1>2. /\ pc = "openHead" /\ disk' = disk /\ next' = next /\ acked' = acked /\ erased' = erased /\ harm' = harm
      /\ job'.seq = job.seq /\ job'.of = job.of /\ job'.op = job.op
      /\ \/ /\ pc' = "saveRoll" /\ ~sealed' /\ seg' = [seg EXCEPT ![After(ram.head)] = <<>>]
            /\ ram'.head = After(ram.head) /\ ram'.tail = ram.tail
         \/ pc' = "batch" /\ ~job'.ok /\ seg' = seg /\ ram' = ram /\ sealed' = sealed
      /\ ram'.state = ram.state /\ ram'.next = ram.next
  BY <1>1 DEF OpenHead, Erased, Works, Fails, GoTo, Refuse, history, bounds, TypeOK, Meta, Job
<1>3. /\ After(ram.head) # ram.tail /\ disk.head = ram.head
      /\ disk.tail = ram.tail \/ (disk.tail = After(ram.head) /\ ram.tail = After(disk.tail))
  BY <1>2 DEF Keeping, Turning
<1>4. Views = {disk, ram} /\ Views' = {disk, ram'}
  BY <1>2 DEF Views
<1>5. CASE pc' = "saveRoll"
  <2>0. /\ pc' = "saveRoll" /\ ~sealed' /\ seg' = [seg EXCEPT ![After(ram.head)] = <<>>]
        /\ ram'.head = After(ram.head) /\ ram'.tail = ram.tail
    BY <1>2, <1>5
  <2>1. ASSUME NEW n \in Views'
        PROVE  /\ Messages(ReadSince(seg, ram)) \subseteq Messages(ReadSince(seg', n))
               /\ Outlived(seg, erased, ram) => Outlived(seg', erased, n)
    <3>1. PICK x : x = After(ram.head)
      OBVIOUS
    <3>2. seg' = [seg EXCEPT ![x] = <<>>] /\ x # ram.tail /\ n \in Meta
      BY <1>1, <1>3, <1>4, <2>0, <3>1
    <3>3. \/ n.head = x /\ n.tail = ram.tail
          \/ n.head = ram.head /\ n.tail = ram.tail
          \/ n.head = ram.head /\ n.tail = x /\ ram.tail = After(n.tail)
      BY <1>3, <1>4, <2>0, <3>1
    <3> QED BY <1>1, <3>1, <3>2, <3>3, HeadTaken
  <2>2. Buried'
    BY <1>2, <1>4, <2>1 DEF Keeping, Buried
  <2>3. /\ \A s \in acked' : \A n \in Views' :
             s \in Messages(ReadSince(seg', n)) \/ harm \notin {"none", "clear"} \/ (harm = "clear" /\ s < disk.next)
        /\ harm' = "clear" => \A m \in Views' : m.state = "empty" => \A s \in acked' : s < disk'.next
    <3>1. \A s \in acked : \/ s \in Messages(ReadSince(seg, ram)) \/ harm \notin {"none", "clear"}
                           \/ (harm = "clear" /\ s < disk.next)
      BY <1>2, <1>4 DEF Keeping, Kept, Excused
    <3>2. \A n \in Views' : n.state = "empty" => \E m \in Views : m.state = "empty"
      BY <1>2, <1>4
    <3> QED BY <1>2, <2>1, <3>1, <3>2 DEF Keeping, Warned
  <2>4. Kept'
    <3>1. harm' # "wipe" => \A s \in acked' : s < next'
      BY <1>2 DEF Keeping, Kept
    <3> QED BY <1>2, <2>3, <3>1 DEF Kept, Excused
  <2>5. /\ ~Torn(seg'[ram'.head])
        /\ \A i \in Ring : \A k \in DOMAIN seg'[i] : seg'[i][k].seq \in 1..MaxSeq
    BY <1>1, <2>0, Emptied DEF Keeping, Counting
  <2>6. Counting'
    BY <1>2, <2>0, <2>5 DEF Keeping, Counting, Appending
  <2>7. Turning' /\ Sealing' /\ Landed' /\ Warned'
    BY <1>2, <2>0, <2>3, <2>5 DEF Turning, Sealing, Landed, HasLanded, Warned
  <2> QED BY <2>2, <2>4, <2>6, <2>7 DEF Keeping
<1>6. CASE pc' = "batch"
  <2>0. pc' = "batch" /\ ~job'.ok /\ seg' = seg /\ ram' = ram /\ sealed' = sealed
    BY <1>2, <1>6
  <2>1. disk.next <= disk'.next /\ next <= next' /\ pc # "off" /\ pc' # "off"
    <3>1. disk' = disk /\ next' = next /\ pc # "off" /\ pc' # "off"
      BY <1>2, <2>0
    <3> QED BY <3>1, <1>1 DEF TypeOK, Meta
  <2>2. SameView(disk', disk) /\ SameView(ram', ram)
    BY <1>2, <2>0 DEF SameView
  <2>3. Still
    BY <1>2, <2>0, <2>1, <2>2, ViewsOn DEF Still
  <2>4. /\ Kept' /\ Buried'
        /\ harm' = "clear" => \A m \in Views' : m.state = "empty" => \A s \in acked' : s < disk'.next
    BY <1>1, <1>2, <2>0, <2>1, <2>3, StillKeeps, StillBuries DEF Keeping
  <2>5. Counting'
    BY <1>2, <2>0 DEF Keeping, Counting, Appending
  <2>6. Turning' /\ Landed' /\ Warned'
    BY <1>2, <2>0, <2>4 DEF Turning, Landed, HasLanded, Warned
  <2>7. Sealing'
    BY <1>2, <2>0 DEF Keeping, Sealing
  <2> QED BY <2>4, <2>5, <2>6, <2>7 DEF Keeping
<1> QED BY <1>2, <1>5, <1>6

----------------------------------------------------------------------------
\* Wipes, restarts and losses

\* A clear destroys a segment only when the saved counter tells of its messages.
LEMMA WipeSegmentKeeping == ASSUME Harsh = {}, Inductive, Keeping, WipeSegment PROVE Keeping'
<1>1. TypeOK /\ Inductive' /\ TypeOK' /\ seg \in [Ring -> Seq(Frame)] /\ job \in Job /\ job.at \in Nat
  BY WipeSegmentInductive, JobUpdates DEF Inductive, TypeOK
<1>2. /\ pc = "wipe" /\ pc' = "wipe" /\ job.at < Segs /\ disk' = disk /\ ram' = ram /\ next' = next
      /\ sealed' = sealed /\ acked' = acked /\ erased' = erased
      /\ harm' = IF harm = "wipe" THEN "wipe" ELSE job.op
      /\ seg' = [seg EXCEPT ![job.at] = <<>>] \/ (seg' = seg /\ ~Torn(seg[job.at]))
  BY DEF WipeSegment, Erased, core, history
<1>3. job'.at = job.at + 1 /\ job'.op = job.op
  BY <1>1 DEF WipeSegment, Job
<1>4. job.op \in {"clear", "wipe"}
  BY <1>2 DEF Inductive, Harmed
<1>5. job.at \in Ring /\ \A i \in 0..job.at : i \in Ring
  BY <1>1, <1>2, SizeAssumption DEF Ring
<1>6. /\ ~Torn(seg'[job.at]) /\ \A i \in Ring : i # job.at => seg'[i] = seg[i]
      /\ \A i \in Ring : \A k \in DOMAIN seg'[i] : seg'[i][k].seq \in 1..MaxSeq
  BY <1>1, <1>2, <1>5, Emptied DEF Keeping, Counting
<1>7. harm' # "wipe" => harm' = "clear" /\ \A s \in acked' : s < disk'.next
  BY <1>2, <1>4 DEF Keeping, Warned
<1>8. Sealing'
  <2>1. ASSUME NEW i \in 0..(job'.at - 1) PROVE ~Torn(seg'[i])
    <3>1. i = job.at \/ (i \in 0..(job.at - 1) /\ i # job.at /\ i \in Ring)
      BY <1>1, <1>3, <1>5
    <3> QED BY <3>1, <1>2, <1>6 DEF Keeping, Sealing
  <2> QED BY <2>1, <1>2 DEF Sealing
<1>9. Kept'
  <2>1. harm' # "wipe" => \A s \in acked' : s < next'
    BY <1>2 DEF Keeping, Kept
  <2> QED BY <2>1, <1>2, <1>7 DEF Kept, Excused
<1>10. Warned'
  BY <1>2, <1>3, <1>4, <1>7 DEF Warned
<1>11. Counting'
  BY <1>2, <1>6 DEF Keeping, Counting, Appending
<1>12. Turning' /\ Landed' /\ Buried'
  BY <1>2, <1>7 DEF Turning, Landed, HasLanded, Buried
<1> QED BY <1>8, <1>9, <1>10, <1>11, <1>12 DEF Keeping

\* A wipe that told of itself has nothing to keep.
LEMMA WipeSaveKeeping == ASSUME Harsh = {}, Inductive, Keeping, WipeSave PROVE Keeping'
<1>1. TypeOK /\ Inductive' /\ TypeOK' /\ ram \in Meta /\ ram.epoch \in Nat
  BY WipeSaveInductive, MetaUpdates DEF Inductive, TypeOK
<1>2. /\ pc = "wipe" /\ pc' \in {"resetCursor", "off"} /\ job.at = Segs /\ seg' = seg /\ next' = next
  BY DEF WipeSave
<1>3. harm = "wipe" \/ (harm = "clear" /\ job.op = "clear")
  BY <1>2, SizeAssumption DEF Keeping, Warned
<1>4. PICK e \in WipeEpochs :
        LET m == [ram EXCEPT !.head = 0, !.tail = 0, !.epoch = e, !.state = "empty"]
        IN /\ \/ Saved(m) /\ harm' = (IF e = ram.epoch /\ acked \cup erased # {} THEN harm ELSE "none") /\ UNCHANGED dirty
              \/ Unsaved(m) /\ dirty' = TRUE /\ UNCHANGED harm
           /\ IF e # ram.epoch THEN Forget ELSE UNCHANGED history
  BY DEF WipeSave
<1>5. harm = "clear" => acked' = {} /\ erased' = {}
  <2>1. harm = "clear" => e \in {ram.epoch + 1, ram.epoch + 2}
    BY <1>3 DEF WipeEpochs
  <2>2. harm = "clear" => e # ram.epoch
    BY <2>1, <1>1
  <2> QED BY <2>2, <1>4 DEF Forget
<1>6. harm' # "wipe" => acked' = {} /\ erased' = {}
  <2>1. CASE harm' = harm
    BY <2>1, <1>3, <1>5
  <2>2. CASE harm' # harm
    <3>1. e # ram.epoch \/ acked \cup erased = {}
      BY <2>2, <1>4
    <3>2. CASE e # ram.epoch
      BY <3>2, <1>4 DEF Forget
    <3>3. CASE e = ram.epoch /\ acked \cup erased = {}
      <4>1. acked' = acked /\ erased' = erased /\ acked = {} /\ erased = {}
        BY <3>3, <1>4 DEF history
      <4> QED BY <4>1
    <3> QED BY <3>1, <3>2, <3>3
  <2> QED BY <2>1, <2>2
<1>7. ram'.head = 0 /\ ram'.next = ram.next /\ disk'.next \in {disk.next, ram.next}
  BY <1>1, <1>4 DEF Saved, Unsaved, TypeOK, Meta
<1>8. ~Torn(seg[0])
  <2>1. 0 \in 0..(job.at - 1)
    BY <1>2, SizeAssumption
  <2> QED BY <2>1, <1>2 DEF Keeping, Sealing
<1>9. Kept' /\ Warned' /\ Buried'
  BY <1>2, <1>6 DEF Kept, Warned, Buried, Outlived
<1>10. Counting'
  BY <1>2, <1>7 DEF Keeping, Counting, Appending
<1>11. Turning' /\ Sealing' /\ Landed'
  BY <1>2, <1>7, <1>8 DEF Turning, Sealing, Landed, HasLanded
<1> QED BY <1>9, <1>10, <1>11 DEF Keeping

\* Without segments that hold something nothing is read.
LEMMA ReadNone ==
  ASSUME NEW m \in Meta, NoRecords
  PROVE  ReadSince(seg, m) = {} /\ Messages(ReadSince(seg, m)) = {} /\ \A gone : Outlived(seg, gone, m)
  <1>1. \A i \in Live(m) : Parsed(seg[i]) = {}
    BY LiveEnds, ParsedNone DEF NoRecords
  <1>2. ReadSince(seg, m) = {}
    BY <1>1 DEF ReadSince
  <1> QED BY <1>1, <1>2 DEF Messages, Outlived

\* A restart reads what was kept, and takes no number of it.
LEMMA MountKeeping == ASSUME Harsh = {}, Inductive, Keeping, Mount PROVE Keeping'
<1>1. TypeOK /\ Inductive' /\ TypeOK' /\ disk \in Meta /\ seg \in [Ring -> Seq(Frame)] /\ NoRecords \in BOOLEAN
  BY MountInductive DEF Inductive, TypeOK, NoRecords
<1>2. PICK m : m = Resolved(disk, NoRecords)
  OBVIOUS
<1>3. /\ pc = "off" /\ pc' = "rest" /\ disk' = m /\ ram' = m /\ seg' = seg
      /\ sealed' = Torn(seg[m.head]) /\ next' = RestoreNext(seg, m)
      /\ m.epoch # disk.epoch => acked' = {} /\ erased' = {}
      /\ m.epoch = disk.epoch => acked' = acked /\ erased' = erased
      /\ harm' = IF harm # "outside" /\ m.epoch = disk.epoch THEN harm ELSE "none"
  BY <1>2 DEF Mount, Saved, Forget, history
<1>4. /\ m \in Meta
      /\ m.state = "empty" => disk.state = "empty" \/ (NoRecords /\ disk.state = "pending") \/ m.epoch # disk.epoch
  BY <1>1, <1>2, ResolvedFacts
<1>5. /\ m.next = disk.next
      /\ m.epoch = disk.epoch => /\ m.head = disk.head /\ m.tail = disk.tail
                                 /\ ~(NoRecords /\ disk.state = "nonEmpty")
  BY <1>1, <1>2 DEF Resolved, Meta
<1>6. /\ \A i \in Ring : \A k \in DOMAIN seg[i] : seg[i][k].seq \in 1..MaxSeq
      /\ Views = {disk} /\ Views' = {m}
  BY <1>3 DEF Keeping, Counting, Views
<1>7. /\ next' \in Nat /\ m.next <= next' /\ 0 < next' /\ m.next \in Nat
      /\ \A k \in Messages(ReadSince(seg, m)) : k < next'
  BY <1>1, <1>3, <1>4, <1>6, RestoredAbove DEF Meta
<1>8. CASE m.epoch # disk.epoch
  <2>1. acked' = {} /\ erased' = {} /\ harm' = "none"
    BY <1>3, <1>8
  <2> QED BY <2>1, <1>3, <1>6, <1>7 DEF Keeping, Kept, Warned, Buried, Outlived, Turning, Counting, Sealing,
                                    Landed, HasLanded, Appending
<1>9. CASE m.epoch = disk.epoch /\ harm = "outside"
  <2>1. NoRecords /\ disk.state # "pending" /\ disk.state # "nonEmpty"
    BY <1>3, <1>5, <1>9 DEF Inductive, Harmed
  <2>2. acked' = {} /\ harm' = "none"
    BY <1>1, <1>3, <1>9, <2>1 DEF Inductive, Marked, Meta
  <2>3. Buried'
    BY <2>1, <1>3, <1>4, <1>6, ReadNone DEF Buried
  <2> QED BY <2>2, <2>3, <1>3, <1>6, <1>7 DEF Keeping, Kept, Warned, Turning, Counting, Sealing,
                                    Landed, HasLanded, Appending
<1>10. CASE m.epoch = disk.epoch /\ harm # "outside"
  <2>1. acked' = acked /\ erased' = erased /\ harm' = harm /\ m.head = disk.head /\ m.tail = disk.tail
    BY <1>3, <1>5, <1>10
  <2>2. ReadSince(seg, m) = ReadSince(seg, disk)
    BY <2>1, SameEnds DEF ReadSince
  <2>3. ASSUME harm \in {"none", "clear"}, NEW s \in acked
        PROVE  s \in Messages(ReadSince(seg, m)) \/ (harm = "clear" /\ s < m.next)
    BY <2>2, <2>3, <1>5, <1>6, <1>10 DEF Keeping, Kept, Excused
  <2>4. harm # "wipe" => \A s \in acked' : s < next'
    <3>1. harm \in {"none", "clear", "wipe"}
      BY <1>1, <1>10 DEF TypeOK, Harms
    <3>2. ASSUME harm \in {"none", "clear"}, NEW s \in acked PROVE s < next'
      <4>1. s \in Nat /\ next' \in Nat /\ m.next \in Nat /\ m.next <= next'
        BY <1>1, <1>7 DEF TypeOK
      <4>2. s \in Messages(ReadSince(seg, m)) => s < next'
        BY <1>7
      <4>3. s \in Messages(ReadSince(seg, m)) \/ s < m.next
        BY <2>3, <3>2
      <4> QED BY <4>1, <4>2, <4>3
    <3> QED BY <2>1, <3>1, <3>2
  <2>5. Kept'
    BY <2>1, <2>3, <2>4, <1>3, <1>6 DEF Kept, Excused
  <2>6. ASSUME harm = "clear", m.state = "empty", NEW s \in acked PROVE s < m.next
    <3>1. CASE disk.state = "empty"
      BY <3>1, <2>6, <1>5, <1>6 DEF Keeping, Warned
    <3>2. CASE NoRecords
      BY <3>2, <2>3, <2>6, <1>4, ReadNone
    <3> QED BY <3>1, <3>2, <2>6, <1>4, <1>10
  <2>7. Warned'
    BY <2>1, <2>6, <1>3, <1>6 DEF Warned
  <2>8. Buried'
    BY <2>1, <1>3, <1>6, OutlivedSame DEF Keeping, Buried
  <2> QED BY <2>5, <2>7, <2>8, <1>3, <1>6, <1>7 DEF Keeping, Turning, Counting, Sealing, Landed, HasLanded, Appending
<1> QED BY <1>8, <1>9, <1>10

\* Records lost from outside are told by the next epoch, or there were none.
LEMMA RecordsLostKeeping == ASSUME Harsh = {}, Inductive, Keeping, RecordsLost PROVE Keeping'
<1>1. /\ pc = "off" /\ pc' = "off" /\ disk' = disk /\ acked' = acked /\ erased' = erased /\ disk.state # "pending"
      /\ seg' = [i \in Ring |-> <<>>] /\ harm' = IF harm = "none" THEN "outside" ELSE harm
  BY DEF RecordsLost, core, history
<1>2. disk.state \in {"empty", "pending", "nonEmpty"} /\ Views = {disk} /\ Views' = {disk}
  BY <1>1 DEF Inductive, TypeOK, Meta, Views
<1>3. NoRecords' /\ \A i \in Ring : DOMAIN seg'[i] = {}
  BY <1>1 DEF NoRecords
<1>4. harm' = "clear" /\ disk.state = "empty" => \A s \in acked : s < disk.next
  BY <1>1, <1>2 DEF Keeping, Warned
<1>5. Kept'
  BY <1>1, <1>2, <1>3, <1>4 DEF Kept, Excused
<1>6. Warned' /\ Buried'
  BY <1>1, <1>2, <1>4 DEF Warned, Buried
<1>7. Turning' /\ Counting' /\ Sealing' /\ Landed'
  BY <1>1, <1>3 DEF Turning, Counting, Sealing, Landed, HasLanded, Appending
<1> QED BY <1>5, <1>6, <1>7 DEF Keeping

\* A new inbox has nothing to keep.
LEMMA InitKeeping == Init => Keeping
<1> SUFFICES ASSUME Init PROVE Keeping
  OBVIOUS
<1>1. /\ pc = "off" /\ acked = {} /\ erased = {} /\ harm = "none"
      /\ \A i \in Ring : DOMAIN seg[i] = {}
  BY DEF Init
<1> QED BY <1>1 DEF Keeping, Turning, Counting, Sealing, Landed, HasLanded, Warned, Kept, Buried, Outlived, Appending

\* Nothing happens, nothing changes.
LEMMA StutterKeeping == Keeping /\ UNCHANGED vars => Keeping'
  BY DEF vars, Keeping, Turning, Counting, Sealing, Landed, HasLanded, Warned, Kept, Buried, Outlived, Appending,
         Written, Excused, Views, NoRecords

\* Every step keeps every message and every deletion.
LEMMA NextKeeping == Harsh = {} /\ Inductive /\ Keeping /\ [Next]_vars => Keeping'
<1> SUFFICES ASSUME Harsh = {}, Inductive, Keeping, [Next]_vars PROVE Keeping'
  OBVIOUS
<1>1. CASE Mount \/ Record \/ Erase
  BY <1>1, MountKeeping, RecordKeeping, EraseKeeping
<1>2. CASE AppendSteps
  BY <1>2, RetryKeeping, DropTailKeeping, OpenHeadKeeping, SaveRollKeeping, MarkKeeping,
     HeaderKeeping, BodyKeeping, ResolveKeeping, EvictKeeping, SaveTailKeeping,
     AcknowledgeKeeping, CountKeeping DEF AppendSteps
<1>3. CASE Flush \/ \E c \in Cursors : MarkRead(c)
  BY <1>3, FlushKeeping, MarkReadKeeping
<1>4. CASE Clear \/ Wipe \/ WipeSegment \/ WipeSave \/ ResetCursor
  BY <1>4, ClearKeeping, WipeKeeping, WipeSegmentKeeping, WipeSaveKeeping, ResetCursorKeeping
<1>5. CASE PowerCut \/ RecordsLost
  BY <1>5, PowerCutKeeping, RecordsLostKeeping
<1>6. CASE UNCHANGED vars
  BY <1>6, StutterKeeping
<1> QED BY <1>1, <1>2, <1>3, <1>4, <1>5, <1>6 DEF Next

\* Where the records lie, at every moment of every behaviour without the failures
\* that Harsh names.
THEOREM KeepingAlways == ASSUME Harsh = {} PROVE Spec => []Keeping
<1>1. Init => Keeping
  BY InitKeeping
<1>2. Inductive /\ Keeping /\ [Next]_vars => Keeping'
  BY NextKeeping
<1> QED BY <1>1, <1>2, InductiveAlways, PTL DEF Spec

\* A message whose append succeeded can be read until drop-oldest takes it,
\* whatever fails, wherever the power goes and however the ring turns.
THEOREM MessagesKept == ASSUME Harsh = {} PROVE Spec => []AckedReadable
<1>1. Inductive /\ Keeping => AckedReadable
  <2> SUFFICES ASSUME Inductive, Keeping, AtRest, harm \notin {"clear", "wipe"}
               PROVE  acked \subseteq Messages(ReadSince(seg, ram))
    BY DEF AckedReadable
  <2>1. harm = "none" /\ ram \in Views
    BY DEF Inductive, TypeOK, Harms, Harmed, AtRest, Views
  <2> QED BY <2>1 DEF Keeping, Kept
<1> QED BY <1>1, InductiveAlways, KeepingAlways, PTL

\* A message whose deletion was reported as done is never delivered again in its
\* epoch: drop-oldest and the roll never take the deletion before the message.
THEOREM DeletionsKept == ASSUME Harsh = {} PROVE Spec => []ErasedStaysErased
<1>1. Inductive /\ Keeping => ErasedStaysErased
  <2> SUFFICES ASSUME Inductive, Keeping, AtRest, harm \notin {"clear", "wipe"}, NEW k \in erased, k \in Pull(seg, ram)
               PROVE  FALSE
    BY DEF ErasedStaysErased
  <2>1. harm = "none" /\ ram \in Views
    BY DEF Inductive, TypeOK, Harms, Harmed, AtRest, Views
  <2>2. Outlived(seg, erased, ram)
    BY <2>1 DEF Keeping, Buried
  <2>3. PICK i \in Live(ram) : \E f \in Parsed(seg[i]) : f.of = 0 /\ f.seq = k
    BY MessageIs DEF Pull
  <2>4. PICK f \in Parsed(seg[i]) : f.of = 0 /\ f.seq = k
    BY <2>3
  <2>5. PICK j \in Live(ram) : \E g \in Parsed(seg[j]) : g.of = k
    BY <2>2, <2>4 DEF Outlived
  <2>6. PICK g \in Parsed(seg[j]) : g.of = k
    BY <2>5
  <2>7. k # 0
    <3>1. i \in Ring /\ \E n \in DOMAIN seg[i] : f = seg[i][n]
      BY LiveEnds DEF Inductive, TypeOK, Parsed
    <3>2. k \in 1..MaxSeq
      BY <2>4, <3>1 DEF Keeping, Counting
    <3> QED BY <3>2
  <2>8. k \in Targets(ReadSince(seg, ram))
    BY <2>6, <2>7 DEF Targets, ReadSince
  <2> QED BY <2>8 DEF Pull
<1> QED BY <1>1, InductiveAlways, KeepingAlways, PTL

\* No number is given to a second message while the first of its epoch is kept,
\* also behind an interrupted clear: the next number is above all of them.
THEOREM NumbersFresh == ASSUME Harsh = {} PROVE Spec => []DurableNumbersFresh
<1>1. Keeping => DurableNumbersFresh
  BY DEF Keeping, Kept, DurableNumbersFresh, AtRest
<1> QED BY <1>1, KeepingAlways, PTL

----------------------------------------------------------------------------
\* The log

\* Two views begin and end alike.
AtEnds(n, m) == n.head = m.head /\ n.tail = m.tail

\* The records are untouched, and a restart would find what it would have found
\* before or what the store itself goes by.
Quiet ==
  /\ pc \notin {"off", "wipe"} /\ pc' \notin {"off", "wipe"} /\ harm' = harm /\ next <= next'
  /\ \A i \in Ring : Parsed(seg'[i]) = Parsed(seg[i])
  /\ AtEnds(disk', disk) \/ AtEnds(disk', ram)
  /\ AtEnds(ram', ram)
  /\ pc' \in Writing => \/ pc \in Writing /\ job'.seq = job.seq /\ job'.of = job.of
                        \/ job'.seq = next /\ next < next' /\ job'.of < next

\* Views with the same ends read the same.
LEMMA OneView ==
  ASSUME NEW s, NEW n, NEW m, AtEnds(n, m)
  PROVE  /\ ReadSince(s, n) = ReadSince(s, m) /\ Younger(s, n) = Younger(s, m)
         /\ Rising(s, m) => Rising(s, n)
         /\ Pull(s, n) = Pull(s, m)
  <1>1. Live(n) = Live(m) /\ n.tail = m.tail /\ \A i : Position(n, i) = Position(m, i)
    BY SameEnds DEF AtEnds
  <1>2. ReadSince(s, n) = ReadSince(s, m) /\ Younger(s, n) = Younger(s, m)
    BY <1>1 DEF ReadSince, Younger
  <1> QED BY <1>1, <1>2 DEF Rising, Pull

\* What remains of a rising sequence of segments rises.
LEMMA RisingRest ==
  ASSUME NEW s, NEW t, NEW m, NEW n, Rising(s, m),
         \A i \in Live(n) : Parsed(t[i]) = {} \/ (i \in Live(m) /\ Parsed(t[i]) \subseteq Parsed(s[i])),
         \A i, j \in Live(n) : i \in Live(m) /\ j \in Live(m) /\ Position(n, i) < Position(n, j)
                                 => Position(m, i) < Position(m, j)
  PROVE  Rising(t, n)
  <1>1. ASSUME NEW i \in Live(n), NEW j \in Live(n), Position(n, i) < Position(n, j),
               NEW f \in Parsed(t[i]), NEW g \in Parsed(t[j])
        PROVE  f.seq < g.seq
    <2>1. i \in Live(m) /\ j \in Live(m) /\ f \in Parsed(s[i]) /\ g \in Parsed(s[j])
      OBVIOUS
    <2>2. Position(m, i) < Position(m, j)
      BY <1>1, <2>1
    <2> QED BY <2>1, <2>2 DEF Rising
  <1>2. ASSUME NEW f \in ReadSince(t, n) PROVE f.of < f.seq
    <2>1. PICK i \in Live(n) : f \in Parsed(t[i])
      BY DEF ReadSince
    <2>2. f \in ReadSince(s, m)
      BY <2>1 DEF ReadSince
    <2> QED BY <2>2 DEF Rising
  <1> QED BY <1>1, <1>2 DEF Rising

\* Without the oldest segment the log lacks its oldest messages, and no other ones.
LEMMA YoungerLog ==
  ASSUME NEW s \in [Ring -> Seq(Frame)], NEW m \in Meta, Rising(s, m),
         \A i \in Ring : \A k \in DOMAIN s[i] : s[i][k].seq \in 1..MaxSeq
  PROVE  \E k \in 0..MaxSeq :
           Messages(Younger(s, m)) \ Targets(Younger(s, m)) = {t \in Pull(s, m) : t > k}
  <1> DEFINE T == {f.seq : f \in Parsed(s[m.tail])}
             Y == Younger(s, m)
             R == ReadSince(s, m)
  <1>1. MaxSeq \in Nat /\ m.tail \in Live(m) /\ Live(m) \subseteq Ring
    BY SizeAssumption, LiveEnds
  <1>2. \A i \in Live(m) : \A f \in Parsed(s[i]) : f \in Frame /\ f.seq \in 1..MaxSeq
    <2> SUFFICES ASSUME NEW i \in Live(m), NEW f \in Parsed(s[i]) PROVE f \in Frame /\ f.seq \in 1..MaxSeq
      OBVIOUS
    <2>1. i \in Ring /\ s[i] \in Seq(Frame)
      BY <1>1
    <2>2. PICK k \in DOMAIN s[i] : f = s[i][k]
      BY DEF Parsed
    <2> QED BY <2>1, <2>2
  <1>3. T \subseteq 0..MaxSeq
    BY <1>1, <1>2
  <1>4. PICK k \in 0..MaxSeq : (\A n \in T : n <= k) /\ ((T = {} /\ k = 0) \/ k \in T)
    <2>1. CASE T = {}
      <3>1. 0 \in 0..MaxSeq
        BY <1>1
      <3> HIDE DEF T
      <3> QED BY <2>1, <3>1
    <2>2. CASE T # {}
      <3>1. PICK n \in T : \A k \in T : k <= n
        BY <2>2, <1>1, <1>3, LargestNumber
      <3> HIDE DEF T
      <3> QED BY <3>1, <1>3
    <2> QED BY <2>1, <2>2
  <1>5. \A f : f \in R <=> f \in Y \/ f \in Parsed(s[m.tail])
    BY <1>1 DEF ReadSince, Younger
  <1>6. \A f \in R : f \in Frame /\ f.seq \in 1..MaxSeq /\ f.of < f.seq
    BY <1>2 DEF ReadSince, Rising
  <1>7. ASSUME NEW f \in Y PROVE f.seq > k
    <2>1. PICK i \in Live(m) \ {m.tail} : f \in Parsed(s[i])
      BY DEF Younger
    <2>2. Position(m, m.tail) < Position(m, i)
      BY <2>1, LiveEnds
    <2>3. f.seq \in 1..MaxSeq
      BY <1>2, <2>1
    <2>4. CASE k \in T
      <3>1. PICK g \in Parsed(s[m.tail]) : k = g.seq
        BY <2>4
      <3>2. g.seq < f.seq
        BY <1>1, <2>1, <2>2, <3>1 DEF Rising
      <3> QED BY <3>1, <3>2, <2>3, <1>1
    <2> QED BY <1>4, <2>3, <2>4
  <1>8. \A f \in Parsed(s[m.tail]) : f.seq <= k /\ f.of < k
    <2> SUFFICES ASSUME NEW f \in Parsed(s[m.tail]) PROVE f.seq <= k /\ f.of < k
      OBVIOUS
    <2>1. f.seq \in T /\ f \in R
      BY <1>5
    <2>2. f.seq <= k /\ f.of < f.seq /\ f.seq \in Nat /\ f.of \in Nat /\ k \in Nat
      BY <2>1, <1>1, <1>4, <1>6 DEF Frame
    <2> QED BY <2>2
  <1>9. \A f \in R : f.seq \in Nat /\ f.of \in Nat
    BY <1>6 DEF Frame
  <1> HIDE DEF T, Y, R
  <1>10. ASSUME NEW t
         PROVE  t \in Messages(Y) \ Targets(Y) <=> t \in Messages(R) \ Targets(R) /\ t > k
    <2>1. t \in Messages(Y) <=> \E f \in Y : f.of = 0 /\ f.seq = t
      BY DEF Messages
    <2>2. t \in Messages(R) <=> \E f \in R : f.of = 0 /\ f.seq = t
      BY DEF Messages
    <2>3. t \in Targets(Y) <=> \E f \in Y : f.of # 0 /\ f.of = t
      BY DEF Targets
    <2>4. t \in Targets(R) <=> \E f \in R : f.of # 0 /\ f.of = t
      BY DEF Targets
    <2>5. t \in Messages(Y) <=> t \in Messages(R) /\ t > k
      <3>1. t \in Messages(Y) => t \in Messages(R) /\ t > k
        BY <2>1, <2>2, <1>5, <1>7
      <3>2. \A f \in R : f.seq > k => f \in Y
        BY <1>5, <1>8, <1>9, <1>1
      <3> QED BY <3>1, <3>2, <2>1, <2>2
    <2>6. t > k /\ t \in Messages(R) => (t \in Targets(Y) <=> t \in Targets(R))
      <3>1. \A f \in Parsed(s[m.tail]) : ~(f.of > k)
        <4> SUFFICES ASSUME NEW f \in Parsed(s[m.tail]) PROVE ~(f.of > k)
          OBVIOUS
        <4>1. f.of \in Nat /\ k \in Nat /\ f.of < k
          BY <1>1, <1>5, <1>8, <1>9
        <4> QED BY <4>1
      <3> QED BY <3>1, <2>3, <2>4, <1>5
    <2> QED BY <2>5, <2>6
  <1>11. Messages(Y) \ Targets(Y) = {t \in Messages(R) \ Targets(R) : t > k}
    BY <1>10
  <1> QED BY <1>11 DEF Y, R, Pull

\* A quiet step leaves the order alone.
LEMMA QuietOrderly ==
  ASSUME TypeOK, TypeOK', Orderly, Quiet
  PROVE  Orderly'
  <1>1. /\ Views = {disk, ram} /\ Views' = {disk', ram'}
        /\ disk \in Meta /\ ram \in Meta /\ disk' \in Meta /\ ram' \in Meta
        /\ next \in Nat /\ next' \in Nat /\ job'.seq \in Nat /\ job'.of \in Nat
    BY JobUpdates DEF Quiet, Views, TypeOK
  <1>2. ASSUME NEW m \in Meta
        PROVE  /\ ReadSince(seg', m) = ReadSince(seg, m) /\ Younger(seg', m) = Younger(seg, m)
               /\ Rising(seg, m) => Rising(seg', m)
    <2>1. \A i \in Live(m) : Parsed(seg'[i]) = Parsed(seg[i])
      BY LiveEnds DEF Quiet
    <2>2. ReadSince(seg', m) = ReadSince(seg, m) /\ Younger(seg', m) = Younger(seg, m)
      BY <2>1 DEF ReadSince, Younger
    <2> QED BY <2>1, <2>2 DEF Rising
  <1>3. ASSUME NEW n \in Views'
        PROVE  \E m \in Views : ReadSince(seg', n) = ReadSince(seg, m) /\ (Rising(seg, m) => Rising(seg', n))
    <2>1. PICK m \in Views : AtEnds(n, m)
      BY <1>1 DEF Quiet
    <2> QED BY <2>1, <1>1, <1>2, OneView
  <1>4. ASSUME NEW n \in Views', NEW f \in ReadSince(seg', n)
        PROVE  f.seq < next' /\ (pc' \in Writing => f.seq < job'.seq)
    <2>1. PICK m \in Views : f \in ReadSince(seg, m)
      BY <1>3
    <2>2. f.seq < next /\ (pc \in Writing => f.seq < job.seq)
      <3>1. pc # "off"
        BY DEF Quiet
      <3>2. \A v \in Views : \A g \in ReadSince(seg, v) :
              (pc # "off" => g.seq < next) /\ (pc \in Writing => g.seq < job.seq)
        BY DEF Orderly
      <3> QED BY <2>1, <3>1, <3>2
    <2>3. f.seq \in Nat
      BY <2>1, <1>1, ReadTyped DEF TypeOK, Frame
    <2>4. f.seq < next'
      BY <2>2, <2>3, <1>1 DEF Quiet
    <2> QED BY <2>2, <2>4 DEF Quiet
  <1>5. pc' \in Writing => job'.of < job'.seq
    BY DEF Quiet, Orderly
  <1>6. ReadSince(seg', ram') \in {ReadSince(seg', disk'), Younger(seg', disk')}
    <2>1. ReadSince(seg', ram') = ReadSince(seg, ram)
      BY <1>1, <1>2, OneView DEF Quiet
    <2>2. CASE AtEnds(disk', disk)
      <3>1. ReadSince(seg', disk') = ReadSince(seg, disk) /\ Younger(seg', disk') = Younger(seg, disk)
        BY <1>1, <1>2, <2>2, OneView
      <3> QED BY <2>1, <3>1 DEF Orderly, Quiet
    <2>3. CASE AtEnds(disk', ram)
      BY <1>1, <1>2, <2>1, <2>3, OneView
    <2> QED BY <2>2, <2>3 DEF Quiet
  <1>7. \A n \in Views' : Rising(seg', n)
    BY <1>3 DEF Orderly
  <1> QED BY <1>4, <1>5, <1>6, <1>7 DEF Orderly, Quiet

\* The log a mount would find stays, or lacks its oldest messages.
LEMMA LogDrops ==
  ASSUME TypeOK, Orderly, Counting, harm' = harm,
         ReadSince(seg', disk') \in {ReadSince(seg, disk), Younger(seg, disk)}
  PROVE  [Log!Next]_<<Pull(seg, disk), harm = "none">>
  <1>1. CASE ReadSince(seg', disk') = ReadSince(seg, disk)
    BY <1>1 DEF Pull
  <1>2. CASE ReadSince(seg', disk') = Younger(seg, disk)
    <2>1. seg \in [Ring -> Seq(Frame)] /\ disk \in Meta /\ Rising(seg, disk)
          /\ \A i \in Ring : \A k \in DOMAIN seg[i] : seg[i][k].seq \in 1..MaxSeq
      BY DEF TypeOK, Orderly, Counting, Views
    <2>2. PICK k \in 0..MaxSeq :
            Messages(Younger(seg, disk)) \ Targets(Younger(seg, disk)) = {t \in Pull(seg, disk) : t > k}
      BY <2>1, YoungerLog
    <2>3. Pull(seg', disk') = {t \in Pull(seg, disk) : t > k}
      BY <1>2, <2>2 DEF Pull
    <2>4. (harm' = "none") = (harm = "none")
      OBVIOUS
    <2> QED BY <2>3, <2>4 DEF Log!Next, Log!Drop
  <1> QED BY <1>1, <1>2

\* So it is with every quiet step.
LEMMA QuietLog ==
  ASSUME TypeOK, TypeOK', Orderly, Counting, Quiet
  PROVE  [Log!Next]_<<Pull(seg, disk), harm = "none">>
  <1>1. disk' \in Meta /\ \A i \in Live(disk') : Parsed(seg'[i]) = Parsed(seg[i])
    BY LiveEnds DEF Quiet, TypeOK
  <1>2. ReadSince(seg', disk') = ReadSince(seg, disk')
    BY <1>1 DEF ReadSince
  <1>3. ReadSince(seg, disk') = ReadSince(seg, disk) \/ ReadSince(seg, disk') = ReadSince(seg, ram)
    BY OneView DEF Quiet
  <1>4. ReadSince(seg', disk') \in {ReadSince(seg, disk), Younger(seg, disk)}
    BY <1>2, <1>3 DEF Orderly, Quiet
  <1> QED BY <1>4, LogDrops DEF Quiet

\* A new message takes a number behind everything that can be read.
LEMMA RecordQuiet == ASSUME Inductive, Keeping, Record PROVE Quiet
<1>0. 0 < next /\ next \in Nat
  BY DEF Keeping, Counting, Inductive, TypeOK, Record
<1>1. TypeOK /\ pc \notin {"off", "wipe"} /\ pc' \notin {"off", "wipe"} /\ harm' = harm
  BY <1>0 DEF Inductive, Record, Begin, history, bounds, medium
<1>2. seg' = seg /\ next' \in {next, next + 1} /\ next \in Nat
  BY <1>1 DEF TypeOK, Record, Begin, history, bounds, medium
<1>3. (AtEnds(disk', disk) \/ AtEnds(disk', ram)) /\ AtEnds(ram', ram)
  BY <1>1 DEF AtEnds, TypeOK, Meta, Record, Begin, history, bounds, medium
<1>4. pc' \in Writing => \/ pc \in Writing /\ job'.seq = job.seq /\ job'.of = job.of
                         \/ job'.seq = next /\ next < next' /\ job'.of < next
  BY <1>0, <1>1, <1>2 DEF Writing, Record, Begin, history, bounds, medium
<1> QED BY <1>1, <1>2, <1>3, <1>4 DEF Quiet

\* A deletion does so too, and its message was read, so it is older.
LEMMA EraseQuiet == ASSUME Inductive, Keeping, Orderly, Erase PROVE Quiet
<1>0. next \in Nat /\ job'.of < next
  <2>1. PICK of \in Pull(seg, ram) : Begin("erase", of)
    BY DEF Erase
  <2>2. PICK f \in ReadSince(seg, ram) : f.seq = of
    BY DEF Pull, Messages
  <2>3. ram \in Views /\ pc # "off"
    BY DEF Erase, Views
  <2>4. \A m \in Views : \A g \in ReadSince(seg, m) : pc # "off" => g.seq < next
    BY DEF Orderly
  <2>5. of < next
    BY <2>2, <2>3, <2>4
  <2>6. next \in Nat /\ job'.of = of
    BY <2>1 DEF Begin, Inductive, TypeOK
  <2> QED BY <2>5, <2>6
<1>1. TypeOK /\ pc \notin {"off", "wipe"} /\ pc' \notin {"off", "wipe"} /\ harm' = harm
  BY <1>0 DEF Inductive, Erase, Begin, history, bounds, medium
<1>2. seg' = seg /\ next' \in {next, next + 1} /\ next \in Nat
  BY <1>1 DEF TypeOK, Erase, Begin, history, bounds, medium
<1>3. (AtEnds(disk', disk) \/ AtEnds(disk', ram)) /\ AtEnds(ram', ram)
  BY <1>1 DEF AtEnds, TypeOK, Meta, Erase, Begin, history, bounds, medium
<1>4. pc' \in Writing => \/ pc \in Writing /\ job'.seq = job.seq /\ job'.of = job.of
                         \/ job'.seq = next /\ next < next' /\ job'.of < next
  BY <1>0, <1>1, <1>2 DEF Writing, Erase, Begin, history, bounds, medium
<1> QED BY <1>1, <1>2, <1>3, <1>4 DEF Quiet

\* A save made up for before an append puts the ends of the store on the medium.
LEMMA RetryQuiet == ASSUME Inductive, Keeping, Retry PROVE Quiet
<1>0. RollStep \in {"mark", "dropTail", "openHead"}
  BY DEF RollStep
<1>1. TypeOK /\ pc \notin {"off", "wipe"} /\ pc' \notin {"off", "wipe"} /\ harm' = harm
  BY <1>0 DEF Inductive, Retry, Saved, Unsaved, Works, Fails, GoTo, Refuse, history, bounds
<1>2. seg' = seg /\ next' \in {next, next + 1} /\ next \in Nat
  BY <1>1 DEF TypeOK, Retry, Saved, Unsaved, Works, Fails, GoTo, Refuse, history, bounds
<1>3. (AtEnds(disk', disk) \/ AtEnds(disk', ram)) /\ AtEnds(ram', ram)
  BY <1>1 DEF AtEnds, TypeOK, Meta, Retry, Saved, Unsaved, Works, Fails, GoTo, Refuse, history, bounds
<1>4. pc' \in Writing => \/ pc \in Writing /\ job'.seq = job.seq /\ job'.of = job.of
                         \/ job'.seq = next /\ next < next' /\ job'.of < next
  <2>1. pc \in Writing
    BY DEF Writing, Retry
  <2>2. pc' \in Writing => job' = job
    BY <1>0, <1>1 DEF Writing, Retry, Saved, Unsaved, Works, Fails, GoTo, Refuse, history, bounds
  <2> QED BY <2>1, <2>2
<1> QED BY <1>1, <1>2, <1>3, <1>4 DEF Quiet

\* The new head, saved or not, holds no record yet.
LEMMA SaveRollQuiet == ASSUME Inductive, Keeping, SaveRoll PROVE Quiet
<1>1. TypeOK /\ pc \notin {"off", "wipe"} /\ pc' \notin {"off", "wipe"} /\ harm' = harm
  BY DEF Inductive, SaveRoll, Saved, Unsaved, Works, Fails, GoTo, Refuse, history, bounds
<1>2. seg' = seg /\ next' \in {next, next + 1} /\ next \in Nat
  BY <1>1 DEF TypeOK, SaveRoll, Saved, Unsaved, Works, Fails, GoTo, Refuse, history, bounds
<1>3. (AtEnds(disk', disk) \/ AtEnds(disk', ram)) /\ AtEnds(ram', ram)
  BY <1>1 DEF AtEnds, TypeOK, Meta, SaveRoll, Saved, Unsaved, Works, Fails, GoTo, Refuse, history, bounds
<1>4. pc' \in Writing => \/ pc \in Writing /\ job'.seq = job.seq /\ job'.of = job.of
                         \/ job'.seq = next /\ next < next' /\ job'.of < next
  <2>1. pc \in Writing
    BY DEF Writing, SaveRoll
  <2>2. pc' \in Writing => job' = job
    BY <1>1 DEF Writing, SaveRoll, Saved, Unsaved, Works, Fails, GoTo, Refuse, history, bounds
  <2> QED BY <2>1, <2>2
<1> QED BY <1>1, <1>2, <1>3, <1>4 DEF Quiet

\* The marker says nothing about the ends of the ring.
LEMMA MarkQuiet == ASSUME Inductive, Keeping, Mark PROVE Quiet
<1>1. TypeOK /\ pc \notin {"off", "wipe"} /\ pc' \notin {"off", "wipe"} /\ harm' = harm
  BY DEF Inductive, Mark, Claim, Saved, Unsaved, Works, Fails, GoTo, Refuse, history, bounds
<1>2. seg' = seg /\ next' \in {next, next + 1} /\ next \in Nat
  BY <1>1 DEF TypeOK, Mark, Claim, Saved, Unsaved, Works, Fails, GoTo, Refuse, history, bounds
<1>3. (AtEnds(disk', disk) \/ AtEnds(disk', ram)) /\ AtEnds(ram', ram)
  BY <1>1 DEF AtEnds, TypeOK, Meta, Mark, Claim, Saved, Unsaved, Works, Fails, GoTo, Refuse, history, bounds
<1>4. pc' \in Writing => \/ pc \in Writing /\ job'.seq = job.seq /\ job'.of = job.of
                         \/ job'.seq = next /\ next < next' /\ job'.of < next
  <2>1. pc \in Writing
    BY DEF Writing, Mark
  <2>2. pc' \in Writing => job' = job
    BY <1>1 DEF Writing, Mark, Claim, Saved, Unsaved, Works, Fails, GoTo, Refuse, history, bounds
  <2> QED BY <2>1, <2>2
<1> QED BY <1>1, <1>2, <1>3, <1>4 DEF Quiet

\* Nor does the marker behind the record.
LEMMA ResolveQuiet == ASSUME Inductive, Keeping, Resolve PROVE Quiet
<1>1. TypeOK /\ pc \notin {"off", "wipe"} /\ pc' \notin {"off", "wipe"} /\ harm' = harm
  BY DEF Inductive, Resolve, Saved, Unsaved, Works, Fails, GoTo, history, bounds
<1>2. seg' = seg /\ next' \in {next, next + 1} /\ next \in Nat
  BY <1>1 DEF TypeOK, Resolve, Saved, Unsaved, Works, Fails, GoTo, history, bounds
<1>3. (AtEnds(disk', disk) \/ AtEnds(disk', ram)) /\ AtEnds(ram', ram)
  BY <1>1 DEF AtEnds, TypeOK, Meta, Resolve, Saved, Unsaved, Works, Fails, GoTo, history, bounds
<1>4. pc' \in Writing => \/ pc \in Writing /\ job'.seq = job.seq /\ job'.of = job.of
                         \/ job'.seq = next /\ next < next' /\ job'.of < next
  BY <1>1, <1>2 DEF Writing, Resolve, Saved, Unsaved, Works, Fails, GoTo, history, bounds
<1> QED BY <1>1, <1>2, <1>3, <1>4 DEF Quiet

\* The passed tail is saved, or stays what a mount would begin with.
LEMMA SaveTailQuiet == ASSUME Inductive, Keeping, SaveTail PROVE Quiet
<1>1. TypeOK /\ pc \notin {"off", "wipe"} /\ pc' \notin {"off", "wipe"} /\ harm' = harm
  BY DEF Inductive, SaveTail, Saved, Unsaved, Works, Fails, GoTo, history, bounds
<1>2. seg' = seg /\ next' \in {next, next + 1} /\ next \in Nat
  BY <1>1 DEF TypeOK, SaveTail, Saved, Unsaved, Works, Fails, GoTo, history, bounds
<1>3. (AtEnds(disk', disk) \/ AtEnds(disk', ram)) /\ AtEnds(ram', ram)
  BY <1>1 DEF AtEnds, TypeOK, Meta, SaveTail, Saved, Unsaved, Works, Fails, GoTo, history, bounds
<1>4. pc' \in Writing => \/ pc \in Writing /\ job'.seq = job.seq /\ job'.of = job.of
                         \/ job'.seq = next /\ next < next' /\ job'.of < next
  BY <1>1, <1>2 DEF Writing, SaveTail, Saved, Unsaved, Works, Fails, GoTo, history, bounds
<1> QED BY <1>1, <1>2, <1>3, <1>4 DEF Quiet

\* Saving the counter saves the ends of the store with it.
LEMMA FlushQuiet == ASSUME Inductive, Keeping, Flush PROVE Quiet
<1>1. TypeOK /\ pc \notin {"off", "wipe"} /\ pc' \notin {"off", "wipe"} /\ harm' = harm
  BY DEF Inductive, Flush, Persist, PersistFails, Saved, Unsaved, Works, Fails, history, bounds
<1>2. seg' = seg /\ next' \in {next, next + 1} /\ next \in Nat
  BY <1>1 DEF TypeOK, Flush, Persist, PersistFails, Saved, Unsaved, Works, Fails, history, bounds
<1>3. (AtEnds(disk', disk) \/ AtEnds(disk', ram)) /\ AtEnds(ram', ram)
  BY <1>1 DEF AtEnds, TypeOK, Meta, Flush, Persist, PersistFails, Saved, Unsaved, Works, Fails, history, bounds
<1>4. pc' \in Writing => \/ pc \in Writing /\ job'.seq = job.seq /\ job'.of = job.of
                         \/ job'.seq = next /\ next < next' /\ job'.of < next
  BY <1>1, <1>2 DEF Writing, Flush, Persist, PersistFails, Saved, Unsaved, Works, Fails, history, bounds
<1> QED BY <1>1, <1>2, <1>3, <1>4 DEF Quiet

\* The cursor a clear resets is none of the records' business.
LEMMA ResetCursorQuiet == ASSUME Inductive, Keeping, ResetCursor PROVE Quiet
<1>1. TypeOK /\ pc \notin {"off", "wipe"} /\ pc' \notin {"off", "wipe"} /\ harm' = harm
  BY DEF Inductive, ResetCursor, NoJob, Saved, Unsaved, Works, Fails, history, bounds
<1>2. seg' = seg /\ next' \in {next, next + 1} /\ next \in Nat
  BY <1>1 DEF TypeOK, ResetCursor, NoJob, Saved, Unsaved, Works, Fails, history, bounds
<1>3. (AtEnds(disk', disk) \/ AtEnds(disk', ram)) /\ AtEnds(ram', ram)
  BY <1>1 DEF AtEnds, TypeOK, Meta, ResetCursor, NoJob, Saved, Unsaved, Works, Fails, history, bounds
<1>4. pc' \in Writing => \/ pc \in Writing /\ job'.seq = job.seq /\ job'.of = job.of
                         \/ job'.seq = next /\ next < next' /\ job'.of < next
  BY <1>1, <1>2 DEF Writing, ResetCursor, NoJob, Saved, Unsaved, Works, Fails, history, bounds
<1> QED BY <1>1, <1>2, <1>3, <1>4 DEF Quiet

\* Nor is the one an app sets.
LEMMA MarkReadQuiet == ASSUME Inductive, Keeping, NEW c \in Cursors, MarkRead(c) PROVE Quiet
<1>1. TypeOK /\ pc \notin {"off", "wipe"} /\ pc' \notin {"off", "wipe"} /\ harm' = harm
  BY DEF Inductive, MarkRead, Saved, Unsaved, Works, Fails, history, bounds
<1>2. seg' = seg /\ next' \in {next, next + 1} /\ next \in Nat
  BY <1>1 DEF TypeOK, MarkRead, Saved, Unsaved, Works, Fails, history, bounds
<1>3. (AtEnds(disk', disk) \/ AtEnds(disk', ram)) /\ AtEnds(ram', ram)
  BY <1>1 DEF AtEnds, TypeOK, Meta, MarkRead, Saved, Unsaved, Works, Fails, history, bounds
<1>4. pc' \in Writing => \/ pc \in Writing /\ job'.seq = job.seq /\ job'.of = job.of
                         \/ job'.seq = next /\ next < next' /\ job'.of < next
  BY <1>1, <1>2 DEF Writing, MarkRead, Saved, Unsaved, Works, Fails, history, bounds
<1> QED BY <1>1, <1>2, <1>3, <1>4 DEF Quiet

\* Reporting success touches neither medium.
LEMMA AcknowledgeQuiet == ASSUME Inductive, Keeping, Acknowledge PROVE Quiet
<1>1. TypeOK /\ pc \notin {"off", "wipe"} /\ pc' \notin {"off", "wipe"} /\ harm' = harm
  BY DEF Inductive, Acknowledge, GoTo, medium, core, bounds
<1>2. seg' = seg /\ next' \in {next, next + 1} /\ next \in Nat
  BY <1>1 DEF TypeOK, Acknowledge, GoTo, medium, core, bounds
<1>3. (AtEnds(disk', disk) \/ AtEnds(disk', ram)) /\ AtEnds(ram', ram)
  BY <1>1 DEF AtEnds, TypeOK, Meta, Acknowledge, GoTo, medium, core, bounds
<1>4. pc' \in Writing => \/ pc \in Writing /\ job'.seq = job.seq /\ job'.of = job.of
                         \/ job'.seq = next /\ next < next' /\ job'.of < next
  BY <1>1, <1>2 DEF Writing, Acknowledge, GoTo, medium, core, bounds
<1> QED BY <1>1, <1>2, <1>3, <1>4 DEF Quiet

\* The end of an append saves at most the metadata in use.
LEMMA CountQuiet == ASSUME Inductive, Keeping, Count PROVE Quiet
<1>1. TypeOK /\ pc \notin {"off", "wipe"} /\ pc' \notin {"off", "wipe"} /\ harm' = harm
  BY DEF Inductive, Count, Persist, PersistFails, Saved, Unsaved, NoJob, Works, Fails, history, bounds
<1>2. seg' = seg /\ next' \in {next, next + 1} /\ next \in Nat
  BY <1>1 DEF TypeOK, Count, Persist, PersistFails, Saved, Unsaved, NoJob, Works, Fails, history, bounds
<1>3. (AtEnds(disk', disk) \/ AtEnds(disk', ram)) /\ AtEnds(ram', ram)
  BY <1>1 DEF AtEnds, TypeOK, Meta, Count, Persist, PersistFails, Saved, Unsaved, NoJob, Works, Fails, history, bounds
<1>4. pc' \in Writing => \/ pc \in Writing /\ job'.seq = job.seq /\ job'.of = job.of
                         \/ job'.seq = next /\ next < next' /\ job'.of < next
  BY <1>1, <1>2 DEF Writing, Count, Persist, PersistFails, Saved, Unsaved, NoJob, Works, Fails, history, bounds
<1> QED BY <1>1, <1>2, <1>3, <1>4 DEF Quiet

\* A header is a quiet step: it is not read.
LEMMA HeaderQuiet == ASSUME Inductive, Keeping, Header PROVE Quiet
<1>1. TypeOK /\ seg \in [Ring -> Seq(Frame)] /\ ram.head \in Ring
  BY DEF Inductive, TypeOK, Meta
<1>2. /\ pc = "header" /\ disk' = disk /\ ram' = ram /\ next' = next /\ harm' = harm
      /\ pc' \in {"body", "batch"} /\ (Put(FALSE) \/ seg' = seg)
  BY DEF Header, GoTo, Refuse
<1>3. \A i \in Ring : Parsed(seg'[i]) = Parsed(seg[i])
  <2>1. PICK f : f = [seq |-> job.seq, of |-> job.of, whole |-> FALSE]
    OBVIOUS
  <2>2. f \in Frame /\ ~f.whole
    BY <1>1, <2>1, JobUpdates DEF TypeOK, Frame
  <2>3. CASE Put(FALSE)
    <3>1. seg'[ram.head] = Append(seg[ram.head], f) /\ \A i \in Ring : i # ram.head => seg'[i] = seg[i]
      BY <1>1, <2>1, <2>3 DEF Put
    <3>2. Parsed(Append(seg[ram.head], f)) = Parsed(seg[ram.head])
      BY <1>1, <2>2, ParsedAppend
    <3> QED BY <3>1, <3>2
  <2> QED BY <1>2, <2>3
<1>4. next <= next'
  BY <1>1, <1>2 DEF TypeOK
<1>5. pc' \in Writing => pc \in Writing /\ job' = job
  BY <1>2 DEF Writing, Header, GoTo, Refuse
<1>6. AtEnds(disk', disk) /\ AtEnds(ram', ram)
  BY <1>2 DEF AtEnds
<1>7. pc \notin {"off", "wipe"} /\ pc' \notin {"off", "wipe"} /\ harm' = harm
  BY <1>2
<1> QED BY <1>3, <1>4, <1>5, <1>6, <1>7 DEF Quiet

\* A body completes the record under way or is a quiet step.
LEMMA BodyReads ==
  ASSUME Inductive, Keeping, Body
  PROVE  /\ pc = "body" /\ pc' \in {"resolve", "batch"} /\ disk' = disk /\ ram' = ram /\ ram = disk
         /\ next' = next /\ harm' = harm
         /\ \/ seg' = seg
            \/ /\ \A i \in Ring : i # ram.head => Parsed(seg'[i]) = Parsed(seg[i])
               /\ Parsed(seg'[ram.head]) = Parsed(seg[ram.head]) \cup {Written}
<1>1. TypeOK /\ seg \in [Ring -> Seq(Frame)] /\ ram.head \in Ring
  BY DEF Inductive, TypeOK, Meta
<1>2. /\ pc = "body" /\ disk' = disk /\ ram' = ram /\ next' = next /\ harm' = harm
      /\ pc' \in {"resolve", "batch"} /\ (Complete \/ seg' = seg)
  BY DEF Body, GoTo, Refuse, history
<1>3. ram = disk
  BY <1>2 DEF Inductive, Settled
<1> DEFINE q == seg[ram.head]
<1>4. /\ Len(q) > 0 /\ q \in Seq(Frame)
      /\ \A k \in 1..(Len(q) - 1) : q[k].whole
      /\ q[Len(q)] = [Written EXCEPT !.whole = FALSE]
  BY <1>1, <1>2 DEF Keeping, Sealing
<1>5. Written = [q[Len(q)] EXCEPT !.whole = TRUE] /\ ~q[Len(q)].whole /\ q # <<>>
  <2>1. q # <<>>
    BY <1>4
  <2> QED BY <2>1, <1>1, <1>4, WrittenIs
<1>6. Parsed(Whole(q)) = Parsed(q) \cup {Written}
  BY <1>4, <1>5, ParsedWhole
<1>7. Complete => seg'[ram.head] = Whole(q) /\ \A i \in Ring : i # ram.head => seg'[i] = seg[i]
  BY <1>1 DEF Complete
<1> QED BY <1>2, <1>3, <1>6, <1>7

\* A record that is complete comes behind all others, in the ring and in the log.
LEMMA BodyLog ==
  ASSUME Inductive, TypeOK', Keeping, Orderly, Body
  PROVE  Orderly' /\ [Log!Next]_<<Pull(seg, disk), harm = "none">>
<1>1. /\ pc = "body" /\ pc' \in {"resolve", "batch"} /\ disk' = disk /\ ram' = ram /\ ram = disk
      /\ next' = next /\ harm' = harm
      /\ \/ seg' = seg
         \/ /\ \A i \in Ring : i # ram.head => Parsed(seg'[i]) = Parsed(seg[i])
            /\ Parsed(seg'[ram.head]) = Parsed(seg[ram.head]) \cup {Written}
  BY BodyReads
<1>2. /\ TypeOK /\ disk \in Meta /\ disk.head \in Live(disk) /\ Live(disk) \subseteq Ring
      /\ Views = {disk} /\ Views' = {disk} /\ pc' \notin Writing /\ pc \in Writing
  BY <1>1, LiveEnds DEF Inductive, TypeOK, Views, Writing
<1>3. CASE seg' = seg
  <2>1. Orderly'
    BY <1>1, <1>2, <1>3 DEF Orderly
  <2> QED BY <2>1, <1>1, <1>3
<1>4. CASE /\ \A i \in Ring : i # ram.head => Parsed(seg'[i]) = Parsed(seg[i])
           /\ Parsed(seg'[ram.head]) = Parsed(seg[ram.head]) \cup {Written}
  <2>1. \A f : f \in ReadSince(seg', disk) <=> f \in ReadSince(seg, disk) \/ f = Written
    BY <1>1, <1>2, <1>4 DEF ReadSince
  <2>2. /\ Written.seq = job.seq /\ Written.of = job.of /\ job.of < job.seq
        /\ job.seq \in 1..MaxSeq /\ job.seq < next /\ MaxSeq \in Nat
    BY <1>1, <1>2, SizeAssumption DEF Written, Keeping, Counting, Appending, Orderly
  <2>3. \A f \in ReadSince(seg, disk) : /\ f.seq < next /\ f.seq < job.seq /\ f.of < f.seq
                                        /\ f.seq \in Nat /\ f.of \in Nat
    <3>1. \A f \in ReadSince(seg, disk) : f.seq \in Nat /\ f.of \in Nat
      BY <1>2, ReadTyped DEF TypeOK, Frame
    <3> QED BY <3>1, <1>1, <1>2 DEF Orderly, Rising
  <2>4. Rising(seg', disk)
    <3>1. ASSUME NEW i \in Live(disk), NEW j \in Live(disk), Position(disk, i) < Position(disk, j),
                 NEW f \in Parsed(seg'[i]), NEW g \in Parsed(seg'[j])
          PROVE  f.seq < g.seq
      <4>1. i # disk.head
        BY <3>1, LiveEnds, <1>2
      <4>2. f \in Parsed(seg[i]) /\ f \in ReadSince(seg, disk)
        BY <4>1, <1>1, <1>2, <1>4 DEF ReadSince
      <4>3. CASE g = Written
        BY <4>2, <4>3, <2>2, <2>3
      <4>4. CASE g \in Parsed(seg[j])
        BY <3>1, <4>2, <4>4, <1>2 DEF Orderly, Rising
      <4> QED BY <4>3, <4>4, <1>1, <1>2, <1>4
    <3>2. \A f \in ReadSince(seg', disk) : f.of < f.seq
      BY <2>1, <2>2, <2>3
    <3> QED BY <3>1, <3>2 DEF Rising
  <2>5. Orderly'
    <3>1. \A f \in ReadSince(seg', disk) : f.seq < next
      BY <2>1, <2>2, <2>3
    <3> QED BY <3>1, <2>4, <1>1, <1>2 DEF Orderly
  <2> DEFINE P == Pull(seg, disk)
             Q == Pull(seg', disk)
             R == ReadSince(seg, disk)
             S == ReadSince(seg', disk)
  <2>6. \A t : /\ t \in Messages(R) <=> \E f \in R : f.of = 0 /\ f.seq = t
               /\ t \in Messages(S) <=> \E f \in S : f.of = 0 /\ f.seq = t
               /\ t \in Targets(R) <=> \E f \in R : f.of # 0 /\ f.of = t
               /\ t \in Targets(S) <=> \E f \in S : f.of # 0 /\ f.of = t
    BY DEF Messages, Targets
  <2>7. P = Messages(R) \ Targets(R) /\ Q = Messages(S) \ Targets(S)
    BY DEF Pull
  <2> HIDE DEF P, Q, R, S
  <2>8. CASE job.of = 0
    <3>1. \A t : t \in Messages(S) <=> t \in Messages(R) \/ t = job.seq
      BY <2>1, <2>2, <2>6, <2>8 DEF R, S
    <3>2. \A t : t \in Targets(S) <=> t \in Targets(R)
      BY <2>1, <2>2, <2>6, <2>8 DEF R, S
    <3>3. job.seq \notin Targets(R)
      <4>1. \A f \in R : f.of # job.seq
        BY <2>2, <2>3 DEF R
      <4> QED BY <4>1, <2>6
    <3>4. Q = P \cup {job.seq}
      BY <3>1, <3>2, <3>3, <2>7
    <3>5. \A t \in P : t < job.seq
      BY <2>3, <2>6, <2>7 DEF R
    <3>6. job.seq \in 0..MaxSeq
      BY <2>2
    <3>7. Log!Append
      BY <3>4, <3>5, <3>6, <1>1 DEF Log!Append, P, Q
    <3> QED BY <3>7, <2>5, <1>1 DEF Log!Next
  <2>9. CASE job.of # 0
    <3>1. \A t : t \in Messages(S) <=> t \in Messages(R)
      BY <2>1, <2>2, <2>6, <2>9 DEF R, S
    <3>2. \A t : t \in Targets(S) <=> t \in Targets(R) \/ t = job.of
      BY <2>1, <2>2, <2>6, <2>9 DEF R, S
    <3>3. Q = P \ {job.of}
      BY <3>1, <3>2, <2>7
    <3>4. CASE job.of \in P
      <4>1. Log!Delete
        BY <3>3, <3>4, <1>1 DEF Log!Delete, P, Q
      <4> QED BY <4>1, <2>5, <1>1 DEF Log!Next
    <3>5. CASE job.of \notin P
      <4>1. Q = P
        BY <3>3, <3>5
      <4> QED BY <4>1, <2>5, <1>1 DEF P, Q
    <3> QED BY <3>4, <3>5
  <2> QED BY <2>8, <2>9
<1> QED BY <1>1, <1>3, <1>4

\* Drop-oldest takes the oldest messages of the log, from the medium and from the
\* store, or does so in two steps.
LEMMA TailLog ==
  ASSUME TypeOK, TypeOK', Orderly, Counting, pc # "off", pc' \notin {"off", "wipe"},
         disk' = disk, AtEnds(disk, ram), ram.tail # ram.head,
         ram'.head = ram.head, ram'.tail = After(ram.tail),
         seg' = seg \/ seg' = [seg EXCEPT ![ram.tail] = <<>>],
         harm' = harm, next' = next, job' = job, pc' \in Writing => pc \in Writing
  PROVE  Orderly' /\ [Log!Next]_<<Pull(seg, disk), harm = "none">>
  <1>1. /\ ram \in Meta /\ disk \in Meta /\ ram' \in Meta /\ seg \in [Ring -> Seq(Frame)]
        /\ Views = {disk, ram} /\ Views' = {disk, ram'}
    BY DEF TypeOK, Views
  <1>2. PICK x : x = ram.tail /\ x = disk.tail
    BY DEF AtEnds
  <1>3. x \in Ring /\ Live(disk) = Live(ram) /\ Live(ram) \subseteq Ring /\ x \in Live(ram)
    BY <1>1, <1>2, LiveEnds, SameEnds DEF AtEnds
  <1>4. /\ Live(ram') = Live(ram) \ {x}
        /\ \A i, j \in Live(ram') : Position(ram, i) <= Position(ram, j) <=> Position(ram', i) <= Position(ram', j)
    BY <1>1, <1>2, TailPassed
  <1>5. /\ \A i \in Ring : i # x => seg'[i] = seg[i]
        /\ Parsed(seg'[x]) = {} \/ seg' = seg
    BY <1>1, <1>2, <1>3, Emptied
  <1>6. \A i \in Ring : Parsed(seg'[i]) \subseteq Parsed(seg[i])
    BY <1>5
  <1>7. Rising(seg', disk)
    <2>1. Rising(seg, disk)
      BY <1>1 DEF Orderly
    <2>2. \A i \in Live(disk) : Parsed(seg'[i]) = {} \/ (i \in Live(disk) /\ Parsed(seg'[i]) \subseteq Parsed(seg[i]))
      BY <1>3, <1>6
    <2> QED BY <2>1, <2>2, RisingRest
  <1>8. Rising(seg', ram')
    <2>1. Rising(seg, ram)
      BY <1>1 DEF Orderly
    <2>2. \A i \in Live(ram') : Parsed(seg'[i]) = {} \/ (i \in Live(ram) /\ Parsed(seg'[i]) \subseteq Parsed(seg[i]))
      BY <1>3, <1>4, <1>6
    <2>3. ASSUME NEW i \in Live(ram'), NEW j \in Live(ram'), Position(ram', i) < Position(ram', j)
          PROVE  Position(ram, i) < Position(ram, j)
      <3>1. Position(ram, j) <= Position(ram, i) <=> Position(ram', j) <= Position(ram', i)
        BY <1>4
      <3>2. /\ Position(ram', i) \in Nat /\ Position(ram', j) \in Nat
            /\ Position(ram, i) \in Nat /\ Position(ram, j) \in Nat
        BY <1>1, <1>4, LiveEnds
      <3> QED BY <2>3, <3>1, <3>2
    <2> QED BY <2>1, <2>2, <2>3, RisingRest
  <1>9. /\ ReadSince(seg', ram') = Younger(seg, disk)
        /\ Younger(seg', disk) = Younger(seg, disk)
        /\ ReadSince(seg', disk) \in {ReadSince(seg, disk), Younger(seg, disk)}
        /\ Younger(seg, disk) \subseteq ReadSince(seg, ram)
    <2>1. \A i \in Live(ram) \ {x} : Parsed(seg'[i]) = Parsed(seg[i])
      BY <1>3, <1>5
    <2>2. ReadSince(seg', ram') = Younger(seg, disk) /\ Younger(seg', disk) = Younger(seg, disk)
      BY <2>1, <1>2, <1>3, <1>4 DEF ReadSince, Younger
    <2>3. CASE Parsed(seg'[x]) = {}
      <3>1. \A f : f \in ReadSince(seg', disk) <=> f \in Younger(seg, disk)
        BY <2>1, <2>3, <1>2, <1>3 DEF ReadSince, Younger
      <3>2. ReadSince(seg', disk) = Younger(seg, disk)
        BY <3>1 DEF ReadSince, Younger
      <3> QED BY <3>2, <2>2, <1>3 DEF ReadSince, Younger
    <2>4. CASE seg' = seg
      BY <2>2, <2>4, <1>3 DEF ReadSince, Younger
    <2> QED BY <2>3, <2>4, <1>5
  <1>10. ASSUME NEW n \in Views', NEW f \in ReadSince(seg', n)
         PROVE  f.seq < next' /\ (pc' \in Writing => f.seq < job'.seq)
    <2>1. ReadSince(seg, disk) = ReadSince(seg, ram)
      BY OneView
    <2>2. f \in ReadSince(seg, ram)
      BY <2>1, <1>1, <1>9
    <2> QED BY <2>2, <1>1 DEF Orderly
  <1>11. Orderly'
    <2>1. \A n \in Views' : Rising(seg', n)
      BY <1>1, <1>7, <1>8
    <2> QED BY <2>1, <1>9, <1>10 DEF Orderly
  <1>12. [Log!Next]_<<Pull(seg, disk), harm = "none">>
    BY <1>9, LogDrops
  <1> QED BY <1>11, <1>12

\* The full ring drops its tail.
LEMMA DropTailLog ==
  ASSUME Inductive, TypeOK', Keeping, Orderly, DropTail
  PROVE  Orderly' /\ [Log!Next]_<<Pull(seg, disk), harm = "none">>
<1>1. TypeOK /\ ram.head \in Ring /\ ram.tail \in Ring
  BY DEF Inductive, TypeOK, Meta
<1>2. /\ pc = "dropTail" /\ pc' = "openHead" /\ disk' = disk /\ next' = next
      /\ job' = job /\ harm' = harm
      /\ seg' = seg \/ seg' = [seg EXCEPT ![ram.tail] = <<>>]
  BY DEF DropTail, PassTail, EraseTail, Erased, GoTo
<1>3. ram'.head = ram.head /\ ram'.tail = After(ram.tail)
  BY <1>1 DEF DropTail, PassTail, TypeOK, Meta
<1>4. ram = disk /\ ram.tail # ram.head
  <2>1. After(ram.head) = ram.tail
    BY <1>2 DEF Keeping, Turning
  <2>2. ram = disk
    BY <1>2 DEF Inductive, Settled
  <2> QED BY <2>1, <2>2, <1>1, Ringed
<1>5. AtEnds(disk, ram)
  BY <1>4 DEF AtEnds
<1>6. pc # "off" /\ pc' \notin {"off", "wipe"} /\ pc \in Writing
  BY <1>2 DEF Writing
<1> QED BY <1>1, <1>2, <1>3, <1>4, <1>5, <1>6, TailLog DEF Keeping

\* A ring over its cap drops its tail, or keeps everything.
LEMMA EvictLog ==
  ASSUME Inductive, TypeOK', Keeping, Orderly, Evict
  PROVE  Orderly' /\ [Log!Next]_<<Pull(seg, disk), harm = "none">>
<1>1. TypeOK /\ ram.head \in Ring /\ ram.tail \in Ring
  BY DEF Inductive, TypeOK, Meta
<1>2. /\ pc = "evict" /\ pc' \in {"saveTail", "acknowledge"} /\ disk' = disk /\ next' = next
      /\ job' = job /\ harm' = harm
      /\ \/ /\ ram.tail # ram.head /\ seg' = [seg EXCEPT ![ram.tail] = <<>>]
            /\ ram' = [ram EXCEPT !.tail = After(@)]
         \/ seg' = seg /\ ram' = ram
  BY DEF Evict, PassTail, EraseTail, Erased, GoTo
<1>3. pc # "off" /\ pc' \notin {"off", "wipe"} /\ pc' \notin Writing
  BY <1>2 DEF Writing
<1>4. CASE ram.tail # ram.head /\ seg' = [seg EXCEPT ![ram.tail] = <<>>] /\ ram' = [ram EXCEPT !.tail = After(@)]
  <2>1. AtEnds(disk, ram)
    BY <1>2 DEF Keeping, Turning, AtEnds
  <2>2. ram'.head = ram.head /\ ram'.tail = After(ram.tail)
    BY <1>1, <1>4 DEF TypeOK, Meta
  <2> QED BY <1>1, <1>2, <1>3, <1>4, <2>1, <2>2, TailLog DEF Keeping
<1>5. CASE seg' = seg /\ ram' = ram
  <2>1. AtEnds(disk', disk) /\ AtEnds(ram', ram) /\ next <= next'
    BY <1>1, <1>2, <1>5 DEF AtEnds, TypeOK
  <2>2. Quiet
    BY <1>2, <1>3, <1>5, <2>1 DEF Quiet
  <2> QED BY <1>1, <2>2, QuietOrderly, QuietLog DEF Keeping
<1> QED BY <1>2, <1>4, <1>5

\* The new head was empty to the store already; what a mount would still have
\* found there were the oldest messages.
LEMMA OpenHeadLog ==
  ASSUME Inductive, TypeOK', Keeping, Orderly, OpenHead
  PROVE  Orderly' /\ [Log!Next]_<<Pull(seg, disk), harm = "none">>
<1>1. /\ TypeOK /\ seg \in [Ring -> Seq(Frame)] /\ ram \in Meta /\ disk \in Meta /\ ram' \in Meta
      /\ ram.head \in Ring /\ After(ram.head) \in Ring
  BY Ringed DEF Inductive, TypeOK, Meta
<1>2. /\ pc = "openHead" /\ disk' = disk /\ next' = next /\ harm' = harm
      /\ \/ /\ pc' = "saveRoll" /\ seg' = [seg EXCEPT ![After(ram.head)] = <<>>] /\ job' = job
            /\ ram'.head = After(ram.head) /\ ram'.tail = ram.tail
         \/ pc' = "batch" /\ seg' = seg /\ ram' = ram
  BY <1>1 DEF OpenHead, Erased, Fails, GoTo, Refuse, history, Meta
<1>3. PICK x : x = After(ram.head)
  OBVIOUS
<1>4. /\ x \in Ring /\ x # ram.tail /\ disk.head = ram.head
      /\ disk.tail = ram.tail \/ (disk.tail = x /\ ram.tail = After(disk.tail))
  BY <1>1, <1>2, <1>3 DEF Keeping, Turning
<1>5. Views = {disk, ram} /\ Views' = {disk, ram'} /\ pc \in Writing /\ pc # "off"
  BY <1>2 DEF Views, Writing
<1>6. CASE pc' = "batch" /\ seg' = seg /\ ram' = ram
  <2>1. AtEnds(disk', disk) /\ AtEnds(ram', ram) /\ next <= next'
    BY <1>1, <1>2, <1>6 DEF AtEnds, TypeOK
  <2>2. pc \notin {"off", "wipe"} /\ pc' \notin {"off", "wipe"} /\ pc' \notin Writing
    BY <1>2, <1>6 DEF Writing
  <2>3. Quiet
    BY <1>2, <1>6, <2>1, <2>2 DEF Quiet
  <2> QED BY <1>1, <2>3, QuietOrderly, QuietLog DEF Keeping
<1>7. CASE /\ pc' = "saveRoll" /\ seg' = [seg EXCEPT ![x] = <<>>] /\ job' = job
           /\ ram'.head = x /\ ram'.tail = ram.tail
  <2>1. Parsed(seg'[x]) = {} /\ \A i \in Ring : i # x => seg'[i] = seg[i]
    BY <1>1, <1>4, <1>7, Emptied
  <2>2. /\ Live(ram') = Live(ram) \cup {x} /\ x \notin Live(ram)
        /\ \A i : Position(ram, i) = Position(ram', i)
    BY <1>1, <1>3, <1>4, <1>7, HeadMoved
  <2>3. Live(ram) \subseteq Ring /\ Live(disk) \subseteq Ring
    BY <1>1, LiveEnds
  <2>4. ReadSince(seg', ram') = ReadSince(seg, ram)
    <3>1. \A f : f \in ReadSince(seg', ram') <=> f \in ReadSince(seg, ram)
      BY <2>1, <2>2, <2>3 DEF ReadSince
    <3> QED BY <3>1 DEF ReadSince
  <2>5. /\ ReadSince(seg', disk) \in {ReadSince(seg, disk), Younger(seg, disk)}
        /\ ReadSince(seg', disk) = ReadSince(seg', ram')
    <3>1. CASE disk.tail = ram.tail
      <4>1. Live(disk) = Live(ram)
        BY <1>4, <3>1, SameEnds
      <4>2. \A i \in Live(disk) : Parsed(seg'[i]) = Parsed(seg[i])
        BY <4>1, <2>1, <2>2, <2>3
      <4>3. ReadSince(seg', disk) = ReadSince(seg, disk)
        BY <4>2 DEF ReadSince
      <4> QED BY <4>1, <4>3, <2>4 DEF ReadSince
    <3>2. CASE disk.tail = x /\ ram.tail = After(disk.tail)
      <4>1. disk.tail # disk.head
        BY <1>1, <1>3, <1>4, <3>2, Ringed
      <4>2. Live(ram) = Live(disk) \ {x}
        BY <1>1, <1>4, <3>2, <4>1, TailPassed
      <4>3. Younger(seg, disk) = ReadSince(seg, ram)
        BY <3>2, <4>2 DEF Younger, ReadSince
      <4>4. \A f : f \in ReadSince(seg', disk) <=> f \in ReadSince(seg, ram)
        BY <4>2, <2>1, <2>3 DEF ReadSince
      <4>5. ReadSince(seg', disk) = ReadSince(seg, ram)
        BY <4>4 DEF ReadSince
      <4> QED BY <4>3, <4>5, <2>4
    <3> QED BY <3>1, <3>2, <1>4
  <2>6. Rising(seg', disk)
    <3>1. Rising(seg, disk)
      BY <1>5 DEF Orderly
    <3>2. \A i \in Live(disk) : Parsed(seg'[i]) = {} \/ (i \in Live(disk) /\ Parsed(seg'[i]) \subseteq Parsed(seg[i]))
      BY <2>1, <2>3
    <3> QED BY <3>1, <3>2, RisingRest
  <2>7. Rising(seg', ram')
    <3>1. Rising(seg, ram)
      BY <1>5 DEF Orderly
    <3>2. \A i \in Live(ram') : Parsed(seg'[i]) = {} \/ (i \in Live(ram) /\ Parsed(seg'[i]) \subseteq Parsed(seg[i]))
      BY <2>1, <2>2, <2>3
    <3> QED BY <2>2, <3>1, <3>2, RisingRest
  <2>8. ASSUME NEW n \in Views', NEW f \in ReadSince(seg', n) PROVE f.seq < next' /\ f.seq < job'.seq
    <3>1. f \in ReadSince(seg, ram)
      BY <1>5, <2>4, <2>5
    <3> QED BY <3>1, <1>2, <1>5, <1>7 DEF Orderly
  <2>9. Orderly'
    <3>1. \A n \in Views' : Rising(seg', n)
      BY <1>5, <2>6, <2>7
    <3>2. pc' # "wipe" /\ pc' # "off" /\ harm' \in {"none", "outside"} /\ job'.of < job'.seq
      BY <1>2, <1>5, <1>7 DEF Orderly
    <3> QED BY <3>1, <3>2, <1>2, <2>5, <2>8 DEF Orderly
  <2>10. [Log!Next]_<<Pull(seg, disk), harm = "none">>
    BY <1>1, <1>2, <2>5, LogDrops DEF Keeping
  <2> QED BY <2>9, <2>10
<1> QED BY <1>2, <1>3, <1>6, <1>7

\* A mount finds the log that was there, or a lost one, and numbers behind it.
LEMMA MountLog ==
  ASSUME Inductive, Keeping, Orderly, Mount
  PROVE  Orderly' /\ [Log!Next]_<<Pull(seg, disk), harm = "none">>
<1>1. disk \in Meta /\ seg \in [Ring -> Seq(Frame)] /\ NoRecords \in BOOLEAN
  BY DEF Inductive, TypeOK, NoRecords
<1>2. PICK m : m = Resolved(disk, NoRecords)
  OBVIOUS
<1>3. /\ pc = "off" /\ pc' = "rest" /\ disk' = m /\ ram' = m /\ seg' = seg /\ next' = RestoreNext(seg, m)
      /\ harm' = IF harm # "outside" /\ m.epoch = disk.epoch THEN harm ELSE "none"
  BY <1>2 DEF Mount, Saved, history
<1>4. /\ m \in Meta
      /\ m.epoch # disk.epoch => NoRecords
      /\ m.epoch = disk.epoch => m.head = disk.head /\ m.tail = disk.tail
  <2>1. m \in Meta /\ (m.epoch # disk.epoch => NoRecords)
    BY <1>1, <1>2, ResolvedFacts
  <2>2. m.epoch = disk.epoch => m.head = disk.head /\ m.tail = disk.tail
    BY <1>1, <1>2 DEF Resolved, Meta
  <2> QED BY <2>1, <2>2
<1>5. /\ \A i \in Ring : \A k \in DOMAIN seg[i] : seg[i][k].seq \in 1..MaxSeq
      /\ Views = {disk} /\ Views' = {m} /\ pc' \notin Writing /\ pc' # "wipe"
      /\ harm \in {"none", "outside"}
  BY <1>3 DEF Keeping, Counting, Views, Writing, Orderly
<1>6. \A f \in ReadSince(seg, m) : f.seq < next'
  BY <1>1, <1>3, <1>4, <1>5, RestoredAbove
<1>7. harm' \in {"none", "outside"} /\ ReadSince(seg', ram') = ReadSince(seg', disk')
  BY <1>3, <1>5
<1>8. CASE NoRecords
  <2>1. Rising(seg, m)
    <3>1. \A i \in Live(m) : Parsed(seg[i]) = {}
      BY <1>4, <1>8, LiveEnds, ParsedNone DEF NoRecords
    <3>2. ReadSince(seg, m) = {}
      BY <1>4, <1>8, ReadNone
    <3> QED BY <3>1, <3>2 DEF Rising
  <2>2. Orderly'
    BY <1>3, <1>5, <1>6, <1>7, <2>1 DEF Orderly
  <2>3. Pull(seg', disk') = Pull(seg, disk)
    <3>1. ReadSince(seg, m) = {} /\ ReadSince(seg, disk) = {}
      BY <1>1, <1>4, <1>8, ReadNone
    <3> QED BY <3>1, <1>3 DEF Pull
  <2>4. harm' = "none"
    BY <1>3, <1>5
  <2>5. CASE harm = "none"
    BY <2>2, <2>3, <2>4, <2>5
  <2>6. CASE harm = "outside"
    <3>1. ~(harm = "none")
      BY <2>6
    <3> QED BY <2>2, <3>1 DEF Log!Next, Log!Destroy
  <2> QED BY <2>5, <2>6, <1>5
<1>9. CASE ~NoRecords
  <2>1. harm = "none" /\ harm' = "none" /\ m.head = disk.head /\ m.tail = disk.tail
    BY <1>3, <1>4, <1>5, <1>9 DEF Inductive, Harmed
  <2>2. AtEnds(m, disk)
    BY <2>1 DEF AtEnds
  <2>3. Rising(seg, m) /\ Pull(seg, m) = Pull(seg, disk)
    BY <2>2, <1>5, OneView DEF Orderly
  <2>4. Orderly'
    BY <1>3, <1>5, <1>6, <1>7, <2>3 DEF Orderly
  <2> QED BY <2>1, <2>3, <2>4, <1>3
<1> QED BY <1>8, <1>9

\* What is lost from outside was destroyed.
LEMMA RecordsLostLog ==
  ASSUME TypeOK, Orderly, RecordsLost
  PROVE  Orderly' /\ [Log!Next]_<<Pull(seg, disk), harm = "none">>
<1>1. /\ pc = "off" /\ pc' = "off" /\ disk' = disk /\ disk \in Meta
      /\ seg' = [i \in Ring |-> <<>>] /\ harm' = "outside"
  BY DEF RecordsLost, core, TypeOK, Orderly
<1>2. Views' = {disk} /\ Live(disk) \subseteq Ring /\ pc' \notin Writing
  BY <1>1, LiveEnds DEF Views, Writing
<1>3. \A i \in Live(disk) : Parsed(seg'[i]) = {}
  BY <1>1, <1>2, ParsedNone
<1>4. ReadSince(seg', disk) = {}
  BY <1>3 DEF ReadSince
<1>5. Rising(seg', disk)
  BY <1>3, <1>4 DEF Rising
<1>6. Orderly'
  BY <1>1, <1>2, <1>5 DEF Orderly
<1>7. ~(harm' = "none")
  BY <1>1
<1> QED BY <1>6, <1>7 DEF Log!Next, Log!Destroy

\* A power cut leaves the log that a mount would find.
LEMMA PowerCutLog ==
  ASSUME Orderly, PowerCut
  PROVE  Orderly' /\ [Log!Next]_<<Pull(seg, disk), harm = "none">>
<1>1. /\ pc # "off" /\ pc' = "off" /\ seg' = seg /\ disk' = disk /\ harm' = harm
      /\ disk \in Views /\ Views' = {disk} /\ pc' \notin Writing
  BY DEF PowerCut, medium, history, Views, Writing
<1>2. Orderly'
  BY <1>1 DEF Orderly
<1> QED BY <1>1, <1>2

\* A store that is never wiped starts in order, with an empty log.
LEMMA InitOrderly == Init => Orderly /\ Log!Init
<1> SUFFICES ASSUME Init PROVE Orderly /\ Log!Init
  OBVIOUS
<1>1. pc = "off" /\ disk \in Meta /\ harm = "none" /\ NoRecords /\ Views = {disk} /\ pc \notin Writing
  BY SizeAssumption, InitInductive DEF Init, NoRecords, Views, Writing, Inductive, TypeOK
<1>2. ReadSince(seg, disk) = {} /\ \A i \in Live(disk) : Parsed(seg[i]) = {}
  BY <1>1, ReadNone, LiveEnds, ParsedNone DEF NoRecords
<1>3. Orderly
  BY <1>1, <1>2 DEF Orderly, Rising
<1>4. Pull(seg, disk) = {} /\ (harm = "none") = TRUE
  BY <1>1, <1>2 DEF Pull, Messages
<1> QED BY <1>3, <1>4 DEF Log!Init

\* A step that is quiet stays in order and is a step of the log, or none.
LEMMA QuietSteps ==
  ASSUME Inductive, TypeOK', Keeping, Orderly, Quiet
  PROVE  Orderly' /\ [Log!Next]_<<Pull(seg, disk), harm = "none">>
  BY QuietOrderly, QuietLog DEF Inductive, Keeping

\* Every step of a store that is never wiped stays in order, and is a step of the
\* log, or none.
LEMMA NextLog ==
  ASSUME MayWipe = FALSE, Inductive, TypeOK', Keeping, Orderly, [Next]_vars
  PROVE  Orderly' /\ [Log!Next]_<<Pull(seg, disk), harm = "none">>
<1>1. CASE Mount \/ PowerCut \/ RecordsLost
  BY <1>1, MountLog, PowerCutLog, RecordsLostLog DEF Inductive
<1>2. CASE Record \/ Erase \/ Flush \/ ResetCursor
  BY <1>2, RecordQuiet, EraseQuiet, FlushQuiet, ResetCursorQuiet, QuietSteps
<1>3. CASE \E c \in Cursors : MarkRead(c)
  BY <1>3, MarkReadQuiet, QuietSteps
<1>4. CASE Retry \/ SaveRoll \/ Mark \/ Header \/ Resolve \/ SaveTail \/ Acknowledge \/ Count
  BY <1>4, RetryQuiet, SaveRollQuiet, MarkQuiet, HeaderQuiet, ResolveQuiet, SaveTailQuiet,
     AcknowledgeQuiet, CountQuiet, QuietSteps
<1>5. CASE DropTail \/ OpenHead \/ Body \/ Evict
  BY <1>5, DropTailLog, OpenHeadLog, BodyLog, EvictLog
<1>6. CASE Clear \/ Wipe \/ WipeSegment \/ WipeSave
  BY <1>6 DEF Clear, Wipe, WipeSegment, WipeSave, Orderly
<1>7. CASE UNCHANGED vars
  BY <1>7 DEF vars, Orderly, Rising, Views, Younger, ReadSince, Writing
<1> QED BY <1>1, <1>2, <1>3, <1>4, <1>5, <1>6, <1>7 DEF Next, AppendSteps

\* What a store that nobody wipes can read is in order, at every moment.
THEOREM OrderlyAlways == ASSUME Harsh = {}, MayWipe = FALSE PROVE Spec => []Orderly
<1>1. Init => Orderly
  BY InitOrderly
<1>2. Inductive /\ Inductive' /\ Keeping /\ Orderly /\ [Next]_vars => Orderly'
  BY NextLog DEF Inductive
<1> QED BY <1>1, <1>2, InductiveAlways, KeepingAlways, PTL DEF Spec

\* The inbox of such a store is a log: nothing returns, nothing changes places,
\* nothing vanishes from its middle, through every append, deletion, drop-oldest,
\* failing access, power cut and restart, until the records are lost from outside.
THEOREM LogImplemented == ASSUME Harsh = {}, MayWipe = FALSE PROVE Spec => IsLog
<1>1. Init => Log!Init
  BY InitOrderly
<1>2. Inductive /\ Inductive' /\ Keeping /\ Orderly /\ [Next]_vars
        => [Log!Next]_<<Pull(seg, disk), harm = "none">>
  BY NextLog DEF Inductive
<1> QED BY <1>1, <1>2, InductiveAlways, KeepingAlways, OrderlyAlways, PTL DEF Spec, IsLog, Log!Spec
=============================================================================
