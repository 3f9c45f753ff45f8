------------------------ MODULE InboxStoreProperties ------------------------
(***************************************************************************)
(* What the inbox promises across failing writes, power cuts and losses.   *)
(***************************************************************************)
EXTENDS InboxStore

AtRest == pc = "rest"

Steps == {"off", "rest", "retry", "dropTail", "openHead", "saveRoll", "mark", "header",
          "body", "resolve", "evict", "saveTail", "acknowledge", "batch", "wipe", "resetCursor"}

Harms == {"none", "clear", "wipe", "outside"}

\* The variables keep their types; the metadata on the medium is always one a
\* mount accepts.
TypeOK ==
  /\ seg \in [Ring -> Seq(Frame)] /\ disk \in Meta /\ ram \in Meta
  /\ dirty \in BOOLEAN /\ sealed \in BOOLEAN /\ total \in Nat
  /\ next \in Nat /\ unsaved \in Nat
  /\ pc \in Steps
  /\ job \in Job
  /\ acked \subseteq Nat /\ erased \subseteq Nat
  /\ harm \in Harms /\ faults \in Nat /\ cuts \in Nat

\* A message whose append succeeded is readable until drop-oldest takes its
\* segment: no torn frame hides it, no rotation that was not saved loses it, no
\* restart forgets it.  A loss of the records from outside shows as a new epoch.
AckedReadable ==
  AtRest /\ harm \notin {"clear", "wipe"} => acked \subseteq Messages(ReadSince(seg, ram))

\* A deletion that was reported as done holds for good (Inbox::erase), also when
\* the power is cut, unless a wipe was interrupted.
ErasedStaysErased == AtRest /\ harm \notin {"clear", "wipe"} => erased \cap Pull(seg, ram) = {}

\* No message is stored under the number of another one of the same epoch that
\* drop-oldest has left in place (restore_next; clear, also when it is interrupted).
DurableNumbersFresh == AtRest /\ harm # "wipe" => \A s \in acked : s < next

\* A mounted store with nothing left to make up for agrees with its medium, in
\* every field (the rollbacks of set_next_seq and set_read_cursor).
RamAgreesWithMedium == AtRest /\ ~dirty => ram = disk

\* No acknowledged message is under a marker that says there are no records, so
\* that losing it is noticed (records_state).
MarkerHonest ==
  harm = "none" /\ disk.state = "empty" => acked = {}

\* A new epoch, which makes every reader start again, is told only when records
\* were really destroyed: not by a boot, not by an append that never landed.
EpochOnlyOnLoss == [][ram'.epoch # ram.epoch => harm # "none"]_vars

\* What the proofs carry along: where the metadata in use may differ from the
\* medium, and that some record is left behind wherever one is claimed.
Settled ==
  /\ pc \notin {"off", "openHead", "saveRoll", "saveTail"} /\ ~dirty => ram = disk
  /\ pc \in {"dropTail", "openHead", "saveRoll", "mark", "header", "body", "resolve"} => ~dirty
  /\ pc \in {"header", "body", "resolve", "evict", "saveTail", "acknowledge"}
       => ram.state # "empty" /\ disk.state # "empty"

HeadHeld ==
  /\ pc \in {"dropTail", "openHead", "body", "resolve", "evict", "saveTail", "acknowledge"}
       => seg[ram.head] # <<>>
  /\ pc = "dropTail" => ram.tail # ram.head
  /\ sealed /\ pc \notin {"off", "wipe"} => seg[ram.head] # <<>>

Harmed ==
  /\ pc = "wipe" => job.op \in {"clear", "wipe"} /\ (job.at > 0 => harm # "none")
  /\ harm = "outside" =>
       pc = "off" /\ NoRecords /\ (disk.state = "pending" => "blindLoss" \in Harsh)
  /\ harm \in {"none", "outside"} => ram.epoch = disk.epoch

Present ==
  harm = "none" =>
    /\ disk.state = "nonEmpty" \/ ram.state = "nonEmpty" => ~NoRecords
    /\ "blindLoss" \notin Harsh /\ acked # {} => ~NoRecords

Marked ==
  "blindLoss" \notin Harsh /\ harm \in {"none", "outside"} =>
    (disk.state = "empty" \/ ram.state = "empty" => acked = {})

Inductive == TypeOK /\ Settled /\ HeadHeld /\ Harmed /\ Present /\ Marked

----------------------------------------------------------------------------
\* What the proofs carry along about the records themselves.

\* Where a segment is on the way from the tail to the head.
Position(m, i) == IF i >= m.tail THEN i ELSE i + Segs

\* The metadata a reader goes by, now or after a restart.
Views == IF pc = "off" THEN {disk} ELSE {disk, ram}

Appending == {"retry", "dropTail", "openHead", "saveRoll", "mark", "header", "body",
              "resolve", "evict", "saveTail", "acknowledge"}

Written == [seq |-> job.seq, of |-> job.of, whole |-> TRUE]

HasLanded == pc \in {"resolve", "evict", "saveTail", "acknowledge"} \/ (pc = "batch" /\ job.ok)

\* Which segments the two media disagree on while the ring moves.
Turning ==
  /\ pc = "dropTail" => After(ram.head) = ram.tail
  /\ pc = "openHead" =>
       /\ After(ram.head) # ram.tail /\ disk.head = ram.head
       /\ disk.tail = ram.tail \/ (disk.tail = After(ram.head) /\ ram.tail = After(disk.tail))
  /\ pc = "evict" => disk.head = ram.head /\ disk.tail = ram.tail

\* A number under way is taken, and means nothing that was deleted.
Counting ==
  /\ pc # "off" => ram.next = disk.next /\ disk.next <= next /\ 0 < next
  /\ \A i \in Ring : \A k \in DOMAIN seg[i] : seg[i][k].seq \in 1..MaxSeq
  /\ pc \in Appending \cup {"batch"} =>
       /\ job.seq \in 1..MaxSeq /\ job.seq < next
       /\ job.op \in {"record", "erase"} /\ (job.op = "record" <=> job.of = 0)
  /\ pc \in Appending => job.seq \notin erased

\* A torn segment is known to be torn, except while its last frame is being written.
Sealing ==
  /\ pc \in {"saveRoll", "mark", "header", "body"} => ~sealed
  /\ pc \notin {"off", "body", "wipe"} /\ Torn(seg[ram.head]) => sealed
  /\ pc = "body" =>
       LET n == Len(seg[ram.head])
       IN /\ n > 0 /\ \A k \in 1..(n - 1) : seg[ram.head][k].whole
          /\ seg[ram.head][n] = [Written EXCEPT !.whole = FALSE]
  /\ pc = "wipe" => \A i \in 0..(job.at - 1) : ~Torn(seg[i])

\* The record under way is readable from the moment it is complete.
Landed == HasLanded => disk.head = ram.head /\ Written \in Parsed(seg[ram.head])

\* A wipe under way has saved the counter, or is not one that would.
Warned ==
  /\ pc = "wipe" /\ job.at > 0 => harm = "wipe" \/ (harm = "clear" /\ job.op = "clear")
  /\ pc = "wipe" /\ job.op = "clear" /\ harm # "wipe" => \A s \in acked : s < disk.next
  /\ harm = "clear" => \A m \in Views : m.state = "empty" => \A s \in acked : s < disk.next

\* What a clear may take: the saved counter, or the loss of everything, tells.
Excused(s) == s < disk.next \/ (pc = "off" /\ NoRecords /\ disk.state = "nonEmpty")

\* Every kept message is readable now and after a restart.
Kept ==
  /\ harm \in {"none", "clear"} => \A m \in Views : \A s \in acked :
       s \in Messages(ReadSince(seg, m)) \/ (harm = "clear" /\ Excused(s))
  /\ harm # "wipe" /\ pc # "off" => \A s \in acked : s < next

\* A deleted message has its deletion in its own segment or a later one, which
\* drop-oldest reaches no sooner.
Outlived(s, gone, m) ==
  \A i \in Live(m) : \A f \in Parsed(s[i]) : f.of = 0 /\ f.seq \in gone =>
    \E j \in Live(m) : Position(m, i) <= Position(m, j) /\ \E g \in Parsed(s[j]) : g.of = f.seq

Buried == harm = "none" => \A m \in Views : Outlived(seg, erased, m)

Keeping == Turning /\ Counting /\ Sealing /\ Landed /\ Warned /\ Kept /\ Buried

\* The record is not written yet.
Writing == {"retry", "dropTail", "openHead", "saveRoll", "mark", "header", "body"}

\* The records of a view without its oldest segment.
Younger(s, m) == UNION {Parsed(s[i]) : i \in Live(m) \ {m.tail}}

\* Along the ring of a view the numbers rise, and a deletion comes behind its message.
Rising(s, m) ==
  /\ \A i, j \in Live(m) : Position(m, i) < Position(m, j) =>
       \A f \in Parsed(s[i]), g \in Parsed(s[j]) : f.seq < g.seq
  /\ \A f \in ReadSince(s, m) : f.of < f.seq

\* What a store that nobody wipes keeps to: all it can read is older than the number
\* under way, and what its medium knows more of than the store itself is one segment.
Orderly ==
  /\ pc # "wipe" /\ harm \in {"none", "outside"}
  /\ \A m \in Views :
       /\ Rising(seg, m)
       /\ \A f \in ReadSince(seg, m) :
            (pc # "off" => f.seq < next) /\ (pc \in Writing => f.seq < job.seq)
  /\ pc \in Writing => job.of < job.seq
  /\ pc # "off" => ReadSince(seg, ram) \in {ReadSince(seg, disk), Younger(seg, disk)}

\* The messages a mount would find form a log.
Log == INSTANCE InboxLog WITH Numbers <- 0..MaxSeq, log <- Pull(seg, disk),
                        intact <- (harm = "none")

IsLog == Log!Spec

\* segmented_inbox_store.h:492, "a torn segment is never appended to again": bytes
\* behind a torn frame are read as its missing part, and what follows is lost.
TornNeverAppended ==
  [][\A i \in Ring : pc = "header" /\ Torn(seg[i]) => seg'[i] = seg[i]]_vars
=============================================================================
