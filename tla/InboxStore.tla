----------------------------- MODULE InboxStore -----------------------------
(***************************************************************************)
(* The persistent inbox of one MeshRoute node: the sequence numbers and    *)
(* deletions of Inbox (lib/core/inbox.cpp) over the segmented append log   *)
(* of SegmentedInboxStore (lib/core/segmented_inbox_store.h), whose        *)
(* records and whose metadata live on two separate media.                  *)
(*                                                                         *)
(* Every access to a medium that changes it is a step of its own, because  *)
(* each may fail and the power may go between any two.  `pc` is the next   *)
(* access of the operation under way, "rest" when there is none and "off"  *)
(* when the store is not mounted; the steps of an operation follow each    *)
(* other in the order of the code.                                         *)
(*                                                                         *)
(* A record counts as one unit of space.  A frame that is not whole is one *)
(* whose header or body did not arrive in full: the reader stops at it,    *)
(* and would take whatever follows it for the missing part.                *)
(***************************************************************************)
EXTENDS Naturals, FiniteSets, Sequences

CONSTANTS
  Segs,       \* ring_segs(): segments of the ring
  SegFrames,  \* records one segment holds
  Cap,        \* records all of them may hold: the byte cap
  Batch,      \* kSeqPersistBatch: appends per save of the sequence counter
  MaxTombs,   \* inbox_max_tombstones
  Cursors,    \* the read cursors an app sets
  MayWipe,    \* whether an operator wipes the store
  Harsh,      \* the failures on top of a failure that are considered: "blindLoss",
              \* records lost from outside under an unresolved append; "tornWipe",
              \* a wipe that cannot erase a torn segment
  MaxSeq,     \* bound: sequence numbers handed out
  MaxEpoch,   \* bound: storage epochs
  MaxFaults,  \* bound: failing accesses
  MaxCuts     \* bound: power cuts

ASSUME SizeAssumption ==
  /\ Segs \in Nat \ {0, 1} /\ SegFrames \in Nat \ {0} /\ Cap \in Nat
  /\ Batch \in Nat \ {0} /\ MaxTombs \in Nat /\ Cursors \subseteq Nat /\ MayWipe \in BOOLEAN
  /\ Harsh \subseteq {"blindLoss", "tornWipe"}
  /\ {MaxSeq, MaxEpoch, MaxFaults, MaxCuts} \subseteq Nat

VARIABLES
  seg,      \* the records medium: what each segment file holds
  disk,     \* the metadata medium
  ram,      \* _meta: the copy the mounted store works with
  dirty,    \* _meta_dirty: the last save failed
  sealed,   \* _head_sealed: the head segment ends in a torn frame
  total,    \* _total: records charged against the cap
  next,     \* Inbox: the sequence number to hand out next
  unsaved,  \* Inbox: appends since it was last persisted
  pc, job,  \* the next access and the operation it belongs to
  acked,    \* history: messages of this epoch whose append succeeded and that
            \* drop-oldest has not taken
  erased,   \* history: messages of this epoch whose deletion was acknowledged
  harm,     \* history: what destroyed records and is not told by an epoch yet, if anything
  faults, cuts

medium == <<seg, disk>>
core   == <<ram, dirty, sealed, total, next, unsaved>>
history == <<acked, erased>>
bounds == <<faults, cuts>>
vars   == <<seg, disk, ram, dirty, sealed, total, next, unsaved, pc, job,
            acked, erased, harm, faults, cuts>>

Ring == 0..(Segs - 1)

\* of = 0 for a message, else the number of the message it deletes.
Frame == [seq : Nat, of : Nat, whole : BOOLEAN]

Meta == [head : Ring, tail : Ring, next : Nat, cursor : Nat, epoch : Nat,
         state : {"empty", "pending", "nonEmpty"}]   \* records_state

FreshMeta == [head |-> 0, tail |-> 0, next |-> 1, cursor |-> 0, epoch |-> 1, state |-> "empty"]

Job == [op : {"record", "erase", "clear", "wipe", "none"}, seq : Nat, of : Nat, at : Nat, ok : BOOLEAN]

NoJob == [op |-> "none", seq |-> 0, of |-> 0, at |-> 0, ok |-> TRUE]

----------------------------------------------------------------------------
\* Reading

\* Variant: the ring does not close.
AfterUnclosed(i) == i + 1

After(i) == (i + 1) % Segs

\* The segments from tail to head.
Live(m) == IF m.tail <= m.head THEN m.tail..m.head
           ELSE (m.tail..(Segs - 1)) \cup (0..m.head)

\* read_since within a segment: up to the first frame that is not whole.
Parsed(q) == {q[k] : k \in {j \in DOMAIN q : \A i \in 1..j : q[i].whole}}

Torn(q) == \E k \in DOMAIN q : ~q[k].whole

\* Variant: the reader takes what it finds in every segment file.
ReadSinceAll(s, m) == UNION {Parsed(s[i]) : i \in Ring}

ReadSince(s, m) == UNION {Parsed(s[i]) : i \in Live(m)}

Messages(frames) == {f.seq : f \in {g \in frames : g.of = 0}}
Targets(frames)  == {f.of : f \in {g \in frames : g.of # 0}}

\* pull: a first pass collects what was deleted, a second one delivers the rest.
Pull(s, m) == Messages(ReadSince(s, m)) \ Targets(ReadSince(s, m))

\* 0 if there is none.
Newest(N) == LET top == {n \in N : \A k \in N : k <= n}
             IN IF top = {} THEN 0 ELSE CHOOSE n \in top : TRUE

\* restore_next
RestoreNext(s, m) ==
  LET n == Newest({f.seq : f \in ReadSince(s, m)}) + 1
  IN IF n > m.next THEN n ELSE m.next

Held(s, m) == Cardinality(UNION {{i} \X DOMAIN s[i] : i \in Live(m)})

----------------------------------------------------------------------------
\* Accesses that may fail

Works == UNCHANGED bounds
Fails == faults < MaxFaults /\ faults' = faults + 1 /\ UNCHANGED cuts

\* save_meta, and the step that follows a success or a failure.
Saved(m)   == disk' = m /\ ram' = m /\ Works
Unsaved(m) == disk' = disk /\ ram' = m /\ Fails

Erased(i) == seg' = [seg EXCEPT ![i] = <<>>] /\ Works

\* A new epoch: the reader starts again from nothing.
Forget == acked' = {} /\ erased' = {}

\* Drop-oldest takes the tail segment: its records no longer count.
EraseTail ==
  LET n == Len(seg[ram.tail])
  IN Erased(ram.tail) /\ total' = IF n <= total THEN total - n ELSE 0

\* The ring goes on without its tail segment, and without the messages in it.
PassTail ==
  /\ ram' = [ram EXCEPT !.tail = After(@)]
  /\ acked' = acked \ Messages(Parsed(seg[ram.tail]))

GoTo(step) == pc' = step /\ UNCHANGED job

\* append returned false: a message keeps the number it was given, a deletion
\* is reported as an error.
Refuse == pc' = "batch" /\ job' = [job EXCEPT !.ok = FALSE]

----------------------------------------------------------------------------
\* Mounting: begin() and Inbox::on_init

\* append_pending is resolved by looking at the records; records that are gone
\* although the metadata knows of them are a loss, told by a new epoch.
Resolved(m, none) ==
  CASE m.state = "pending"           -> [m EXCEPT !.state = IF none THEN "empty" ELSE "nonEmpty"]
    [] m.state = "nonEmpty" /\ none -> [m EXCEPT !.epoch = @ + 1, !.head = 0, !.tail = 0,
                                                   !.state = "empty"]
    [] OTHER                         -> m

NoRecords == \A i \in Ring : seg[i] = <<>>

Mount ==
  LET m == Resolved(disk, NoRecords)
  IN /\ pc = "off" /\ m.epoch <= MaxEpoch
     /\ Saved(m)
     /\ dirty' = FALSE /\ sealed' = Torn(seg[m.head]) /\ total' = Held(seg, m)
     /\ next' = RestoreNext(seg, m) /\ unsaved' = 0
     /\ pc' = "rest" /\ job' = NoJob
     /\ IF m.epoch # disk.epoch THEN Forget
        ELSE UNCHANGED history
     /\ harm' = IF harm # "outside" /\ m.epoch = disk.epoch THEN harm ELSE "none"
     /\ UNCHANGED seg

----------------------------------------------------------------------------
\* Inbox::record, erase: the start of an append

\* A number that is given a second time names another message.
Begin(op, of) ==
  /\ job' = [op |-> op, seq |-> next, of |-> of, at |-> 0, ok |-> TRUE]
  /\ next' = next + 1 /\ erased' = erased \ {next}
  /\ pc' = "retry"

Record ==
  /\ pc = "rest" /\ next <= MaxSeq
  /\ Begin("record", 0)
  /\ UNCHANGED <<medium, ram, dirty, sealed, total, unsaved, acked, harm, bounds>>

\* Only a live message, and only while the reader's array has room.
Erase ==
  /\ pc = "rest" /\ next <= MaxSeq
  /\ Cardinality({f \in ReadSince(seg, ram) : f.of # 0}) < MaxTombs
  /\ \E of \in Pull(seg, ram) : Begin("erase", of)
  /\ UNCHANGED <<medium, ram, dirty, sealed, total, unsaved, acked, harm, bounds>>

----------------------------------------------------------------------------
\* SegmentedInboxStore::append

\* Variant: a torn segment is appended to like any other.
NeedsRollUnsealed == Len(seg[ram.head]) >= SegFrames

NeedsRoll == sealed \/ Len(seg[ram.head]) >= SegFrames

RollStep == IF ~NeedsRoll THEN "mark"
            ELSE IF After(ram.head) = ram.tail THEN "dropTail" ELSE "openHead"

\* A save that failed before is made up for first.
Retry ==
  /\ pc = "retry"
  /\ \/ ~dirty /\ Works /\ GoTo(RollStep) /\ UNCHANGED <<disk, ram, dirty>>
     \/ dirty /\ Saved(ram) /\ dirty' = FALSE /\ GoTo(RollStep)
     \/ dirty /\ Unsaved(ram) /\ Refuse /\ UNCHANGED dirty
  /\ UNCHANGED <<seg, sealed, total, next, unsaved, history, harm>>

\* The ring is full: the oldest segment goes, and moves on even when it would not.
DropTail ==
  /\ pc = "dropTail"
  /\ EraseTail \/ (Fails /\ UNCHANGED <<seg, total>>)
  /\ PassTail
  /\ GoTo("openHead")
  /\ UNCHANGED <<disk, dirty, sealed, next, unsaved, erased, harm>>

\* The new head must come up empty.
OpenHead ==
  /\ pc = "openHead"
  /\ \/ /\ Erased(After(ram.head))
        /\ ram' = [ram EXCEPT !.head = After(@)] /\ sealed' = FALSE
        /\ GoTo("saveRoll") /\ UNCHANGED dirty
     \/ Fails /\ dirty' = TRUE /\ Refuse /\ UNCHANGED <<seg, ram, sealed>>
  /\ UNCHANGED <<disk, total, next, unsaved, history, harm>>

\* Variant: the roll goes on although it could not be saved.
SaveRollUnchecked ==
  /\ pc = "saveRoll"
  /\ (Saved(ram) /\ UNCHANGED dirty) \/ (Unsaved(ram) /\ dirty' = TRUE)
  /\ GoTo("mark")
  /\ UNCHANGED <<seg, sealed, total, next, unsaved, history, harm>>

SaveRoll ==
  /\ pc = "saveRoll"
  /\ \/ Saved(ram) /\ GoTo("mark") /\ UNCHANGED dirty
     \/ Unsaved(ram) /\ dirty' = TRUE /\ Refuse
  /\ UNCHANGED <<seg, sealed, total, next, unsaved, history, harm>>

\* Variant: the marker claims the record before it is written.
ClaimEarly(m) == [m EXCEPT !.state = "nonEmpty"]

\* Variant: no marker before the record.
ClaimNothing(m) == m

Claim(m) == [m EXCEPT !.state = "pending"]

\* Before the first record: an attempt is on the medium before its bytes are.
Mark ==
  /\ pc = "mark"
  /\ \/ ram.state # "empty" /\ Works /\ GoTo("header") /\ UNCHANGED <<disk, ram, dirty>>
     \/ ram.state = "empty" /\ Saved(Claim(ram)) /\ GoTo("header") /\ UNCHANGED dirty
     \/ ram.state = "empty" /\ Unsaved(ram) /\ dirty' = TRUE /\ Refuse
  /\ UNCHANGED <<seg, sealed, total, next, unsaved, history, harm>>

Put(whole) ==
  seg' = [seg EXCEPT ![ram.head] = Append(@, [seq |-> job.seq, of |-> job.of, whole |-> whole])]

\* note_torn_append: bytes of a refused record are charged and seal the segment.
Tear == total' = total + 1 /\ sealed' = TRUE

Header ==
  /\ pc = "header"
  /\ \/ Works /\ Put(FALSE) /\ GoTo("body") /\ UNCHANGED <<total, sealed>>
     \/ Fails /\ Put(FALSE) /\ Tear /\ Refuse
     \/ Fails /\ Refuse /\ UNCHANGED <<seg, total, sealed>>
  /\ UNCHANGED <<disk, ram, dirty, next, unsaved, history, harm>>

Whole(q) == [q EXCEPT ![Len(q)].whole = TRUE]

Complete == seg' = [seg EXCEPT ![ram.head] = Whole(@)]

\* The last way: every byte arrived and only the sync was refused.
Body ==
  /\ pc = "body"
  /\ \/ Works /\ Complete /\ total' = total + 1 /\ GoTo("resolve") /\ UNCHANGED sealed
     \/ Fails /\ Tear /\ Refuse /\ UNCHANGED seg
     \/ Fails /\ Complete /\ Tear /\ Refuse
  /\ UNCHANGED <<disk, ram, dirty, next, unsaved, history, harm>>

\* The record is there; whether the marker can be saved does not change that.
Resolve ==
  /\ pc = "resolve"
  /\ \/ ram.state = "nonEmpty" /\ Works /\ UNCHANGED <<disk, ram, dirty>>
     \/ /\ ram.state # "nonEmpty" /\ Saved([ram EXCEPT !.state = "nonEmpty"]) /\ UNCHANGED dirty
     \/ /\ ram.state # "nonEmpty" /\ Unsaved([ram EXCEPT !.state = "pending"]) /\ dirty' = TRUE
  /\ GoTo("evict")
  /\ UNCHANGED <<seg, sealed, total, next, unsaved, history, harm>>

\* Drop-oldest while the whole store is over its cap.
Evict ==
  /\ pc = "evict"
  /\ \/ /\ total > Cap /\ ram.tail # ram.head
        /\ \/ EraseTail /\ PassTail /\ GoTo("saveTail") /\ UNCHANGED dirty
           \/ Fails /\ dirty' = TRUE /\ GoTo("acknowledge") /\ UNCHANGED <<seg, total, ram, acked>>
     \/ /\ total <= Cap \/ ram.tail = ram.head
        /\ Works /\ GoTo("acknowledge") /\ UNCHANGED <<seg, total, ram, dirty, acked>>
  /\ UNCHANGED <<disk, sealed, next, unsaved, erased, harm>>

SaveTail ==
  /\ pc = "saveTail"
  /\ \/ Saved(ram) /\ GoTo("evict") /\ UNCHANGED dirty
     \/ Unsaved(ram) /\ dirty' = TRUE /\ GoTo("acknowledge")
  /\ UNCHANGED <<seg, sealed, total, next, unsaved, history, harm>>

\* append returns true.
Acknowledge ==
  /\ pc = "acknowledge"
  /\ acked' = IF job.op = "record" THEN acked \cup {job.seq} ELSE acked
  /\ GoTo("batch")
  /\ UNCHANGED <<medium, core, erased, harm, bounds>>

\* set_next_seq: a save of the counter that takes the old value back when it fails.
Persist == Saved([ram EXCEPT !.next = next]) /\ dirty' = FALSE /\ unsaved' = 0

PersistFails == Unsaved(ram) /\ dirty' = TRUE

\* Inbox::record once append has returned, whatever it returned.
Count ==
  /\ pc = "batch"
  /\ erased' = IF job.op = "erase" /\ job.ok THEN erased \cup {job.of} ELSE erased
  /\ \/ /\ unsaved + 1 < Batch /\ unsaved' = unsaved + 1
        /\ Works /\ UNCHANGED <<disk, ram, dirty>>
     \/ unsaved + 1 >= Batch /\ Persist
     \/ unsaved + 1 >= Batch /\ PersistFails /\ unsaved' = unsaved + 1
  /\ pc' = "rest" /\ job' = NoJob
  /\ UNCHANGED <<seg, sealed, total, next, acked, harm>>

----------------------------------------------------------------------------
\* The other operations

\* Inbox::flush, every two minutes.
Flush ==
  /\ pc = "rest" /\ unsaved > 0
  /\ Persist \/ (PersistFails /\ UNCHANGED unsaved)
  /\ UNCHANGED <<seg, sealed, total, next, pc, job, history, harm>>

\* Variant: the cursor is set before the save and stays set when it fails.
MarkReadUnrolled(c) ==
  /\ pc = "rest" /\ (c # ram.cursor \/ dirty)
  /\ \/ Saved([ram EXCEPT !.cursor = c]) /\ dirty' = FALSE
     \/ Unsaved([ram EXCEPT !.cursor = c]) /\ UNCHANGED dirty
  /\ UNCHANGED <<seg, sealed, total, next, unsaved, pc, job, history, harm>>

\* set_read_cursor: nothing to write when the medium agrees already.
MarkRead(c) ==
  /\ pc = "rest" /\ (c # ram.cursor \/ dirty)
  /\ \/ Saved([ram EXCEPT !.cursor = c]) /\ dirty' = FALSE
     \/ Unsaved(ram) /\ dirty' = TRUE
  /\ UNCHANGED <<seg, sealed, total, next, unsaved, pc, job, history, harm>>

\* Variant: the records go before the counter is safe.
ClearUnsafely ==
  /\ MayWipe /\ pc = "rest" /\ ram.epoch + 1 < MaxEpoch
  /\ pc' = "wipe" /\ job' = [NoJob EXCEPT !.op = "clear"] /\ Works
  /\ UNCHANGED <<seg, disk, core, history, harm>>

\* Inbox::clear: both counters are saved before any record is destroyed; when
\* one cannot be, the other store's included, nothing is.
Clear ==
  /\ MayWipe /\ pc = "rest" /\ ram.epoch + 1 < MaxEpoch
  /\ \/ Persist /\ pc' = "wipe" /\ job' = [NoJob EXCEPT !.op = "clear"]
     \/ Persist /\ UNCHANGED <<pc, job>>
     \/ PersistFails /\ UNCHANGED <<unsaved, pc, job>>
  /\ UNCHANGED <<seg, sealed, total, next, history, harm>>

\* prep-restart and factory_reset: the same wipe without the rest of clear, and
\* the node halts or restarts behind it.
Wipe ==
  /\ MayWipe /\ pc = "rest" /\ ram.epoch + 1 < MaxEpoch
  /\ pc' = "wipe" /\ job' = [NoJob EXCEPT !.op = "wipe"]
  /\ UNCHANGED <<medium, core, history, harm, bounds>>

\* Every segment is tried, whatever became of the others.
WipeSegment ==
  /\ pc = "wipe" /\ job.at < Segs
  /\ \/ Erased(job.at) /\ job' = [job EXCEPT !.at = @ + 1]
     \/ /\ Torn(seg[job.at]) => "tornWipe" \in Harsh
        /\ Fails /\ UNCHANGED seg /\ job' = [job EXCEPT !.at = @ + 1, !.ok = FALSE]
  /\ harm' = (IF harm = "wipe" THEN "wipe" ELSE job.op)
  /\ UNCHANGED <<disk, core, pc, history>>

\* A clear takes an epoch beyond both stores', a wipe one more if it held something.
WipeEpochs ==
  IF job.op = "clear" THEN {ram.epoch + 1, ram.epoch + 2}
  ELSE {IF ram.state = "nonEmpty" \/ (ram.state = "pending" /\ total > 0)
        THEN ram.epoch + 1 ELSE ram.epoch}

WipeSave ==
  /\ pc = "wipe" /\ job.at = Segs
  /\ \E e \in WipeEpochs :
       LET m == [ram EXCEPT !.head = 0, !.tail = 0, !.epoch = e, !.state = "empty"]
       IN /\ \/ Saved(m) /\ harm' = (IF e = ram.epoch /\ acked \cup erased # {} THEN harm ELSE "none") /\ UNCHANGED dirty
             \/ Unsaved(m) /\ dirty' = TRUE /\ UNCHANGED harm
          /\ IF e # ram.epoch THEN Forget
             ELSE UNCHANGED history
  /\ total' = 0 /\ sealed' = FALSE
  /\ pc' = (IF job.op = "clear" THEN "resetCursor" ELSE "off") /\ job' = NoJob
  /\ UNCHANGED <<seg, next, unsaved>>

ResetCursor ==
  /\ pc = "resetCursor"
  /\ \/ ram.cursor = 0 /\ ~dirty /\ Works /\ UNCHANGED <<disk, ram, dirty>>
     \/ (ram.cursor # 0 \/ dirty) /\ Saved([ram EXCEPT !.cursor = 0]) /\ dirty' = FALSE
     \/ (ram.cursor # 0 \/ dirty) /\ Unsaved(ram) /\ dirty' = TRUE
  /\ pc' = "rest" /\ job' = NoJob
  /\ UNCHANGED <<seg, sealed, total, next, unsaved, history, harm>>

----------------------------------------------------------------------------
\* The environment

PowerCut ==
  /\ pc # "off" /\ cuts < MaxCuts
  /\ pc' = "off" /\ cuts' = cuts + 1
  /\ UNCHANGED <<medium, core, job, history, harm, faults>>

\* A corrupt file system formatted at boot, a partition rewritten by an update.
RecordsLost ==
  /\ pc = "off" /\ ~NoRecords /\ disk.epoch < MaxEpoch
  /\ disk.state = "pending" => "blindLoss" \in Harsh
  /\ seg' = [i \in Ring |-> <<>>] /\ harm' = (IF harm = "none" THEN "outside" ELSE harm)
  /\ UNCHANGED <<disk, core, pc, job, history, bounds>>

Init ==
  /\ seg = [i \in Ring |-> <<>>] /\ disk = FreshMeta /\ ram = FreshMeta
  /\ dirty = FALSE /\ sealed = FALSE /\ total = 0 /\ next = 1 /\ unsaved = 0
  /\ pc = "off" /\ job = NoJob
  /\ acked = {} /\ erased = {} /\ harm = "none"
  /\ faults = 0 /\ cuts = 0

AppendSteps == \/ Retry \/ DropTail \/ OpenHead \/ SaveRoll \/ Mark \/ Header \/ Body
               \/ Resolve \/ Evict \/ SaveTail \/ Acknowledge \/ Count

Next ==
  \/ Mount \/ Record \/ Erase \/ AppendSteps
  \/ Flush \/ (\E c \in Cursors : MarkRead(c))
  \/ Clear \/ Wipe \/ WipeSegment \/ WipeSave \/ ResetCursor
  \/ PowerCut \/ RecordsLost

Spec == Init /\ [][Next]_vars
=============================================================================
