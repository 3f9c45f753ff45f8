------------------------------ MODULE InboxLog ------------------------------
(***************************************************************************)
(* What a reader of the inbox may rely on: a log of messages that grows    *)
(* only at its new end, loses messages only from its old end, or one by    *)
(* one on request.  As long as nobody destroys the records themselves,     *)
(* nothing else ever happens to it, whatever power cuts and failing writes *)
(* do underneath: no message returns, none changes places with another,    *)
(* none vanishes from the middle.                                          *)
(***************************************************************************)
EXTENDS Naturals

CONSTANT Numbers   \* the sequence numbers, 0 before all of them

VARIABLES
  log,      \* the numbers of the messages a reader would find
  intact    \* the records are not being destroyed

Init == log = {} /\ intact = TRUE

Append == \E s \in Numbers : (\A t \in log : t < s) /\ log' = log \cup {s}

\* Drop-oldest, up to the loss of the whole log.
Drop == \E s \in Numbers : log' = {t \in log : t > s}

Delete == \E s \in log : log' = log \ {s}

\* A wipe, or a loss from outside, until a new epoch says so.
Destroy == ~intact \/ ~intact'

Next == (intact' = intact /\ (Append \/ Drop \/ Delete)) \/ Destroy

Spec == Init /\ [][Next]_<<log, intact>>
=============================================================================
