------------------------------- MODULE MCJoin -------------------------------
(***************************************************************************)
(* Instances of Join for TLC: three nodes, the third with a configured id. *)
(***************************************************************************)
EXTENDS JoinProperties

Leased(i) == [id |-> i, joined |-> TRUE]
Configured(i) == [id |-> i, joined |-> FALSE]

\* Nodes 1 and 2 are new, all hear all, and nobody commands or restarts them.
Newcomers == [n \in Node |-> IF n = 3 THEN Configured(3) ELSE NoLease]
InRange == [n \in Node |-> Node]
Quiet == [n \in Node |-> 0]

\* Nodes 1 and 2 adopted one id, and only node 3 hears and reaches both.
Twins ==
  [n \in Node |-> CASE n = 1 -> Leased(1) [] n = 2 -> Leased(1) [] n = 3 -> Configured(3)]
Hidden == [n \in Node |-> IF n = 3 THEN Node ELSE {3}]

\* Commands, restarts and aged entries at node 2; the busiest node has two frames waiting.
Events == [n \in Node |-> IF n = 2 THEN 1 ELSE 0]
Waiting == [n \in Node |-> IF n = 3 THEN 2 ELSE 1]
=============================================================================
