--------------------------- MODULE MCHopExchange ---------------------------
(***************************************************************************)
(* Instances of HopExchange for TLC.                                       *)
(***************************************************************************)
EXTENDS HopExchangeProperties

CONSTANTS o, b, c, d, m1, m2

FromO == [m \in Msg |-> o]
ToD == [m \in Msg |-> d]

\* m1 has two next hops, the second is its destination; m2 goes one hop too far.
TwoLo == [m \in Msg |-> IF m = m1 THEN 1 ELSE 2]
TwoBudget == [m \in Msg |-> IF m = m1 THEN 1 ELSE 0]
TwoVia == [n \in Node |-> [m \in Msg |->
             CASE n = o -> IF m = m1 THEN {b, d} ELSE {b}
               [] n = b -> IF m = m1 THEN {d} ELSE {}
               [] OTHER -> {}]]
=============================================================================
