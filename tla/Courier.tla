------------------------------ MODULE Courier ------------------------------
(***************************************************************************)
(* What a mesh of relays owes the messages it is given: somebody has a     *)
(* message in hand until it is delivered or somebody knowingly stops it,   *)
(* and it is delivered once, unless its destination was made to forget it. *)
(***************************************************************************)
EXTENDS Naturals

CONSTANT Msg

VARIABLES
  inHand,      \* messages of which some node holds a copy
  delivered,   \* how often each was delivered
  stopped,     \* those of which a copy was given up or refused
  forgotten    \* those their destination no longer knows

vars == <<inHand, delivered, stopped, forgotten>>

Init ==
  /\ inHand = {} /\ stopped = {} /\ forgotten = {}
  /\ delivered = [m \in Msg |-> 0]

Settled(m) == delivered[m] > 0 \/ m \in stopped

\* The last copy of a message may be laid aside in the step that settles it, or later.
LayAside == \A m \in inHand \ inHand' : Settled(m)'

Deliver(m) ==
  /\ m \in inHand
  /\ delivered[m] = 0 \/ m \in forgotten
  /\ delivered' = [delivered EXCEPT ![m] = @ + 1]

\* One step may concern several messages: a node that is done with one turns to the
\* next.  Copies appear freely: a message is handed in, or a relay has it a second time.
Next ==
  /\ stopped \subseteq stopped' /\ forgotten \subseteq forgotten'
  /\ LayAside
  /\ UNCHANGED delivered \/ \E m \in Msg : Deliver(m)

Spec == Init /\ [][Next]_vars
=============================================================================
