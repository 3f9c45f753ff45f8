----------------------------- MODULE RemoteCall -----------------------------
(***************************************************************************)
(* What remote administration owes a user: a command runs at most once     *)
(* after it was asked for, an outcome he is told is the one it had, and    *)
(* the effect of a scheduled command happens at most once.                 *)
(***************************************************************************)
EXTENDS Naturals

CONSTANTS Command, Outcome

VARIABLES
  asked,    \* commands submitted
  runs,     \* how often each was dispatched at the target
  outcome,  \* with what outcome
  told,     \* the outcome its user is told; "none" while it is unknown to him
  fired     \* how often its deferred effect was set off

vars == <<asked, runs, outcome, told, fired>>

Init ==
  /\ asked = {}
  /\ runs = [c \in Command |-> 0] /\ fired = [c \in Command |-> 0]
  /\ outcome = [c \in Command |-> "none"] /\ told = [c \in Command |-> "none"]

Ask(c) ==
  /\ asked' = asked \cup {c}
  /\ UNCHANGED <<runs, outcome, told, fired>>

Run(c) ==
  /\ c \in asked /\ runs[c] = 0
  /\ runs' = [runs EXCEPT ![c] = 1]
  /\ \E o \in Outcome : outcome' = [outcome EXCEPT ![c] = o]
  /\ UNCHANGED <<asked, told, fired>>

\* An answer may come, and it may be lost to the user again, but it is never another one.
Tell(c) ==
  /\ \E t \in {"none", outcome[c]} : told' = [told EXCEPT ![c] = t]
  /\ UNCHANGED <<asked, runs, outcome, fired>>

Fire(c) ==
  /\ outcome[c] = "scheduled" /\ fired[c] = 0
  /\ fired' = [fired EXCEPT ![c] = 1]
  /\ UNCHANGED <<asked, runs, outcome, told>>

Next == \E c \in Command : Ask(c) \/ Run(c) \/ Tell(c) \/ Fire(c)

Spec == Init /\ [][Next]_vars
=============================================================================
