-------------------------- MODULE RemoteProperties --------------------------
(***************************************************************************)
(* What a remote command promises to the user who asks for it, and what    *)
(* the tables of both ends have to remember for that.                      *)
(***************************************************************************)
EXTENDS Remote

\* Every variable has its type.
TypeOK ==
  /\ row \in [Command -> Row]
  /\ known \in 0..MaxEpoch
  /\ debts \subseteq Message /\ net \subseteq Message
  /\ epoch \in Epoch /\ owner \in BOOLEAN
  /\ seen \in [Id -> {"free", "admitted", "completed", "acknowledged"}]
  /\ ingress \in [Partition -> Admitted \cup {None}]
  /\ script \in [Id -> Script \cup {None}]
  /\ action \in Action \cup {None}
  /\ ran \in [Command -> [times: Nat, n: 0..MaxDraws, epoch: 0..MaxEpoch,
                          outcome: Outcome \cup {"none"}]]
  /\ fired \in [Command -> Nat]

\* The session as the call its user relies on.
Call == INSTANCE RemoteCall WITH
  Command <- Execute,
  asked <- {c \in Execute : row[c].stage # "idle"},
  runs <- [c \in Execute |-> ran[c].times],
  outcome <- [c \in Execute |-> ran[c].outcome],
  told <- [c \in Execute |-> IF row[c].result \in Outcome THEN row[c].result ELSE "none"],
  fired <- [c \in Execute |-> fired[c]]

\* Lost, repeated and late messages, resends, retries, expiries, rollovers, changes of the
\* access list and restarts never make a command run twice, its user be told an outcome
\* it did not have, or its deferred effect happen twice or without having been scheduled.
IsCall == Call!Spec

\* A prepared action always has the transcript whose terminal will arm it: whatever takes
\* the transcript away (an ACK, a rollover, a change of the access list) takes the action
\* too, or it would refuse every later disruptive command as busy.
PromiseHeld ==
  action # None /\ action.phase = "prepared" =>
    LET s == script[action.id]
    IN s # None /\ s.code = "scheduled" /\ s.cursor < s.frames

\* Until the epoch changes, a command that ran is remembered, and its answer is there to be
\* sent again until its user has it.
AnswerKept ==
  \A c \in Execute :
    ran[c].times > 0 /\ ran[c].epoch = epoch =>
      LET i == <<c, ran[c].n>>
      IN \/ /\ seen[i] = "completed" /\ script[i] # None
            /\ script[i].code = ran[c].outcome
         \/ /\ seen[i] = "acknowledged" /\ row[c].stage = "gone"
            /\ row[c].result = ran[c].outcome

\* Every request under way has the assembly its outcome goes to, without which it could
\* never end; one that has ended has its result somewhere; and there is room to owe the
\* acknowledgement of each.
Accountable ==
  /\ \A c \in LiveCommands :
       row[c].asm \/ (row[c].stage = "complete" /\ row[c].kept)
  /\ Cardinality({c \in Command : row[c].asm}) <= AssemblySlots
  /\ Cardinality({c \in Command : row[c].kept}) <= ResultSlots
  /\ Cardinality(debts) + Cardinality(LiveCommands \cap Execute) <= DebtSlots
=============================================================================
