------------------------------- MODULE Remote -------------------------------
(***************************************************************************)
(* Remote administration (lib/core/remote_client, remote_session,          *)
(* node_mac_rx, src/firmware_remote_executor.h): a controller asks a       *)
(* target, over a mesh that loses, repeats and reorders messages, to run   *)
(* commands, and the target answers from bounded pools.                    *)
(*                                                                         *)
(* One controller, so one row of the target's access list.  A message is   *)
(* sealed under the session key of an epoch, or under the base key of the  *)
(* pair: who has another key cannot read it.  What is random (request ids, *)
(* epochs) is never drawn twice.  A timer that may run may fire at any     *)
(* moment.                                                                 *)
(***************************************************************************)
EXTENDS Naturals, FiniteSets

CONSTANTS
  Execute,          \* commands to run at the target ...
  Disruptive,       \* ... of which these may cut it off: their effect is deferred
  SafeRollover, ForceRollover,   \* requests for a new epoch
  \* room in the tables of the controller
  PendingSlots, AssemblySlots, ResultSlots, DebtSlots,
  \* and of the target
  SeenSlots, TranscriptSlots,
  Crowded,          \* other controllers' requests may fill the target's tables, too
  MaxFrames,        \* bound: frames of an answer
  MaxDraws,         \* bound: ids drawn for one command
  MaxEpoch,         \* bound: epochs of the target
  MaxSent,          \* bound: different messages sent
  None

Command == Execute \cup SafeRollover \cup ForceRollover

ASSUME CommandAssumption ==
  /\ Disruptive \subseteq Execute
  /\ Execute \cap (SafeRollover \cup ForceRollover) = {}
  /\ SafeRollover \cap ForceRollover = {}

ASSUME LimitAssumption ==
  /\ Crowded \in BOOLEAN
  /\ {PendingSlots, AssemblySlots, ResultSlots, DebtSlots, SeenSlots,
      TranscriptSlots, MaxDraws, MaxSent} \subseteq Nat
  /\ {MaxFrames, MaxEpoch} \subseteq Nat \ {0}

\* An id is the n-th its command has drawn, for a request or for a discovery.
Id == Command \X (1..MaxDraws)
Epoch == 1..MaxEpoch
Outcome == {"done", "scheduled", "busy"}  \* a disruptive command is scheduled, or refused

\* epoch 0: sealed under the base key, without an epoch
Message == [kind: {"bootstrap", "execute", "safe", "force", "ack",
                   "epoch", "rolled", "refused", "output", "terminal", "already"},
            id: Id, epoch: 0..MaxEpoch, seq: 0..MaxFrames, code: Outcome \cup {"full", "none"}]

Msg(kind, id, e) == [kind |-> kind, id |-> id, epoch |-> e, seq |-> 0, code |-> "none"]

Sending == {"bootstrap", "compare", "rollover", "request"}
Row == [stage: Sending \cup {"idle", "complete", "gone"},
        waiting: BOOLEAN,      \* sent, an answer is awaited
        resent: BOOLEAN,       \* the one automatic repetition is spent
        req: 0..MaxDraws, did: 0..MaxDraws,  \* request_id, discovery_id; 0: none
        drawn: 0..MaxDraws,    \* ids drawn so far
        epoch: 0..MaxEpoch,    \* admin_epoch the request is sealed under
        sealed: BOOLEAN, rolled: BOOLEAN, rediscovered: BOOLEAN,
        seq: 0..MaxFrames,     \* next_seq of the assembly
        asm: BOOLEAN, kept: BOOLEAN,  \* it has an assembly, a retained row
        result: Outcome \cup {"none", "refused", "rolled", "already", "unknown", "error"}]

Partition == {"general", "control"}
Admitted == [kind: {"execute", "safe", "force"}, id: Id]
Script == [code: Outcome, frames: 1..MaxFrames, cursor: 0..MaxFrames]
Action == [phase: {"prepared", "armed", "due"}, id: Id]

ASSUME NoneAssumption == None \notin Admitted \cup Script \cup Action

VARIABLES
  row,      \* RemoteClientState::pending, with the assembly and the retained result
  known,    \* RemoteClientSession: the epoch the controller holds for current; 0: none
  debts,    \* ack_debt: the sealed acknowledgements
  net,      \* every message ever sent: any of them may arrive, at any time, again
  epoch,    \* RemoteSessionState::epoch of the controller's slot
  owner,    \* its role
  seen,     \* SeenEntry: state of the request with that id
  ingress,  \* the two ingress rows
  script,   \* TranscriptHeader of an answer
  action,   \* DeferredActionRecord
  \* what happened to a command, for the properties
  ran,      \* how often it was dispatched; the last time, as what and with what outcome
  fired     \* how often its deferred action was handed over

client == <<row, known, debts>>
target == <<epoch, owner, seen, ingress, script, action, ran, fired>>
vars == <<client, net, target>>

EmptyRow == [stage |-> "idle", waiting |-> FALSE, resent |-> FALSE,
             req |-> 0, did |-> 0, drawn |-> 0, epoch |-> 0,
             sealed |-> FALSE, rolled |-> FALSE, rediscovered |-> FALSE,
             seq |-> 0, asm |-> FALSE, kept |-> FALSE, result |-> "none"]

Init ==
  /\ row = [c \in Command |-> EmptyRow]
  /\ known = 0 /\ debts = {} /\ net = {}
  /\ epoch = 1 /\ owner \in BOOLEAN
  /\ seen = [i \in Id |-> "free"]
  /\ ingress = [p \in Partition |-> None]
  /\ script = [i \in Id |-> None]
  /\ action = None
  /\ ran = [c \in Command |-> [times |-> 0, n |-> 0, epoch |-> 0, outcome |-> "none"]]
  /\ fired = [c \in Command |-> 0]

Transmit(ms) == net' = net \cup ms /\ Cardinality(net') <= MaxSent

----------------------------------------------------------------------------
\* The controller.

Live(r) == r.stage \notin {"idle", "gone"}
LiveCommands == {c \in Command : Live(row[c])}

Opcode(c) == IF c \in Execute THEN "execute"
             ELSE IF c \in SafeRollover THEN "safe" ELSE "force"

Enter(r, stage) == [r EXCEPT !.stage = stage, !.waiting = FALSE, !.resent = FALSE]

\* complete: nothing without an assembly, which passes to a retained row if there is one.
Completed(r, result) ==
  IF ~r.asm THEN r
  ELSE LET keep == r.kept \/ Cardinality({c \in Command : row[c].kept}) < ResultSlots
       IN [Enter(r, "complete") EXCEPT !.result = result, !.kept = keep, !.asm = ~keep]

\* remote_client_release: of the request, what was sent and what was told remain facts.
Gone(r) == [EmptyRow EXCEPT !.stage = "gone", !.req = r.req, !.epoch = r.epoch,
                            !.sealed = r.sealed, !.result = r.result]

\* epoch_update: acknowledgements of another generation are obsolete.
EpochUpdate(e) ==
  /\ known' = e
  /\ debts' = IF known \in {0, e} THEN debts ELSE {}

\* What a row that is ready sends.
Submission(c, r) ==
  CASE r.stage \in {"bootstrap", "compare"} -> Msg("bootstrap", <<c, r.did>>, 0)
    [] r.stage = "rollover" -> Msg("safe", <<c, r.did>>, r.epoch)
    [] OTHER -> Msg(Opcode(c), <<c, r.req>>, r.epoch)

\* send_ready, when the carrier takes it: a repeated request starts its answer anew.
Sent(r) == [r EXCEPT !.waiting = TRUE,
                     !.seq = IF r.resent /\ r.stage = "request" THEN 0 ELSE @]

\* remote_client_start.  A known session seals the request, else it is bootstrapped.
Start(c, ble) ==
  /\ row[c].stage = "idle"
  /\ Cardinality(LiveCommands) < PendingSlots
  /\ Cardinality({d \in Command : row[d].asm}) < AssemblySlots
  /\ ble => Cardinality({d \in Command : row[d].kept}) < ResultSlots
  /\ c \in Execute => Cardinality(debts) + Cardinality(LiveCommands \cap Execute) < DebtSlots
  /\ IF known = 0 THEN 2 <= MaxDraws ELSE 1 <= MaxDraws
  /\ LET n == IF known = 0 THEN 2 ELSE 1
         r == [EmptyRow EXCEPT !.stage = IF known = 0 THEN "bootstrap" ELSE "request",
                 !.req = 1, !.did = n - 1, !.drawn = n, !.epoch = known,
                 !.sealed = known # 0, !.asm = TRUE, !.kept = ble]
     IN /\ row' = [row EXCEPT ![c] = Sent(r)]
        /\ Transmit({Submission(c, r)})
  /\ UNCHANGED <<known, debts, target>>

\* The resend of a wait, once.
Due(r) == IF r.waiting THEN [r EXCEPT !.waiting = FALSE, !.resent = TRUE] ELSE r

\* The ids a row lacks are drawn before it sends; an unsealed request is sealed.
Draws(r) == \/ r.stage \in {"compare", "rollover"} /\ r.did = 0
            \/ r.stage = "request" /\ ~r.sealed
Drawn(r) ==
  LET n == r.drawn + 1
  IN IF ~Draws(r) THEN r
     ELSE IF r.stage = "request" THEN [r EXCEPT !.req = n, !.sealed = TRUE, !.drawn = n]
     ELSE [r EXCEPT !.did = n, !.drawn = n]

\* remote_client_service, the turn of one row: it is queued, kept for later because the
\* carrier is full, or given up because there is no carrier or no entropy.
Serve(c) ==
  LET r == Due(row[c])  d == Drawn(r)
  IN /\ row[c].stage \in Sending
     /\ row[c].waiting => ~row[c].resent
     /\ Draws(r) => r.drawn < MaxDraws
     /\ \/ row' = [row EXCEPT ![c] = Sent(d)] /\ Transmit({Submission(c, d)})
        \/ row' = [row EXCEPT ![c] = d] /\ UNCHANGED net
        \/ row' = [row EXCEPT ![c] = Completed(d, "error")] /\ UNCHANGED net
     /\ UNCHANGED <<known, debts, target>>

\* remote_client_expire: of a request, and of an idle session that owes nothing.
Expire(c) ==
  /\ row[c].stage \in Sending
  /\ row' = [row EXCEPT ![c] = Completed(@, "unknown")]
  /\ UNCHANGED <<known, debts, net, target>>

SessionExpire ==
  /\ known # 0 /\ LiveCommands = {} /\ debts = {}
  /\ known' = 0
  /\ UNCHANGED <<row, debts, net, target>>

\* Variant: the assembly is not seen to.
RetryUnassembled(c) ==
  /\ row[c].sealed
  /\ \/ row[c].stage = "request" /\ row[c].waiting
     \/ row[c].stage = "complete" /\ row[c].result = "unknown"
  /\ row[c].drawn < MaxDraws
  /\ row' = [row EXCEPT ![c] =
               [Enter(@, "compare") EXCEPT !.did = row[c].drawn + 1, !.drawn = row[c].drawn + 1,
                                           !.result = "none"]]
  /\ UNCHANGED <<known, debts, net, target>>

\* remote_client_retry: the user asks again for an outcome that is unknown, or late.
Retry(c) ==
  /\ row[c].sealed
  /\ \/ row[c].stage = "request" /\ row[c].waiting
     \/ row[c].stage = "complete" /\ row[c].result = "unknown"
  /\ row[c].asm \/ Cardinality({d \in Command : row[d].asm}) < AssemblySlots
  /\ row[c].drawn < MaxDraws
  /\ row' = [row EXCEPT ![c] =
               [Enter(@, "compare") EXCEPT !.did = row[c].drawn + 1, !.drawn = row[c].drawn + 1,
                                           !.asm = TRUE, !.result = "none"]]
  /\ UNCHANGED <<known, debts, net, target>>

\* accept_result: a command's answer is acknowledged to the target, if its epoch is current.
Owes(c) == c \in Execute /\ row[c].result \in Outcome /\ row[c].epoch = known

Accept(c) ==
  /\ row[c].stage = "complete"
  /\ Owes(c) => Cardinality(debts) < DebtSlots
  /\ debts' = IF Owes(c) THEN debts \cup {Msg("ack", <<c, row[c].req>>, known)} ELSE debts
  /\ row' = [row EXCEPT ![c] = Gone(@)]
  /\ UNCHANGED <<known, net, target>>

SendAck ==
  /\ debts # {}
  /\ Transmit(debts)
  /\ UNCHANGED <<client, target>>

\* Nothing of the controller survives its restart.
ClientReboot ==
  /\ row' = [c \in Command |-> IF Live(row[c]) THEN Gone(row[c]) ELSE row[c]]
  /\ known' = 0 /\ debts' = {}
  /\ UNCHANGED <<net, target>>

\* remote_client_receive.  Messages of another id, phase or order are dropped.
Hears(c, m, kind, id) == m.kind = kind /\ m.id = <<c, id>>
Awaits(c, stage) == row[c].stage = stage /\ row[c].waiting

Bootstrapped(c) ==
  /\ Awaits(c, "bootstrap")
  /\ \E m \in net :
       /\ Hears(c, m, "epoch", row[c].did)
       /\ EpochUpdate(m.epoch)
       /\ row' = [row EXCEPT ![c] =
                    [Enter(@, "request") EXCEPT !.epoch = m.epoch, !.sealed = TRUE]]
  /\ UNCHANGED <<net, target>>

\* The target still has the epoch of the request, which may be repeated, or has lost it.
Compared(c) ==
  /\ Awaits(c, "compare")
  /\ LET r == [row[c] EXCEPT !.asm =
                 @ \/ Cardinality({d \in Command : row[d].asm}) < AssemblySlots]
     IN \E m \in net :
          /\ Hears(c, m, "epoch", r.did)
          /\ \/ /\ m.epoch # r.epoch
                /\ EpochUpdate(m.epoch)
                /\ row' = [row EXCEPT ![c] = Completed(r, "unknown")]
             \/ /\ m.epoch = r.epoch /\ r.asm
                /\ row' = [row EXCEPT ![c] = [Enter(r, "request") EXCEPT !.seq = 0]]
                /\ UNCHANGED <<known, debts>>
  /\ UNCHANGED <<net, target>>

\* The rollover a command asked for itself: it is sealed anew, under a fresh id.
RolledFor(c) ==
  /\ Awaits(c, "rollover")
  /\ \E m \in net :
       /\ Hears(c, m, "rolled", row[c].did)
       /\ EpochUpdate(m.epoch)
       /\ row' = [row EXCEPT ![c] =
                    [Enter(@, "request") EXCEPT !.epoch = m.epoch, !.sealed = FALSE]]
  /\ UNCHANGED <<net, target>>

RolledOver(c) ==
  /\ c \notin Execute /\ Awaits(c, "request")
  /\ \E m \in net : Hears(c, m, "rolled", row[c].req) /\ EpochUpdate(m.epoch)
  /\ row' = [row EXCEPT ![c] = Completed(@, "rolled")]
  /\ UNCHANGED <<net, target>>

\* A full session is rolled over once for a command; every other refusal is its result.
Refused(c) ==
  /\ \E m \in net :
       /\ m.epoch = row[c].epoch
       /\ \/ /\ Awaits(c, "request") /\ Hears(c, m, "refused", row[c].req)
             /\ c \in Execute /\ m.code = "full" /\ ~row[c].rolled
             /\ row' = [row EXCEPT ![c] =
                          [Enter(@, "rollover") EXCEPT !.did = 0, !.rolled = TRUE]]
          \/ /\ \/ /\ Awaits(c, "request") /\ Hears(c, m, "refused", row[c].req)
                   /\ c \in Execute => m.code # "full" \/ row[c].rolled
                \/ Awaits(c, "rollover") /\ Hears(c, m, "refused", row[c].did)
             /\ row' = [row EXCEPT ![c] = Completed(@, "refused")]
  /\ UNCHANGED <<known, debts, net, target>>

Answered(c) ==
  /\ c \in Execute /\ Awaits(c, "request") /\ row[c].asm
  /\ \E m \in net :
       /\ m.epoch = row[c].epoch /\ m.seq = row[c].seq
       /\ \/ /\ Hears(c, m, "output", row[c].req)
             /\ row' = [row EXCEPT ![c].seq = @ + 1]
          \/ /\ Hears(c, m, "terminal", row[c].req)
             /\ row' = [row EXCEPT ![c] = Completed(@, m.code)]
          \/ /\ Hears(c, m, "already", row[c].req)
             /\ row' = [row EXCEPT ![c] = Completed(@, "already")]
  /\ UNCHANGED <<known, debts, net, target>>

\* A response with the id of the request that does not authenticate, damaged or by way of
\* another carrier: the epoch is compared, once.
Garbled(c) ==
  /\ Live(row[c])
  /\ \/ /\ Awaits(c, "request") /\ ~row[c].rediscovered
        /\ row' = [row EXCEPT ![c] =
                     [Enter(@, "compare") EXCEPT !.did = 0, !.rediscovered = TRUE]]
     \/ /\ row[c].rediscovered
        /\ row' = [row EXCEPT ![c] = Completed(@, "error")]
  /\ UNCHANGED <<known, debts, net, target>>

----------------------------------------------------------------------------
\* The target.  A request it cannot read under the key of its epoch is ignored.

Reply(m) == Transmit({m})

\* Variant: keys of earlier epochs are still accepted.
CurrentOrLate(m, kind) == m.kind = kind /\ m.epoch \in 1..epoch

Current(m, kind) == m.kind = kind /\ m.epoch = epoch

\* cmd_bootstrap: read-only
RxBootstrap ==
  /\ \E m \in net : m.kind = "bootstrap" /\ Reply(Msg("epoch", m.id, epoch))
  /\ UNCHANGED <<client, target>>

\* Commands of an owner and session controls share a row of their own.
IngressOf(kind) == IF owner \/ kind # "execute" THEN "control" ELSE "general"

\* cmd_auth_execute of a new id: both rows or neither.
Admit ==
  /\ \E m \in net :
       /\ Current(m, "execute") /\ seen[m.id] = "free"
       /\ LET full == Cardinality({i \in Id : seen[i] # "free"}) >= SeenSlots
              busy == ingress[IngressOf("execute")] # None
          IN \/ /\ full \/ Crowded
                /\ Reply([Msg("refused", m.id, epoch) EXCEPT !.code = "full"])
                /\ UNCHANGED <<seen, ingress>>
             \/ /\ ~full /\ (busy \/ Crowded)
                /\ Reply(Msg("refused", m.id, epoch))
                /\ UNCHANGED <<seen, ingress>>
             \/ /\ ~full /\ ~busy
                /\ seen' = [seen EXCEPT ![m.id] = "admitted"]
                /\ ingress' = [ingress EXCEPT ![IngressOf("execute")] =
                                 [kind |-> "execute", id |-> m.id]]
                /\ UNCHANGED net
  /\ UNCHANGED <<client, epoch, owner, script, action, ran, fired>>

\* ... of an id seen before: the answer is sent again, or it was acknowledged.
Replay ==
  /\ \E m \in net :
       /\ Current(m, "execute")
       /\ \/ /\ seen[m.id] = "completed" /\ script[m.id] # None
             /\ script' = [script EXCEPT ![m.id].cursor = 0]
             /\ UNCHANGED net
          \/ /\ seen[m.id] = "acknowledged"
             /\ Reply(Msg("already", m.id, epoch))
             /\ UNCHANGED script
  /\ UNCHANGED <<client, epoch, owner, seen, ingress, action, ran, fired>>

\* cmd_response_ack: releases the answer, unless its action still has to be promised,
\* and makes an action due.
RxAck ==
  /\ \E m \in net :
       LET mine == action # None /\ action.id = m.id
       IN /\ Current(m, "ack") /\ seen[m.id] # "free"
          /\ ~(mine /\ action.phase = "prepared")
          /\ action' = IF mine THEN [action EXCEPT !.phase = "due"] ELSE action
          /\ IF seen[m.id] = "completed"
             THEN /\ seen' = [seen EXCEPT ![m.id] = "acknowledged"]
                  /\ script' = [script EXCEPT ![m.id] = None]
             ELSE UNCHANGED <<seen, script>>
  /\ UNCHANGED <<client, net, epoch, owner, ingress, ran, fired>>

\* cmd_safe_rollover, cmd_force_rollover
RxControl ==
  /\ \E m \in net :
       /\ Current(m, "safe") \/ Current(m, "force")
       /\ \/ /\ ingress["control"] # None \/ Crowded
             /\ Reply(Msg("refused", m.id, epoch)) /\ UNCHANGED ingress
          \/ /\ ingress["control"] = None
             /\ ingress' = [ingress EXCEPT !["control"] = [kind |-> m.kind, id |-> m.id]]
             /\ UNCHANGED net
  /\ UNCHANGED <<client, epoch, owner, seen, script, action, ran, fired>>

\* remote_session_expire: a command not dispatched yet is forgotten with its row.
ExpireIngress(p) ==
  /\ ingress[p] # None
  /\ seen' = [seen EXCEPT ![ingress[p].id] =
                IF ingress[p].kind = "execute" /\ @ = "admitted" THEN "free" ELSE @]
  /\ ingress' = [ingress EXCEPT ![p] = None]
  /\ UNCHANGED <<client, net, epoch, owner, script, action, ran, fired>>

\* remote_action_expire
ActionDue ==
  /\ action # None /\ action.phase = "armed"
  /\ action' = [action EXCEPT !.phase = "due"]
  /\ UNCHANGED <<client, net, epoch, owner, seen, ingress, script, ran, fired>>

\* Variant: a prepared action counts as promised.
OwnedAlready == action # None

\* remote_action_owned
Owned == action # None /\ action.phase # "prepared"

\* invalidate_slot with a fresh epoch: an action that was promised survives it.
InvalidateSlot ==
  /\ epoch < MaxEpoch /\ epoch' = epoch + 1
  /\ seen' = [i \in Id |-> "free"]
  /\ script' = [i \in Id |-> None]
  /\ ingress' = [p \in Partition |-> None]
  /\ action' = IF Owned THEN action ELSE None

\* radmin_service_control: busy with an action; with answers not acknowledged, if it is to
\* be safe; a fresh epoch, of which it tells under the base key; or no entropy for one.
ServiceControl ==
  /\ ingress["control"] # None /\ ingress["control"].kind # "execute"
  /\ LET h == ingress["control"]
         busy == Owned \/ (h.kind = "safe" /\ \E i \in Id : script[i] # None)
     IN \/ /\ ~busy /\ InvalidateSlot
           /\ Reply(Msg("rolled", h.id, epoch'))
        \/ /\ Reply(Msg("refused", h.id, epoch))
           /\ ingress' = [ingress EXCEPT !["control"] = None]
           /\ UNCHANGED <<epoch, seen, script, action>>
  /\ UNCHANGED <<client, owner, ran, fired>>

\* Variant: off by one.
UnsentOrLast(s) == s.cursor <= s.frames

\* Frames of an answer are left.
Unsent(s) == s.cursor < s.frames

\* radmin_send_frame: an action is promised, and armed, when its terminal is on its way.
SendFrame(i) ==
  LET s == script[i]
      last == s.cursor = s.frames - 1
      code == IF last THEN s.code ELSE "none"
  IN /\ s # None /\ Unsent(s)
     /\ Reply([Msg(IF last THEN "terminal" ELSE "output", i, epoch) EXCEPT
                 !.seq = s.cursor, !.code = code])
     /\ action' = IF code = "scheduled" /\ action # None /\ action.id = i
                     /\ action.phase = "prepared"
                  THEN [action EXCEPT !.phase = "armed"] ELSE action
     /\ script' = [script EXCEPT ![i].cursor = @ + 1]
     /\ UNCHANGED <<client, epoch, owner, seen, ingress, ran, fired>>

\* radmin_service_once: the command in an ingress row, when there is room for its answer.
Dispatch(p, outcome) ==
  /\ ingress[p] # None /\ ingress[p].kind = "execute"
  /\ seen[ingress[p].id] = "admitted"
  /\ Cardinality({i \in Id : script[i] # None}) < TranscriptSlots
  /\ ran' = [ran EXCEPT ![ingress[p].id[1]] =
               [times |-> @.times + 1, n |-> ingress[p].id[2], epoch |-> epoch,
                outcome |-> outcome]]

\* A disruptive command prepares the one deferred action there is, or refuses.
Run(p) ==
  LET i == ingress[p].id
  IN \E outcome \in Outcome, f \in 1..MaxFrames :
       /\ Dispatch(p, outcome)
       /\ outcome = "scheduled" => i[1] \in Disruptive /\ action = None
       /\ outcome = "busy" => i[1] \in Disruptive /\ (action # None \/ Crowded)
       /\ action' = IF outcome = "scheduled" THEN [phase |-> "prepared", id |-> i] ELSE action
       /\ seen' = [seen EXCEPT ![i] = "completed"]
       /\ script' = [script EXCEPT ![i] = [code |-> outcome, frames |-> f, cursor |-> 0]]
       /\ ingress' = [ingress EXCEPT ![p] = None]
       /\ UNCHANGED <<client, net, epoch, owner, fired>>

\* A command that changes the access list takes its own session away: it has no answer.
RunRotating(p) ==
  /\ owner /\ Dispatch(p, "done")
  /\ InvalidateSlot /\ owner' \in BOOLEAN
  /\ UNCHANGED <<client, net, fired>>

\* remote_action_service_once
TakeAction ==
  /\ action # None /\ action.phase = "due"
  /\ action' = None
  /\ fired' = [fired EXCEPT ![action.id[1]] = @ + 1]
  /\ UNCHANGED <<client, net, epoch, owner, seen, ingress, script, ran>>

\* Commands at the target itself: the role or the credential of the slot changes.
AclChange ==
  /\ InvalidateSlot /\ owner' \in BOOLEAN
  /\ UNCHANGED <<client, net, ran, fired>>

\* Variant: the epoch is not drawn anew.
RebootSameEpoch ==
  /\ seen' = [i \in Id |-> "free"]
  /\ script' = [i \in Id |-> None]
  /\ ingress' = [p \in Partition |-> None]
  /\ action' = None
  /\ UNCHANGED <<client, net, epoch, owner, ran, fired>>

\* Nothing of the session survives a restart of the target; the role does.
Reboot ==
  /\ epoch < MaxEpoch /\ epoch' = epoch + 1
  /\ seen' = [i \in Id |-> "free"]
  /\ script' = [i \in Id |-> None]
  /\ ingress' = [p \in Partition |-> None]
  /\ action' = None
  /\ UNCHANGED <<client, net, owner, ran, fired>>

----------------------------------------------------------------------------
ClientStep(c) ==
  \/ \E ble \in BOOLEAN : Start(c, ble)
  \/ Serve(c) \/ Expire(c) \/ Retry(c) \/ Accept(c)
  \/ Bootstrapped(c) \/ Compared(c) \/ RolledFor(c) \/ RolledOver(c)
  \/ Refused(c) \/ Answered(c) \/ Garbled(c)

TargetStep ==
  \/ RxBootstrap \/ Admit \/ Replay \/ RxAck \/ RxControl
  \/ ServiceControl \/ ActionDue \/ TakeAction \/ AclChange \/ Reboot
  \/ \E i \in Id : SendFrame(i)
  \/ \E p \in Partition : ExpireIngress(p) \/ Run(p) \/ RunRotating(p)

Next ==
  \/ \E c \in Command : ClientStep(c)
  \/ SendAck \/ SessionExpire \/ ClientReboot \/ TargetStep

Spec == Init /\ [][Next]_vars
=============================================================================
