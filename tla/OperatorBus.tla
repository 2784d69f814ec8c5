---------------------------- MODULE OperatorBus -----------------------------
(***************************************************************************)
(* Where operator commands come from and how they reach the executor: the  *)
(* control panel (crates/panel/src/main.rs), the Telegram bridge           *)
(* (crates/telegram-alerts/src/main.rs), the topic system/command of       *)
(* crates/shared/src/zenoh_ipc.rs, and the halt switch at its end.  Each   *)
(* publisher's commands keep their order; nothing orders one against the   *)
(* other, and nothing is kept for a subscriber that is down.               *)
(***************************************************************************)
EXTENDS Naturals, Sequences

CONSTANTS
  Handlers,    \* panel requests that can be served at the same time
  Updates,     \* what a chat message may ask for, NoCommand for anything else
  NoCommand,   \* a message of another chat, or not a command
  Faults,      \* what may go wrong
  MaxUpdates,  \* bound: chat messages
  MaxQueue,    \* bound: commands of one publisher on their way
  MaxCrashes   \* bound: crashes of processes

Halting == {"HaltEntries", "FlattenAll"}
PanelAction == Halting \cup {"ResumeEntries"}
OperatorAction == PanelAction \cup {"StatusPing"}

\* put: publishing returns an error; drop: the transport loses a command;
\* panel, telegram, executor: the process dies and is restarted by systemd
FaultKinds == {"put", "drop", "panel", "telegram", "executor"}

ASSUME OperatorBusConstants ==
  /\ NoCommand \notin OperatorAction
  /\ Updates \subseteq OperatorAction \cup {NoCommand}
  /\ Faults \subseteq FaultKinds
  /\ MaxUpdates \in Nat
  /\ MaxQueue \in Nat
  /\ MaxCrashes \in Nat

VARIABLES
  shown,         \* panel: the halt flag of the dashboard
  request,       \* panel: each handler's place and the command it serves
  chat,          \* Telegram: all updates sent so far, by update_id
  confirmed,     \* Telegram: updates with an id below it are forgotten
  offset,        \* bridge: its offset
  batch,         \* bridge: ids of the fetched updates still to be looked at
  hand,          \* bridge: the update being published, 0 for none
  bus,           \* commands on their way, by publisher
  operatorHalt,  \* executor: operator_halt
  handled,       \* history: the largest update id the executor has handled
  crashes,       \* crashes so far
  happened       \* history: the kinds of faults so far

panelVars == <<shown, request>>
bridgeVars == <<confirmed, offset, batch, hand>>
executorVars == <<operatorHalt, handled>>
vars == <<panelVars, chat, bridgeVars, bus, executorVars, crashes, happened>>

Publisher == {"panel", "telegram"}
Command == [action : OperatorAction, id : Nat]
Idle == [at |-> "idle", action |-> "ResumeEntries"]
NoBus == [p \in Publisher |-> <<>>]

\* publish_command puts the command on its way or fails.
Put(p, c) == /\ Len(bus[p]) < MaxQueue
             /\ bus' = [bus EXCEPT ![p] = Append(@, c)]
             /\ UNCHANGED happened

Happens(fault) ==
  /\ fault \in Faults
  /\ happened' = happened \cup {fault}

PutFails == Happens("put") /\ UNCHANGED bus
-----------------------------------------------------------------------------
(* The panel: halt_trading publishes, then sets the flag it shows. *)

Post(h, a) ==
  /\ request[h] = Idle
  /\ request' = [request EXCEPT ![h] = [at |-> "publish", action |-> a]]
  /\ UNCHANGED <<shown, chat, bridgeVars, bus, executorVars, crashes, happened>>

PublishRequest(h) ==
  /\ request[h].at = "publish"
  /\ \/ /\ Put("panel", [action |-> request[h].action, id |-> 0])
        /\ request' = [request EXCEPT ![h].at = "show"]
     \/ /\ PutFails
        /\ request' = [request EXCEPT ![h] = Idle]
  /\ UNCHANGED <<shown, chat, bridgeVars, executorVars, crashes>>

\* Mutant of Shows.
ShowsHaltOnly(a) == a = "HaltEntries"

\* req.halt_entries || req.flatten
Shows(a) == a \in Halting

ShowRequest(h) ==
  /\ request[h].at = "show"
  /\ shown' = Shows(request[h].action)
  /\ request' = [request EXCEPT ![h] = Idle]
  /\ UNCHANGED <<chat, bridgeVars, bus, executorVars, crashes, happened>>
-----------------------------------------------------------------------------
(* The Telegram bridge. *)

Send(u) ==
  /\ Len(chat) < MaxUpdates
  /\ chat' = Append(chat, u)
  /\ UNCHANGED <<panelVars, bridgeVars, bus, executorVars, crashes, happened>>

\* getUpdates confirms every update below the offset and returns the others,
\* after its timeout none.
Poll ==
  LET first == IF offset > confirmed THEN offset ELSE confirmed
  IN  /\ batch = <<>>
      /\ hand = 0
      /\ confirmed' = first
      /\ batch' = [i \in 1..(Len(chat) + 1 - first) |-> first + i - 1]
      /\ UNCHANGED <<panelVars, chat, offset, hand, bus, executorVars, crashes, happened>>

\* Mutant of NextOffset.
SameOffset(id) == id

NextOffset(id) == id + 1

\* The offset moves before the command is published.
TakeUpdate ==
  /\ hand = 0
  /\ batch # <<>>
  /\ offset' = NextOffset(Head(batch))
  /\ batch' = Tail(batch)
  /\ hand' = IF chat[Head(batch)] = NoCommand THEN 0 ELSE Head(batch)
  /\ UNCHANGED <<panelVars, chat, confirmed, bus, executorVars, crashes, happened>>

\* A command that cannot be published is logged and not tried again.
PublishUpdate ==
  /\ hand # 0
  /\ \/ Put("telegram", [action |-> chat[hand], id |-> hand])
     \/ PutFails
  /\ hand' = 0
  /\ UNCHANGED <<panelVars, chat, confirmed, offset, batch, executorVars, crashes>>
-----------------------------------------------------------------------------
(* The executor's command branch and the transport. *)

HaltAfter(a) == IF a = "StatusPing" THEN operatorHalt ELSE a \in Halting

Handle(p) ==
  /\ bus[p] # <<>>
  /\ LET c == Head(bus[p])
     IN  /\ operatorHalt' = HaltAfter(c.action)
         /\ handled' = IF c.id > handled THEN c.id ELSE handled
  /\ bus' = [bus EXCEPT ![p] = Tail(@)]
  /\ UNCHANGED <<panelVars, chat, bridgeVars, crashes, happened>>

Drop(p) ==
  /\ Happens("drop")
  /\ bus[p] # <<>>
  /\ bus' = [bus EXCEPT ![p] = Tail(@)]
  /\ UNCHANGED <<panelVars, chat, bridgeVars, executorVars, crashes>>
-----------------------------------------------------------------------------
(* Crashes: every process starts again from nothing. *)

Dies(process) ==
  /\ Happens(process)
  /\ crashes < MaxCrashes
  /\ crashes' = crashes + 1

PanelCrash ==
  /\ Dies("panel")
  /\ shown' = FALSE
  /\ request' = [h \in Handlers |-> Idle]
  /\ UNCHANGED <<chat, bridgeVars, bus, executorVars>>

\* Mutant of BridgeCrash.
BridgeKeepsOffset ==
  /\ Dies("telegram")
  /\ batch' = <<>>
  /\ hand' = 0
  /\ UNCHANGED <<panelVars, chat, confirmed, offset, bus, executorVars>>

BridgeCrash ==
  /\ Dies("telegram")
  /\ offset' = 0
  /\ batch' = <<>>
  /\ hand' = 0
  /\ UNCHANGED <<panelVars, chat, confirmed, bus, executorVars>>

ExecutorCrash ==
  /\ Dies("executor")
  /\ operatorHalt' = FALSE
  /\ bus' = NoBus
  /\ UNCHANGED <<panelVars, chat, bridgeVars, handled>>
-----------------------------------------------------------------------------
Init ==
  /\ shown = FALSE
  /\ request = [h \in Handlers |-> Idle]
  /\ chat = <<>>
  /\ confirmed = 1
  /\ offset = 0
  /\ batch = <<>>
  /\ hand = 0
  /\ bus = NoBus
  /\ operatorHalt = FALSE
  /\ handled = 0
  /\ crashes = 0
  /\ happened = {}

PanelStep(h) == PublishRequest(h) \/ ShowRequest(h)

BridgeStep == Poll \/ TakeUpdate \/ PublishUpdate

Next ==
  \/ \E h \in Handlers, a \in PanelAction : Post(h, a)
  \/ \E h \in Handlers : PanelStep(h)
  \/ \E u \in Updates : Send(u)
  \/ BridgeStep
  \/ \E p \in Publisher : Handle(p) \/ Drop(p)
  \/ PanelCrash
  \/ BridgeCrash
  \/ ExecutorCrash

Spec == Init /\ [][Next]_vars

\* The panel may be left alone; the bridge and the executor keep running.
FairSpec ==
  /\ Spec
  /\ WF_vars(BridgeStep)
  /\ \A p \in Publisher : WF_vars(Handle(p))
-----------------------------------------------------------------------------
(* Properties. *)

\* Every update in hand or in the batch is one that was sent, and only one the
\* bridge has moved its offset past is being published.
TypeOK ==
  /\ shown \in BOOLEAN
  /\ request \in [Handlers -> [at : {"idle", "publish", "show"},
                               action : PanelAction]]
  /\ chat \in Seq(Updates)
  /\ confirmed \in 1..(Len(chat) + 1)
  /\ offset \in 0..(Len(chat) + 1)
  /\ batch \in Seq(1..Len(chat))
  /\ hand \in 0..Len(chat)
  /\ hand # 0 => hand < offset
  /\ bus \in [Publisher -> Seq(Command)]
  /\ operatorHalt \in BOOLEAN
  /\ handled \in 0..Len(chat)
  /\ crashes \in 0..MaxCrashes
  /\ happened \subseteq Faults

\* The ids of the Telegram commands between the executor and the chat, the
\* oldest first.
Underway ==
  [i \in DOMAIN bus["telegram"] |-> bus["telegram"][i].id]
    \o (IF hand = 0 THEN <<>> ELSE <<hand>>) \o batch

\* As long as the bridge does not die, commands of the chat are handled at most
\* once and in the order they were sent, whatever is refused or lost on the
\* way (telegram-alerts/src/main.rs:69).
TelegramInOrder ==
  "telegram" \notin happened =>
    LET ids == <<handled>> \o Underway
    IN  \A i, j \in DOMAIN ids : i < j => ids[i] < ids[j]

\* Faults that lose a command on its way.
Losing == {"put", "drop", "executor"}

\* A command sent to the chat reaches the executor although the bridge dies:
\* what it had not confirmed is fetched again.
EveryCommandHandled ==
  \A id \in 1..MaxUpdates :
    (Len(chat) >= id /\ chat[id] # NoCommand)
      ~> (handled >= id \/ happened \cap Losing # {})

Quiet == bus = NoBus /\ \A h \in Handlers : request[h] = Idle

\* With the panel as the only source and one request at a time, the dashboard
\* shows the executor's halt once the command has arrived, also when publishing
\* failed (panel/src/main.rs:152).
ShownIsHalt ==
  Quiet /\ chat = <<>> /\ happened \subseteq {"put"} => shown = operatorHalt
=============================================================================
