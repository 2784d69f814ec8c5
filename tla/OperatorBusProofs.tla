-------------------------- MODULE OperatorBusProofs --------------------------
(***************************************************************************)
(* Proofs about the operator's commands, for every value of the constants: *)
(* any number of chat messages, queues of any length, any faults.          *)
(***************************************************************************)
EXTENDS OperatorBus, SequenceTheorems, TLAPS

Telegram == bus["telegram"]
Panel == bus["panel"]

\* Numbers on the bus are those of chat messages sent; the panel's commands
\* have none; an update in hand is a command.
CommandsOK ==
  /\ \A i \in DOMAIN Telegram : Telegram[i].id <= Len(chat)
  /\ \A i \in DOMAIN Panel : Panel[i].id = 0 /\ Panel[i].action \in PanelAction
  /\ hand # 0 => chat[hand] # NoCommand

IndInv == TypeOK /\ CommandsOK

\* The places of a panel handler, and the command it serves.
Request == [at : {"idle", "publish", "show"}, action : PanelAction]

LEMMA Constants ==
  /\ Idle \in Request
  /\ NoBus \in [Publisher -> Seq(Command)]
  /\ NoBus["panel"] = <<>> /\ NoBus["telegram"] = <<>>
  /\ PanelAction \subseteq OperatorAction
BY DEF Idle, Request, PanelAction, NoBus, Publisher, OperatorAction

LEMMA InitIndInv == Init => IndInv
<1> SUFFICES ASSUME Init PROVE IndInv
  OBVIOUS
<1>1. /\ request \in [Handlers -> Request] /\ bus \in [Publisher -> Seq(Command)]
      /\ Telegram = <<>> /\ Panel = <<>>
  BY Constants DEF Init, Telegram, Panel
<1>2. /\ chat = <<>> /\ chat \in Seq(Updates) /\ Len(chat) = 0
      /\ batch = <<>> /\ batch \in Seq(1..Len(chat))
      /\ confirmed = 1 /\ offset = 0 /\ hand = 0 /\ handled = 0 /\ crashes = 0
      /\ happened = {}
  BY DEF Init
<1>3. shown \in BOOLEAN /\ operatorHalt \in BOOLEAN
  BY DEF Init
<1>4. TypeOK
  BY <1>1, <1>2, <1>3, OperatorBusConstants DEF TypeOK, Request
<1>5. CommandsOK
  BY <1>1, <1>2 DEF CommandsOK
<1> QED
  BY <1>4, <1>5 DEF IndInv

LEMMA OnBus ==
  ASSUME IndInv, NEW p \in Publisher, NEW i \in DOMAIN bus[p]
  PROVE  bus[p][i] \in Command /\ bus[p][i].id \in Nat
<1>1. bus[p] \in Seq(Command)
  BY DEF IndInv, TypeOK
<1>2. bus[p][i] \in Command
  BY <1>1
<1> QED
  BY <1>2 DEF Command

\* The ids getUpdates returns are consecutive, up to the last update sent.
LEMMA FetchedIds ==
  ASSUME NEW last \in Nat, NEW first \in 1..(last + 1)
  PROVE  [i \in 1..(last + 1 - first) |-> first + i - 1] \in Seq(1..last)
<1>1. \A i \in 1..(last + 1 - first) : first + i - 1 \in 1..last
  OBVIOUS
<1> QED
  BY <1>1

\* A command joins the queue of its publisher, at the end.
LEMMA PutLast ==
  ASSUME IndInv, NEW p \in Publisher, NEW c \in Command, Put(p, c)
  PROVE  /\ bus' \in [Publisher -> Seq(Command)]
         /\ bus'[p] = Append(bus[p], c)
         /\ \A q \in Publisher : q # p => bus'[q] = bus[q]
         /\ happened' = happened
<1>1. bus \in [Publisher -> Seq(Command)] /\ bus[p] \in Seq(Command)
  BY DEF IndInv, TypeOK
<1>2. Append(bus[p], c) \in Seq(Command)
  BY <1>1
<1>3. bus' = [bus EXCEPT ![p] = Append(bus[p], c)] /\ happened' = happened
  BY DEF Put
<1> QED
  BY <1>1, <1>2, <1>3

\* The oldest command leaves it.
LEMMA TakeFirst ==
  ASSUME IndInv, NEW p \in Publisher, bus[p] # <<>>,
         bus' = [bus EXCEPT ![p] = Tail(@)]
  PROVE  /\ bus' \in [Publisher -> Seq(Command)]
         /\ bus'[p] = Tail(bus[p])
         /\ \A q \in Publisher : q # p => bus'[q] = bus[q]
         /\ Head(bus[p]) \in Command /\ 1 \in DOMAIN bus[p]
         /\ \A i \in DOMAIN bus'[p] : /\ i + 1 \in DOMAIN bus[p]
                                      /\ bus'[p][i] = bus[p][i + 1]
<1>1. bus \in [Publisher -> Seq(Command)] /\ bus[p] \in Seq(Command)
  BY DEF IndInv, TypeOK
<1>2. /\ Tail(bus[p]) \in Seq(Command) /\ Head(bus[p]) \in Command
      /\ Len(Tail(bus[p])) = Len(bus[p]) - 1
      /\ \A i \in 1..Len(Tail(bus[p])) : Tail(bus[p])[i] = bus[p][i + 1]
  BY <1>1, HeadTailProperties
<1>3. bus'[p] = Tail(bus[p]) /\ \A q \in Publisher : q # p => bus'[q] = bus[q]
  BY <1>1
<1>4. bus' \in [Publisher -> Seq(Command)]
  BY <1>1, <1>2
<1>5. DOMAIN bus[p] = 1..Len(bus[p]) /\ DOMAIN bus'[p] = 1..(Len(bus[p]) - 1)
  BY <1>1, <1>2, <1>3, LenProperties
<1>6. Len(bus[p]) \in Nat /\ Len(bus[p]) > 0
  BY <1>1
<1> QED
  BY <1>2, <1>3, <1>4, <1>5, <1>6

\* The panel's steps.
LEMMA PanelKeeps ==
  ASSUME IndInv, NEW h \in Handlers,
         (\E a \in PanelAction : Post(h, a)) \/ PanelStep(h)
  PROVE  IndInv'
<1>1. /\ request \in [Handlers -> Request] /\ request[h].action \in PanelAction
      /\ bus \in [Publisher -> Seq(Command)]
  BY DEF IndInv, TypeOK, Request
<1>2. UNCHANGED <<chat, bridgeVars, executorVars, crashes>>
  BY Zenon DEF Post, PanelStep, PublishRequest, ShowRequest
<1>3. request' \in [Handlers -> Request]
  <2>1. \/ \E a \in PanelAction :
              request' = [request EXCEPT ![h] = [at |-> "publish", action |-> a]]
        \/ request' = [request EXCEPT ![h].at = "show"]
        \/ request' = [request EXCEPT ![h] = Idle]
    BY Zenon DEF Post, PanelStep, PublishRequest, ShowRequest
  <2>2. \A a \in PanelAction : [at |-> "publish", action |-> a] \in Request
    BY DEF Request
  <2>3. [request[h] EXCEPT !.at = "show"] \in Request
    BY <1>1 DEF Request
  <2> QED
    BY <1>1, <2>1, <2>2, <2>3, Constants
<1>4. shown' \in BOOLEAN
  <2>1. shown' = shown \/ shown' = Shows(request[h].action)
    BY Zenon DEF Post, PanelStep, PublishRequest, ShowRequest
  <2>2. shown \in BOOLEAN /\ Shows(request[h].action) \in BOOLEAN
    BY DEF IndInv, TypeOK, Shows
  <2> QED
    BY <2>1, <2>2, Zenon
<1>5. \/ UNCHANGED <<bus, happened>>
      \/ PutFails
      \/ Put("panel", [action |-> request[h].action, id |-> 0])
  BY Zenon DEF Post, PanelStep, PublishRequest, ShowRequest
<1>6. /\ bus' \in [Publisher -> Seq(Command)] /\ happened' \subseteq Faults
      /\ Telegram' = Telegram
      /\ \A i \in DOMAIN Panel' : Panel'[i].id = 0 /\ Panel'[i].action \in PanelAction
  <2>1. CASE UNCHANGED bus /\ happened' \in {happened, happened \cup {"put"}}
                           /\ happened' \subseteq Faults
    BY <1>1, <2>1 DEF IndInv, CommandsOK, Telegram, Panel
  <2>2. CASE Put("panel", [action |-> request[h].action, id |-> 0])
    <3> DEFINE c == [action |-> request[h].action, id |-> 0]
    <3>1. c \in Command /\ c.id = 0 /\ c.action \in PanelAction
      BY <1>1, Constants DEF Command
    <3>2. "panel" \in Publisher /\ "telegram" \in Publisher
      BY DEF Publisher
    <3>3. /\ bus' \in [Publisher -> Seq(Command)]
          /\ bus'["panel"] = Append(bus["panel"], c)
          /\ bus'["telegram"] = bus["telegram"] /\ happened' = happened
      <4> HIDE DEF c
      <4> QED BY <2>2, <3>1, <3>2, PutLast DEF c
    <3>4. Panel \in Seq(Command)
      BY <1>1, <3>2 DEF Panel
    <3>5. \A i \in DOMAIN Panel' : Panel'[i] = c \/ (i \in DOMAIN Panel /\ Panel'[i] = Panel[i])
      <4> HIDE DEF c
      <4> QED BY <3>1, <3>3, <3>4, AppendProperties DEF Panel
    <3> QED
      BY <3>1, <3>3, <3>5 DEF IndInv, TypeOK, CommandsOK, Telegram
  <2> QED
    BY <1>5, <2>1, <2>2 DEF PutFails, Happens, IndInv, TypeOK
<1> QED
  BY <1>2, <1>3, <1>4, <1>6
  DEF IndInv, TypeOK, CommandsOK, Request, bridgeVars, executorVars

LEMMA SendKeeps ==
  ASSUME IndInv, NEW u \in Updates, Send(u) PROVE IndInv'
<1>1. /\ chat \in Seq(Updates) /\ chat' = Append(chat, u)
      /\ UNCHANGED <<panelVars, bridgeVars, bus, executorVars, crashes, happened>>
  BY DEF Send, IndInv, TypeOK
<1>2. /\ chat' \in Seq(Updates) /\ Len(chat') = Len(chat) + 1 /\ Len(chat) \in Nat
      /\ \A i \in 1..Len(chat) : chat'[i] = chat[i]
  BY <1>1, AppendProperties
<1>3. 1..Len(chat) \subseteq 1..Len(chat')
  BY <1>2
<1>4. batch' \in Seq(1..Len(chat'))
  BY <1>1, <1>3, SeqMonotonic DEF IndInv, TypeOK, bridgeVars
<1>5. CommandsOK'
  <2>2. \A i \in DOMAIN Telegram : Telegram[i].id \in Nat
    BY OnBus DEF Publisher, Telegram
  <2>3. hand' = hand /\ hand \in 0..Len(chat) /\ bus' = bus
    BY <1>1 DEF IndInv, TypeOK, bridgeVars
  <2> QED
    BY <1>2, <2>2, <2>3 DEF IndInv, CommandsOK, Telegram, Panel
<1> QED
  BY <1>1, <1>2, <1>4, <1>5
  DEF IndInv, TypeOK, panelVars, bridgeVars, executorVars

\* The first update the next poll asks for.
Due == IF offset > confirmed THEN offset ELSE confirmed

\* The bridge's steps.
LEMMA BridgeKeeps ==
  ASSUME IndInv, BridgeStep PROVE IndInv'
<1>0. /\ Len(chat) \in Nat /\ batch \in Seq(1..Len(chat))
      /\ confirmed \in 1..(Len(chat) + 1) /\ offset \in 0..(Len(chat) + 1)
      /\ hand \in 0..Len(chat)
  BY DEF IndInv, TypeOK
<1>1. CASE Poll
  <2>1. /\ confirmed' = Due /\ hand = 0
        /\ batch' = [i \in 1..(Len(chat) + 1 - Due) |-> Due + i - 1]
        /\ UNCHANGED <<panelVars, chat, offset, hand, bus, executorVars, crashes, happened>>
    BY <1>1 DEF Poll, Due
  <2>2. Due \in 1..(Len(chat) + 1)
    BY <1>0 DEF Due
  <2>3. batch' \in Seq(1..Len(chat))
    BY <1>0, <2>1, <2>2, FetchedIds
  <2> QED
    BY <2>1, <2>2, <2>3
    DEF IndInv, TypeOK, CommandsOK, Telegram, Panel, panelVars, executorVars
<1>2. CASE TakeUpdate
  <2>1. /\ offset' = Head(batch) + 1 /\ batch' = Tail(batch) /\ batch # <<>>
        /\ hand' = IF chat[Head(batch)] = NoCommand THEN 0 ELSE Head(batch)
        /\ UNCHANGED <<panelVars, chat, confirmed, bus, executorVars, crashes, happened>>
    BY <1>2 DEF TakeUpdate, NextOffset
  <2>2. Head(batch) \in 1..Len(chat) /\ Tail(batch) \in Seq(1..Len(chat))
    BY <1>0, <2>1, HeadTailProperties
  <2>3. /\ offset' \in 0..(Len(chat) + 1) /\ hand' \in 0..Len(chat)
        /\ hand' # 0 => hand' < offset' /\ chat[hand'] # NoCommand
    BY <1>0, <2>1, <2>2
  <2> QED
    BY <2>1, <2>2, <2>3
    DEF IndInv, TypeOK, CommandsOK, Telegram, Panel, panelVars, executorVars
<1>3. CASE PublishUpdate
  <2> DEFINE c == [action |-> chat[hand], id |-> hand]
  <2>1. /\ hand # 0 /\ hand' = 0
        /\ UNCHANGED <<panelVars, chat, confirmed, offset, batch, executorVars, crashes>>
        /\ Put("telegram", c) \/ PutFails
    BY <1>3 DEF PublishUpdate
  <2>2. c \in Command /\ c.id = hand
    <3>1. chat \in Seq(Updates) /\ hand \in 1..Len(chat)
      BY <1>0, <2>1 DEF IndInv, TypeOK
    <3>2. chat[hand] \in Updates /\ chat[hand] # NoCommand
      BY <2>1, <3>1 DEF IndInv, CommandsOK
    <3> QED
      BY <3>1, <3>2, OperatorBusConstants DEF Command
  <2>3. CASE PutFails
    BY <2>1, <2>3
    DEF PutFails, Happens, IndInv, TypeOK, CommandsOK, Telegram, Panel, panelVars,
        executorVars
  <2>4. CASE Put("telegram", c)
    <3>1. "panel" \in Publisher /\ "telegram" \in Publisher
      BY DEF Publisher
    <3> HIDE DEF c
    <3>2. /\ bus' \in [Publisher -> Seq(Command)]
          /\ Telegram' = Append(Telegram, c)
          /\ Panel' = Panel /\ happened' = happened
      BY <2>2, <2>4, <3>1, PutLast DEF Telegram, Panel
    <3>3. Telegram \in Seq(Command)
      BY <3>1 DEF IndInv, TypeOK, Telegram
    <3>4. \A i \in DOMAIN Telegram' :
            Telegram'[i] = c \/ (i \in DOMAIN Telegram /\ Telegram'[i] = Telegram[i])
      BY <2>2, <3>2, <3>3, AppendProperties
    <3>5. CommandsOK'
      BY <1>0, <2>1, <2>2, <3>2, <3>4 DEF IndInv, CommandsOK
    <3>6. TypeOK'
      BY <2>1, <3>2 DEF IndInv, TypeOK, panelVars, executorVars
    <3> QED
      BY <3>5, <3>6 DEF IndInv
  <2> QED
    BY <2>1, <2>3, <2>4
<1> QED
  BY <1>1, <1>2, <1>3 DEF BridgeStep

\* What the executor takes from the bus, or the transport loses.
LEMMA TakenKeeps ==
  ASSUME IndInv, NEW p \in Publisher, Handle(p) \/ Drop(p) PROVE IndInv'
<1>1. /\ bus[p] # <<>> /\ bus' = [bus EXCEPT ![p] = Tail(@)]
      /\ UNCHANGED <<panelVars, chat, bridgeVars, crashes>>
  BY DEF Handle, Drop
<1>2. /\ bus' \in [Publisher -> Seq(Command)]
      /\ Head(bus[p]) \in Command /\ 1 \in DOMAIN bus[p]
      /\ \A q \in Publisher : q # p => bus'[q] = bus[q]
      /\ \A i \in DOMAIN bus'[p] : i + 1 \in DOMAIN bus[p] /\ bus'[p][i] = bus[p][i + 1]
  BY <1>1, TakeFirst
<1>3. Head(bus[p]) = bus[p][1]
  BY <1>2 DEF IndInv, TypeOK
<1>4. Head(bus[p]).id \in 0..Len(chat)
  BY <1>2, <1>3 DEF IndInv, TypeOK, CommandsOK, Publisher, Telegram, Panel, Command
<1>5. operatorHalt' \in BOOLEAN /\ handled' \in 0..Len(chat) /\ happened' \subseteq Faults
  <2>1. CASE Drop(p)
    BY <2>1 DEF Drop, Happens, IndInv, TypeOK, executorVars
  <2>2. CASE Handle(p)
    <3> DEFINE c == Head(bus[p])
    <3>1. /\ operatorHalt' = HaltAfter(c.action)
          /\ handled' = IF c.id > handled THEN c.id ELSE handled
          /\ happened' = happened
      BY <2>2 DEF Handle
    <3>2. HaltAfter(c.action) \in BOOLEAN
      <4>1. operatorHalt \in BOOLEAN
        BY DEF IndInv, TypeOK
      <4>2. CASE c.action = "StatusPing"
        BY <4>1, <4>2, Zenon DEF HaltAfter
      <4>3. CASE c.action # "StatusPing"
        BY <4>3 DEF HaltAfter
      <4> QED
        BY <4>2, <4>3
    <3>3. operatorHalt' \in BOOLEAN
      BY <3>1, <3>2, Zenon
    <3> QED
      BY <1>4, <3>1, <3>3 DEF IndInv, TypeOK
  <2> QED
    BY <2>1, <2>2
<1>6. CommandsOK'
  BY <1>1, <1>2 DEF IndInv, CommandsOK, Publisher, Telegram, Panel, bridgeVars
<1> QED
  BY <1>1, <1>2, <1>5, <1>6 DEF IndInv, TypeOK, panelVars, bridgeVars

LEMMA CrashKeeps ==
  ASSUME IndInv, PanelCrash \/ BridgeCrash \/ ExecutorCrash PROVE IndInv'
<1>1. crashes' \in 0..MaxCrashes /\ happened' \subseteq Faults /\ chat' = chat
  BY OperatorBusConstants
  DEF PanelCrash, BridgeCrash, ExecutorCrash, Dies, Happens, IndInv, TypeOK
<1>2. CASE PanelCrash
  BY <1>1, <1>2, Constants
  DEF PanelCrash, IndInv, TypeOK, CommandsOK, Request, Telegram, Panel, bridgeVars,
      executorVars
<1>3. CASE BridgeCrash
  BY <1>1, <1>3
  DEF BridgeCrash, IndInv, TypeOK, CommandsOK, Telegram, Panel, panelVars, executorVars
<1>4. CASE ExecutorCrash
  <2>1. /\ bus' \in [Publisher -> Seq(Command)]
        /\ Telegram' = <<>> /\ Panel' = <<>>
        /\ operatorHalt' = FALSE
        /\ UNCHANGED <<panelVars, chat, bridgeVars, handled>>
    BY <1>4, Constants DEF ExecutorCrash, Telegram, Panel
  <2>2. operatorHalt' \in BOOLEAN
    BY <2>1
  <2>3. TypeOK'
    BY <1>1, <2>1, <2>2 DEF IndInv, TypeOK, panelVars, bridgeVars
  <2>4. CommandsOK'
    BY <2>1 DEF IndInv, CommandsOK, bridgeVars
  <2> QED
    BY <2>3, <2>4 DEF IndInv
<1> QED
  BY <1>2, <1>3, <1>4

LEMMA IndInvStep == IndInv /\ [Next]_vars => IndInv'
<1> SUFFICES ASSUME IndInv, [Next]_vars PROVE IndInv'
  OBVIOUS
<1>1. CASE UNCHANGED vars
  BY <1>1 DEF vars, IndInv, TypeOK, CommandsOK, Telegram, Panel, panelVars,
     bridgeVars, executorVars
<1> QED
  BY <1>1, PanelKeeps, SendKeeps, BridgeKeeps, TakenKeeps, CrashKeeps DEF Next

\* Every variable keeps its type, only updates the bridge has moved past are
\* published, and none is handled that was not sent.
THEOREM TypeCorrect == Spec => []TypeOK
<1>1. IndInv => TypeOK
  BY DEF IndInv
<1> QED
  BY <1>1, InitIndInv, IndInvStep, PTL DEF Spec
-----------------------------------------------------------------------------
(* The order of the chat's commands. *)

\* The inductive form of TelegramInOrder: what has left the bridge lies below
\* the next id it will ask for, what it still has to look at does not.
InOrder ==
  "telegram" \notin happened =>
    /\ handled < Due
    /\ \A i \in DOMAIN Telegram : handled < Telegram[i].id /\ Telegram[i].id < Due
    /\ \A i, j \in DOMAIN Telegram : i < j => Telegram[i].id < Telegram[j].id
    /\ hand # 0 => handled < hand /\ \A i \in DOMAIN Telegram : Telegram[i].id < hand
    /\ \A i \in DOMAIN batch : Due <= batch[i]
    /\ \A i, j \in DOMAIN batch : i < j => batch[i] < batch[j]

LEMMA InOrderInit == Init => InOrder
<1> SUFFICES ASSUME Init PROVE InOrder
  OBVIOUS
<1>1. Telegram = <<>> /\ batch = <<>> /\ handled = 0 /\ Due = 1 /\ hand = 0
  BY Constants DEF Init, Telegram, Due
<1> QED
  BY <1>1 DEF InOrder

LEMMA InOrderFrame ==
  ASSUME InOrder, happened \subseteq happened', Telegram' = Telegram,
         UNCHANGED <<handled, offset, confirmed, hand, batch>>
  PROVE  InOrder'
BY DEF InOrder, Due

LEMMA InOrderBridge ==
  ASSUME IndInv, InOrder, BridgeStep PROVE InOrder'
<1>0. /\ Len(chat) \in Nat /\ batch \in Seq(1..Len(chat))
      /\ confirmed \in 1..(Len(chat) + 1) /\ offset \in 0..(Len(chat) + 1)
      /\ hand \in 0..Len(chat) /\ (hand # 0 => hand < offset)
      /\ handled \in 0..Len(chat)
      /\ \A i \in DOMAIN Telegram : Telegram[i].id \in Nat
  BY OnBus DEF IndInv, TypeOK, Publisher, Telegram
<1>1. CASE Poll
  <2>1. /\ confirmed' = Due /\ hand = 0
        /\ batch' = [i \in 1..(Len(chat) + 1 - Due) |-> Due + i - 1]
        /\ UNCHANGED <<offset, hand, bus, handled, happened>>
    BY <1>1 DEF Poll, Due, executorVars
  <2>2. Due \in 1..(Len(chat) + 1) /\ Due' = Due
    BY <1>0, <2>1 DEF Due
  <2>3. DOMAIN batch' = 1..(Len(chat) + 1 - Due)
    BY <2>1
  <2>4. /\ \A i \in DOMAIN batch' : Due <= batch'[i]
        /\ \A i, j \in DOMAIN batch' : i < j => batch'[i] < batch'[j]
    BY <1>0, <2>1, <2>2, <2>3
  <2> QED
    BY <2>1, <2>2, <2>4 DEF InOrder, Telegram
<1>2. CASE TakeUpdate
  <2>1. /\ offset' = Head(batch) + 1 /\ batch' = Tail(batch) /\ batch # <<>>
        /\ hand' \in {0, Head(batch)}
        /\ UNCHANGED <<confirmed, bus, handled, happened>>
    BY <1>2 DEF TakeUpdate, NextOffset, executorVars
  <2>2. /\ Head(batch) = batch[1] /\ 1 \in DOMAIN batch /\ batch[1] \in Nat
        /\ \A i \in DOMAIN Tail(batch) : /\ i + 1 \in DOMAIN batch /\ i \in Nat
                                         /\ Tail(batch)[i] = batch[i + 1]
                                         /\ 1 < i + 1
    BY <1>0, <2>1, HeadTailProperties
  <2> SUFFICES ASSUME "telegram" \notin happened PROVE InOrder'
    BY <2>1 DEF InOrder
  <2>3. Due <= batch[1] /\ Due' = batch[1] + 1
    BY <1>0, <2>1, <2>2 DEF InOrder, Due
  <2>4. Due \in Nat
    BY <1>0 DEF Due
  <2>5. /\ \A i \in DOMAIN batch' : Due' <= batch'[i]
        /\ \A i, j \in DOMAIN batch' : i < j => batch'[i] < batch'[j]
    <3>1. \A i \in DOMAIN batch : batch[i] \in Nat
      BY <1>0
    <3>2. \A i, j \in DOMAIN batch : i < j => batch[i] < batch[j]
      BY DEF InOrder
    <3>3. \A i \in DOMAIN Tail(batch) : batch[1] < Tail(batch)[i]
      BY <2>2, <3>2
    <3> QED
      BY <2>1, <2>2, <2>3, <3>1, <3>2, <3>3
  <2>6. /\ handled < Due'
        /\ \A i \in DOMAIN Telegram : Telegram[i].id < batch[1]
        /\ handled < batch[1]
    BY <1>0, <2>2, <2>3, <2>4 DEF InOrder
  <2>7. \A i \in DOMAIN Telegram : Telegram[i].id < Due'
    BY <1>0, <2>2, <2>3, <2>6
  <2> QED
    BY <2>1, <2>2, <2>5, <2>6, <2>7 DEF InOrder, Telegram
<1>3. CASE PublishUpdate
  <2> DEFINE c == [action |-> chat[hand], id |-> hand]
  <2>1. /\ hand # 0 /\ hand' = 0
        /\ UNCHANGED <<chat, confirmed, offset, batch, handled>>
        /\ Put("telegram", c) \/ PutFails
    BY <1>3 DEF PublishUpdate, executorVars
  <2>2. CASE PutFails
    BY <2>1, <2>2 DEF PutFails, Happens, InOrder, Due, Telegram
  <2>3. CASE Put("telegram", c)
    <3>1. "telegram" \in Publisher
      BY DEF Publisher
    <3>2. c.id = hand
      OBVIOUS
    <3>3. /\ Telegram' = Append(Telegram, c) /\ happened' = happened
          /\ Telegram \in Seq(Command)
      BY <2>3, <3>1 DEF Put, IndInv, TypeOK, Telegram
    <3> HIDE DEF c
    <3>4. \A i \in DOMAIN Telegram' :
            \/ i \in DOMAIN Telegram /\ Telegram'[i] = Telegram[i]
            \/ /\ Telegram'[i].id = hand
               /\ \A j \in DOMAIN Telegram' : j <= i
      BY <3>2, <3>3
    <3>5. \A i \in DOMAIN Telegram' : i \in Nat
      BY <3>3
    <3> SUFFICES ASSUME "telegram" \notin happened PROVE InOrder'
      BY <3>3 DEF InOrder
    <3>6. hand < Due /\ Due' = Due /\ Due \in Nat
      BY <1>0, <2>1 DEF Due
    <3>7. /\ handled < Due'
          /\ \A i \in DOMAIN Telegram' :
               handled' < Telegram'[i].id /\ Telegram'[i].id < Due'
      BY <2>1, <3>4, <3>6 DEF InOrder
    <3>8. \A i, j \in DOMAIN Telegram' : i < j => Telegram'[i].id < Telegram'[j].id
      BY <2>1, <3>4, <3>5 DEF InOrder
    <3> QED
      BY <2>1, <3>6, <3>7, <3>8 DEF InOrder
  <2> QED
    BY <2>1, <2>2, <2>3
<1> QED
  BY <1>1, <1>2, <1>3 DEF BridgeStep

LEMMA InOrderTaken ==
  ASSUME IndInv, InOrder, NEW p \in Publisher, Handle(p) \/ Drop(p) PROVE InOrder'
<1>1. /\ bus[p] # <<>> /\ bus' = [bus EXCEPT ![p] = Tail(@)]
      /\ UNCHANGED <<offset, confirmed, hand, batch>> /\ happened \subseteq happened'
  BY DEF Handle, Drop, Happens, bridgeVars
<1>2. /\ \A q \in Publisher : q # p => bus'[q] = bus[q]
      /\ 1 \in DOMAIN bus[p] /\ Head(bus[p]) = bus[p][1]
      /\ \A i \in DOMAIN bus'[p] : /\ i + 1 \in DOMAIN bus[p]
                                   /\ bus'[p][i] = bus[p][i + 1]
                                   /\ i \in Nat /\ 1 < i + 1
  BY <1>1, TakeFirst DEF IndInv, TypeOK
<1>3. handled \in Nat /\ \A i \in DOMAIN Telegram : Telegram[i].id \in Nat
  BY OnBus DEF IndInv, TypeOK, Publisher, Telegram
<1>4. CASE p = "panel"
  <2>1. Telegram' = Telegram
    BY <1>2, <1>4 DEF Publisher, Telegram
  <2>2. bus[p][1].id = 0
    BY <1>2, <1>4 DEF IndInv, CommandsOK, Panel
  <2>3. handled' = handled
    BY <1>2, <1>3, <2>2 DEF Handle, Drop, executorVars
  <2> QED
    BY <1>1, <2>1, <2>3, InOrderFrame
<1>5. CASE p = "telegram"
  <2> SUFFICES ASSUME "telegram" \notin happened PROVE InOrder'
    BY <1>1 DEF InOrder
  <2>1. /\ 1 \in DOMAIN Telegram
        /\ \A i \in DOMAIN Telegram' : /\ i + 1 \in DOMAIN Telegram
                                       /\ Telegram'[i] = Telegram[i + 1]
                                       /\ i \in Nat /\ 1 < i + 1
    BY <1>2, <1>5 DEF Telegram
  <2>2. handled' \in {handled, Telegram[1].id}
    BY <1>2, <1>5 DEF Handle, Drop, executorVars, Telegram
  <2>3. /\ \A i \in DOMAIN Telegram : handled < Telegram[i].id /\ Telegram[i].id < Due
        /\ \A i, j \in DOMAIN Telegram : i < j => Telegram[i].id < Telegram[j].id
        /\ handled < Due /\ Due' = Due
    BY <1>1 DEF InOrder, Due
  <2>4. \A i \in DOMAIN Telegram' : handled' < Telegram'[i].id
    BY <2>1, <2>2, <2>3
  <2>5. \A i, j \in DOMAIN Telegram' : i < j => Telegram'[i].id < Telegram'[j].id
    BY <2>1, <2>3
  <2>6. /\ handled' < Due'
        /\ \A i \in DOMAIN Telegram' : Telegram'[i].id < Due'
    BY <2>1, <2>2, <2>3
  <2>7. hand # 0 => handled' < hand /\ \A i \in DOMAIN Telegram' : Telegram'[i].id < hand
    BY <2>1, <2>2 DEF InOrder
  <2>8. /\ \A i \in DOMAIN batch : Due <= batch[i]
        /\ \A i, j \in DOMAIN batch : i < j => batch[i] < batch[j]
    BY DEF InOrder
  <2> QED
    BY <1>1, <2>3, <2>4, <2>5, <2>6, <2>7, <2>8 DEF InOrder
<1> QED
  BY <1>4, <1>5 DEF Publisher

LEMMA InOrderStep == IndInv /\ InOrder /\ [Next]_vars => InOrder'
<1> SUFFICES ASSUME IndInv, InOrder, [Next]_vars PROVE InOrder'
  OBVIOUS
<1>1. CASE UNCHANGED vars
  BY <1>1, InOrderFrame DEF vars, bridgeVars, executorVars, Telegram
<1>2. ASSUME NEW h \in Handlers, (\E a \in PanelAction : Post(h, a)) \/ PanelStep(h)
      PROVE  InOrder'
  <2>1. /\ UNCHANGED <<handled, offset, confirmed, hand, batch>>
        /\ \/ UNCHANGED <<bus, happened>>
           \/ PutFails
           \/ \E c : Put("panel", c)
    BY <1>2, Zenon DEF Post, PanelStep, PublishRequest, ShowRequest, bridgeVars,
       executorVars
  <2>2. Telegram' = Telegram /\ happened \subseteq happened'
    BY <2>1 DEF PutFails, Happens, Put, Telegram, IndInv, TypeOK, Publisher
  <2> QED
    BY <2>1, <2>2, InOrderFrame
<1>3. CASE \E u \in Updates : Send(u)
  BY <1>3, InOrderFrame DEF Send, bridgeVars, executorVars, Telegram
<1>4. CASE PanelCrash
  BY <1>4, InOrderFrame DEF PanelCrash, Dies, Happens, bridgeVars, executorVars, Telegram
<1>5. CASE BridgeCrash
  BY <1>5 DEF BridgeCrash, Dies, Happens, InOrder
<1>6. CASE ExecutorCrash
  <2>1. Telegram' = <<>>
    BY <1>6, Constants DEF ExecutorCrash, Telegram
  <2> QED
    BY <1>6, <2>1 DEF ExecutorCrash, Dies, Happens, InOrder, Due, bridgeVars
<1> QED
  BY <1>1, <1>2, <1>3, <1>4, <1>5, <1>6, InOrderBridge, InOrderTaken DEF Next

Ascending(s) == \A i, j \in DOMAIN s : i < j => s[i] < s[j]

\* Of two ascending sequences, the first below the second, the concatenation
\* ascends; its elements are theirs.
LEMMA AscendingConcat ==
  ASSUME NEW s \in Seq(Nat), NEW t \in Seq(Nat), Ascending(s), Ascending(t),
         \A i \in DOMAIN s, j \in DOMAIN t : s[i] < t[j]
  PROVE  /\ s \o t \in Seq(Nat)
         /\ Ascending(s \o t)
         /\ \A i \in DOMAIN (s \o t) : \/ \E j \in DOMAIN s : (s \o t)[i] = s[j]
                                       \/ \E j \in DOMAIN t : (s \o t)[i] = t[j]
<1>1. /\ s \o t \in Seq(Nat)
      /\ Len(s) \in Nat /\ DOMAIN s = 1..Len(s)
      /\ Len(t) \in Nat /\ DOMAIN t = 1..Len(t)
      /\ DOMAIN (s \o t) = 1..(Len(s) + Len(t))
  OBVIOUS
<1>2. \A i \in 1..(Len(s) + Len(t)) :
        \/ i \in DOMAIN s /\ (s \o t)[i] = s[i]
        \/ i > Len(s) /\ i - Len(s) \in DOMAIN t /\ (s \o t)[i] = t[i - Len(s)]
  BY <1>1, ConcatProperties
<1>3. ASSUME NEW i \in DOMAIN (s \o t), NEW j \in DOMAIN (s \o t), i < j
      PROVE  (s \o t)[i] < (s \o t)[j]
  <2>1. CASE j \in DOMAIN s /\ (s \o t)[j] = s[j]
    <3>1. i \in DOMAIN s /\ (s \o t)[i] = s[i]
      BY <1>1, <1>2, <1>3, <2>1
    <3> QED
      BY <1>3, <2>1, <3>1 DEF Ascending
  <2>2. CASE /\ j > Len(s) /\ j - Len(s) \in DOMAIN t
             /\ (s \o t)[j] = t[j - Len(s)]
    <3>1. CASE i \in DOMAIN s /\ (s \o t)[i] = s[i]
      BY <2>2, <3>1
    <3>2. CASE /\ i > Len(s) /\ i - Len(s) \in DOMAIN t
               /\ (s \o t)[i] = t[i - Len(s)]
      <4>1. i - Len(s) < j - Len(s)
        BY <1>1, <1>3
      <4> QED
        BY <2>2, <3>2, <4>1 DEF Ascending
    <3> QED
      BY <1>1, <1>2, <3>1, <3>2
  <2> QED
    BY <1>1, <1>2, <2>1, <2>2
<1> QED
  BY <1>1, <1>2, <1>3 DEF Ascending

\* As long as the bridge does not die, commands of the chat are handled at most
\* once and in the order they were sent, however many are on their way and
\* whatever is refused or lost (telegram-alerts/src/main.rs:67-100).
THEOREM ChatInOrder == Spec => []TelegramInOrder
<1>1. IndInv /\ InOrder => TelegramInOrder
  <2> SUFFICES ASSUME IndInv, InOrder, "telegram" \notin happened
               PROVE  Ascending(<<handled>> \o Underway)
    BY DEF TelegramInOrder, Ascending
  <2>0. /\ handled < Due
        /\ \A i \in DOMAIN Telegram : handled < Telegram[i].id /\ Telegram[i].id < Due
        /\ \A i, j \in DOMAIN Telegram : i < j => Telegram[i].id < Telegram[j].id
        /\ hand # 0 => handled < hand /\ \A i \in DOMAIN Telegram : Telegram[i].id < hand
        /\ \A i \in DOMAIN batch : Due <= batch[i]
        /\ \A i, j \in DOMAIN batch : i < j => batch[i] < batch[j]
    BY Zenon DEF InOrder
  <2> DEFINE sent == [i \in DOMAIN Telegram |-> Telegram[i].id]
             held == IF hand = 0 THEN <<>> ELSE <<hand>>
  <2>1. /\ handled \in Nat /\ hand \in Nat /\ Due \in Nat
        /\ batch \in Seq(Nat)
        /\ hand # 0 => hand < Due
        /\ Telegram \in Seq(Command)
    BY SeqMonotonic DEF IndInv, TypeOK, Publisher, Telegram, Due
  <2>2. \A i \in DOMAIN Telegram : Telegram[i].id \in Nat
    BY OnBus DEF Publisher, Telegram
  <2>3. sent \in Seq(Nat) /\ DOMAIN sent = DOMAIN Telegram
    BY <2>1, <2>2
  <2>4. held \in Seq(Nat) /\ \A i \in DOMAIN held : i = 1 /\ held[i] = hand /\ hand # 0
    BY <2>1
  <2>5. \A i \in DOMAIN sent : sent[i] = Telegram[i].id
    BY <2>3
  <2> HIDE DEF sent, held
  <2>6. Ascending(sent) /\ Ascending(held) /\ Ascending(batch)
    <3>1. Ascending(sent)
      BY <2>0, <2>3, <2>5 DEF Ascending
    <3>2. Ascending(held)
      BY <2>4 DEF Ascending
    <3> QED
      BY <2>0, <3>1, <3>2 DEF Ascending
  <2>7. /\ sent \o held \in Seq(Nat) /\ Ascending(sent \o held)
        /\ \A i \in DOMAIN (sent \o held) :
             \/ \E j \in DOMAIN sent : (sent \o held)[i] = sent[j]
             \/ \E j \in DOMAIN held : (sent \o held)[i] = held[j]
    BY <2>3, <2>4, <2>5, <2>6, <2>0, AscendingConcat
  <2>8. \A i \in DOMAIN (sent \o held) :
          handled < (sent \o held)[i] /\ (sent \o held)[i] < Due
    BY <2>0, <2>1, <2>3, <2>4, <2>5, <2>7
  <2> DEFINE front == sent \o held
  <2>9. \A i \in DOMAIN front, j \in DOMAIN batch : front[i] < batch[j]
    <3>1. \A i \in DOMAIN front : front[i] \in Nat
      BY <2>7
    <3>2. \A j \in DOMAIN batch : batch[j] \in Nat /\ Due <= batch[j]
      BY <2>0, <2>1
    <3> QED
      BY <2>1, <2>8, <3>1, <3>2
  <2> HIDE DEF front
  <2>10. /\ front \o batch \in Seq(Nat) /\ Ascending(front \o batch)
         /\ \A i \in DOMAIN (front \o batch) :
              \/ \E j \in DOMAIN front : (front \o batch)[i] = front[j]
              \/ \E j \in DOMAIN batch : (front \o batch)[i] = batch[j]
    BY <2>1, <2>6, <2>7, <2>9, AscendingConcat DEF front
  <2>11. \A j \in DOMAIN batch : handled < batch[j]
    BY <2>0, <2>1
  <2>12. \A i \in DOMAIN (front \o batch) : handled < (front \o batch)[i]
    BY <2>8, <2>10, <2>11 DEF front
  <2>13. /\ <<handled>> \in Seq(Nat) /\ Ascending(<<handled>>)
         /\ \A i \in DOMAIN <<handled>> : <<handled>>[i] = handled
    BY <2>1 DEF Ascending
  <2>14. Ascending(<<handled>> \o (front \o batch))
    BY <2>10, <2>12, <2>13, AscendingConcat
  <2>15. Underway = front \o batch
    BY DEF Underway, front, sent, held, Telegram
  <2> QED
    BY <2>14, <2>15
<1> QED
  BY <1>1, InitIndInv, IndInvStep, InOrderInit, InOrderStep, PTL DEF Spec
-----------------------------------------------------------------------------
(* What the dashboard shows. *)

\* The panel serves one request at a time.  (With two, ShownIsHalt is false: one
\* may publish first and set the flag last.)
OneRequest == \A g, h \in Handlers : g = h

\* What the halt of the executor will be once the panel's commands have arrived.
FinalHalt ==
  IF Panel = <<>> THEN operatorHalt ELSE Shows(Panel[Len(Panel)].action)

\* The inductive form of ShownIsHalt: the flag shown is the halt to come, but
\* for a command that is published and not yet shown.
Follows ==
  chat = <<>> /\ happened \subseteq {"put"} =>
    /\ Telegram = <<>>
    /\ \A h \in Handlers :
         request[h].at = "show" => (Shows(request[h].action) <=> FinalHalt)
    /\ (\A h \in Handlers : request[h].at # "show") => (shown <=> FinalHalt)

LEMMA FollowsInit == Init => Follows
<1> SUFFICES ASSUME Init PROVE Follows
  OBVIOUS
<1>1. Telegram = <<>> /\ Panel = <<>> /\ shown = FALSE /\ operatorHalt = FALSE
  BY Constants DEF Init, Telegram, Panel
<1>2. \A h \in Handlers : request[h].at = "idle"
  BY DEF Init, Idle
<1> QED
  BY <1>1, <1>2 DEF Follows, FinalHalt

\* A step that neither shows nor publishes a command of the panel.
LEMMA FollowsFrame ==
  ASSUME Follows, UNCHANGED <<shown, bus, operatorHalt>>,
         chat' = <<>> => chat = <<>>,
         happened' \subseteq {"put"} => happened \subseteq {"put"},
         \A h \in Handlers : \/ request[h].at # "show" /\ request'[h].at # "show"
                             \/ request'[h] = request[h]
  PROVE  Follows'
<1>1. Telegram' = Telegram /\ (FinalHalt' <=> FinalHalt)
  BY DEF Telegram, Panel, FinalHalt, Shows
<1> QED
  BY <1>1, Zenon DEF Follows, Shows

\* The panel's step: with one request at a time, the command published last is
\* the one shown next.
LEMMA FollowsPanel ==
  ASSUME OneRequest, IndInv, Follows, NEW h \in Handlers,
         (\E a \in PanelAction : Post(h, a)) \/ PanelStep(h)
  PROVE  Follows'
<1>0. /\ request \in [Handlers -> Request] /\ request[h] \in Request
      /\ \A g \in Handlers : g = h
      /\ Panel \in Seq(Command)
  BY DEF IndInv, TypeOK, Request, OneRequest, Publisher, Panel
<1>1. CASE \E a \in PanelAction : Post(h, a)
  <2>1. /\ request[h].at = "idle" /\ request'[h].at = "publish"
        /\ UNCHANGED <<shown, bus, operatorHalt, chat, happened>>
    BY <1>0, <1>1 DEF Post, Idle, executorVars
  <2> QED
    BY <1>0, <2>1, FollowsFrame
<1>2. CASE PublishRequest(h)
  <2> DEFINE c == [action |-> request[h].action, id |-> 0]
  <2>1. /\ request[h].at = "publish" /\ UNCHANGED <<shown, chat, operatorHalt>>
        /\ \/ Put("panel", c) /\ request' = [request EXCEPT ![h].at = "show"]
           \/ PutFails /\ request' = [request EXCEPT ![h] = Idle]
    BY <1>2 DEF PublishRequest, executorVars
  <2>2. CASE PutFails /\ request' = [request EXCEPT ![h] = Idle]
    <3>1. request'[h].at # "show" /\ bus' = bus /\ happened \subseteq happened'
      BY <1>0, <2>2 DEF Idle, PutFails, Happens
    <3> QED
      BY <1>0, <2>1, <3>1, FollowsFrame
  <2>3. CASE Put("panel", c) /\ request' = [request EXCEPT ![h].at = "show"]
    <3>1. /\ request'[h].at = "show" /\ request'[h].action = request[h].action
      BY <1>0, <2>3 DEF Request
    <3>2. "panel" \in Publisher /\ "telegram" \in Publisher
      BY DEF Publisher
    <3>3. c.action = request[h].action
      OBVIOUS
    <3> HIDE DEF c
    <3>4. /\ Panel' = Append(Panel, c) /\ Telegram' = Telegram
          /\ happened' = happened
      BY <2>3, <3>2 DEF Put, IndInv, TypeOK, Panel, Telegram
    <3>5. Panel' # <<>> /\ Panel'[Len(Panel')] = c
      BY <1>0, <3>4
    <3>6. FinalHalt' <=> Shows(c.action)
      BY <3>5 DEF FinalHalt, Shows
    <3>7. \A g \in Handlers : request'[g].at = "show" /\ request'[g].action = c.action
      BY <1>0, <3>1, <3>3
    <3>8. chat' = <<>> /\ happened' \subseteq {"put"} => Telegram' = <<>>
      BY <2>1, <3>4, Zenon DEF Follows
    <3> QED
      BY <3>6, <3>7, <3>8 DEF Follows, Shows
  <2> QED
    BY <2>1, <2>2, <2>3
<1>3. CASE ShowRequest(h)
  <2>1. /\ request[h].at = "show" /\ shown' = Shows(request[h].action)
        /\ request' = [request EXCEPT ![h] = Idle]
        /\ UNCHANGED <<chat, bus, operatorHalt, happened>>
    BY <1>3 DEF ShowRequest, executorVars
  <2>2. \A g \in Handlers : request'[g].at # "show"
    BY <1>0, <2>1 DEF Idle
  <2>3. Telegram' = Telegram /\ (FinalHalt' <=> FinalHalt)
    BY <2>1 DEF Telegram, Panel, FinalHalt, Shows
  <2> SUFFICES ASSUME chat = <<>>, happened \subseteq {"put"}
               PROVE  Telegram' = <<>> /\ (shown' <=> FinalHalt')
    BY <2>1, <2>2 DEF Follows
  <2>4. Telegram = <<>> /\ (Shows(request[h].action) <=> FinalHalt)
    BY <2>1, Zenon DEF Follows
  <2> QED
    BY <2>1, <2>3, <2>4, Zenon
<1> QED
  BY <1>1, <1>2, <1>3 DEF PanelStep

LEMMA FollowsStep ==
  ASSUME OneRequest
  PROVE  IndInv /\ Follows /\ [Next]_vars => Follows'
<1> SUFFICES ASSUME IndInv, Follows, [Next]_vars PROVE Follows'
  OBVIOUS
<1>1. CASE UNCHANGED vars
  BY <1>1, FollowsFrame DEF vars, panelVars, executorVars
<1>2. CASE \E u \in Updates : Send(u)
  <2>1. chat' # <<>>
    BY <1>2 DEF Send, IndInv, TypeOK
  <2> QED
    BY <2>1 DEF Follows
<1>3. CASE BridgeStep
  <2>1. CASE chat = <<>>
    <3>1. hand = 0
      BY <2>1 DEF IndInv, TypeOK
    <3>2. UNCHANGED <<shown, request, bus, operatorHalt, chat, happened>>
      BY <1>3, <3>1 DEF BridgeStep, Poll, TakeUpdate, PublishUpdate, panelVars,
         executorVars
    <3> QED
      BY <3>2, FollowsFrame
  <2>2. CASE chat # <<>>
    <3>1. chat' = chat
      BY <1>3, Zenon DEF BridgeStep, Poll, TakeUpdate, PublishUpdate
    <3> QED
      BY <2>2, <3>1 DEF Follows
  <2> QED
    BY <2>1, <2>2
<1>4. ASSUME NEW p \in Publisher, Drop(p) PROVE Follows'
  <2>1. "drop" \in happened'
    BY <1>4 DEF Drop, Happens
  <2> QED
    BY <2>1 DEF Follows
<1>5. CASE PanelCrash \/ BridgeCrash \/ ExecutorCrash
  <2>1. ~(happened' \subseteq {"put"})
    <3>1. \E fault \in {"panel", "telegram", "executor"} :
            happened' = happened \cup {fault}
      BY <1>5 DEF PanelCrash, BridgeCrash, ExecutorCrash, Dies, Happens
    <3> QED
      BY <3>1
  <2> QED
    BY <2>1 DEF Follows
<1>6. ASSUME NEW p \in Publisher, Handle(p) PROVE Follows'
  <2>1. /\ bus[p] # <<>> /\ bus' = [bus EXCEPT ![p] = Tail(@)]
        /\ UNCHANGED <<shown, request, chat, happened>>
        /\ operatorHalt' = HaltAfter(Head(bus[p]).action)
    BY <1>6, Zenon DEF Handle, panelVars
  <2> SUFFICES ASSUME chat = <<>>, happened \subseteq {"put"} PROVE Follows'
    BY <2>1, Zenon DEF Follows
  <2>2. Telegram = <<>> /\ p = "panel"
    BY <2>1 DEF Follows, Publisher, Telegram
  <2>3. /\ Telegram' = Telegram /\ Panel' = Tail(Panel) /\ Panel # <<>>
        /\ Panel \in Seq(Command)
    BY <2>1, <2>2 DEF IndInv, TypeOK, Publisher, Telegram, Panel
  <2>4. Head(Panel) = Panel[1] /\ Panel[1].action \in PanelAction
    BY <2>3 DEF IndInv, CommandsOK
  <2>5. operatorHalt' <=> Shows(Panel[1].action)
    <3>1. Panel[1].action # "StatusPing"
      BY <2>4 DEF PanelAction, Halting
    <3>2. operatorHalt' = HaltAfter(Panel[1].action)
      BY <2>1, <2>2, <2>4 DEF Panel
    <3> QED
      BY <3>1, <3>2, Zenon DEF HaltAfter, Shows
  <2>6. FinalHalt <=> Shows(Panel[Len(Panel)].action)
    BY <2>3, Zenon DEF FinalHalt
  <2>7. FinalHalt' <=> FinalHalt
    <3>1. CASE Len(Panel) = 1
      <4>1. Panel' = <<>>
        BY <2>3, <3>1
      <4>2. FinalHalt' <=> operatorHalt'
        BY <4>1, Zenon DEF FinalHalt
      <4>3. Panel[Len(Panel)] = Panel[1]
        BY <3>1
      <4> QED
        BY <2>5, <2>6, <4>2, <4>3, Zenon
    <3>2. CASE Len(Panel) # 1
      <4>1. Panel' # <<>> /\ Panel'[Len(Panel')] = Panel[Len(Panel)]
        <5>1. /\ Len(Panel) \in Nat /\ Len(Panel) > 1
              /\ Len(Panel') = Len(Panel) - 1
              /\ \A i \in 1..Len(Panel') : Panel'[i] = Panel[i + 1]
          <6>1. /\ Len(Tail(Panel)) = Len(Panel) - 1
                /\ \A i \in 1..Len(Tail(Panel)) : Tail(Panel)[i] = Panel[i + 1]
            BY <2>3, HeadTailProperties
          <6>2. Len(Panel) \in Nat /\ Len(Panel) > 0
            BY <2>3
          <6> QED
            BY <2>3, <3>2, <6>1, <6>2
        <5>2. Len(Panel') \in 1..Len(Panel') /\ Len(Panel') + 1 = Len(Panel)
          BY <5>1
        <5>3. Panel'[Len(Panel')] = Panel[Len(Panel)]
          BY <5>1, <5>2
        <5> QED
          BY <5>1, <5>3
      <4>2. FinalHalt' <=> Shows(Panel[Len(Panel)].action)
        BY <4>1 DEF FinalHalt, Shows
      <4> QED
        BY <2>6, <4>2, Zenon
    <3> QED
      BY <3>1, <3>2
  <2> QED
    BY <2>1, <2>2, <2>3, <2>7, Zenon DEF Follows, Shows
<1> QED
  BY <1>1, <1>2, <1>3, <1>4, <1>5, <1>6, FollowsPanel DEF Next

\* With one request at a time and the panel as the only source, the dashboard
\* shows the executor's halt once the command has arrived, also after failed
\* publishing (panel/src/main.rs:149-153).
THEOREM DashboardShowsHalt ==
  ASSUME OneRequest PROVE Spec => []ShownIsHalt
<1>1. IndInv /\ Follows => ShownIsHalt
  <2> SUFFICES ASSUME IndInv, Follows, Quiet, chat = <<>>, happened \subseteq {"put"}
               PROVE  shown = operatorHalt
    BY DEF ShownIsHalt
  <2>1. Panel = <<>> /\ \A h \in Handlers : request[h].at # "show"
    BY Constants DEF Quiet, Panel, Idle
  <2>2. shown <=> FinalHalt
    BY <2>1, Zenon DEF Follows
  <2>3. shown <=> operatorHalt
    BY <2>1, <2>2, Zenon DEF FinalHalt
  <2>4. shown \in BOOLEAN /\ operatorHalt \in BOOLEAN
    BY DEF IndInv, TypeOK
  <2> QED
    BY <2>3, <2>4, Zenon
<1> QED
  BY <1>1, InitIndInv, IndInvStep, FollowsInit, FollowsStep, PTL DEF Spec
=============================================================================
