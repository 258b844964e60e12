-------------------------- MODULE DispatcherProofs --------------------------
(***************************************************************************)
(* Proofs about Dispatcher, for any set of connections.                    *)
(***************************************************************************)
EXTENDS Dispatcher, TLAPS

USE NobodyAssumption, PacketsAssumption

LEMMA WakeupInit == Init => WakeupInv
<1>. SUFFICES ASSUME Init PROVE WakeupInv
     OBVIOUS
<1>a. \A c \in Clients : stage[c] = "outside" /\ inbox[c] = 0 /\ sent[c] = 0
  BY Zenon DEF Init
<1>b. /\ closed \in [Clients -> BOOLEAN] /\ setting \in [Clients -> BOOLEAN]
      /\ locked \in BOOLEAN /\ event \in BOOLEAN
  BY Zenon DEF Init
<1>1. TypeOK
  <2>1. /\ stage = [c \in Clients |-> "outside"] /\ accepting = Nobody
        /\ sent = [c \in Clients |-> 0] /\ inbox = [c \in Clients |-> 0]
        /\ abandoned = [c \in Clients |-> 0] /\ loop = AtFilter
    BY Zenon DEF Init
  <2>. QED BY <1>b, <2>1 DEF TypeOK, Stages, AtFilter
<1>2. OneBuilder
  <2>1. ASSUME NEW c \in Clients PROVE OneBuilder!(c)
    <3>1. inbox[c] <= sent[c]
      BY <1>a
    <3>2. stage[c] = "outside" /\ inbox[c] = 0
      BY <1>a
    <3>3. stage[c] \notin {"routing", "building"}
      BY <3>2
    <3>. QED BY <3>1, <3>2, <3>3, Zenon
  <2>. QED BY <2>1, Zenon DEF OneBuilder
<1>3. PacketsAnnounced
  BY Zenon DEF Init, PacketsAnnounced, AtFilter
<1>. QED BY <1>1, <1>2, <1>3 DEF WakeupInv

-----------------------------------------------------------------------------
(* Type correctness, one thread at a time.                                 *)

LEMMA LoopType ==
    ASSUME TypeOK, LoopStep
    PROVE  TypeOK'
<1>. DEFINE Loop == [at : {"filter", "serve", "wait", "clear", "sleep"},
                     turn : Clients \cup {Nobody}, waiting : SUBSET Clients, had : BOOLEAN]
<1>1. CASE Filter
  <2>1. loop' = [at |-> "serve", turn |-> loop.turn, waiting |-> Open, had |-> loop.had]
    BY <1>1 DEF TypeOK, Filter
  <2>2. stage' \in [Clients -> Stages]
    BY <1>1 DEF TypeOK, Filter, Stages
  <2>3. abandoned' \in [Clients -> 0 .. MaxPackets]
    BY <1>1 DEF Filter
  <2>. QED BY <1>1, <2>1, <2>2, <2>3, ZenonT(60) DEF TypeOK, Filter, Open
<1>2. CASE EndPass \/ Wake \/ Clear \/ SleepOver
  <2>1. loop' \in Loop
    <3>1. \/ loop' = AtFilter \/ loop' = [AtFilter EXCEPT !.at = "wait"]
          \/ loop' = [at |-> "clear", turn |-> loop.turn, waiting |-> loop.waiting,
                      had |-> loop.had]
      BY <1>2 DEF TypeOK, EndPass, Wake, Clear, SleepOver
    <3>2. [AtFilter EXCEPT !.at = "wait"] \in Loop /\ AtFilter \in Loop
      BY DEF AtFilter
    <3>. QED BY <3>1, <3>2 DEF TypeOK
  <2>. QED BY <1>2, <2>1 DEF TypeOK, EndPass, Wake, Clear, SleepOver, clientVars
<1>3. ASSUME NEW c \in Clients, TakeTurn(c) \/ EndTurn(c)
      PROVE  TypeOK'
  <2>1. \/ loop' = [at |-> loop.at, turn |-> c, waiting |-> loop.waiting \ {c}, had |-> loop.had]
        \/ loop' = [at |-> loop.at, turn |-> Nobody, waiting |-> loop.waiting, had |-> loop.had]
    BY <1>3 DEF TypeOK, TakeTurn, EndTurn
  <2>. QED BY <1>3, <2>1 DEF TypeOK, TakeTurn, EndTurn, clientVars
<1>4. ASSUME NEW c \in Clients, Serve(c) \/ SkipClient(c) \/ AbortPass(c)
      PROVE  TypeOK'
  <2>1. loop' \in Loop
    <3>1. CASE Serve(c)
      <4>. PICK unhandled \in BOOLEAN : loop' = [loop EXCEPT !.had = @ \/ unhandled]
           BY <3>1 DEF Serve
      <4>. QED BY DEF TypeOK
    <3>2. CASE SkipClient(c)
      BY <3>2 DEF TypeOK, SkipClient
    <3>3. CASE AbortPass(c)
      BY <3>3 DEF AbortPass, AtFilter
    <3>. QED BY <1>4, <3>1, <3>2, <3>3
  <2>2. inbox[c] \in 0 .. MaxPackets /\ inbox[c] > 0 /\ inbox' = [inbox EXCEPT ![c] = @ - 1]
    BY <1>4 DEF TypeOK, Serve, SkipClient, AbortPass
  <2>3. inbox' \in [Clients -> 0 .. MaxPackets]
    BY <2>2 DEF TypeOK
  <2>4. abandoned' \in [Clients -> 0 .. MaxPackets]
    BY <1>4, <2>2 DEF TypeOK, Serve, SkipClient, AbortPass
  <2>. QED BY <1>4, <2>1, <2>3, <2>4 DEF TypeOK, Serve, SkipClient, AbortPass, clientVars
<1>. QED BY <1>1, <1>2, <1>3, <1>4 DEF LoopStep

LEMMA OthersType ==
    ASSUME TypeOK, OneBuilder, NEW c \in Clients,
           \/ Accept(c) \/ TurnAway(c) \/ BuildClient(c) \/ RegisterClient(c)
           \/ Receive(c) \/ SetEvent(c) \/ Close(c)
    PROVE  TypeOK'
<1>1. CASE Accept(c) \/ TurnAway(c) \/ BuildClient(c) \/ RegisterClient(c)
  BY <1>1 DEF TypeOK, Stages, Accept, TurnAway, BuildClient, RegisterClient
<1>2. CASE Receive(c)
  <2>1. /\ sent[c] \in 0 .. MaxPackets /\ sent[c] < MaxPackets
        /\ inbox[c] \in 0 .. MaxPackets /\ inbox[c] <= sent[c]
    BY <1>2 DEF TypeOK, OneBuilder, Receive
  <2>. QED BY <1>2, <2>1 DEF TypeOK, Receive
<1>3. CASE SetEvent(c) \/ Close(c)
  BY <1>3 DEF TypeOK, SetEvent, Close
<1>. QED BY <1>1, <1>2, <1>3

-----------------------------------------------------------------------------
(* One builder at a time.                                                  *)

\* While the accepter is free or busy with another connection, this one is
\* neither on its way in nor being built.
LEMMA BuilderStep ==
    ASSUME TypeOK, OneBuilder, [Next]_vars
    PROVE  OneBuilder'
<1>. SUFFICES ASSUME NEW d \in Clients
              PROVE  /\ stage'[d] \in {"routing", "building"} => accepting' = d
                     /\ stage'[d] = "building" => locked'
                     /\ stage'[d] \in {"outside", "routing"} => inbox'[d] = 0
                     /\ inbox'[d] <= sent'[d]
     BY Zenon DEF OneBuilder
<1>d. /\ stage[d] \in {"routing", "building"} => accepting = d
      /\ stage[d] = "building" => locked
      /\ stage[d] \in {"outside", "routing"} => inbox[d] = 0
      /\ inbox[d] <= sent[d]
  BY Zenon DEF OneBuilder
<1>t. /\ stage \in [Clients -> Stages] /\ inbox \in [Clients -> Nat]
      /\ sent \in [Clients -> Nat]
  BY DEF TypeOK
<1>1. ASSUME NEW c \in Clients, Accept(c) \/ TurnAway(c) \/ BuildClient(c) \/ RegisterClient(c)
      PROVE  /\ stage'[d] \in {"routing", "building"} => accepting' = d
             /\ stage'[d] = "building" => locked'
             /\ stage'[d] \in {"outside", "routing"} => inbox'[d] = 0
             /\ inbox'[d] <= sent'[d]
  <2>0. inbox' = inbox /\ sent' = sent
    BY <1>1 DEF Accept, TurnAway, BuildClient, RegisterClient
  <2>1. CASE Accept(c)
    BY <1>d, <1>t, <2>0, <2>1 DEF Accept
  <2>2. CASE TurnAway(c)
    BY <1>d, <1>t, <2>0, <2>2 DEF TurnAway, OneBuilder
  <2>3. CASE BuildClient(c)
    BY <1>d, <1>t, <2>0, <2>3 DEF BuildClient, OneBuilder
  <2>4. CASE RegisterClient(c)
    <3>1. stage'[d] # "building" /\ stage'[d] # "routing"
      BY <1>d, <1>t, <2>4 DEF RegisterClient, OneBuilder
    <3>2. stage'[d] = "outside" => stage[d] = "outside"
      BY <1>t, <2>4 DEF RegisterClient
    <3>. QED BY <1>d, <2>0, <3>1, <3>2
  <2>. QED BY <1>1, <2>1, <2>2, <2>3, <2>4
<1>2. ASSUME NEW c \in Clients, Receive(c)
      PROVE  /\ inbox'[d] <= sent'[d]
             /\ stage'[d] \in {"outside", "routing"} => inbox'[d] = 0
  BY <1>d, <1>t, <1>2 DEF Receive, Running
<1>3. ASSUME NEW c \in Clients, Serve(c) \/ SkipClient(c) \/ AbortPass(c)
      PROVE  /\ inbox'[d] <= sent'[d]
             /\ stage'[d] \in {"outside", "routing"} => inbox'[d] = 0
  <2>1. /\ inbox' = [inbox EXCEPT ![c] = @ - 1] /\ inbox[c] > 0
        /\ sent' = sent /\ stage' = stage
    BY <1>3 DEF Serve, SkipClient, AbortPass, clientVars
  <2>. QED BY <1>d, <1>t, <2>1
<1>4. ASSUME NEW c \in Clients,
             Receive(c) \/ Serve(c) \/ SkipClient(c) \/ AbortPass(c)
      PROVE  stage' = stage /\ accepting' = accepting /\ locked' = locked
  BY <1>4, Zenon DEF Receive, Serve, SkipClient, AbortPass, clientVars
<1>5. CASE Filter
  <2>1. /\ stage'[d] \in {"outside", "routing", "building"} => stage'[d] = stage[d]
        /\ inbox' = inbox /\ sent' = sent /\ accepting' = accepting
    BY <1>t, <1>5 DEF Filter
  <2>2. locked' = locked
    BY <1>5, Zenon DEF Filter
  <2>. QED BY <1>d, <2>1, <2>2
<1>6. CASE UNCHANGED <<stage, accepting, locked, inbox, sent>>
  BY <1>d, <1>6
<1>7. \/ \E c \in Clients :
            \/ Accept(c) \/ TurnAway(c) \/ BuildClient(c) \/ RegisterClient(c)
            \/ Receive(c) \/ Serve(c) \/ SkipClient(c) \/ AbortPass(c)
      \/ Filter
      \/ UNCHANGED <<stage, accepting, locked, inbox, sent>>
  BY Zenon DEF Next, LoopStep, AccepterStep, vars, clientVars, SetEvent, Close, EndPass,
     Wake, Clear, SleepOver, TakeTurn, EndTurn
<1>. QED BY <1>d, <1>1, <1>2, <1>3, <1>4, <1>5, <1>6, <1>7, Zenon

-----------------------------------------------------------------------------
(* Every packet is either still ahead of the pass or announced.            *)

LEMMA AnnouncedStep ==
    ASSUME WakeupInv, [Next]_vars
    PROVE  PacketsAnnounced'
<1>. SUFFICES ASSUME NEW d \in Clients, loop'.at \in {"serve", "wait"},
                     Running(d)', ~closed'[d], inbox'[d] > abandoned'[d]
              PROVE  \/ event' \/ setting'[d]
                     \/ loop'.at = "serve" /\ d \in loop'.waiting \cup {loop'.turn}
     BY Zenon DEF PacketsAnnounced
<1>. DEFINE Ahead == loop.at = "serve" /\ d \in loop.waiting \cup {loop.turn}
            Told == event \/ setting[d]
<1>d. ASSUME loop.at \in {"serve", "wait"}, Running(d), ~closed[d], inbox[d] > abandoned[d]
      PROVE  Told \/ Ahead
  BY <1>d, Zenon DEF WakeupInv, PacketsAnnounced
<1>t. /\ TypeOK /\ OneBuilder
      /\ stage \in [Clients -> Stages] /\ inbox \in [Clients -> Nat]
      /\ abandoned \in [Clients -> Nat]
  BY DEF WakeupInv, TypeOK
<1>l. loop \in [at : {"filter", "serve", "wait", "clear", "sleep"},
                turn : Clients \cup {Nobody}, waiting : SUBSET Clients, had : BOOLEAN]
  BY <1>t, Zenon DEF TypeOK
<1>b. closed \in [Clients -> BOOLEAN] /\ setting \in [Clients -> BOOLEAN]
  BY <1>t, Zenon DEF TypeOK
<1>1. ASSUME NEW c \in Clients, Accept(c) \/ TurnAway(c) \/ BuildClient(c) \/ RegisterClient(c)
      PROVE  Told' \/ Ahead'
  <2>0. /\ inbox' = inbox /\ abandoned' = abandoned /\ closed' = closed
        /\ loop' = loop /\ event' = event /\ setting' = setting
    BY <1>1, Zenon DEF Accept, TurnAway, BuildClient, RegisterClient
  <2>1. Running(d)
    <3>1. CASE BuildClient(c) /\ c = d
      <4>1. inbox[d] = 0
        BY <1>t, <3>1 DEF OneBuilder, BuildClient
      <4>. QED BY <1>t, <2>0, <4>1
    <3>2. CASE ~(BuildClient(c) /\ c = d)
      BY <1>1, <1>t, <3>2
      DEF Running, Accept, TurnAway, BuildClient, RegisterClient
    <3>. QED BY <3>1, <3>2
  <2>2. loop.at \in {"serve", "wait"} /\ ~closed[d] /\ inbox[d] > abandoned[d]
    BY <2>0, Zenon
  <2>. QED BY <1>d, <2>0, <2>1, <2>2, Zenon
<1>2. ASSUME NEW c \in Clients, Receive(c) \/ SetEvent(c) \/ Close(c)
      PROVE  Told' \/ Ahead'
  <2>0. /\ stage' = stage /\ abandoned' = abandoned /\ loop' = loop
    BY <1>2, Zenon DEF Receive, SetEvent, Close
  <2>1. CASE Receive(c)
    <3>1. CASE c = d
      <4>1. setting' = [setting EXCEPT ![c] = TRUE]
        BY <2>1, Zenon DEF Receive
      <4>. QED BY <1>b, <3>1, <4>1, Zenon
    <3>2. CASE c # d
      <4>1. inbox'[d] = inbox[d]
        BY <1>t, <2>1, <3>2 DEF Receive
      <4>2. setting'[d] = setting[d] /\ closed' = closed /\ event' = event
        BY <1>b, <2>1, <3>2, Zenon DEF Receive
      <4>. QED BY <1>d, <2>0, <4>1, <4>2, Zenon DEF Running
    <3>. QED BY <3>1, <3>2
  <2>2. CASE SetEvent(c)
    BY <2>2, Zenon DEF SetEvent
  <2>3. CASE Close(c)
    <3>1. /\ inbox' = inbox /\ setting' = setting /\ event' = event
          /\ closed' = [closed EXCEPT ![c] = TRUE]
      BY <2>3, Zenon DEF Close
    <3>2. c # d
      BY <1>b, <3>1, Zenon
    <3>3. closed'[d] = closed[d]
      BY <1>b, <3>1, <3>2, Zenon
    <3>. QED BY <1>d, <2>0, <3>1, <3>3, Zenon DEF Running
  <2>. QED BY <1>2, <2>1, <2>2, <2>3
<1>3. CASE Filter
  <2>1. ~locked /\ closed' = closed
    BY <1>3, Zenon DEF Filter
  <2>2. stage[d] # "building"
    BY <1>t, <2>1, Zenon DEF OneBuilder
  <2>3. stage'[d] = IF stage[d] = "listed" /\ closed[d] THEN "gone" ELSE stage[d]
    BY <1>3, Zenon DEF Filter
  <2>4. stage'[d] \in {"building", "listed"}
    BY DEF Running
  <2>5. stage[d] = "listed"
    BY <2>2, <2>3, <2>4
  <2>6. d \in Open
    BY <2>1, <2>5, Zenon DEF Open
  <2>7. loop'.at = "serve" /\ loop'.waiting = Open
    BY <1>3, <1>l DEF Filter
  <2>. QED BY <2>6, <2>7, Zenon
<1>4. ASSUME NEW c \in Clients, TakeTurn(c) \/ EndTurn(c) \/ Serve(c) \/ SkipClient(c)
      PROVE  Told' \/ Ahead'
  <2>0. /\ stage' = stage /\ closed' = closed /\ event' = event /\ setting' = setting
        /\ loop.at = "serve"
    BY <1>4, Zenon DEF TakeTurn, EndTurn, Serve, SkipClient, clientVars
  <2>1. loop'.at = "serve"
    BY <1>4, <1>l DEF TakeTurn, EndTurn, Serve, SkipClient
  <2>2. inbox[d] > abandoned[d]
    <3>1. CASE TakeTurn(c) \/ EndTurn(c)
      BY <3>1 DEF TakeTurn, EndTurn
    <3>2. CASE Serve(c)
      BY <1>t, <3>2 DEF Serve
    <3>3. CASE SkipClient(c)
      BY <1>t, <3>3 DEF SkipClient
    <3>. QED BY <1>4, <3>1, <3>2, <3>3
  <2>3. Told \/ d \in loop.waiting \cup {loop.turn}
    BY <1>d, <2>0, <2>2, Zenon DEF Running
  <2>4. ASSUME d \in loop.waiting \cup {loop.turn}
        PROVE  d \in loop'.waiting \cup {loop'.turn}
    <3>1. CASE TakeTurn(c)
      BY <1>l, <2>4, <3>1, NobodyAssumption DEF TakeTurn
    <3>2. CASE EndTurn(c)
      <4>1. d # c
        BY <1>t, <2>2, <3>2 DEF EndTurn
      <4>. QED BY <1>l, <2>4, <3>2, <4>1 DEF EndTurn
    <3>3. CASE Serve(c)
      <4>. PICK unhandled \in BOOLEAN : loop' = [loop EXCEPT !.had = @ \/ unhandled]
           BY <3>3, Zenon DEF Serve
      <4>. QED BY <1>l, <2>4
    <3>4. CASE SkipClient(c)
      <4>1. d # c
        <5>1. /\ inbox' = [inbox EXCEPT ![c] = @ - 1]
              /\ abandoned' = [abandoned EXCEPT ![c] = inbox[c] - 1]
          BY <3>4 DEF SkipClient
        <5>2. inbox'[c] = inbox[c] - 1 /\ abandoned'[c] = inbox[c] - 1 /\ inbox[c] \in Nat
          BY <1>t, <5>1
        <5>3. ~(inbox'[c] > abandoned'[c])
          BY <5>2
        <5>. QED BY <5>3
      <4>. QED BY <1>l, <2>4, <3>4, <4>1 DEF SkipClient
    <3>. QED BY <1>4, <3>1, <3>2, <3>3, <3>4
  <2>. QED BY <2>0, <2>1, <2>3, <2>4, Zenon
<1>5. ASSUME NEW c \in Clients PROVE ~AbortPass(c)
  BY DEF AbortPass, AtFilter
<1>6. CASE EndPass
  <2>1. /\ stage' = stage /\ closed' = closed /\ event' = event /\ setting' = setting
        /\ inbox' = inbox /\ abandoned' = abandoned
        /\ loop.at = "serve" /\ loop.turn = Nobody /\ loop.waiting = {}
    BY <1>6, Zenon DEF EndPass, clientVars
  <2>2. Running(d) /\ ~closed[d] /\ inbox[d] > abandoned[d]
    BY <2>1, Zenon DEF Running
  <2>3. d \notin loop.waiting \cup {loop.turn}
    BY <2>1, NobodyAssumption
  <2>4. Told
    BY <1>d, <2>1, <2>2, <2>3, Zenon
  <2>. QED BY <2>1, <2>4, Zenon
<1>7. ~Wake /\ ~Clear /\ ~SleepOver
  BY <1>l DEF Wake, Clear, SleepOver, AtFilter
<1>8. CASE UNCHANGED vars
  <2>1. /\ stage' = stage /\ closed' = closed /\ event' = event /\ setting' = setting
        /\ inbox' = inbox /\ abandoned' = abandoned /\ loop' = loop
    BY <1>8, Zenon DEF vars
  <2>. QED BY <1>d, <2>1, Zenon DEF Running
<1>. QED BY <1>1, <1>2, <1>3, <1>4, <1>5, <1>6, <1>7, <1>8, Zenon
     DEF Next, LoopStep, AccepterStep

-----------------------------------------------------------------------------

LEMMA WakeupStep == WakeupInv /\ [Next]_vars => WakeupInv'
<1>. SUFFICES ASSUME WakeupInv, [Next]_vars PROVE WakeupInv'
     OBVIOUS
<1>0. TypeOK /\ OneBuilder
  BY Zenon DEF WakeupInv
<1>1. TypeOK'
  <2>1. CASE UNCHANGED vars
    <3>1. /\ stage' = stage /\ accepting' = accepting /\ locked' = locked
          /\ closed' = closed /\ sent' = sent /\ inbox' = inbox /\ setting' = setting
          /\ event' = event /\ loop' = loop /\ abandoned' = abandoned
      BY <2>1, Zenon DEF vars
    <3>. QED BY <1>0, <3>1, Zenon DEF TypeOK
  <2>. QED BY <1>0, <2>1, LoopType, OthersType, Zenon DEF Next, AccepterStep
<1>2. OneBuilder'
  BY <1>0, BuilderStep, Zenon
<1>3. PacketsAnnounced'
  BY AnnouncedStep, Zenon
<1>. QED BY <1>1, <1>2, <1>3, Zenon DEF WakeupInv

\* The strengthening of NoLostWakeup holds in every state, whatever the number of
\* clients and of packets.
THEOREM WakeupInvariant == Spec => []WakeupInv
<1>. QED BY WakeupInit, WakeupStep, PTL DEF Spec

\* Clients, stages, queues and the wake-up event have their types in every state.
THEOREM TypeCorrect == Spec => []TypeOK
<1>1. WakeupInv => TypeOK
  BY DEF WakeupInv
<1>. QED BY <1>1, WakeupInvariant, PTL

\* The loop never waits, up to its timeout, over a packet that was queued while
\* it was busy: the worker that queued it has set the event or is about to.
THEOREM WakeupsAreNotLost == Spec => []NoLostWakeup
<1>1. WakeupInv => NoLostWakeup
  <2>. SUFFICES ASSUME WakeupInv, loop.at = "wait", NEW c \in Clients,
                       Running(c), ~closed[c], inbox[c] > abandoned[c]
                PROVE  event \/ setting[c]
       BY Zenon DEF NoLostWakeup
  <2>1. loop.at # "serve"
    OBVIOUS
  <2>. QED BY <2>1, Zenon DEF WakeupInv, PacketsAnnounced
<1>. QED BY <1>1, WakeupInvariant, PTL
=============================================================================
