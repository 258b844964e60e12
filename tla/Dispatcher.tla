----------------------------- MODULE Dispatcher -----------------------------
(***************************************************************************)
(* One server's PhotonQueueDispatcher and the loop that drives it          *)
(* (server.py _process_internal): the accepter thread registers clients    *)
(* under the clients lock, every client's receive worker queues packets    *)
(* and sets the packet-ready event, and the server loop snapshots the open *)
(* clients, drains them in turn and waits on the event.                    *)
(*                                                                         *)
(* The loop's and the keep-alive thread's own sections under the lock do   *)
(* not block and are one step; the accepter builds the client, whose       *)
(* threads run from then on, while it holds the lock.                      *)
(***************************************************************************)
EXTENDS Naturals

CONSTANTS
    Clients,     \* connections that may be made
    Nobody,      \* no client
    MaxPackets   \* bound: packets a client sends over its life

ASSUME NobodyAssumption == Nobody \notin Clients
ASSUME PacketsAssumption == MaxPackets \in Nat

VARIABLES
    stage,       \* where a connection is on its way into _clients
    accepting,   \* the connection the accepter thread is busy with
    locked,      \* the accepter holds _clients_lock
    closed,      \* PhotonQueue._closing
    sent,        \* packets received from the client so far
    inbox,       \* length of PhotonQueue._incoming
    setting,     \* the receive worker queued a packet and has yet to set the event
    event,       \* _packet_ready_event
    loop,        \* where the server loop is
    abandoned    \* packets left in the inbox by an exception in the client's turn

vars == <<stage, accepting, locked, closed, sent, inbox, setting, event, loop, abandoned>>
clientVars == <<stage, accepting, locked, closed, sent, setting>>

Stages == {"outside", "routing", "building", "listed", "gone"}
Running(c) == stage[c] \in {"building", "listed"}

AtFilter == [at |-> "filter", turn |-> Nobody, waiting |-> {}, had |-> FALSE]

Init ==
    /\ stage = [c \in Clients |-> "outside"]
    /\ accepting = Nobody
    /\ locked = FALSE
    /\ closed = [c \in Clients |-> FALSE]
    /\ sent = [c \in Clients |-> 0]
    /\ inbox = [c \in Clients |-> 0]
    /\ setting = [c \in Clients |-> FALSE]
    /\ event = FALSE
    /\ loop = AtFilter
    /\ abandoned = [c \in Clients |-> 0]

-----------------------------------------------------------------------------
(* The accepter thread.                                                    *)

Accept(c) ==
    /\ accepting = Nobody
    /\ stage[c] = "outside"
    /\ accepting' = c
    /\ stage' = [stage EXCEPT ![c] = "routing"]
    /\ UNCHANGED <<locked, closed, sent, inbox, setting, event, loop, abandoned>>

\* The upstream relay took the socket, or preparing it raised.
TurnAway(c) ==
    /\ stage[c] = "routing"
    /\ accepting' = Nobody
    /\ stage' = [stage EXCEPT ![c] = "gone"]
    /\ UNCHANGED <<locked, closed, sent, inbox, setting, event, loop, abandoned>>

\* Mutant: the client is built before the lock is taken.
BuildUnlocked(c) ==
    /\ stage[c] = "routing"
    /\ stage' = [stage EXCEPT ![c] = "building"]
    /\ UNCHANGED <<accepting, locked, closed, sent, inbox, setting, event, loop, abandoned>>

\* Constructing the client starts its workers.
BuildClient(c) ==
    /\ stage[c] = "routing"
    /\ ~locked
    /\ locked' = TRUE
    /\ stage' = [stage EXCEPT ![c] = "building"]
    /\ UNCHANGED <<accepting, closed, sent, inbox, setting, event, loop, abandoned>>

\* The client is appended to _clients, or starting its receive worker raised.
RegisterClient(c) ==
    /\ stage[c] = "building"
    /\ locked' = FALSE
    /\ accepting' = Nobody
    /\ \/ stage' = [stage EXCEPT ![c] = "listed"]
       \/ sent[c] = 0 /\ stage' = [stage EXCEPT ![c] = "gone"]
    /\ UNCHANGED <<closed, sent, inbox, setting, event, loop, abandoned>>

-----------------------------------------------------------------------------
(* A client's workers.                                                     *)

\* _incoming.put, then _packet_ready_event.set.
Receive(c) ==
    /\ Running(c) /\ ~closed[c] /\ ~setting[c]
    /\ sent[c] < MaxPackets
    /\ sent' = [sent EXCEPT ![c] = @ + 1]
    /\ inbox' = [inbox EXCEPT ![c] = @ + 1]
    /\ setting' = [setting EXCEPT ![c] = TRUE]
    /\ UNCHANGED <<stage, accepting, locked, closed, event, loop, abandoned>>

SetEvent(c) ==
    /\ setting[c]
    /\ setting' = [setting EXCEPT ![c] = FALSE]
    /\ event' = TRUE
    /\ UNCHANGED <<stage, accepting, locked, closed, sent, inbox, loop, abandoned>>

\* End of stream, a socket error, or the keep-alive thread's hard timeout.
Close(c) ==
    /\ Running(c) /\ ~closed[c]
    /\ closed' = [closed EXCEPT ![c] = TRUE]
    /\ UNCHANGED <<stage, accepting, locked, sent, inbox, setting, event, loop, abandoned>>

-----------------------------------------------------------------------------
(* The server loop.                                                        *)

Open == {c \in Clients : stage[c] = "listed" /\ ~closed[c]}

\* Mutant: the closed clients are skipped but stay in the list.
FilterKeepsClosed ==
    /\ loop.at = "filter"
    /\ ~locked
    /\ loop' = [loop EXCEPT !.at = "serve", !.waiting = Open]
    /\ abandoned' = [c \in Clients |-> 0]
    /\ UNCHANGED <<stage, accepting, locked, closed, sent, inbox, setting, event>>

\* Under the lock: forget the closed clients, snapshot the others.
Filter ==
    /\ loop.at = "filter"
    /\ ~locked
    /\ stage' = [c \in Clients |-> IF stage[c] = "listed" /\ closed[c] THEN "gone" ELSE stage[c]]
    /\ loop' = [loop EXCEPT !.at = "serve", !.waiting = Open]
    /\ abandoned' = [c \in Clients |-> 0]
    /\ UNCHANGED <<accepting, locked, closed, sent, inbox, setting, event>>

TakeTurn(c) ==
    /\ loop.at = "serve" /\ loop.turn = Nobody
    /\ c \in loop.waiting
    /\ loop' = [loop EXCEPT !.turn = c, !.waiting = @ \ {c}]
    /\ UNCHANGED <<clientVars, inbox, event, abandoned>>

\* Mutant: a packet is popped without asking whether there is one.
ServeUnchecked(c) ==
    /\ loop.at = "serve" /\ loop.turn = c
    /\ inbox' = [inbox EXCEPT ![c] = @ - 1]
    /\ UNCHANGED <<clientVars, event, loop, abandoned>>

\* pop() and whatever handles the packet: a handler, or the loop itself when no
\* handler wants it (had_packets).
Serve(c) ==
    /\ loop.at = "serve" /\ loop.turn = c
    /\ inbox[c] > 0
    /\ inbox' = [inbox EXCEPT ![c] = @ - 1]
    /\ \E unhandled \in BOOLEAN : loop' = [loop EXCEPT !.had = @ \/ unhandled]
    /\ UNCHANGED <<clientVars, event, abandoned>>

\* The client socket's own handling raised: the dispatcher goes on with the
\* next client and leaves the rest of this one's packets for a later pass.
SkipClient(c) ==
    /\ loop.at = "serve" /\ loop.turn = c
    /\ inbox[c] > 0
    /\ inbox' = [inbox EXCEPT ![c] = @ - 1]
    /\ abandoned' = [abandoned EXCEPT ![c] = inbox[c] - 1]
    /\ loop' = [loop EXCEPT !.turn = Nobody]
    /\ UNCHANGED <<clientVars, event>>

\* The server's handler raised: the pass is over and the loop sleeps.
AbortPass(c) ==
    /\ loop.at = "serve" /\ loop.turn = c
    /\ inbox[c] > 0
    /\ inbox' = [inbox EXCEPT ![c] = @ - 1]
    /\ loop' = [AtFilter EXCEPT !.at = "sleep"]
    /\ UNCHANGED <<clientVars, event, abandoned>>

EndTurn(c) ==
    /\ loop.at = "serve" /\ loop.turn = c
    /\ inbox[c] = 0
    /\ loop' = [loop EXCEPT !.turn = Nobody]
    /\ UNCHANGED <<clientVars, inbox, event, abandoned>>

EndPass ==
    /\ loop.at = "serve" /\ loop.turn = Nobody /\ loop.waiting = {}
    /\ loop' = IF loop.had THEN AtFilter ELSE [AtFilter EXCEPT !.at = "wait"]
    /\ UNCHANGED <<clientVars, inbox, event, abandoned>>

\* Mutant: wait() has no timeout.
WakeOnEvent ==
    /\ loop.at = "wait" /\ event
    /\ loop' = [loop EXCEPT !.at = "clear"]
    /\ UNCHANGED <<clientVars, inbox, event, abandoned>>

\* wait() returns because the event is set, or after its timeout.
Wake ==
    /\ loop.at = "wait"
    /\ loop' = [loop EXCEPT !.at = "clear"]
    /\ UNCHANGED <<clientVars, inbox, event, abandoned>>

Clear ==
    /\ loop.at = "clear"
    /\ event' = FALSE
    /\ loop' = AtFilter
    /\ UNCHANGED <<clientVars, inbox, abandoned>>

SleepOver ==
    /\ loop.at = "sleep"
    /\ loop' = AtFilter
    /\ UNCHANGED <<clientVars, inbox, event, abandoned>>

-----------------------------------------------------------------------------

LoopStep ==
    \/ Filter \/ EndPass \/ Wake \/ Clear \/ SleepOver
    \/ \E c \in Clients :
            TakeTurn(c) \/ Serve(c) \/ SkipClient(c) \/ AbortPass(c) \/ EndTurn(c)

AccepterStep == \E c \in Clients : TurnAway(c) \/ BuildClient(c) \/ RegisterClient(c)

Next ==
    \/ LoopStep
    \/ AccepterStep
    \/ \E c \in Clients : Accept(c) \/ Receive(c) \/ SetEvent(c) \/ Close(c)

Spec == Init /\ [][Next]_vars

\* Both threads keep running: the lock is free again and again, the wait and the
\* sleep have timeouts, and so has everything the accepter does with a socket.
FairSpec == Spec /\ WF_vars(LoopStep) /\ WF_vars(AccepterStep)

-----------------------------------------------------------------------------
(* Properties.                                                             *)

TypeOK ==
    /\ stage \in [Clients -> Stages]
    /\ accepting \in Clients \cup {Nobody}
    /\ locked \in BOOLEAN
    /\ closed \in [Clients -> BOOLEAN]
    /\ sent \in [Clients -> 0 .. MaxPackets]
    /\ inbox \in [Clients -> 0 .. MaxPackets]
    /\ setting \in [Clients -> BOOLEAN]
    /\ event \in BOOLEAN
    /\ loop \in [at : {"filter", "serve", "wait", "clear", "sleep"},
                 turn : Clients \cup {Nobody}, waiting : SUBSET Clients, had : BOOLEAN]
    /\ abandoned \in [Clients -> 0 .. MaxPackets]

\* "Wait on an Event so a newly queued packet wakes us immediately": the loop
\* never goes to wait with the event clear while an open client it knows, or is
\* about to know, has a packet that no exception left behind; otherwise its
\* worker is about to set the event.
NoLostWakeup ==
    loop.at = "wait" =>
        \A c \in Clients : Running(c) /\ ~closed[c] /\ inbox[c] > abandoned[c] =>
            event \/ setting[c]

\* The accepter builds one client at a time, under the lock; an inbox holds what
\* was received, which is nothing before the client is built.
OneBuilder ==
    \A c \in Clients :
        /\ stage[c] \in {"routing", "building"} => accepting = c
        /\ stage[c] = "building" => locked
        /\ stage[c] \in {"outside", "routing"} => inbox[c] = 0
        /\ inbox[c] <= sent[c]

\* NoLostWakeup in inductive form: from the snapshot on, a packet nobody left
\* behind is still to be reached by this pass or makes the event set.
PacketsAnnounced ==
    loop.at \in {"serve", "wait"} =>
        \A c \in Clients : Running(c) /\ ~closed[c] /\ inbox[c] > abandoned[c] =>
            \/ event \/ setting[c]
            \/ loop.at = "serve" /\ c \in loop.waiting \cup {loop.turn}

WakeupInv == TypeOK /\ OneBuilder /\ PacketsAnnounced

\* A client that is registered gets its packets handled, even those an exception
\* left behind, unless its socket is closed first.
PacketsHandled ==
    \A c \in Clients : stage[c] = "listed" /\ inbox[c] > 0 ~> inbox[c] = 0 \/ closed[c]

\* A closed client leaves the list, so the passes do not
\* keep visiting dead connections.
ClosedForgotten == \A c \in Clients : stage[c] = "listed" /\ closed[c] ~> stage[c] = "gone"
=============================================================================
