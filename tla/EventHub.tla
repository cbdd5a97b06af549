------------------------------ MODULE EventHub ------------------------------
(***************************************************************************)
(* The WebSocket hubs of the API.  Three flavours share one shape: a map   *)
(* of clients, each with a bounded send channel, a ReadPump and a          *)
(* WritePump; register, unregister and broadcast channels; and the loops   *)
(* that serve them.                                                        *)
(*   "stream"   audit_events.go and dnc_events.go: one goroutine per loop, *)
(*              a bound on the clients, and an unregistration that is      *)
(*              dropped when the client manager is not at its select;      *)
(*   "consent"  consent_events.go: one loop, blocking registrations, a     *)
(*              Stop that ends the loop without a shutdown;                *)
(*   "rest"     rest/websocket_handler.go: one loop that never ends, a     *)
(*              full client is skipped instead of disconnected.            *)
(* Messages are counted, not told apart; a panic (a send on a channel that *)
(* was closed) ends the process.                                           *)
(***************************************************************************)
EXTENDS Naturals, FiniteSets

CONSTANTS
    HubClients,         \* connections that will be made
    MaxClients, ClientBufferSize, BroadcastBufferSize,
    MaxBroadcasts       \* bound: events broadcast in a behaviour

ASSUME HubAssumption ==
    {MaxClients, ClientBufferSize, BroadcastBufferSize, MaxBroadcasts} \subseteq Nat

Flavours == {"stream", "consent", "rest"}
LoopsOf(f) == IF f = "stream" THEN {"main", "clients", "broadcast", "health", "cleanup"} ELSE {"run"}

VARIABLES
    flavour,     \* which of the hubs this is
    loops,       \* loops still running
    ctxDone,     \* the context given to Run is cancelled
    clients,     \* the hub's map
    send,        \* of each client: "none" (no channel yet), "open", "closed"
    buffered,    \* messages in its send channel
    cstage,      \* "new", "registering", "greet" (rest hub), "up", "refused"
    peer,        \* its connection: "open", "silent" (no pong any more), "closed"
    readPump, writePump,    \* "off", "on", "ended"
    unregister,  \* clients some goroutine offers on the unregister channel
    queued,      \* events in the broadcast channel
    sent,        \* broadcasts so far (bounded)
    panicked     \* goroutine whose panic ended the process, or "none"

hubVars == <<flavour, loops, ctxDone, clients, send, buffered, cstage, peer,
             readPump, writePump, unregister, queued, sent, panicked>>

HubInit ==
    /\ flavour \in Flavours
    /\ loops = LoopsOf(flavour)
    /\ ctxDone = FALSE
    /\ clients = {}
    /\ send = [c \in HubClients |-> "none"]
    /\ buffered = [c \in HubClients |-> 0]
    /\ cstage = [c \in HubClients |-> "new"]
    /\ peer = [c \in HubClients |-> "closed"]
    /\ readPump = [c \in HubClients |-> "off"]
    /\ writePump = [c \in HubClients |-> "off"]
    /\ unregister = {}
    /\ queued = 0 /\ sent = 0
    /\ panicked = "none"

\* The loop that serves a channel is still running.
Serves(l) == IF flavour = "stream" THEN l \in loops ELSE "run" \in loops

\* Mutant: the buffer has no limit.
Offer_Unbounded(S, who) ==
    /\ buffered' = [c \in HubClients |-> IF c \in S /\ send[c] = "open" THEN buffered[c] + 1 ELSE buffered[c]]
    /\ panicked' = IF \E c \in S : send[c] = "closed" THEN who ELSE panicked

\* A send that does not block: into the buffer, or dropped when it is full; on
\* a closed channel it panics.
Offer(S, who) ==
    /\ buffered' = [c \in HubClients |->
          IF c \in S /\ send[c] = "open" /\ buffered[c] < ClientBufferSize THEN buffered[c] + 1 ELSE buffered[c]]
    /\ panicked' = IF \E c \in S : send[c] = "closed" THEN who ELSE panicked

\* Closing a channel twice panics.
CloseAll(S) ==
    /\ send' = [c \in HubClients |-> IF c \in S THEN "closed" ELSE send[c]]
    /\ panicked' = IF \E c \in S : send[c] = "closed" THEN "hub" ELSE panicked
-----------------------------------------------------------------------------
(* Connections                                                              *)

\* The request is upgraded and the client built; a stream hub first reads the
\* number of clients.
RegisterClient(c) ==
    /\ cstage[c] = "new"
    /\ IF flavour = "stream" /\ Cardinality(clients) >= MaxClients
       THEN cstage' = [cstage EXCEPT ![c] = "refused"] /\ UNCHANGED <<send, peer>>
       ELSE /\ cstage' = [cstage EXCEPT ![c] = "registering"]
            /\ send' = [send EXCEPT ![c] = "open"]
            /\ peer' = [peer EXCEPT ![c] = "open"]
    /\ UNCHANGED <<flavour, loops, ctxDone, clients, buffered, readPump, writePump, unregister, queued, sent, panicked>>

\* The client is handed over on the register channel: it enters the map, is
\* welcomed by the hub, and its pumps are started.
registerClient(c) ==
    /\ cstage[c] = "registering" /\ Serves("clients")
    /\ clients' = clients \union {c}
    /\ Offer(IF flavour = "rest" THEN {} ELSE {c}, "hub")
    /\ cstage' = [cstage EXCEPT ![c] = IF flavour = "rest" THEN "greet" ELSE "up"]
    /\ readPump' = [readPump EXCEPT ![c] = "on"]
    /\ writePump' = [writePump EXCEPT ![c] = "on"]
    /\ UNCHANGED <<flavour, loops, ctxDone, send, peer, unregister, queued, sent>>

\* The rest handler sends the welcome itself, once the pumps run.
Greet(c) ==
    /\ cstage[c] = "greet"
    /\ Offer({c}, "ServeHTTP")
    /\ cstage' = [cstage EXCEPT ![c] = "up"]
    /\ UNCHANGED <<flavour, loops, ctxDone, clients, send, peer, readPump, writePump, unregister, queued, sent>>

\* Nobody takes the client within five seconds (stream hubs only).
RegisterTimeout(c) ==
    /\ cstage[c] = "registering" /\ flavour = "stream"
    /\ cstage' = [cstage EXCEPT ![c] = "refused"]
    /\ peer' = [peer EXCEPT ![c] = "closed"]
    /\ UNCHANGED <<flavour, loops, ctxDone, clients, send, buffered, readPump, writePump, unregister, queued, sent, panicked>>

\* The other side closes the connection, or stops answering.
PeerGone(c) ==
    /\ peer[c] = "open"
    /\ \E p \in {"silent", "closed"} : peer' = [peer EXCEPT ![c] = p]
    /\ UNCHANGED <<flavour, loops, ctxDone, clients, send, buffered, cstage, readPump, writePump, unregister, queued, sent, panicked>>

\* handleClientMessage: an application ping is answered on the send channel.
\* (Filter updates change what the client receives and are left out.)
ClientMessage(c) ==
    /\ readPump[c] = "on" /\ peer[c] = "open"
    /\ Offer({c}, "ReadPump")
    /\ UNCHANGED <<flavour, loops, ctxDone, clients, send, cstage, peer, readPump, writePump, unregister, queued, sent>>

\* Mutant: the client stays in the map.
Unregistered_StaysListed(S) ==
    /\ CloseAll(S \intersect clients)
    /\ UNCHANGED clients

Unregistered(S) ==
    /\ clients' = clients \ S
    /\ CloseAll(S \intersect clients)

\* The read fails or its deadline passes: the client is unregistered and its
\* connection closed.  A stream hub takes it only if its manager is waiting;
\* the others block until their loop takes it.
ReadPumpEnds(c) ==
    /\ readPump[c] = "on" /\ peer[c] # "open"
    /\ readPump' = [readPump EXCEPT ![c] = "ended"]
    /\ \/ flavour = "stream" /\ UNCHANGED <<clients, send, panicked, unregister>>
       \/ flavour = "stream" /\ Serves("clients") /\ Unregistered({c}) /\ UNCHANGED unregister
       \/ flavour # "stream" /\ unregister' = unregister \union {c} /\ UNCHANGED <<clients, send, panicked>>
    /\ peer' = IF flavour = "stream" THEN [peer EXCEPT ![c] = "closed"] ELSE peer
    /\ UNCHANGED <<flavour, loops, ctxDone, buffered, cstage, writePump, queued, sent>>

\* A message is written; the write fails on a closed connection, and on one
\* whose peer is silent it may.
WritePump(c) ==
    /\ writePump[c] = "on" /\ buffered[c] > 0
    /\ buffered' = [buffered EXCEPT ![c] = @ - 1]
    /\ \/ peer[c] # "closed" /\ UNCHANGED <<writePump, peer>>
       \/ /\ peer[c] # "open"
          /\ writePump' = [writePump EXCEPT ![c] = "ended"]
          /\ peer' = [peer EXCEPT ![c] = "closed"]
    /\ UNCHANGED <<flavour, loops, ctxDone, clients, send, cstage, readPump, unregister, queued, sent, panicked>>

\* The channel is closed and drained, or the pump's own ping fails.
WritePumpEnds(c) ==
    /\ writePump[c] = "on"
    /\ \/ send[c] = "closed" /\ buffered[c] = 0
       \/ peer[c] = "closed"
    /\ writePump' = [writePump EXCEPT ![c] = "ended"]
    /\ peer' = [peer EXCEPT ![c] = "closed"]
    /\ UNCHANGED <<flavour, loops, ctxDone, clients, send, buffered, cstage, readPump, unregister, queued, sent, panicked>>
-----------------------------------------------------------------------------
(* The loops                                                                *)

\* A broadcast is queued; a stream hub drops it when the channel is full, the
\* others make the caller wait.
BroadcastEvent ==
    /\ sent < MaxBroadcasts
    /\ sent' = sent + 1
    /\ queued < BroadcastBufferSize \/ flavour = "stream"
    /\ queued' = IF queued < BroadcastBufferSize THEN queued + 1 ELSE queued
    /\ UNCHANGED <<flavour, loops, ctxDone, clients, send, buffered, cstage, peer, readPump, writePump, unregister, panicked>>

\* The event is offered to the clients whose role and filters let it through;
\* one whose channel is full is to be disconnected (skipped by the rest hub).
\* The clients' lock is held in shared mode throughout.
processEventBroadcast ==
    /\ Serves("broadcast") /\ queued > 0
    /\ queued' = queued - 1
    /\ \E S \in SUBSET clients :
          /\ Offer(S, "hub")
          /\ unregister' = IF flavour = "rest" THEN unregister
                           ELSE unregister \union {c \in S : buffered[c] = ClientBufferSize}
    /\ UNCHANGED <<flavour, loops, ctxDone, clients, send, cstage, peer, readPump, writePump, sent>>

\* Mutant: a failed ping is only logged.
pingClients_LogsOnly ==
    /\ Serves("health") /\ flavour # "rest"
    /\ UNCHANGED hubVars

\* A ping that cannot be written has its client disconnected.
pingClients ==
    /\ Serves("health") /\ flavour # "rest"
    /\ \E c \in clients \ unregister : peer[c] = "closed"
    /\ unregister' = unregister \union {c \in clients : peer[c] = "closed"}
    /\ UNCHANGED <<flavour, loops, ctxDone, clients, send, buffered, cstage, peer, readPump, writePump, queued, sent, panicked>>

\* Clients that sent no pong for PongTimeout; the worker waits until the
\* manager has taken each one.
cleanupStaleConnections ==
    /\ flavour = "stream" /\ "cleanup" \in loops
    /\ \E c \in clients \ unregister : peer[c] # "open"
    /\ unregister' = unregister \union {c \in clients : peer[c] # "open"}
    /\ UNCHANGED <<flavour, loops, ctxDone, clients, send, buffered, cstage, peer, readPump, writePump, queued, sent, panicked>>

\* The client manager takes a client offered on the unregister channel; the
\* ReadPump that waited with it now closes the connection.
unregisterClient(c) ==
    /\ Serves("clients") /\ c \in unregister
    /\ unregister' = unregister \ {c}
    /\ Unregistered({c})
    /\ peer' = IF flavour # "stream" /\ readPump[c] = "ended" THEN [peer EXCEPT ![c] = "closed"] ELSE peer
    /\ UNCHANGED <<flavour, loops, ctxDone, buffered, cstage, readPump, writePump, queued, sent>>
-----------------------------------------------------------------------------
(* Stopping                                                                 *)

CancelContext ==
    /\ ~ctxDone /\ flavour # "rest"
    /\ ctxDone' = TRUE
    /\ UNCHANGED <<flavour, loops, clients, send, buffered, cstage, peer, readPump, writePump, unregister, queued, sent, panicked>>

\* A loop of a stream hub takes ctx.Done when it gets there.
LoopExits(l) ==
    /\ flavour = "stream" /\ ctxDone /\ l \in loops \ {"main"}
    /\ loops' = loops \ {l}
    /\ UNCHANGED <<flavour, ctxDone, clients, send, buffered, cstage, peer, readPump, writePump, unregister, queued, sent, panicked>>

\* shutdown closes every client of the map and empties it, once: in the stream
\* hubs Run does so beside the loops, in the consent hub its only loop, last.
shutdown ==
    /\ ctxDone /\ loops \intersect {"main", "run"} # {}
    /\ CloseAll(clients)
    /\ peer' = [c \in HubClients |-> IF c \in clients THEN "closed" ELSE peer[c]]
    /\ clients' = {}
    /\ loops' = loops \ {"main", "run"}
    /\ UNCHANGED <<flavour, ctxDone, buffered, cstage, readPump, writePump, unregister, queued, sent>>

\* Stop of the consent hub: the loop returns and leaves the clients as they are.
\* (Stop of a stream hub closes a channel that only HealthCheck reads.)
Stop ==
    /\ flavour = "consent" /\ loops # {}
    /\ loops' = {}
    /\ UNCHANGED <<flavour, ctxDone, clients, send, buffered, cstage, peer, readPump, writePump, unregister, queued, sent, panicked>>
-----------------------------------------------------------------------------
ClientStep(c) ==
    \/ RegisterClient(c) \/ registerClient(c) \/ Greet(c) \/ RegisterTimeout(c)
    \/ PeerGone(c) \/ ClientMessage(c) \/ ReadPumpEnds(c)
    \/ WritePump(c) \/ WritePumpEnds(c) \/ unregisterClient(c)

HubNext ==
    /\ panicked = "none"
    /\ \/ \E c \in HubClients : ClientStep(c)
       \/ BroadcastEvent \/ processEventBroadcast \/ pingClients \/ cleanupStaleConnections
       \/ CancelContext \/ (\E l \in loops : LoopExits(l)) \/ shutdown \/ Stop

\* A read reaches its deadline, the ping ticker ticks and the client manager
\* takes the clients offered to it in turn; nothing is assumed of the writers.
HubFairness ==
    /\ \A c \in HubClients :
          /\ WF_hubVars(panicked = "none" /\ ReadPumpEnds(c))
          /\ WF_hubVars(panicked = "none" /\ unregisterClient(c))
    /\ WF_hubVars(panicked = "none" /\ pingClients)

HubSpec == HubInit /\ [][HubNext]_hubVars /\ HubFairness
-----------------------------------------------------------------------------
HubTypeOK ==
    /\ flavour \in Flavours /\ loops \subseteq LoopsOf(flavour) /\ ctxDone \in BOOLEAN
    /\ clients \subseteq HubClients
    /\ send \in [HubClients -> {"none", "open", "closed"}]
    /\ buffered \in [HubClients -> 0 .. ClientBufferSize]
    /\ cstage \in [HubClients -> {"new", "registering", "greet", "up", "refused"}]
    /\ peer \in [HubClients -> {"open", "silent", "closed"}]
    /\ readPump \in [HubClients -> {"off", "on", "ended"}]
    /\ writePump \in [HubClients -> {"off", "on", "ended"}]
    /\ unregister \subseteq HubClients
    /\ queued \in 0 .. BroadcastBufferSize /\ sent \in 0 .. MaxBroadcasts
    /\ panicked \in {"none", "hub", "ReadPump", "ServeHTTP"}

\* The hub itself never sends on a closed channel nor closes one twice, however
\* unregistrations repeat and race with broadcasts and shutdown: a client in
\* the map has an open channel.  What can end the process is a goroutine of
\* the client: a ReadPump answering a ping, or the welcome of the rest handler,
\* once the client was unregistered.
HubDoesNotPanic ==
    /\ panicked # "hub"
    /\ \A c \in clients : send[c] = "open"

\* Clients whose connection is gone leave the map while the hub runs, even when
\* their own unregistration found the manager busy and was dropped.
DeadClientLeaves ==
    (\E c \in clients : peer[c] = "closed")
        ~> (ctxDone \/ loops = {} \/ panicked # "none" \/ \A c \in clients : peer[c] # "closed")
=============================================================================
