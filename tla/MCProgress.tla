----------------------------- MODULE MCProgress -----------------------------
(***************************************************************************)
(* TLC instance of the goroutines that hand events on and must get through *)
(* or come to an end.  A behaviour follows one profile: the publisher      *)
(* under load and Close with its subscriptions made, a WebSocket hub of    *)
(* any flavour, or the integrity service through its lives.                *)
(***************************************************************************)
EXTENDS AuditPublisher, EventHub, IntegrityService

CONSTANTS e1, e2, s1, s2

\* s1, over WebSocket, wants one event and s2 both, whenever they happened.
EventKey == [e \in {e1, e2} |-> e]
SubscriberFilter == [s \in {s1, s2} |-> IF s = s1 THEN {e1} ELSE {e1, e2}]
AnyTime == [s \in {s1, s2} |-> {e1, e2}]

VARIABLE profile

progressVars == <<pubVars, hubVars, integrityVars, profile>>

ProgressInit ==
    /\ profile \in {"load", "hub", "integrity"}
    /\ PubInit /\ listed = Subs
    /\ HubInit /\ (profile # "hub" => flavour = "rest")
    /\ IntegrityInit

Load ==
    \/ \E e \in PubEvents : Publish(e) \/ PublishAfterReset(e) \/ Recheck(e) \/ WaitCancelled(e)
                           \/ Enqueue(e) \/ EnqueueCancelled(e) \/ ContextDone(e)
    \/ \E h \in Handlers : HandlerStep(h)
    \/ FlushBatch
    \/ Cancel \/ CloseTransports

ProgressNext ==
    \/ profile = "load" /\ Load /\ UNCHANGED <<hubVars, integrityVars, profile>>
    \/ profile = "hub" /\ HubNext /\ UNCHANGED <<pubVars, integrityVars, profile>>
    \/ profile = "integrity" /\ IntegrityNext /\ UNCHANGED <<pubVars, hubVars, profile>>

\* The steps that are fair are those of the component a profile runs: the
\* others rest in their initial state, where none of theirs is enabled.
ProgressSpec ==
    /\ ProgressInit /\ [][ProgressNext]_progressVars
    /\ PubFairness /\ HubFairness /\ IntegrityFairness

\* Every variable keeps its type: queues, batches and send buffers within
\* their capacity, goroutines at the steps they have.
TypesOK == PubTypeOK /\ HubTypeOK /\ IntegrityTypeOK
=============================================================================
