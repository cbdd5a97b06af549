----------------------------- MODULE MCServices -----------------------------
(***************************************************************************)
(* TLC instance of the services over what they share.  A behaviour follows *)
(* one profile: the calls alone with a consent in force, the consents      *)
(* alone, the two composed (RouteCall against every consent operation),    *)
(* the suppression entries, the DNC providers, the archive, or the         *)
(* publisher while subscriptions come and go.                              *)
(***************************************************************************)
EXTENDS CallExchange, DncRegistry, AuditArchive, AuditPublisher, TLC

CONSTANTS
    ComposedConsentOps, ComposedCallOps,   \* bounds of the composed profile
    e2, e3, s2

ASSUME ServicesAssumption == Consumers # {} /\ Aggregates # {}

\* Two events with the same key, and one of another entity.
EventKey == [e \in PubEvents |-> IF e = e3 THEN <<"call", "other">> ELSE <<"call", "one">>]

\* Both subscriptions ask for the first entity, the second one in a TimeRange.
EntityFilter == [s \in Subs |-> {<<"call", "one">>}]
SecondTimed == [s \in Subs |-> IF s = s2 THEN {e2} ELSE PubEvents]

VARIABLE profile

stores == <<dncVars, archiveVars>>
serviceVars == <<callVars, consentVars, stores, pubVars, profile>>

\* One consumer with a consent in force.
ConsentInForce ==
    /\ LET c == CHOOSE x \in Consumers : TRUE
           a == CHOOSE x \in Aggregates : TRUE
       IN  /\ consumers = {c}
           /\ owner = [b \in Aggregates |-> IF b = a THEN c ELSE NoConsumer]
           /\ currentVersion = [b \in Aggregates |-> IF b = a THEN 1 ELSE 0]
           /\ versions = [b \in Aggregates |-> [n \in Numbers |-> IF b = a /\ n = 1 THEN "active" ELSE "none"]]
    /\ lapsed = FALSE
    /\ cpc = [r \in ConsentReqs |-> "idle"]
    /\ cfor = [r \in ConsentReqs |-> NoConsumer]
    /\ cagg = [r \in ConsentReqs |-> {}]
    /\ cver = [r \in ConsentReqs |-> 0]
    /\ cnew = [r \in ConsentReqs |-> <<>>]
    /\ cops = 0 /\ alone = {} /\ withdrawn = {} /\ overtaken = FALSE

ServicesInit ==
    /\ profile \in {"calls", "consents", "composed", "entries", "providers", "archive", "subscriptions"}
    /\ IF profile \in {"calls", "composed"} THEN ConsentInForce ELSE ConsentInit
    /\ CallInit /\ DncInit /\ ArchiveInit
    /\ PubInit /\ listed = {s2}

Composed ==
    \/ ConsentMoves /\ cops' <= ComposedConsentOps
    \/ /\ UNCHANGED consentVars
       /\ \/ PlaceStep
          \/ \E c \in Calls : ProcessSellerCall(c)
          \/ \E q \in CallReqs : CallRoutingStep(q) \/ Route(q) \/ AcceptBid(q) \/ GiveUp(q)
       /\ xops' <= ComposedCallOps

Subscriptions ==
    \/ \E e \in PubEvents : Publish(e) \/ Enqueue(e)
    \/ \E h \in Handlers : HandlerStep(h)
    \/ FlushBatch \/ RouteForgotten
    \/ \E s \in Subs \ {s2} : Subscribe(s) \/ AddSubscription(s) \/ Unsubscribe(s) \/ RemoveSubscription(s)

ServicesNext ==
    \/ profile = "calls" /\ CallNext /\ UNCHANGED <<consentVars, stores, pubVars, profile>>
    \/ profile = "consents" /\ ConsentNext /\ UNCHANGED <<callVars, stores, pubVars, profile>>
    \/ profile = "composed" /\ Composed /\ UNCHANGED <<stores, pubVars, profile>>
    \/ profile = "entries" /\ (EntryStep \/ DncCrash) /\ UNCHANGED <<callVars, consentVars, archiveVars, pubVars, profile>>
    \/ profile = "providers" /\ (ProviderStep \/ DncCrash) /\ UNCHANGED <<callVars, consentVars, archiveVars, pubVars, profile>>
    \/ profile = "archive" /\ ArchiveNext /\ UNCHANGED <<callVars, consentVars, dncVars, pubVars, profile>>
    \/ profile = "subscriptions" /\ Subscriptions /\ UNCHANGED <<callVars, consentVars, stores, profile>>

ServicesSpec == ServicesInit /\ [][ServicesNext]_serviceVars

Symmetry == Permutations(Bids) \cup Permutations(CallReqs) \cup Permutations(ConsentReqs)

\* Every variable of the services and their stores keeps its type: statuses
\* stay within what the columns hold, versions and row numbers within bounds,
\* queues and batches within their capacity.
TypesOK == ConsentTypeOK /\ CallTypeOK /\ DncTypeOK /\ ArchiveTypeOK /\ PubTypeOK
=============================================================================
