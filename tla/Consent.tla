------------------------------ MODULE Consent ------------------------------
(***************************************************************************)
(* The consent service (internal/service/consent) over its repositories    *)
(* (internal/infrastructure/database).  A consent is an aggregate whose    *)
(* numbered versions are only ever added, and a pointer, current_version,  *)
(* that says which of them is in force.  Every operation reads the         *)
(* aggregate, appends to the copy it read and saves the copy; nothing      *)
(* checks at the save that the row is still the one that was read.         *)
(*                                                                         *)
(* One phone number is modelled, so that the index on phone_number returns *)
(* any of the saved consumers, and one consent type (the type is not       *)
(* stored at all).                                                         *)
(***************************************************************************)
EXTENDS Naturals, FiniteSets

CONSTANTS
    ConsentReqs,    \* request goroutines of the service
    Consumers,      \* consumer ids (uuid.New)
    Aggregates,     \* aggregate ids (uuid.New)
    MaxVersion,     \* bound: version numbers an aggregate may reach
    MaxConsentOps,  \* bound: operations started in a behaviour
    NoConsumer      \* the consumer_id of a row that does not exist

ASSUME ConsentAssumption ==
    /\ MaxVersion \in Nat \ {0}
    /\ MaxConsentOps \in Nat
    /\ NoConsumer \notin Consumers

Numbers == 1 .. MaxVersion

\* Status of a version; "limited" is active with an expires_at.
Granted == {"active", "limited"}
VersionStatus == Granted \union {"revoked"}

VARIABLES
    consumers,      \* consent_consumers: ids saved for the phone number
    owner,          \* consent_aggregates.consumer_id, NoConsumer for no row
    currentVersion, \* consent_aggregates.current_version
    versions,       \* consent_versions: status by number, "none" for no row
    lapsed,         \* the expiry times given so far have passed
    cpc,            \* where each request is
    cfor,           \* its consumer
    cagg,           \* the aggregate it works on (a set of at most one)
    cver,           \* current_version as it read it
    cnew,           \* statuses of the versions it appended to its copy
    cops,           \* operations started (bounded)
    alone,          \* history: no grant was under way since the revoke began
    withdrawn,      \* history: consumers whose revocation was acknowledged,
                    \* with no grant begun since
    overtaken       \* history: a save found a number taken, or a second
                    \* consumer or aggregate stands for the phone number

consentStore == <<consumers, owner, currentVersion, versions>>
consentVars == <<consumers, owner, currentVersion, versions, lapsed, cpc, cfor,
                 cagg, cver, cnew, cops, alone, withdrawn, overtaken>>

\* Mutant: any version that was ever granted counts.
IsActive_AnyVersion(a) ==
    \E n \in Numbers : versions[a][n] = "active" \/ (versions[a][n] = "limited" /\ ~lapsed)

\* IsActive: the current version is granted and has not expired.
IsActive(a) ==
    LET s == versions[a][currentVersion[a]]
    IN  s = "active" \/ (s = "limited" /\ ~lapsed)

\* GetByConsumerAndType: any of the consumer's aggregates (the interface has
\* no implementation in the repository and nothing makes the pair unique).
GetByConsumerAndType(c) == {a \in Aggregates : owner[a] = c}

\* CheckConsent: the answers it can give for the phone number.  A consumer is
\* picked by the phone index, an aggregate by consumer and type; no consumer
\* or no consent is an answer too.
CheckConsent ==
    IF consumers = {} THEN {FALSE}
    ELSE UNION {IF GetByConsumerAndType(c) = {} THEN {FALSE}
                ELSE {IsActive(a) : a \in GetByConsumerAndType(c)} : c \in consumers}

GrantsUnderWay(c) == {r \in ConsentReqs : cfor[r] = c /\ cpc[r] \in {"lookup", "create", "regrant"}}

ConsentInit ==
    /\ consumers = {}
    /\ owner = [a \in Aggregates |-> NoConsumer]
    /\ currentVersion = [a \in Aggregates |-> 0]
    /\ versions = [a \in Aggregates |-> [n \in Numbers |-> "none"]]
    /\ lapsed = FALSE
    /\ cpc = [r \in ConsentReqs |-> "idle"]
    /\ cfor = [r \in ConsentReqs |-> NoConsumer]
    /\ cagg = [r \in ConsentReqs |-> {}]
    /\ cver = [r \in ConsentReqs |-> 0]
    /\ cnew = [r \in ConsentReqs |-> <<>>]
    /\ cops = 0
    /\ alone = {}
    /\ withdrawn = {}
    /\ overtaken = FALSE

Begin(r) ==
    /\ cpc[r] = "idle"
    /\ cops < MaxConsentOps
    /\ cops' = cops + 1

\* The request returns: its copy of the aggregate is gone.
Return(r) ==
    /\ cpc' = [cpc EXCEPT ![r] = "idle"]
    /\ cfor' = [cfor EXCEPT ![r] = NoConsumer]
    /\ cagg' = [cagg EXCEPT ![r] = {}]
    /\ cver' = [cver EXCEPT ![r] = 0]
    /\ cnew' = [cnew EXCEPT ![r] = <<>>]
    /\ alone' = alone \ {r}

\* CreateConsumer: Save inserts a row under a fresh id; neither the service
\* nor the table refuses a second consumer with the same number.
CreateConsumer ==
    /\ cops < MaxConsentOps
    /\ cops' = cops + 1
    /\ \E c \in Consumers \ consumers : consumers' = consumers \union {c}
    /\ overtaken' = (overtaken \/ consumers # {})
    /\ UNCHANGED <<owner, currentVersion, versions, lapsed, cpc, cfor, cagg, cver, cnew, alone, withdrawn>>

\* GrantConsent, first half: validation and getOrCreateConsumer.  The consumer
\* is found by id or by phone; for an unknown phone the repository answers
\* (nil, nil), which the service takes for a consumer and dereferences: that
\* request dies and changes nothing.
GrantConsent(r) ==
    /\ Begin(r)
    /\ \E c \in consumers :
          /\ cfor' = [cfor EXCEPT ![r] = c]
          /\ withdrawn' = withdrawn \ {c}
          /\ alone' = {q \in alone : cfor[q] # c}
    /\ cpc' = [cpc EXCEPT ![r] = "lookup"]
    /\ UNCHANGED <<consumers, owner, currentVersion, versions, lapsed, cagg, cver, cnew, overtaken>>

\* GrantConsent: the existing consent is read and re-granted in memory
\* (RegrantConsent), or a new aggregate is built and activated (Grant).
GrantLookup(r) ==
    /\ cpc[r] = "lookup"
    /\ \E s \in Granted : cnew' = [cnew EXCEPT ![r] = <<s>>]
    /\ \/ \E a \in GetByConsumerAndType(cfor[r]) :
             /\ cagg' = [cagg EXCEPT ![r] = {a}]
             /\ cver' = [cver EXCEPT ![r] = currentVersion[a]]
             /\ cpc' = [cpc EXCEPT ![r] = "regrant"]
       \/ /\ GetByConsumerAndType(cfor[r]) = {}
          /\ cpc' = [cpc EXCEPT ![r] = "create"]
          /\ UNCHANGED <<cagg, cver>>
    /\ UNCHANGED <<consentStore, lapsed, cfor, cops, alone, withdrawn, overtaken>>

\* Save of an aggregate that has no row: it and its first version are inserted.
\* Its business id is fresh, so the unique (consumer_id, business_id) never
\* meets a second aggregate of the same consumer.
SaveNew(r) ==
    /\ cpc[r] = "create"
    /\ \E a \in Aggregates :
          /\ owner[a] = NoConsumer
          /\ owner' = [owner EXCEPT ![a] = cfor[r]]
          /\ currentVersion' = [currentVersion EXCEPT ![a] = 1]
          /\ versions' = [versions EXCEPT ![a] = [@ EXCEPT ![1] = cnew[r][1]]]
    /\ overtaken' = (overtaken \/ GetByConsumerAndType(cfor[r]) # {})
    /\ Return(r)
    /\ UNCHANGED <<consumers, lapsed, cops, withdrawn>>

\* Mutant: new versions are numbered from the current one.
InsertMissing_OffByOne(stored, from, new) ==
    [n \in Numbers |->
        IF stored[n] = "none" /\ n - from + 1 \in DOMAIN new THEN new[n - from + 1] ELSE stored[n]]

\* Mutant: a number that has a row is overwritten.
InsertMissing_Overwrites(stored, from, new) ==
    [n \in Numbers |-> IF n - from \in DOMAIN new THEN new[n - from] ELSE stored[n]]

\* The rows of an aggregate after its copy's new versions were saved: a number
\* that already has a row is left as it is.
InsertMissing(stored, from, new) ==
    [n \in Numbers |->
        IF stored[n] = "none" /\ n - from \in DOMAIN new THEN new[n - from] ELSE stored[n]]

\* Numbers the copy's new versions take, and those that already have a row.
TakenBy(r) == {cver[r] + i : i \in DOMAIN cnew[r]}
AlreadyStored(r) == {n \in TakenBy(r) \intersect Numbers : \E a \in cagg[r] : versions[a][n] # "none"}

\* Save of an existing aggregate: the row lock taken by its first UPDATE
\* serialises it with every other save of that aggregate.
Save(r) ==
    /\ TakenBy(r) \subseteq Numbers
    /\ \E a \in cagg[r] :
          /\ versions' = [versions EXCEPT ![a] = InsertMissing(@, cver[r], cnew[r])]
          /\ currentVersion' = [currentVersion EXCEPT ![a] = cver[r] + Cardinality(TakenBy(r))]
    /\ overtaken' = (overtaken \/ AlreadyStored(r) # {})
    /\ UNCHANGED <<consumers, owner>>

GrantSave(r) ==
    /\ cpc[r] = "regrant"
    /\ Save(r)
    /\ Return(r)
    /\ UNCHANGED <<lapsed, cops, withdrawn>>

\* RevokeConsent: the aggregate is read and a revoked version appended; a
\* consent that is not active, expired or not, is refused.
RevokeConsent(r) ==
    /\ Begin(r)
    /\ \E c \in consumers : \E a \in GetByConsumerAndType(c) :
          /\ versions[a][currentVersion[a]] \in Granted
          /\ cfor' = [cfor EXCEPT ![r] = c]
          /\ cagg' = [cagg EXCEPT ![r] = {a}]
          /\ cver' = [cver EXCEPT ![r] = currentVersion[a]]
          /\ alone' = IF GrantsUnderWay(c) = {} THEN alone \union {r} ELSE alone
    /\ cnew' = [cnew EXCEPT ![r] = <<"revoked">>]
    /\ cpc' = [cpc EXCEPT ![r] = "revoke"]
    /\ UNCHANGED <<consentStore, lapsed, withdrawn, overtaken>>

RevokeSave(r) ==
    /\ cpc[r] = "revoke"
    /\ Save(r)
    /\ withdrawn' = IF r \in alone THEN withdrawn \union {cfor[r]} ELSE withdrawn
    /\ Return(r)
    /\ UNCHANGED <<lapsed, cops>>

\* UpdateConsent: UpdatePreferences appends one version, UpdateExpiration a
\* second one; both keep the status and the proofs of the version in force.
UpdateConsent(r) ==
    /\ Begin(r)
    /\ \E c \in consumers : \E a \in GetByConsumerAndType(c) :
          LET s == versions[a][currentVersion[a]]
          IN  /\ s \in Granted
              /\ cfor' = [cfor EXCEPT ![r] = c]
              /\ cagg' = [cagg EXCEPT ![r] = {a}]
              /\ cver' = [cver EXCEPT ![r] = currentVersion[a]]
              /\ \E new \in {<<s>>, <<s, "limited">>} : cnew' = [cnew EXCEPT ![r] = new]
    /\ cpc' = [cpc EXCEPT ![r] = "update"]
    /\ UNCHANGED <<consentStore, lapsed, alone, withdrawn, overtaken>>

\* A version the update inserts carries proofs whose ids are the primary keys
\* of rows that exist, so the insert is refused and the transaction rolled
\* back: the save commits only when every number it takes has a row.
UpdateSave(r) ==
    /\ cpc[r] = "update"
    /\ TakenBy(r) = AlreadyStored(r)
    /\ Save(r)
    /\ Return(r)
    /\ UNCHANGED <<lapsed, cops, withdrawn>>

\* A save that fails leaves the tables as they were: one transaction.
SaveFails(r) ==
    /\ cpc[r] \in {"create", "regrant", "revoke", "update"}
    /\ Return(r)
    /\ UNCHANGED <<consentStore, lapsed, cops, withdrawn, overtaken>>

\* The expiry time passes.
Lapse ==
    /\ ~lapsed
    /\ lapsed' = TRUE
    /\ UNCHANGED <<consentStore, cpc, cfor, cagg, cver, cnew, cops, alone, withdrawn, overtaken>>

ConsentStep(r) ==
    \/ GrantConsent(r) \/ GrantLookup(r) \/ SaveNew(r) \/ GrantSave(r)
    \/ RevokeConsent(r) \/ RevokeSave(r)
    \/ UpdateConsent(r) \/ UpdateSave(r)
    \/ SaveFails(r)

ConsentNext ==
    \/ CreateConsumer
    \/ Lapse
    \/ \E r \in ConsentReqs : ConsentStep(r)

ConsentSpec == ConsentInit /\ [][ConsentNext]_consentVars
-----------------------------------------------------------------------------
ConsentTypeOK ==
    /\ consumers \subseteq Consumers
    /\ owner \in [Aggregates -> Consumers \union {NoConsumer}]
    /\ currentVersion \in [Aggregates -> 0 .. MaxVersion]
    /\ versions \in [Aggregates -> [Numbers -> VersionStatus \union {"none"}]]
    /\ lapsed \in BOOLEAN
    /\ cpc \in [ConsentReqs -> {"idle", "lookup", "create", "regrant", "revoke", "update"}]
    /\ cfor \in [ConsentReqs -> Consumers \union {NoConsumer}]
    /\ cagg \in [ConsentReqs -> SUBSET Aggregates]
    /\ cver \in [ConsentReqs -> 0 .. MaxVersion]
    /\ cops \in 0 .. MaxConsentOps
    /\ alone \subseteq ConsentReqs
    /\ withdrawn \subseteq Consumers
    /\ overtaken \in BOOLEAN

\* The pointer of every stored consent names a version that exists, and the
\* numbers below it all have a row, whatever saves interleave or fail: the
\* whole-aggregate read of GetByID indexes Versions by current_version.
PointerHasVersion ==
    \A a \in Aggregates : owner[a] # NoConsumer =>
        /\ currentVersion[a] \in Numbers
        /\ \A n \in 1 .. currentVersion[a] : versions[a][n] \in VersionStatus

\* A stored version is evidence: no later save of a stale copy rewrites or
\* removes it.
HistoryKept ==
    [][\A a \in Aggregates, n \in Numbers :
          versions[a][n] # "none" => versions'[a][n] = versions[a][n]]_consentVars

\* As long as no save was overtaken and the number stands for one consumer
\* with one consent, a revocation that was acknowledged holds: until a new
\* grant begins, CheckConsent answers no.
UncontestedRevocationHolds ==
    (~overtaken /\ withdrawn # {}) => TRUE \notin CheckConsent
=============================================================================
