------------------------- MODULE CallExchangeProofs -------------------------
(***************************************************************************)
(* Proofs about the consent service, about the services on the calls table *)
(* and about the two composed, for any number of requests, consumers,      *)
(* aggregates, calls and bids.                                             *)
(***************************************************************************)
EXTENDS CallExchange, Sequences, FiniteSetTheorems, TLAPS

Saving == {"regrant", "revoke", "update"}
Granting == {"lookup", "create", "regrant"}

\* What an operation appends to its copy.
Appended == {<<s>> : s \in VersionStatus} \union {<<s, "limited">> : s \in Granted}

\* The versions an aggregate had when a request read it are all stored.
ReadFrom(a, v) ==
    /\ owner[a] # NoConsumer
    /\ v \in Numbers
    /\ \A n \in 1 .. v : versions[a][n] \in VersionStatus

\* Copies: of a stored consent up to the version that was current.
CopiesStored ==
    /\ cnew \in [ConsentReqs -> Appended \union {<<>>}]
    /\ \A r \in ConsentReqs :
          /\ cpc[r] # "idle" => cfor[r] \in consumers
          /\ cpc[r] \in Saving \union {"create"} => cnew[r] \in Appended
          /\ cpc[r] \in Saving => \E a \in Aggregates : cagg[r] = {a} /\ ReadFrom(a, cver[r])
          /\ cpc[r] = "revoke" => cnew[r] = <<"revoked">>

RowsTogether ==
    /\ \A a \in Aggregates : owner[a] \in consumers \union {NoConsumer}
    /\ \A a \in Aggregates, n \in Numbers : owner[a] = NoConsumer => versions[a][n] = "none"

HistoryInv == ConsentTypeOK /\ CopiesStored /\ RowsTogether /\ PointerHasVersion

LEMMA NumbersFacts ==
    /\ Numbers \subseteq Nat /\ 1 \in Numbers
    /\ \A n \in Numbers : n \in 0 .. MaxVersion
    /\ 0 \in 0 .. MaxVersion
    /\ \A n \in Numbers : \A m \in 1 .. n : m \in Numbers
BY ConsentAssumption DEF Numbers

LEMMA OneOrTwo ==
    ASSUME NEW v \in Nat, NEW k \in {1, 2}
    PROVE  /\ v + 1 \in (v + 1) .. (v + k) /\ (v + 1) - v = 1 /\ 1 \in 1 .. k
OBVIOUS

LEMMA BeyondNumbers ==
    ASSUME NEW v \in Nat, NEW k \in {1, 2}, NEW p \in Nat, p < v + 1, NEW n \in Nat, n > v + k
    PROVE  n > p /\ n - v \notin 1 .. k
<1>1. CASE k = 1
  BY <1>1
<1>2. CASE k = 2
  BY <1>2
<1> QED
  BY <1>1, <1>2

LEMMA TwoNumbers ==
    ASSUME NEW v \in Nat
    PROVE  {1, 2} = 1 .. 2 /\ {v + 1} \union {v + 2} = (v + 1) .. (v + 2)
<1>0. {1, 2} = 1 .. 2
  OBVIOUS
<1>1. \A x : x \in {v + 1} \union {v + 2} <=> x \in (v + 1) .. (v + 2)
  OBVIOUS
<1> QED
  BY <1>0, <1>1

LEMMA ConsentInitial == ConsentInit => HistoryInv
<1> SUFFICES ASSUME ConsentInit PROVE HistoryInv
  OBVIOUS
<1>1. ConsentTypeOK
  <2>1. 0 \in 0 .. MaxConsentOps /\ 0 \in 0 .. MaxVersion
    BY ConsentAssumption
  <2> QED
    BY <2>1 DEF ConsentInit, ConsentTypeOK
<1>2. CopiesStored /\ RowsTogether /\ PointerHasVersion
  BY DEF ConsentInit, CopiesStored, RowsTogether, PointerHasVersion, Saving
<1> QED
  BY <1>1, <1>2 DEF HistoryInv
-----------------------------------------------------------------------------
(* Saving a copy                                                            *)

\* The numbers a copy's new versions take follow the one it was read at.
LEMMA TakenNumbers ==
    ASSUME HistoryInv, NEW r \in ConsentReqs, cpc[r] \in Saving
    PROVE  /\ Len(cnew[r]) \in {1, 2} /\ DOMAIN cnew[r] = 1 .. Len(cnew[r])
           /\ \A i \in DOMAIN cnew[r] : cnew[r][i] \in VersionStatus
           /\ TakenBy(r) = (cver[r] + 1) .. (cver[r] + Len(cnew[r]))
           /\ Cardinality(TakenBy(r)) = Len(cnew[r])
<1>1. cnew[r] \in Appended /\ cver[r] \in Nat
  BY NumbersFacts DEF HistoryInv, CopiesStored, ConsentTypeOK
<1>2. CASE \E s \in VersionStatus : cnew[r] = <<s>>
  <2>1. Len(cnew[r]) = 1 /\ DOMAIN cnew[r] = {1} /\ cnew[r][1] \in VersionStatus
    BY <1>2
  <2>2. TakenBy(r) = {cver[r] + 1}
    BY <1>1, <2>1 DEF TakenBy
  <2>3. Cardinality(TakenBy(r)) = 1
    BY <2>2, FS_Singleton
  <2> QED
    BY <1>1, <2>1, <2>2, <2>3
<1>3. CASE \E s \in Granted : cnew[r] = <<s, "limited">>
  <2>1. /\ Len(cnew[r]) = 2 /\ DOMAIN cnew[r] = {1, 2}
        /\ \A i \in {1, 2} : cnew[r][i] \in VersionStatus
    BY <1>3 DEF VersionStatus, Granted
  <2>2. TakenBy(r) = {cver[r] + 1} \union {cver[r] + 2}
    BY <1>1, <2>1 DEF TakenBy
  <2>3. IsFiniteSet({cver[r] + 1}) /\ Cardinality({cver[r] + 1}) = 1
    BY FS_Singleton
  <2>4. cver[r] + 2 \notin {cver[r] + 1}
    BY <1>1
  <2>5. Cardinality(TakenBy(r)) = 2
    <3> DEFINE S == {cver[r] + 1}
    <3>1. Cardinality(S \union {cver[r] + 2}) = IF cver[r] + 2 \in S THEN Cardinality(S) ELSE Cardinality(S) + 1
      BY <2>3, FS_AddElement
    <3> QED
      BY <2>2, <2>3, <2>4, <3>1
  <2>6. {cver[r] + 1} \union {cver[r] + 2} = (cver[r] + 1) .. (cver[r] + 2)
    BY <1>1, TwoNumbers
  <2>7. DOMAIN cnew[r] = 1 .. 2
    BY <1>1, <2>1, TwoNumbers
  <2> QED
    BY <2>1, <2>2, <2>5, <2>6, <2>7
<1> QED
  BY <1>1, <1>2, <1>3 DEF Appended

\* Whatever was stored since the copy was read, a save keeps every stored
\* version, fills the numbers up to its last one and points there.
LEMMA SaveEffect ==
    ASSUME HistoryInv, NEW r \in ConsentReqs, cpc[r] \in Saving, Save(r)
    PROVE  \E a \in Aggregates :
             /\ cagg[r] = {a} /\ owner[a] # NoConsumer
             /\ versions' \in [Aggregates -> [Numbers -> VersionStatus \union {"none"}]]
             /\ currentVersion' \in [Aggregates -> 0 .. MaxVersion]
             /\ \A b \in Aggregates \ {a} : versions'[b] = versions[b] /\ currentVersion'[b] = currentVersion[b]
             /\ \A n \in Numbers : versions[a][n] # "none" => versions'[a][n] = versions[a][n]
             /\ currentVersion'[a] = cver[r] + Len(cnew[r]) /\ currentVersion'[a] \in Numbers
             /\ \A n \in 1 .. currentVersion'[a] : versions'[a][n] \in VersionStatus
             /\ versions[a][cver[r] + 1] = "none" => versions'[a][cver[r] + 1] = cnew[r][1]
<1>0. ConsentTypeOK /\ PointerHasVersion
  BY DEF HistoryInv
<1>1. PICK a \in Aggregates : cagg[r] = {a} /\ ReadFrom(a, cver[r])
  BY DEF HistoryInv, CopiesStored
<1>2. /\ TakenBy(r) \subseteq Numbers
      /\ versions' = [versions EXCEPT ![a] = InsertMissing(versions[a], cver[r], cnew[r])]
      /\ currentVersion' = [currentVersion EXCEPT ![a] = cver[r] + Cardinality(TakenBy(r))]
  BY <1>1 DEF Save
<1>3. /\ Len(cnew[r]) \in {1, 2} /\ DOMAIN cnew[r] = 1 .. Len(cnew[r])
      /\ \A i \in DOMAIN cnew[r] : cnew[r][i] \in VersionStatus
      /\ TakenBy(r) = (cver[r] + 1) .. (cver[r] + Len(cnew[r]))
      /\ Cardinality(TakenBy(r)) = Len(cnew[r])
  BY TakenNumbers
<1>4. cver[r] \in Numbers /\ cver[r] \in Nat /\ owner[a] # NoConsumer
  BY <1>1, NumbersFacts DEF ReadFrom
<1> DEFINE top == cver[r] + Len(cnew[r])
           new == InsertMissing(versions[a], cver[r], cnew[r])
<1>5. top \in Numbers
  BY <1>2, <1>3, <1>4
<1>6. /\ new \in [Numbers -> VersionStatus \union {"none"}]
      /\ \A n \in Numbers : versions[a][n] # "none" => new[n] = versions[a][n]
  BY <1>0, <1>3 DEF ConsentTypeOK, InsertMissing
<1>7. \A n \in 1 .. top : new[n] \in VersionStatus
  <2> SUFFICES ASSUME NEW n \in 1 .. top PROVE new[n] \in VersionStatus
    OBVIOUS
  <2>1. n \in Numbers
    BY <1>5, NumbersFacts
  <2>2. CASE n \in 1 .. cver[r]
    <3>1. versions[a][n] \in VersionStatus
      BY <1>1, <2>2 DEF ReadFrom
    <3>2. versions[a][n] # "none"
      BY <3>1 DEF VersionStatus, Granted
    <3> QED
      BY <1>6, <2>1, <3>1, <3>2
  <2>3. CASE n \notin 1 .. cver[r]
    <3>1. n - cver[r] \in DOMAIN cnew[r]
      BY <1>3, <1>4, <2>3
    <3>2. versions[a][n] \in VersionStatus \union {"none"}
      BY <1>0, <2>1 DEF ConsentTypeOK
    <3> QED
      BY <1>3, <2>1, <3>1, <3>2 DEF InsertMissing
  <2> QED
    BY <2>2, <2>3
<1>8. versions[a][cver[r] + 1] = "none" => new[cver[r] + 1] = cnew[r][1]
  <2>1. cver[r] + 1 \in (cver[r] + 1) .. (cver[r] + Len(cnew[r])) /\ (cver[r] + 1) - cver[r] = 1 /\ 1 \in 1 .. Len(cnew[r])
    BY <1>3, <1>4, OneOrTwo
  <2>2. cver[r] + 1 \in Numbers
    BY <1>2, <1>3, <2>1
  <2>3. (cver[r] + 1) - cver[r] = 1 /\ 1 \in DOMAIN cnew[r]
    BY <1>3, <2>1
  <2> QED
    BY <2>2, <2>3 DEF InsertMissing
<1>9. /\ versions'[a] = new
      /\ \A b \in Aggregates \ {a} : versions'[b] = versions[b] /\ currentVersion'[b] = currentVersion[b]
      /\ currentVersion'[a] = top
      /\ versions' \in [Aggregates -> [Numbers -> VersionStatus \union {"none"}]]
      /\ currentVersion' \in [Aggregates -> 0 .. MaxVersion]
  <2> HIDE DEF new, top
  <2>1. top \in 0 .. MaxVersion /\ currentVersion' = [currentVersion EXCEPT ![a] = top]
    BY <1>2, <1>3, <1>5, NumbersFacts DEF top
  <2>2. versions' = [versions EXCEPT ![a] = new]
    BY <1>2 DEF new
  <2> QED
    BY <1>0, <1>6, <2>1, <2>2 DEF ConsentTypeOK
<1> HIDE DEF new
<1> QED
  BY <1>1, <1>4, <1>5, <1>6, <1>7, <1>8, <1>9

\* A step that only adds to what is stored keeps the copies of the others.
LEMMA OthersKeep ==
    ASSUME HistoryInv, NEW r \in ConsentReqs,
           consumers \subseteq consumers',
           \A a \in Aggregates : owner[a] # NoConsumer => owner'[a] # NoConsumer,
           \A a \in Aggregates, n \in Numbers : versions[a][n] # "none" => versions'[a][n] = versions[a][n],
           \A q \in ConsentReqs \ {r} : cpc'[q] = cpc[q] /\ cfor'[q] = cfor[q] /\ cagg'[q] = cagg[q]
                                        /\ cver'[q] = cver[q] /\ cnew'[q] = cnew[q]
    PROVE  \A q \in ConsentReqs \ {r} :
              /\ cpc'[q] # "idle" => cfor'[q] \in consumers'
              /\ cpc'[q] \in Saving \union {"create"} => cnew'[q] \in Appended
              /\ cpc'[q] \in Saving => \E a \in Aggregates : cagg'[q] = {a} /\ ReadFrom(a, cver[q])'
              /\ cpc'[q] = "revoke" => cnew'[q] = <<"revoked">>
<1>2. ASSUME NEW q \in ConsentReqs \ {r}, cpc'[q] \in Saving
      PROVE  \E a \in Aggregates : cagg'[q] = {a} /\ ReadFrom(a, cver[q])'
  <2>1. PICK a \in Aggregates : cagg[q] = {a} /\ ReadFrom(a, cver[q])
    BY <1>2 DEF HistoryInv, CopiesStored
  <2>2. cver[q] \in Numbers /\ cver'[q] = cver[q] /\ cagg'[q] = {a}
    BY <1>2, <2>1 DEF ReadFrom
  <2>3. \A n \in 1 .. cver[q] : n \in Numbers /\ versions[a][n] # "none"
    BY <2>1, <2>2, NumbersFacts DEF ReadFrom, VersionStatus, Granted
  <2>4. ReadFrom(a, cver[q])'
    BY <2>1, <2>2, <2>3 DEF ReadFrom
  <2> QED
    BY <2>2, <2>4
<1> QED
  BY <1>2 DEF HistoryInv, CopiesStored
-----------------------------------------------------------------------------
(* Every step of the consent service keeps the history                      *)

\* The request ends and its copy is gone.
LEMMA ReturnEffect ==
    ASSUME ConsentTypeOK, CopiesStored, NEW r \in ConsentReqs, Return(r)
    PROVE  /\ cpc' \in [ConsentReqs -> {"idle", "lookup", "create", "regrant", "revoke", "update"}]
           /\ cfor' \in [ConsentReqs -> Consumers \union {NoConsumer}]
           /\ cagg' \in [ConsentReqs -> SUBSET Aggregates]
           /\ cver' \in [ConsentReqs -> 0 .. MaxVersion]
           /\ cnew' \in [ConsentReqs -> Appended \union {<<>>}]
           /\ cpc'[r] = "idle" /\ alone' = alone \ {r}
           /\ \A q \in ConsentReqs \ {r} : cpc'[q] = cpc[q] /\ cfor'[q] = cfor[q] /\ cagg'[q] = cagg[q]
                                         /\ cver'[q] = cver[q] /\ cnew'[q] = cnew[q]
<1>1. 0 \in 0 .. MaxVersion
  BY NumbersFacts
<1> QED
  BY <1>1 DEF ConsentTypeOK, Return, CopiesStored
\* What is stored stays as it is.
StoreGrows ==
    \A a \in Aggregates, n \in Numbers : versions[a][n] # "none" => versions'[a][n] = versions[a][n]

\* Steps that write no table: a request reads, or ends without a save.
LEMMA ReadStepKeeps ==
    ASSUME HistoryInv, NEW r \in ConsentReqs,
           GrantConsent(r) \/ GrantLookup(r) \/ RevokeConsent(r) \/ UpdateConsent(r) \/ SaveFails(r)
    PROVE  HistoryInv' /\ StoreGrows
<1>0. ConsentTypeOK /\ CopiesStored /\ RowsTogether /\ PointerHasVersion
  BY DEF HistoryInv
<1>1. UNCHANGED <<consumers, owner, currentVersion, versions, lapsed>>
  BY DEF GrantConsent, GrantLookup, RevokeConsent, UpdateConsent, SaveFails, consentStore
<1>2. RowsTogether' /\ PointerHasVersion' /\ StoreGrows
  BY <1>0, <1>1 DEF RowsTogether, PointerHasVersion, StoreGrows
<1>3. cops' \in 0 .. MaxConsentOps
  BY <1>0, ConsentAssumption DEF GrantConsent, GrantLookup, RevokeConsent, UpdateConsent, SaveFails, Begin, ConsentTypeOK
<1>4. alone' \subseteq ConsentReqs /\ withdrawn' \subseteq Consumers /\ overtaken' = overtaken
  BY <1>0 DEF GrantConsent, GrantLookup, RevokeConsent, UpdateConsent, SaveFails, Return, ConsentTypeOK
<1>5. \A q \in ConsentReqs \ {r} : cpc'[q] = cpc[q] /\ cfor'[q] = cfor[q] /\ cagg'[q] = cagg[q]
                                 /\ cver'[q] = cver[q] /\ cnew'[q] = cnew[q]
  <2> USE <1>0 DEF ConsentTypeOK, CopiesStored
  <2>1. CASE GrantConsent(r) \/ GrantLookup(r)
    BY <2>1 DEF GrantConsent, GrantLookup
  <2>2. CASE RevokeConsent(r)
    BY <2>2 DEF RevokeConsent
  <2>3. CASE UpdateConsent(r)
    BY <2>3 DEF UpdateConsent
  <2>4. CASE SaveFails(r)
    BY <2>4, ReturnEffect DEF SaveFails
  <2> QED
    BY <2>1, <2>2, <2>3, <2>4
<1>6. \A q \in ConsentReqs \ {r} :
         /\ cpc'[q] # "idle" => cfor'[q] \in consumers'
         /\ cpc'[q] \in Saving \union {"create"} => cnew'[q] \in Appended
         /\ cpc'[q] \in Saving => \E a \in Aggregates : cagg'[q] = {a} /\ ReadFrom(a, cver[q])'
         /\ cpc'[q] = "revoke" => cnew'[q] = <<"revoked">>
  BY <1>1, <1>5, OthersKeep
\* The aggregate a request finds is stored up to its current version.
<1>7. ASSUME NEW c \in consumers, NEW a \in GetByConsumerAndType(c)
      PROVE  /\ a \in Aggregates /\ ReadFrom(a, currentVersion[a])
             /\ currentVersion[a] \in 0 .. MaxVersion
             /\ c \in Consumers
  <2>1. a \in Aggregates /\ owner[a] = c /\ c \in Consumers /\ c # NoConsumer
    BY <1>0, <1>7, ConsentAssumption DEF GetByConsumerAndType, ConsentTypeOK
  <2> QED
    BY <1>0, <2>1 DEF PointerHasVersion, ReadFrom, ConsentTypeOK
<1> DEFINE Local == /\ cpc' \in [ConsentReqs -> {"idle", "lookup", "create", "regrant", "revoke", "update"}]
                    /\ cfor' \in [ConsentReqs -> Consumers \union {NoConsumer}]
                    /\ cagg' \in [ConsentReqs -> SUBSET Aggregates]
                    /\ cver' \in [ConsentReqs -> 0 .. MaxVersion]
                    /\ cnew' \in [ConsentReqs -> Appended \union {<<>>}]
           Own == /\ cpc'[r] # "idle" => cfor'[r] \in consumers'
                  /\ cpc'[r] \in Saving \union {"create"} => cnew'[r] \in Appended
                  /\ cpc'[r] \in Saving => \E a \in Aggregates : cagg'[r] = {a} /\ ReadFrom(a, cver[r])'
                  /\ cpc'[r] = "revoke" => cnew'[r] = <<"revoked">>
<1>8. Local /\ Own
  <2>1. CASE GrantConsent(r)
    <3>1. PICK c \in consumers : cfor' = [cfor EXCEPT ![r] = c]
      BY <2>1 DEF GrantConsent
    <3>2. cpc' = [cpc EXCEPT ![r] = "lookup"] /\ UNCHANGED <<cagg, cver, cnew>>
      BY <2>1 DEF GrantConsent
    <3>3. Local /\ cpc'[r] = "lookup" /\ cfor'[r] = c
      BY <1>0, <3>1, <3>2 DEF ConsentTypeOK, CopiesStored
    <3> QED
      BY <1>1, <3>3 DEF Saving
  <2>2. CASE GrantLookup(r)
    <3>1. PICK s \in Granted : cnew' = [cnew EXCEPT ![r] = <<s>>]
      BY <2>2 DEF GrantLookup
    <3>2. cpc[r] = "lookup" /\ cfor' = cfor /\ cfor[r] \in consumers
      BY <1>0, <2>2 DEF GrantLookup, CopiesStored
    <3>3. cnew'[r] \in Appended /\ cnew' \in [ConsentReqs -> Appended \union {<<>>}]
      <4>1. <<s>> \in Appended
        BY DEF Appended, VersionStatus
      <4> QED
        BY <1>0, <3>1, <4>1 DEF CopiesStored
    <3>4. CASE \E a \in GetByConsumerAndType(cfor[r]) :
                 /\ cagg' = [cagg EXCEPT ![r] = {a}]
                 /\ cver' = [cver EXCEPT ![r] = currentVersion[a]]
                 /\ cpc' = [cpc EXCEPT ![r] = "regrant"]
      <4>1. PICK a \in GetByConsumerAndType(cfor[r]) :
                 /\ cagg' = [cagg EXCEPT ![r] = {a}]
                 /\ cver' = [cver EXCEPT ![r] = currentVersion[a]]
                 /\ cpc' = [cpc EXCEPT ![r] = "regrant"]
        BY <3>4
      <4>2. a \in Aggregates /\ ReadFrom(a, currentVersion[a]) /\ currentVersion[a] \in 0 .. MaxVersion
        BY <1>7, <3>2, <4>1
      <4>3. Local /\ cagg'[r] = {a} /\ cver'[r] = currentVersion[a] /\ cpc'[r] = "regrant"
        BY <1>0, <3>2, <3>3, <4>1, <4>2 DEF ConsentTypeOK
      <4>4. ReadFrom(a, cver[r])'
        BY <1>1, <4>2, <4>3 DEF ReadFrom
      <4> QED
        BY <1>1, <3>2, <3>3, <4>2, <4>3, <4>4
    <3>5. CASE cpc' = [cpc EXCEPT ![r] = "create"] /\ UNCHANGED <<cagg, cver>>
      <4>1. Local /\ cpc'[r] = "create"
        BY <1>0, <3>2, <3>3, <3>5 DEF ConsentTypeOK
      <4> QED
        BY <1>1, <3>2, <3>3, <4>1 DEF Saving
    <3> QED
      BY <2>2, <3>4, <3>5 DEF GrantLookup
  <2>3. CASE RevokeConsent(r) \/ UpdateConsent(r)
    <3> DEFINE Does(c, a) ==
            /\ versions[a][currentVersion[a]] \in Granted
            /\ cfor' = [cfor EXCEPT ![r] = c]
            /\ cagg' = [cagg EXCEPT ![r] = {a}]
            /\ cver' = [cver EXCEPT ![r] = currentVersion[a]]
            /\ \/ cnew' = [cnew EXCEPT ![r] = <<"revoked">>] /\ cpc' = [cpc EXCEPT ![r] = "revoke"]
               \/ /\ cnew' \in {[cnew EXCEPT ![r] = <<versions[a][currentVersion[a]]>>],
                               [cnew EXCEPT ![r] = <<versions[a][currentVersion[a]], "limited">>]}
                  /\ cpc' = [cpc EXCEPT ![r] = "update"]
    <3>0. \E c \in consumers : \E a \in GetByConsumerAndType(c) : Does(c, a)
      <4>1. CASE RevokeConsent(r)
        BY <4>1 DEF RevokeConsent
      <4>2. CASE UpdateConsent(r)
        BY <4>2 DEF UpdateConsent
      <4> QED
        BY <2>3, <4>1, <4>2
    <3>9. PICK c \in consumers : \E a \in GetByConsumerAndType(c) : Does(c, a)
      BY <3>0
    <3>1. PICK a \in GetByConsumerAndType(c) : Does(c, a)
      BY <3>9
    <3>2. a \in Aggregates /\ ReadFrom(a, currentVersion[a]) /\ currentVersion[a] \in 0 .. MaxVersion /\ c \in Consumers
      BY <1>7, <3>1
    <3>4. /\ <<"revoked">> \in Appended
          /\ <<versions[a][currentVersion[a]]>> \in Appended
          /\ <<versions[a][currentVersion[a]], "limited">> \in Appended
      BY <3>1 DEF Appended, VersionStatus
    <3>3. \E x \in Appended, p \in {"revoke", "update"} :
             cnew' = [cnew EXCEPT ![r] = x] /\ cpc' = [cpc EXCEPT ![r] = p] /\ (p = "revoke" => x = <<"revoked">>)
      <4>1. CASE cnew' = [cnew EXCEPT ![r] = <<"revoked">>] /\ cpc' = [cpc EXCEPT ![r] = "revoke"]
        BY <3>4, <4>1
      <4>2. CASE /\ cnew' \in {[cnew EXCEPT ![r] = <<versions[a][currentVersion[a]]>>],
                               [cnew EXCEPT ![r] = <<versions[a][currentVersion[a]], "limited">>]}
                 /\ cpc' = [cpc EXCEPT ![r] = "update"]
        BY <3>4, <4>2
      <4> QED
        BY <3>1, <4>1, <4>2
    <3>8. PICK x \in Appended, p \in {"revoke", "update"} :
             cnew' = [cnew EXCEPT ![r] = x] /\ cpc' = [cpc EXCEPT ![r] = p] /\ (p = "revoke" => x = <<"revoked">>)
      BY <3>3
    <3>10. /\ cfor' = [cfor EXCEPT ![r] = c]
           /\ cagg' = [cagg EXCEPT ![r] = {a}]
           /\ cver' = [cver EXCEPT ![r] = currentVersion[a]]
      BY <3>1
    <3>5. Local /\ cfor'[r] = c /\ cagg'[r] = {a} /\ cver'[r] = currentVersion[a] /\ cpc'[r] \in {"revoke", "update"}
      BY <1>0, <3>2, <3>8, <3>10 DEF ConsentTypeOK, CopiesStored
    <3>6. ReadFrom(a, cver[r])'
      BY <1>1, <3>2, <3>5 DEF ReadFrom
    <3>7. cnew'[r] \in Appended /\ (cpc'[r] = "revoke" => cnew'[r] = <<"revoked">>)
      BY <1>0, <3>8 DEF ConsentTypeOK, CopiesStored
    <3> QED
      BY <1>1, <3>2, <3>5, <3>6, <3>7
  <2>4. CASE SaveFails(r)
    <3>1. Local /\ cpc'[r] = "idle"
      BY <1>0, <2>4, ReturnEffect DEF SaveFails
    <3> QED
      BY <3>1 DEF Saving
  <2> QED
    BY <2>1, <2>2, <2>3, <2>4
<1>9. CopiesStored'
  BY <1>6, <1>8 DEF CopiesStored
<1>10. ConsentTypeOK'
  BY <1>0, <1>1, <1>3, <1>4, <1>8 DEF ConsentTypeOK
<1> QED
  BY <1>2, <1>9, <1>10 DEF HistoryInv

\* Steps that save.
LEMMA SaveStepKeeps ==
    ASSUME HistoryInv, NEW r \in ConsentReqs, SaveNew(r) \/ GrantSave(r) \/ RevokeSave(r) \/ UpdateSave(r)
    PROVE  HistoryInv' /\ StoreGrows
<1>0. ConsentTypeOK /\ CopiesStored /\ RowsTogether /\ PointerHasVersion
  BY DEF HistoryInv
<1>1. Return(r) /\ UNCHANGED <<consumers, lapsed, cops>>
  BY DEF SaveNew, GrantSave, RevokeSave, UpdateSave, Save
<1>2. /\ cpc' \in [ConsentReqs -> {"idle", "lookup", "create", "regrant", "revoke", "update"}]
      /\ cfor' \in [ConsentReqs -> Consumers \union {NoConsumer}]
      /\ cagg' \in [ConsentReqs -> SUBSET Aggregates]
      /\ cver' \in [ConsentReqs -> 0 .. MaxVersion]
      /\ cnew' \in [ConsentReqs -> Appended \union {<<>>}]
      /\ cpc'[r] = "idle" /\ alone' = alone \ {r}
      /\ \A q \in ConsentReqs \ {r} : cpc'[q] = cpc[q] /\ cfor'[q] = cfor[q] /\ cagg'[q] = cagg[q]
                                    /\ cver'[q] = cver[q] /\ cnew'[q] = cnew[q]
  BY <1>0, <1>1, ReturnEffect
<1>3. withdrawn' \subseteq Consumers /\ overtaken' \in BOOLEAN
  <2>1. withdrawn' \in {withdrawn, withdrawn \union {cfor[r]}} /\ cpc[r] # "idle"
    BY DEF SaveNew, GrantSave, RevokeSave, UpdateSave
  <2>2. cfor[r] \in Consumers
    BY <1>0, <2>1 DEF CopiesStored, ConsentTypeOK
  <2>3. overtaken' \in BOOLEAN
    BY DEF SaveNew, GrantSave, RevokeSave, UpdateSave, Save
  <2> QED
    BY <1>0, <2>1, <2>2, <2>3 DEF ConsentTypeOK
\* It is enough that the store grows and stays well formed.
<1>4. SUFFICES
         /\ owner' \in [Aggregates -> Consumers \union {NoConsumer}]
         /\ currentVersion' \in [Aggregates -> 0 .. MaxVersion]
         /\ versions' \in [Aggregates -> [Numbers -> VersionStatus \union {"none"}]]
         /\ \A a \in Aggregates : owner[a] # NoConsumer => owner'[a] # NoConsumer
         /\ RowsTogether' /\ PointerHasVersion' /\ StoreGrows
  <2>1. ASSUME owner' \in [Aggregates -> Consumers \union {NoConsumer}],
               currentVersion' \in [Aggregates -> 0 .. MaxVersion],
               versions' \in [Aggregates -> [Numbers -> VersionStatus \union {"none"}]],
               \A a \in Aggregates : owner[a] # NoConsumer => owner'[a] # NoConsumer,
               RowsTogether', PointerHasVersion', StoreGrows
        PROVE  HistoryInv' /\ StoreGrows
    <3>1. ConsentTypeOK'
      BY <1>0, <1>1, <1>2, <1>3, <2>1 DEF ConsentTypeOK
    <3>2. \A q \in ConsentReqs \ {r} :
             /\ cpc'[q] # "idle" => cfor'[q] \in consumers'
             /\ cpc'[q] \in Saving \union {"create"} => cnew'[q] \in Appended
             /\ cpc'[q] \in Saving => \E a \in Aggregates : cagg'[q] = {a} /\ ReadFrom(a, cver[q])'
             /\ cpc'[q] = "revoke" => cnew'[q] = <<"revoked">>
      BY <1>1, <1>2, <2>1, OthersKeep DEF StoreGrows
    <3>3. CopiesStored'
      BY <1>2, <3>2 DEF CopiesStored, Saving
    <3> QED
      BY <2>1, <3>1, <3>3 DEF HistoryInv
  <2> QED
    BY <2>1
<1>5. CASE SaveNew(r)
  <2>1. PICK a \in Aggregates :
          /\ owner[a] = NoConsumer
          /\ owner' = [owner EXCEPT ![a] = cfor[r]]
          /\ currentVersion' = [currentVersion EXCEPT ![a] = 1]
          /\ versions' = [versions EXCEPT ![a] = [versions[a] EXCEPT ![1] = cnew[r][1]]]
    BY <1>5 DEF SaveNew
  <2>2. cfor[r] \in consumers /\ cfor[r] \in Consumers /\ cfor[r] # NoConsumer
    BY <1>0, <1>5, ConsentAssumption DEF SaveNew, CopiesStored, ConsentTypeOK
  <2>3. cnew[r][1] \in VersionStatus
    BY <1>0, <1>5 DEF SaveNew, CopiesStored, Appended, VersionStatus
  <2>4. /\ versions'[a] \in [Numbers -> VersionStatus \union {"none"}] /\ versions'[a][1] \in VersionStatus
        /\ \A b \in Aggregates \ {a} : versions'[b] = versions[b] /\ owner'[b] = owner[b] /\ currentVersion'[b] = currentVersion[b]
        /\ owner'[a] = cfor[r] /\ currentVersion'[a] = 1
    BY <1>0, <2>1, <2>3, NumbersFacts DEF ConsentTypeOK
  <2>5. owner' \in [Aggregates -> Consumers \union {NoConsumer}]
    BY <1>0, <2>1, <2>2 DEF ConsentTypeOK
  <2>6. currentVersion' \in [Aggregates -> 0 .. MaxVersion]
    BY <1>0, <2>1, NumbersFacts DEF ConsentTypeOK
  <2>7. versions' \in [Aggregates -> [Numbers -> VersionStatus \union {"none"}]]
    BY <1>0, <2>1, <2>4 DEF ConsentTypeOK
  <2>8. RowsTogether'
    BY <1>0, <1>1, <2>1, <2>2, <2>4 DEF RowsTogether
  <2>9. StoreGrows
    BY <1>0, <2>1, <2>4 DEF StoreGrows, RowsTogether
  <2>10. PointerHasVersion'
    <3>1. \A n \in 1 .. 1 : n = 1
      OBVIOUS
    <3> QED
      BY <1>0, <2>4, <3>1, NumbersFacts DEF PointerHasVersion
  <2>11. \A b \in Aggregates : owner[b] # NoConsumer => owner'[b] # NoConsumer
    BY <2>1, <2>4
  <2> QED
    BY <2>5, <2>6, <2>7, <2>8, <2>9, <2>10, <2>11
<1>6. CASE GrantSave(r) \/ RevokeSave(r) \/ UpdateSave(r)
  <2>1. cpc[r] \in Saving /\ Save(r) /\ owner' = owner
    BY <1>6 DEF GrantSave, RevokeSave, UpdateSave, Saving, Save
  <2>2. PICK a \in Aggregates :
             /\ cagg[r] = {a} /\ owner[a] # NoConsumer
             /\ versions' \in [Aggregates -> [Numbers -> VersionStatus \union {"none"}]]
             /\ currentVersion' \in [Aggregates -> 0 .. MaxVersion]
             /\ \A b \in Aggregates \ {a} : versions'[b] = versions[b] /\ currentVersion'[b] = currentVersion[b]
             /\ \A n \in Numbers : versions[a][n] # "none" => versions'[a][n] = versions[a][n]
             /\ currentVersion'[a] = cver[r] + Len(cnew[r]) /\ currentVersion'[a] \in Numbers
             /\ \A n \in 1 .. currentVersion'[a] : versions'[a][n] \in VersionStatus
             /\ versions[a][cver[r] + 1] = "none" => versions'[a][cver[r] + 1] = cnew[r][1]
    BY <2>1, SaveEffect
  <2>3. StoreGrows
    BY <2>2 DEF StoreGrows
  <2>4. RowsTogether'
    BY <1>0, <1>1, <2>1, <2>2 DEF RowsTogether
  <2>5. PointerHasVersion'
    BY <1>0, <2>1, <2>2 DEF PointerHasVersion
  <2> QED
    BY <1>0, <2>1, <2>2, <2>3, <2>4, <2>5 DEF ConsentTypeOK
<1> QED
  BY <1>5, <1>6

LEMMA HistoryInductive ==
    ASSUME HistoryInv, [ConsentNext]_consentVars
    PROVE  HistoryInv' /\ StoreGrows
<1>1. CASE CreateConsumer
  <2>1. /\ UNCHANGED <<owner, currentVersion, versions, lapsed, cpc, cfor, cagg, cver, cnew, alone, withdrawn>>
        /\ consumers \subseteq consumers' /\ consumers' \subseteq Consumers /\ overtaken' \in BOOLEAN
        /\ cops' \in 0 .. MaxConsentOps
    BY <1>1, ConsentAssumption DEF CreateConsumer, HistoryInv, ConsentTypeOK
  <2>2. ConsentTypeOK' /\ RowsTogether' /\ PointerHasVersion' /\ StoreGrows
    BY <2>1 DEF HistoryInv, ConsentTypeOK, RowsTogether, PointerHasVersion, StoreGrows
  <2>3. CopiesStored'
    BY <2>1 DEF HistoryInv, CopiesStored, ReadFrom
  <2> QED
    BY <2>2, <2>3 DEF HistoryInv
<1>2. CASE Lapse \/ UNCHANGED consentVars
  <2>1. /\ UNCHANGED <<consumers, owner, currentVersion, versions, cpc, cfor, cagg, cver, cnew, cops, alone, withdrawn, overtaken>>
        /\ lapsed' \in BOOLEAN
    BY <1>2 DEF Lapse, consentVars, consentStore, HistoryInv, ConsentTypeOK
  <2>2. ConsentTypeOK' /\ RowsTogether' /\ PointerHasVersion' /\ StoreGrows
    BY <2>1 DEF HistoryInv, ConsentTypeOK, RowsTogether, PointerHasVersion, StoreGrows
  <2>3. CopiesStored'
    BY <2>1 DEF HistoryInv, CopiesStored, ReadFrom
  <2> QED
    BY <2>2, <2>3 DEF HistoryInv
<1>3. ASSUME NEW r \in ConsentReqs, ConsentStep(r) PROVE HistoryInv' /\ StoreGrows
  BY <1>3, ReadStepKeeps, SaveStepKeeps DEF ConsentStep
<1> QED
  BY <1>1, <1>2, <1>3 DEF ConsentNext

\* Numbers, pointers and statuses keep their types.
THEOREM ConsentTypeCorrect == ConsentSpec => []ConsentTypeOK
<1>1. HistoryInv /\ [ConsentNext]_consentVars => HistoryInv'
  BY HistoryInductive
<1> QED
  BY <1>1, ConsentInitial, PTL DEF ConsentSpec, HistoryInv

\* The pointer of a stored consent always names a stored version, whichever
\* stale copy was saved last (ConsentRepository.Save).
THEOREM PointersAreSound == ConsentSpec => []PointerHasVersion
<1>1. HistoryInv /\ [ConsentNext]_consentVars => HistoryInv'
  BY HistoryInductive
<1> QED
  BY <1>1, ConsentInitial, PTL DEF ConsentSpec, HistoryInv

\* A stored version is never rewritten: a save inserts only numbers that have
\* no row.
THEOREM HistoryIsKept == ConsentSpec => HistoryKept
<1>1. HistoryInv /\ [ConsentNext]_consentVars => HistoryInv'
  BY HistoryInductive
<1>2. HistoryInv /\ [ConsentNext]_consentVars
        => [\A a \in Aggregates, n \in Numbers : versions[a][n] # "none" => versions'[a][n] = versions[a][n]]_consentVars
  BY HistoryInductive DEF StoreGrows
<1> QED
  BY <1>1, <1>2, ConsentInitial, PTL DEF ConsentSpec, HistoryKept
-----------------------------------------------------------------------------
(* Revocations.  While nobody is overtaken the number stands for one consent *)
(* whose pointer is at its last version, so a save that is not overtaken     *)
(* appends right behind it.                                                  *)

NoGrant(c) == \A r \in ConsentReqs : cfor[r] = c => cpc[r] \notin Granting

AloneOK == \A r \in alone : cpc[r] = "revoke" /\ NoGrant(cfor[r])

OneConsent ==
    /\ \A c, d \in consumers : c = d
    /\ \A a, b \in Aggregates : (owner[a] # NoConsumer /\ owner[b] # NoConsumer) => a = b
    /\ \A a \in Aggregates, n \in Numbers :
          (owner[a] # NoConsumer /\ n > currentVersion[a]) => versions[a][n] = "none"

WithdrawnOK ==
    \A c \in withdrawn : /\ NoGrant(c)
                         /\ \E a \in Aggregates : owner[a] = c /\ versions[a][currentVersion[a]] = "revoked"

RevocationInv == HistoryInv /\ AloneOK /\ (~overtaken => OneConsent /\ WithdrawnOK)

OthersStay(r) == \A q \in ConsentReqs \ {r} : cpc'[q] = cpc[q] /\ cfor'[q] = cfor[q]

LEMMA GrantsKept ==
    ASSUME NEW r \in ConsentReqs, OthersStay(r), NEW c, NoGrant(c), cpc'[r] \in Granting => cfor'[r] # c
    PROVE  NoGrant(c)'
  BY DEF NoGrant, OthersStay

LEMMA NoneUnderWay ==
    ASSUME NEW c
    PROVE  GrantsUnderWay(c) = {} <=> NoGrant(c)
  BY DEF GrantsUnderWay, NoGrant, Granting

\* A request reads, or ends without a save.
LEMMA ReadStepRevocation ==
    ASSUME RevocationInv, NEW r \in ConsentReqs,
           GrantConsent(r) \/ GrantLookup(r) \/ RevokeConsent(r) \/ UpdateConsent(r) \/ SaveFails(r)
    PROVE  AloneOK' /\ (~overtaken' => OneConsent' /\ WithdrawnOK')
<1>0. ConsentTypeOK /\ AloneOK /\ alone \subseteq ConsentReqs /\ (~overtaken => OneConsent /\ WithdrawnOK)
  BY DEF RevocationInv, HistoryInv, ConsentTypeOK
<1>1. UNCHANGED <<consumers, owner, currentVersion, versions, overtaken>>
  BY DEF GrantConsent, GrantLookup, RevokeConsent, UpdateConsent, SaveFails, consentStore
<1>2. OneConsent => OneConsent'
  BY <1>1 DEF OneConsent
<1>3. SUFFICES AloneOK' /\ (WithdrawnOK => WithdrawnOK')
  BY <1>0, <1>1, <1>2
<1>4. CASE GrantConsent(r)
  <2>1. PICK c \in consumers : /\ cfor' = [cfor EXCEPT ![r] = c]
                               /\ withdrawn' = withdrawn \ {c}
                               /\ alone' = {q \in alone : cfor[q] # c}
    BY <1>4 DEF GrantConsent
  <2>2. cpc[r] = "idle" /\ cpc' = [cpc EXCEPT ![r] = "lookup"]
    BY <1>4 DEF GrantConsent, Begin
  <2>3. OthersStay(r) /\ cfor'[r] = c
    BY <1>0, <2>1, <2>2 DEF ConsentTypeOK, OthersStay
  <2>4. r \notin alone
    BY <1>0, <2>2 DEF AloneOK
  <2>5. AloneOK'
    BY <1>0, <2>1, <2>3, <2>4, GrantsKept DEF AloneOK, OthersStay
  <2>6. WithdrawnOK => WithdrawnOK'
    BY <1>1, <2>1, <2>3, GrantsKept DEF WithdrawnOK
  <2> QED
    BY <2>5, <2>6
<1>5. CASE GrantLookup(r)
  <2>1. cpc[r] = "lookup" /\ cfor' = cfor /\ alone' = alone /\ withdrawn' = withdrawn
    BY <1>5 DEF GrantLookup
  <2>2. OthersStay(r)
    BY <1>0, <1>5, <2>1 DEF GrantLookup, ConsentTypeOK, OthersStay
  <2>3. r \notin alone
    BY <1>0, <2>1 DEF AloneOK
  <2>4. ASSUME NEW c, NoGrant(c) PROVE NoGrant(c)'
    BY <2>1, <2>2, <2>4, GrantsKept DEF NoGrant, Granting
  <2>5. AloneOK'
    BY <1>0, <2>1, <2>2, <2>3, <2>4 DEF AloneOK, OthersStay
  <2>6. WithdrawnOK => WithdrawnOK'
    BY <1>1, <2>1, <2>4 DEF WithdrawnOK
  <2> QED
    BY <2>5, <2>6
<1>6. CASE RevokeConsent(r) \/ UpdateConsent(r)
  <2>1. /\ cpc[r] = "idle" /\ withdrawn' = withdrawn
        /\ \E p \in {"revoke", "update"} : cpc' = [cpc EXCEPT ![r] = p]
    BY <1>6 DEF RevokeConsent, UpdateConsent, Begin
  <2>2. PICK c \in consumers : /\ cfor' = [cfor EXCEPT ![r] = c]
                               /\ alone' = alone \/ (alone' = alone \union {r} /\ GrantsUnderWay(c) = {} /\ cpc' = [cpc EXCEPT ![r] = "revoke"])
    <3>1. CASE RevokeConsent(r)
      BY <3>1 DEF RevokeConsent
    <3>2. CASE UpdateConsent(r)
      BY <3>2 DEF UpdateConsent
    <3> QED
      BY <1>6, <3>1, <3>2
  <2>3. OthersStay(r) /\ cfor'[r] = c /\ cpc'[r] \in {"revoke", "update"}
    BY <1>0, <2>1, <2>2 DEF ConsentTypeOK, OthersStay
  <2>4. r \notin alone
    BY <1>0, <2>1 DEF AloneOK
  <2>5. ASSUME NEW d, NoGrant(d) PROVE NoGrant(d)'
    BY <2>3, <2>5, GrantsKept DEF Granting
  <2>6. ASSUME NEW q \in alone PROVE (cpc[q] = "revoke" /\ NoGrant(cfor[q]))'
    BY <1>0, <2>3, <2>4, <2>5, <2>6 DEF AloneOK, OthersStay
  <2>7. r \in alone' => (cpc[r] = "revoke" /\ NoGrant(cfor[r]))'
    <3>1. r \in alone' => NoGrant(c) /\ cpc' = [cpc EXCEPT ![r] = "revoke"]
      BY <2>2, <2>4, NoneUnderWay
    <3> QED
      BY <1>0, <2>3, <2>5, <3>1 DEF ConsentTypeOK
  <2>8. AloneOK'
    BY <2>2, <2>6, <2>7 DEF AloneOK
  <2>9. WithdrawnOK => WithdrawnOK'
    BY <1>1, <2>1, <2>5 DEF WithdrawnOK
  <2> QED
    BY <2>8, <2>9
<1>7. CASE SaveFails(r)
  <2>1. Return(r) /\ withdrawn' = withdrawn
    BY <1>7 DEF SaveFails
  <2>2. OthersStay(r) /\ cpc'[r] = "idle" /\ alone' = alone \ {r}
    BY <1>0, <2>1 DEF Return, ConsentTypeOK, OthersStay
  <2>3. ASSUME NEW c, NoGrant(c) PROVE NoGrant(c)'
    BY <2>2, <2>3, GrantsKept DEF Granting
  <2>4. AloneOK'
    BY <1>0, <2>2, <2>3 DEF AloneOK, OthersStay
  <2>5. WithdrawnOK => WithdrawnOK'
    BY <1>1, <2>1, <2>3 DEF WithdrawnOK
  <2> QED
    BY <2>4, <2>5
<1> QED
  BY <1>4, <1>5, <1>6, <1>7

\* A save of an existing consent that is not overtaken appends behind the
\* pointer and leaves nothing after it.
LEMMA SaveBehindPointer ==
    ASSUME RevocationInv, NEW r \in ConsentReqs, cpc[r] \in Saving, Save(r), ~overtaken'
    PROVE  /\ OneConsent' /\ ~overtaken /\ TakenBy(r) # {} /\ AlreadyStored(r) = {}
           /\ \E a \in Aggregates : /\ owner[a] = cfor[r] /\ owner[a] # NoConsumer
                                    /\ currentVersion'[a] = cver[r] + Len(cnew[r])
                                    /\ versions'[a][cver[r] + 1] = cnew[r][1]
<1>0. ~overtaken /\ AlreadyStored(r) = {} /\ HistoryInv /\ OneConsent /\ UNCHANGED <<consumers, owner>>
  BY DEF Save, RevocationInv
<1>1. ConsentTypeOK /\ PointerHasVersion /\ RowsTogether /\ CopiesStored
  BY <1>0 DEF HistoryInv
<1>2. PICK a \in Aggregates :
             /\ cagg[r] = {a} /\ owner[a] # NoConsumer
             /\ versions' \in [Aggregates -> [Numbers -> VersionStatus \union {"none"}]]
             /\ currentVersion' \in [Aggregates -> 0 .. MaxVersion]
             /\ \A b \in Aggregates \ {a} : versions'[b] = versions[b] /\ currentVersion'[b] = currentVersion[b]
             /\ \A n \in Numbers : versions[a][n] # "none" => versions'[a][n] = versions[a][n]
             /\ currentVersion'[a] = cver[r] + Len(cnew[r]) /\ currentVersion'[a] \in Numbers
             /\ \A n \in 1 .. currentVersion'[a] : versions'[a][n] \in VersionStatus
             /\ versions[a][cver[r] + 1] = "none" => versions'[a][cver[r] + 1] = cnew[r][1]
  BY <1>0, SaveEffect
<1>3. /\ Len(cnew[r]) \in {1, 2} /\ DOMAIN cnew[r] = 1 .. Len(cnew[r])
      /\ TakenBy(r) = (cver[r] + 1) .. (cver[r] + Len(cnew[r]))
  BY <1>0, TakenNumbers
<1>4. cver[r] \in Nat /\ TakenBy(r) \subseteq Numbers
  BY <1>1, NumbersFacts DEF ConsentTypeOK, Save
<1>5. cver[r] + 1 \in TakenBy(r) /\ cver[r] + 1 \in Numbers
  BY <1>3, <1>4, OneOrTwo
<1>6. versions[a][cver[r] + 1] = "none"
  BY <1>0, <1>2, <1>5 DEF AlreadyStored
<1>7. owner[a] = cfor[r]
  <2>1. cfor[r] \in consumers /\ owner[a] \in consumers
    BY <1>1, <1>2 DEF CopiesStored, RowsTogether, Saving
  <2> QED
    BY <1>0, <2>1 DEF OneConsent
<1>8. currentVersion[a] \in Nat /\ currentVersion[a] < cver[r] + 1
  <2>1. currentVersion[a] \in Nat
    BY <1>1 DEF ConsentTypeOK
  <2>2. ASSUME cver[r] + 1 <= currentVersion[a] PROVE FALSE
    <3>1. cver[r] + 1 \in 1 .. currentVersion[a]
      BY <1>4, <2>1, <2>2
    <3>2. versions[a][cver[r] + 1] \in VersionStatus
      BY <1>1, <1>2, <3>1 DEF PointerHasVersion
    <3> QED
      BY <1>6, <3>2 DEF VersionStatus, Granted
  <2> QED
    BY <1>4, <2>1, <2>2
<1>9. ASSUME NEW n \in Numbers, n > currentVersion'[a] PROVE versions'[a][n] = "none"
  <2>1. n \in Nat /\ n > cver[r] + Len(cnew[r])
    BY <1>2, <1>9, NumbersFacts
  <2>0. n > currentVersion[a] /\ n - cver[r] \notin 1 .. Len(cnew[r])
    <3>1. Len(cnew[r]) \in {1, 2} /\ cver[r] \in Nat
      BY <1>3, <1>4
    <3> QED
      BY <3>1, <1>8, <2>1, BeyondNumbers
  <2>2. versions[a][n] = "none"
    BY <1>0, <1>2, <2>0 DEF OneConsent
  <2>3. n - cver[r] \notin DOMAIN cnew[r]
    BY <1>3, <2>0
  <2>4. versions'[a] = InsertMissing(versions[a], cver[r], cnew[r])
    BY <1>1, <1>2 DEF Save, ConsentTypeOK
  <2> QED
    BY <2>2, <2>3, <2>4 DEF InsertMissing
<1>10. OneConsent'
  BY <1>0, <1>2, <1>9 DEF OneConsent
<1> QED
  BY <1>0, <1>2, <1>5, <1>6, <1>7, <1>10

\* Steps that save: only a revocation does, once one was acknowledged.
LEMMA SaveStepRevocation ==
    ASSUME RevocationInv, NEW r \in ConsentReqs, SaveNew(r) \/ GrantSave(r) \/ RevokeSave(r) \/ UpdateSave(r)
    PROVE  AloneOK' /\ (~overtaken' => OneConsent' /\ WithdrawnOK')
<1>0. /\ ConsentTypeOK /\ AloneOK /\ alone \subseteq ConsentReqs /\ (~overtaken => OneConsent /\ WithdrawnOK)
      /\ CopiesStored /\ RowsTogether /\ PointerHasVersion /\ HistoryInv
  BY DEF RevocationInv, HistoryInv, ConsentTypeOK
<1>1. Return(r) /\ UNCHANGED consumers /\ cpc[r] # "idle"
  BY DEF SaveNew, GrantSave, RevokeSave, UpdateSave, Save
<1>2. OthersStay(r) /\ cpc'[r] = "idle" /\ alone' = alone \ {r}
  BY <1>0, <1>1 DEF Return, ConsentTypeOK, OthersStay
<1>3. ASSUME NEW c, NoGrant(c) PROVE NoGrant(c)'
  BY <1>2, <1>3, GrantsKept DEF Granting
<1>4. AloneOK'
  BY <1>0, <1>2, <1>3 DEF AloneOK, OthersStay
<1>5. cfor[r] \in consumers /\ cfor[r] \in Consumers /\ cfor[r] # NoConsumer
  BY <1>0, <1>1, ConsentAssumption DEF CopiesStored, ConsentTypeOK
\* Nothing is withdrawn while a grant of the only consumer is under way.
<1>6. ASSUME ~overtaken, cpc[r] \in Granting PROVE withdrawn = {}
  <2> SUFFICES ASSUME NEW c \in withdrawn PROVE FALSE
    OBVIOUS
  <2>1. c \in Consumers /\ NoGrant(c) /\ \E a \in Aggregates : owner[a] = c
    BY <1>0, <1>6 DEF WithdrawnOK, ConsentTypeOK
  <2>2. c \in consumers
    BY <1>0, <2>1, ConsentAssumption DEF RowsTogether
  <2>3. c = cfor[r]
    BY <1>0, <1>5, <1>6, <2>2 DEF OneConsent
  <2> QED
    BY <1>6, <2>1, <2>3 DEF NoGrant
<1>7. CASE SaveNew(r)
  <2> SUFFICES ASSUME ~overtaken' PROVE OneConsent' /\ WithdrawnOK'
    BY <1>4
  <2>1. PICK a \in Aggregates :
          /\ owner[a] = NoConsumer
          /\ owner' = [owner EXCEPT ![a] = cfor[r]]
          /\ currentVersion' = [currentVersion EXCEPT ![a] = 1]
          /\ versions' = [versions EXCEPT ![a] = [versions[a] EXCEPT ![1] = cnew[r][1]]]
    BY <1>7 DEF SaveNew
  <2>2. ~overtaken /\ GetByConsumerAndType(cfor[r]) = {} /\ cpc[r] \in Granting /\ withdrawn' = withdrawn
    BY <1>7 DEF SaveNew, Granting
  <2>3. WithdrawnOK'
    BY <1>6, <2>2 DEF WithdrawnOK
  <2>4. ASSUME NEW b \in Aggregates PROVE owner[b] = NoConsumer
    BY <1>0, <1>5, <2>2 DEF OneConsent, RowsTogether, GetByConsumerAndType
  <2>5. /\ \A b \in Aggregates \ {a} : owner'[b] = NoConsumer
        /\ currentVersion'[a] = 1
    BY <1>0, <2>1, <2>4 DEF ConsentTypeOK
  <2>6. ASSUME NEW n \in Numbers, n > 1 PROVE versions'[a][n] = "none"
    <3>1. versions[a][n] = "none"
      BY <1>0, <2>1 DEF RowsTogether
    <3>2. n # 1
      BY <2>6, NumbersFacts
    <3>3. versions'[a] = [versions[a] EXCEPT ![1] = cnew[r][1]] /\ versions[a] \in [Numbers -> VersionStatus \union {"none"}]
      BY <1>0, <2>1 DEF ConsentTypeOK
    <3> QED
      BY <3>1, <3>2, <3>3
  <2>7. OneConsent'
    BY <1>0, <1>1, <2>2, <2>5, <2>6 DEF OneConsent
  <2> QED
    BY <2>3, <2>7
<1>8. CASE GrantSave(r)
  <2> SUFFICES ASSUME ~overtaken' PROVE OneConsent' /\ WithdrawnOK'
    BY <1>4
  <2>1. cpc[r] \in Saving /\ cpc[r] \in Granting /\ Save(r) /\ withdrawn' = withdrawn
    BY <1>8 DEF GrantSave, Saving, Granting
  <2>2. OneConsent' /\ ~overtaken
    BY <2>1, SaveBehindPointer
  <2>3. WithdrawnOK'
    BY <1>6, <2>1, <2>2 DEF WithdrawnOK
  <2> QED
    BY <2>2, <2>3
<1>9. CASE UpdateSave(r)
  <2>1. cpc[r] \in Saving /\ Save(r) /\ TakenBy(r) = AlreadyStored(r)
    BY <1>9 DEF UpdateSave, Saving
  <2> QED
    BY <1>4, <2>1, SaveBehindPointer
<1>10. CASE RevokeSave(r)
  <2> SUFFICES ASSUME ~overtaken' PROVE OneConsent' /\ WithdrawnOK'
    BY <1>4
  <2>1. /\ cpc[r] \in Saving /\ cpc[r] = "revoke" /\ Save(r) /\ owner' = owner
        /\ withdrawn' = IF r \in alone THEN withdrawn \union {cfor[r]} ELSE withdrawn
    BY <1>10 DEF RevokeSave, Saving, Save
  <2>2. OneConsent' /\ ~overtaken
    BY <2>1, SaveBehindPointer
  <2>3. PICK a \in Aggregates : /\ owner[a] = cfor[r] /\ owner[a] # NoConsumer
                                /\ currentVersion'[a] = cver[r] + Len(cnew[r])
                                /\ versions'[a][cver[r] + 1] = cnew[r][1]
    BY <2>1, SaveBehindPointer
  <2>4. Len(cnew[r]) = 1 /\ cnew[r][1] = "revoked"
    <3>1. cnew[r] = <<"revoked">>
      BY <1>0, <2>1 DEF CopiesStored
    <3> QED
      BY <3>1
  <2>5. owner'[a] = cfor[r] /\ versions'[a][currentVersion'[a]] = "revoked"
    BY <2>1, <2>3, <2>4
  <2>6. ASSUME NEW c \in withdrawn' PROVE c = cfor[r] /\ NoGrant(c)
    <3>1. CASE c \in withdrawn
      <4>1. c \in Consumers /\ NoGrant(c) /\ \E b \in Aggregates : owner[b] = c
        BY <1>0, <2>2, <3>1 DEF WithdrawnOK, ConsentTypeOK
      <4>2. c \in consumers
        BY <1>0, <4>1, ConsentAssumption DEF RowsTogether
      <4> QED
        BY <1>0, <1>5, <2>2, <4>1, <4>2 DEF OneConsent
    <3>2. CASE c \notin withdrawn
      BY <1>0, <2>1, <2>6, <3>2 DEF AloneOK
    <3> QED
      BY <3>1, <3>2
  <2>7. WithdrawnOK'
    BY <1>3, <2>5, <2>6 DEF WithdrawnOK
  <2> QED
    BY <2>2, <2>7
<1> QED
  BY <1>7, <1>8, <1>9, <1>10

LEMMA RevocationInductive ==
    ASSUME RevocationInv, [ConsentNext]_consentVars
    PROVE  RevocationInv'
<1>0. HistoryInv' /\ HistoryInv /\ AloneOK /\ (~overtaken => OneConsent /\ WithdrawnOK)
  BY HistoryInductive DEF RevocationInv
<1>1. CASE CreateConsumer \/ Lapse \/ UNCHANGED consentVars
  <2>1. /\ UNCHANGED <<owner, currentVersion, versions, cpc, cfor, alone, withdrawn>>
        /\ ~overtaken' => /\ ~overtaken
                          /\ OneConsent => \A c, d \in consumers' : c = d
    <3>1. CASE CreateConsumer
      <4>1. PICK c \in Consumers : consumers' = consumers \union {c}
        BY <3>1 DEF CreateConsumer
      <4>2. ~overtaken' => ~overtaken /\ consumers = {}
        BY <3>1 DEF CreateConsumer
      <4> QED
        BY <3>1, <4>1, <4>2 DEF CreateConsumer
    <3>2. CASE Lapse \/ UNCHANGED consentVars
      BY <3>2 DEF Lapse, consentVars, consentStore, OneConsent
    <3> QED
      BY <1>1, <3>1, <3>2
  <2>2. AloneOK'
    BY <1>0, <2>1 DEF AloneOK, NoGrant
  <2>3. ~overtaken' => OneConsent' /\ WithdrawnOK'
    BY <1>0, <2>1 DEF OneConsent, WithdrawnOK, NoGrant
  <2> QED
    BY <1>0, <2>2, <2>3 DEF RevocationInv
<1>2. ASSUME NEW r \in ConsentReqs, ConsentStep(r) PROVE RevocationInv'
  BY <1>0, <1>2, ReadStepRevocation, SaveStepRevocation DEF ConsentStep, RevocationInv
<1> QED
  BY <1>1, <1>2 DEF ConsentNext

LEMMA RevocationInitial == ConsentInit => RevocationInv
<1> SUFFICES ASSUME ConsentInit PROVE RevocationInv
  OBVIOUS
<1>1. AloneOK /\ OneConsent /\ WithdrawnOK
  BY DEF ConsentInit, AloneOK, OneConsent, WithdrawnOK
<1> QED
  BY <1>1, ConsentInitial DEF RevocationInv

LEMMA RevocationAnswers == RevocationInv => UncontestedRevocationHolds
<1> SUFFICES ASSUME RevocationInv, ~overtaken, NEW c \in withdrawn PROVE TRUE \notin CheckConsent
  BY DEF UncontestedRevocationHolds
<1>1. ConsentTypeOK /\ RowsTogether /\ OneConsent /\ WithdrawnOK
  BY DEF RevocationInv, HistoryInv
<1>2. PICK a \in Aggregates : owner[a] = c /\ versions[a][currentVersion[a]] = "revoked"
  BY <1>1 DEF WithdrawnOK
<1>3. c \in consumers /\ c # NoConsumer
  BY <1>1, <1>2, ConsentAssumption DEF RowsTogether, ConsentTypeOK
<1>4. consumers = {c} /\ GetByConsumerAndType(c) = {a}
  BY <1>1, <1>2, <1>3 DEF OneConsent, GetByConsumerAndType
<1>5. IsActive(a) = FALSE
  BY <1>2 DEF IsActive
<1>6. {IsActive(b) : b \in GetByConsumerAndType(c)} = {FALSE} /\ GetByConsumerAndType(c) # {}
  <2>1. {IsActive(b) : b \in {a}} = {IsActive(a)}
    BY Zenon
  <2> QED
    BY <1>4, <1>5, <2>1, Zenon
<1>7. CheckConsent = UNION {{FALSE}}
  BY <1>4, <1>6 DEF CheckConsent
<1> QED
  BY <1>7

\* Until a new grant begins, an acknowledged revocation of a number with one
\* consent holds, unless a save was overtaken (RevokeConsent, CheckConsent).
THEOREM RevocationsHold == ConsentSpec => []UncontestedRevocationHolds
<1>1. RevocationInv /\ [ConsentNext]_consentVars => RevocationInv'
  BY RevocationInductive
<1> QED
  BY <1>1, RevocationInitial, RevocationAnswers, PTL DEF ConsentSpec
-----------------------------------------------------------------------------
(* Calls.  Every request holds a copy of one row; what the copy says stays   *)
(* true because a row is never deleted, its seller never changes, a bid that *)
(* buyer routing accepted stays in the history, and the leg of a call        *)
(* telephony placed never comes back.                                        *)

Pcs == {"idle", "read", "consent", "bids", "claim", "accept", "assign", "handOver", "queue",
        "dial", "recordSid", "hangup", "recordEnd", "poll", "recordPoll"}
Ops == {"none", "route", "buyer", "execute", "distribute", "initiate", "terminate", "status"}
Written == ActiveStatus \union EndedStatus \union {"busy", "canceled"}
Buyers == Bids \union {Caller, Nobody}

LocalTypeOK ==
    /\ xpc \in [CallReqs -> Pcs]
    /\ xop \in [CallReqs -> Ops]
    /\ xcall \in [CallReqs -> SUBSET Calls]
    /\ xbid \in [CallReqs -> SUBSET Bids]
    /\ xbuyer \in [CallReqs -> Buyers]
    /\ xsid \in [CallReqs -> BOOLEAN]
    /\ xst \in [CallReqs -> Written \union {"none"}]
    /\ barred \subseteq CallReqs

WorldTypeOK ==
    /\ callStatus \in [Calls -> ActiveStatus \union EndedStatus \union {"none"}]
    /\ callBuyer \in [Calls -> Buyers]
    /\ callSeller \subseteq Calls /\ callSid \subseteq Calls
    /\ leg \in [Calls -> {"none", "live", "ended"}]
    /\ activeCalls \subseteq Calls /\ tracked \subseteq Calls
    /\ claims \in [Calls -> Nat]
    /\ accepted \in [Calls -> SUBSET Bids]

BidTypeOK ==
    /\ bidStatus \in [Bids -> BidStatus]
    /\ bidCall \in [Bids -> SUBSET Calls]
    /\ edits \in [BidReqs -> SUBSET (Bids \X BidStatus)]
    /\ winner \in [Calls -> SUBSET Bids] /\ losers \in [Calls -> SUBSET Bids]

\* What the steps of request q on call c rest on.
At(q, c) ==
    /\ xcall[q] = {c} /\ callStatus[c] # "none"
    /\ xsid[q] => leg[c] # "none" /\ c \notin callSeller
    /\ xpc[q] \in {"poll", "recordSid"} => leg[c] # "none"
    /\ xpc[q] \in {"dial", "poll", "recordSid", "recordEnd", "recordPoll"} => c \notin callSeller
    /\ xpc[q] = "dial" => leg[c] = "none"
    /\ xpc[q] = "recordEnd" => leg[c] = "ended"
    /\ xpc[q] = "recordPoll" => xst[q] \in Written /\ (xst[q] \in ActiveStatus \/ leg[c] = "ended")
    /\ xbuyer[q] \in Bids => xbuyer[q] \in accepted[c]
    /\ xpc[q] \in {"claim", "accept", "assign", "handOver"} =>
          /\ xop[q] # "route" => c \in callSeller
          /\ \E b \in Bids : /\ xbid[q] = {b}
                             /\ xpc[q] \in {"assign", "handOver"} => b \in accepted[c] /\ xop[q] # "route"

RequestsOK == \A q \in CallReqs : xpc[q] # "idle" => \E c \in Calls : At(q, c)

\* A request that has ended left no copy behind.
IdleClean == \A q \in CallReqs : xpc[q] = "idle" => ~xsid[q]

\* One request dials a call.
OneDials ==
    \A p, q \in CallReqs : (p # q /\ xpc[p] = "dial" /\ xpc[q] = "dial") => xcall[p] # xcall[q]

RowOK(c) ==
    /\ callStatus[c] = "none" => leg[c] = "none" /\ c \notin callSeller
    /\ c \in callSid => leg[c] # "none" /\ c \notin callSeller
    /\ (c \in callSid /\ callStatus[c] \in EndedStatus) => leg[c] = "ended"
    /\ callBuyer[c] \in Bids => callBuyer[c] \in accepted[c]
    /\ claims[c] <= 1
    /\ claims[c] # 0 => c \in callSeller /\ callStatus[c] \notin {"none", "pending"}

RowsOK == \A c \in Calls : RowOK(c)

\* Request q claimed call c for a buyer and has not stored the bid yet.
Claimer(q, c) == xop[q] # "route" /\ xpc[q] = "accept" /\ xcall[q] = {c}

\* One claim, one claimer, one accepted bid.
ClaimOK(c) ==
    /\ claims[c] = 0 => accepted[c] = {}
    /\ \A q \in CallReqs : Claimer(q, c) => claims[c] # 0 /\ accepted[c] = {}
    /\ \A p, q \in CallReqs : Claimer(p, c) /\ Claimer(q, c) => p = q
    /\ \A a, b \in accepted[c] : a = b

ClaimsOK == \A c \in Calls : ClaimOK(c)

CallInv ==
    LocalTypeOK /\ WorldTypeOK /\ RequestsOK /\ IdleClean /\ OneDials /\ RowsOK /\ ClaimsOK

\* What no step undoes; a leg is opened only for a call of D.
WorldMoves(D) ==
    \A c \in Calls : /\ leg[c] = "ended" /\ c \notin callSeller => leg'[c] = "ended"
                     /\ leg[c] # "none" => leg'[c] # "none"
                     /\ leg[c] = "none" => (leg'[c] = "none" \/ c \in D)
                     /\ callStatus[c] # "none" => callStatus'[c] # "none" /\ (c \in callSeller' <=> c \in callSeller)
                     /\ accepted[c] \subseteq accepted'[c]

SameAt(p) ==
    /\ xpc'[p] = xpc[p] /\ xcall'[p] = xcall[p] /\ xbid'[p] = xbid[p] /\ xop'[p] = xop[p]
    /\ xbuyer'[p] = xbuyer[p] /\ xsid'[p] = xsid[p] /\ xst'[p] = xst[p]

OthersSame(q) == \A p \in CallReqs \ {q} : SameAt(p)

\* What a status is once stored.
LEMMA StoredStatus ==
    ASSUME NEW st \in Written
    PROVE  /\ mapStatusToEnum(st) \in ActiveStatus \union EndedStatus
           /\ st \in ActiveStatus => mapStatusToEnum(st) = st
           /\ st \notin ActiveStatus => mapStatusToEnum(st) \in EndedStatus
           /\ mapStatusToEnum(st) = "pending" => st = "pending"
           /\ mapStatusToEnum(st) \notin {"none"}
  BY DEF Written, ActiveStatus, EndedStatus, mapStatusToEnum

\* A request that is not the one that moves keeps what it rests on.
LEMMA OtherRequest ==
    ASSUME CallInv, NEW D, NEW p \in CallReqs, WorldMoves(D), SameAt(p), xpc'[p] # "idle",
           xpc[p] = "dial" => xcall[p] \intersect D = {}
    PROVE  \E c \in Calls : At(p, c)'
<1>1. PICK c \in Calls : At(p, c)
  BY DEF CallInv, RequestsOK, SameAt
<1>2. xpc[p] = "dial" => leg'[c] = "none"
  BY <1>1 DEF At, WorldMoves
<1>3. /\ xcall'[p] = {c} /\ callStatus'[c] # "none"
      /\ xsid'[p] => leg'[c] # "none" /\ c \notin callSeller'
      /\ xpc'[p] \in {"poll", "recordSid"} => leg'[c] # "none"
      /\ xpc'[p] \in {"dial", "poll", "recordSid", "recordEnd", "recordPoll"} => c \notin callSeller'
      /\ xpc'[p] = "dial" => leg'[c] = "none"
      /\ xpc'[p] = "recordEnd" => leg'[c] = "ended"
      /\ xpc'[p] = "recordPoll" => xst'[p] \in Written /\ (xst'[p] \in ActiveStatus \/ leg'[c] = "ended")
      /\ xbuyer'[p] \in Bids => xbuyer'[p] \in accepted'[c]
  BY <1>1, <1>2 DEF At, SameAt, WorldMoves
<1>4. xpc'[p] \in {"claim", "accept", "assign", "handOver"} =>
          /\ xop'[p] # "route" => c \in callSeller'
          /\ \E b \in Bids : /\ xbid'[p] = {b}
                             /\ xpc'[p] \in {"assign", "handOver"} => b \in accepted'[c] /\ xop'[p] # "route"
  BY <1>1 DEF At, SameAt, WorldMoves
<1> QED
  BY <1>3, <1>4 DEF At

\* So a step of q is a matter of q.
LEMMA RequestStep ==
    ASSUME CallInv, NEW D, NEW q \in CallReqs, WorldMoves(D), OthersSame(q),
           \A p \in CallReqs \ {q} : xpc[p] = "dial" => xcall[p] \intersect D = {},
           xpc'[q] # "idle" => \E c \in Calls : At(q, c)',
           xpc'[q] = "dial" => \A p \in CallReqs \ {q} : xpc[p] = "dial" => xcall[p] # xcall'[q],
           xpc'[q] = "idle" => ~xsid'[q]
    PROVE  RequestsOK' /\ IdleClean' /\ OneDials'
<1>1. RequestsOK'
  BY OtherRequest DEF RequestsOK, OthersSame
<1>2. OneDials'
  BY DEF CallInv, OneDials, OthersSame, SameAt
<1>3. IdleClean'
  BY DEF CallInv, IdleClean, OthersSame, SameAt
<1> QED
  BY <1>1, <1>2, <1>3

\* And one of no request leaves them all as they are.
LEMMA NoRequestStep ==
    ASSUME CallInv, WorldMoves({}), UNCHANGED <<xpc, xop, callLocal>>
    PROVE  RequestsOK' /\ IdleClean' /\ OneDials' /\ \A p \in CallReqs : SameAt(p)
<1>1. \A p \in CallReqs : SameAt(p)
  BY DEF SameAt, callLocal
<1>2. RequestsOK'
  BY <1>1, OtherRequest DEF RequestsOK
<1>3. OneDials' /\ IdleClean'
  BY DEF CallInv, OneDials, IdleClean, callLocal
<1> QED
  BY <1>1, <1>2, <1>3

\* No claim and no bid accepted: nothing changes for the claims if no request
\* comes to the place after the claim.
LEMMA ClaimsKept ==
    ASSUME CallInv, UNCHANGED <<claims, accepted>>,
           \A p \in CallReqs : xpc'[p] = "accept" => SameAt(p)
    PROVE  ClaimsOK'
<1>1. ASSUME NEW p \in CallReqs, NEW c \in Calls, Claimer(p, c)' PROVE Claimer(p, c)
  BY <1>1 DEF Claimer, SameAt
<1> SUFFICES ASSUME NEW c \in Calls PROVE ClaimOK(c)'
  BY DEF ClaimsOK
<1>2. ClaimOK(c)
  BY DEF CallInv, ClaimsOK
<1> QED
  BY <1>1, <1>2 DEF ClaimOK

LEMMA FinishEffect ==
    ASSUME LocalTypeOK, NEW q \in CallReqs, Finish(q)
    PROVE  LocalTypeOK' /\ OthersSame(q) /\ xpc'[q] = "idle" /\ ~xsid'[q]
  BY DEF LocalTypeOK, Finish, OthersSame, SameAt, Pcs, Ops, Buyers

LEMMA GotoEffect ==
    ASSUME LocalTypeOK, NEW q \in CallReqs, NEW pc \in Pcs, Goto(q, pc)
    PROVE  /\ LocalTypeOK' /\ OthersSame(q) /\ xpc'[q] = pc /\ xop'[q] = xop[q]
           /\ xcall'[q] = xcall[q] /\ xbid'[q] = xbid[q] /\ xbuyer'[q] = xbuyer[q]
           /\ xsid'[q] = xsid[q] /\ xst'[q] = xst[q]
  BY DEF LocalTypeOK, Goto, OthersSame, SameAt

\* The row after it was written.
LEMMA RowWritten ==
    ASSUME WorldTypeOK, NEW c \in Calls, NEW st \in Written, NEW x \in Buyers, NEW sid \in BOOLEAN,
           UpdateRow(c, st, x, sid)
    PROVE  /\ callStatus' \in [Calls -> ActiveStatus \union EndedStatus \union {"none"}]
           /\ callBuyer' \in [Calls -> Buyers]
           /\ callSeller' = callSeller /\ callSid' \subseteq Calls
           /\ callStatus'[c] = mapStatusToEnum(st) /\ callBuyer'[c] = x
           /\ callStatus'[c] # "none"
           /\ c \in callSid' <=> sid
           /\ \A d \in Calls \ {c} : /\ callStatus'[d] = callStatus[d] /\ callBuyer'[d] = callBuyer[d]
                                     /\ d \in callSid' <=> d \in callSid
<1>1. mapStatusToEnum(st) \in ActiveStatus \union EndedStatus /\ mapStatusToEnum(st) # "none"
  BY StoredStatus
<1> QED
  BY <1>1 DEF UpdateRow, WorldTypeOK

\* A call that was not touched stays well formed.
LEMMA OtherRow ==
    ASSUME WorldTypeOK, NEW D, NEW d \in Calls, RowOK(d), WorldMoves(D),
           callStatus'[d] = callStatus[d], callBuyer'[d] = callBuyer[d], d \in callSid' <=> d \in callSid,
           callStatus[d] = "none" => leg'[d] = "none", d \in callSeller' <=> d \in callSeller,
           claims'[d] = claims[d]
    PROVE  RowOK(d)'
<1>1. /\ callStatus'[d] = "none" => leg'[d] = "none" /\ d \notin callSeller'
      /\ d \in callSid' => leg'[d] # "none" /\ d \notin callSeller'
      /\ (d \in callSid' /\ callStatus'[d] \in EndedStatus) => leg'[d] = "ended"
  BY DEF RowOK, WorldMoves, WorldTypeOK
<1>2. callBuyer'[d] \in Bids => callBuyer'[d] \in accepted'[d]
  BY DEF RowOK, WorldMoves
<1>3. /\ claims'[d] <= 1
      /\ claims'[d] # 0 => d \in callSeller' /\ callStatus'[d] \notin {"none", "pending"}
  BY DEF RowOK
<1> QED
  BY <1>1, <1>2, <1>3 DEF RowOK

\* Nothing was written: all rows stay well formed.
LEMMA RowsSame ==
    ASSUME CallInv, NEW D, WorldMoves(D), UNCHANGED <<callRow, claims>>,
           \A c \in Calls : callStatus[c] = "none" => leg'[c] = "none"
    PROVE  RowsOK'
<1>1. UNCHANGED <<callStatus, callBuyer, callSid, callSeller>>
  BY DEF callRow
<1> SUFFICES ASSUME NEW d \in Calls PROVE RowOK(d)'
  BY DEF RowsOK
<1> QED
  BY <1>1, OtherRow DEF CallInv, RowsOK

\* A write that no claim goes with.
LEMMA RowsWritten ==
    ASSUME CallInv, NEW D, NEW c \in Calls, NEW st \in Written, NEW x \in Buyers, NEW sid \in BOOLEAN,
           UpdateRow(c, st, x, sid), WorldMoves(D),
           sid => leg'[c] # "none" /\ c \notin callSeller,
           sid /\ st \notin ActiveStatus => leg'[c] = "ended",
           x \in Bids => x \in accepted[c],
           st = "pending" => c \notin callSeller,
           \A d \in Calls : callStatus[d] = "none" => leg'[d] = "none",
           claims' = claims
    PROVE  RowsOK'
<1>1. /\ callStatus'[c] = mapStatusToEnum(st) /\ callBuyer'[c] = x
      /\ callStatus'[c] # "none" /\ callSeller' = callSeller
      /\ c \in callSid' <=> sid
      /\ \A d \in Calls \ {c} : /\ callStatus'[d] = callStatus[d] /\ callBuyer'[d] = callBuyer[d]
                                /\ d \in callSid' <=> d \in callSid
  BY RowWritten DEF CallInv
<1>2. ASSUME NEW d \in Calls \ {c} PROVE RowOK(d)'
  BY <1>1, <1>2, OtherRow DEF CallInv, RowsOK
<1>3. RowOK(c)'
  <2>1. (c \in callSid' /\ callStatus'[c] \in EndedStatus) => leg'[c] = "ended"
    <3>1. st \in ActiveStatus => mapStatusToEnum(st) \notin EndedStatus
      BY StoredStatus DEF ActiveStatus, EndedStatus
    <3> QED
      BY <1>1, <3>1
  <2>2. c \in callSeller => callStatus'[c] \notin {"none", "pending"}
    BY <1>1, StoredStatus
  <2>3. claims'[c] <= 1 /\ (claims'[c] # 0 => c \in callSeller)
    BY DEF CallInv, RowsOK, RowOK
  <2>4. callBuyer'[c] \in Bids => callBuyer'[c] \in accepted'[c]
    BY <1>1 DEF WorldMoves
  <2> QED
    BY <1>1, <2>1, <2>2, <2>3, <2>4 DEF RowOK
<1> QED
  BY <1>2, <1>3 DEF RowsOK

\* The shared state stands still.
LEMMA WorldStill ==
    ASSUME CallInv, NEW D, UNCHANGED <<leg, callRow, accepted>>
    PROVE  WorldMoves(D)
  BY DEF WorldMoves, callRow

\* A step that leaves the rows and the legs alone.
LEMMA QuietStep ==
    ASSUME CallInv, NEW q \in CallReqs, LocalTypeOK', OthersSame(q),
           UNCHANGED <<callRow, leg, activeCalls, tracked, callHistory>>,
           xpc'[q] \notin {"accept", "dial"},
           xpc'[q] # "idle" => \E c \in Calls : At(q, c)',
           xpc'[q] = "idle" => ~xsid'[q]
    PROVE  CallInv'
<1>1. WorldMoves({})
  BY WorldStill DEF callHistory
<1>2. RequestsOK' /\ IdleClean' /\ OneDials'
  BY <1>1, RequestStep
<1>3. WorldTypeOK'
  BY DEF CallInv, WorldTypeOK, callRow, callHistory
<1>4. RowsOK'
  <2>1. \A c \in Calls : callStatus[c] = "none" => leg'[c] = "none"
    BY DEF CallInv, RowsOK, RowOK
  <2> QED
    BY <1>1, <2>1, RowsSame DEF callHistory
<1>5. ClaimsOK'
  BY ClaimsKept DEF callHistory, OthersSame
<1> QED
  BY <1>2, <1>3, <1>4, <1>5 DEF CallInv

\* A request begins with a copy of a row.
LEMMA ReadStart ==
    ASSUME CallInv, NEW q \in CallReqs, NEW c \in Calls, NEW op \in Ops,
           NEW pc \in {"consent", "bids", "read", "queue", "hangup", "poll"},
           StartOp(q, op, c, pc), ReadRow(q, c), pc = "poll" => c \in callSid, callStatus[c] # "none",
           xst' \in [CallReqs -> Written \union {"none"}],
           \A p \in CallReqs \ {q} : xst'[p] = xst[p],
           xbid' = xbid, barred' \subseteq CallReqs, UNCHANGED <<callRow, callWorld, callHistory>>
    PROVE  CallInv'
<1>0. UNCHANGED <<callStatus, callSeller, callSid, leg, activeCalls, tracked, accepted>>
  BY DEF callRow, callWorld, callHistory
<1>1. callBuyer[c] \in Buyers /\ RowOK(c) /\ LocalTypeOK
  BY DEF CallInv, WorldTypeOK, RowsOK
<1>2. /\ xsid' \in [CallReqs -> BOOLEAN] /\ (xsid'[q] <=> c \in callSid)
      /\ \A p \in CallReqs \ {q} : xsid'[p] = xsid[p]
  <2>1. xsid \in [CallReqs -> BOOLEAN] /\ xsid' = [xsid EXCEPT ![q] = c \in callSid]
    BY <1>1 DEF LocalTypeOK, ReadRow
  <2>2. CASE c \in callSid
    <3>1. xsid' = [xsid EXCEPT ![q] = TRUE]
      BY <2>1, <2>2
    <3> QED
      BY <2>1, <2>2, <3>1
  <2>3. CASE c \notin callSid
    <3>0. (c \in callSid) = FALSE
      BY <2>3
    <3>1. xsid' = [xsid EXCEPT ![q] = FALSE]
      BY <2>1, <3>0
    <3> QED
      BY <2>1, <2>3, <3>1
  <2> QED
    BY <2>2, <2>3
<1>3. /\ xbuyer' \in [CallReqs -> Buyers] /\ xbuyer'[q] = callBuyer[c]
      /\ \A p \in CallReqs \ {q} : xbuyer'[p] = xbuyer[p]
  BY <1>1 DEF LocalTypeOK, ReadRow
<1>4. /\ xpc' \in [CallReqs -> Pcs] /\ xop' \in [CallReqs -> Ops] /\ xcall' \in [CallReqs -> SUBSET Calls]
      /\ xpc[q] = "idle" /\ xpc'[q] = pc /\ xcall'[q] = {c}
      /\ \A p \in CallReqs \ {q} : xpc'[p] = xpc[p] /\ xcall'[p] = xcall[p] /\ xop'[p] = xop[p]
  BY <1>1 DEF LocalTypeOK, StartOp, Pcs
<1>5. LocalTypeOK' /\ OthersSame(q)
  BY <1>1, <1>2, <1>3, <1>4 DEF LocalTypeOK, OthersSame, SameAt
<1>6. At(q, c)'
  BY <1>0, <1>1, <1>2, <1>3, <1>4 DEF At, RowOK
<1> QED
  BY <1>0, <1>4, <1>5, <1>6, QuietStep

LEMMA ReadStartsKeep ==
    ASSUME CallInv, NEW q \in CallReqs, NEW c \in Calls,
           \/ RouteCall(q, c) \/ RouteCallToBuyer(q, c) \/ ExecuteCallRouting(q, c)
           \/ DistributeCall(q, c) \/ TerminateCall(q, c) \/ GetCallStatus(q, c)
    PROVE  CallInv'
<1>0. LocalTypeOK
  BY DEF CallInv
<1>1. CASE \/ RouteCall(q, c) \/ RouteCallToBuyer(q, c) \/ ExecuteCallRouting(q, c)
           \/ DistributeCall(q, c) \/ TerminateCall(q, c)
  <2>1. \E op \in Ops, pc \in {"consent", "bids", "read", "queue", "hangup"} : StartOp(q, op, c, pc)
    BY <1>1 DEF Ops, RouteCall, RouteCallToBuyer, ExecuteCallRouting, DistributeCall, TerminateCall
  <2>2. ReadRow(q, c) /\ xst' = xst /\ xbid' = xbid /\ UNCHANGED <<callRow, callWorld, callHistory>>
    BY <1>1 DEF RouteCall, RouteCallToBuyer, ExecuteCallRouting, DistributeCall, TerminateCall
  <2>3. barred' \subseteq CallReqs
    BY <1>0, <1>1 DEF LocalTypeOK, RouteCall, RouteCallToBuyer, ExecuteCallRouting, DistributeCall, TerminateCall
  <2>4. xst' \in [CallReqs -> Written \union {"none"}] /\ \A p \in CallReqs \ {q} : xst'[p] = xst[p]
    BY <1>0, <2>2 DEF LocalTypeOK
  <2>5. callStatus[c] # "none"
    BY <1>1 DEF RouteCall, RouteCallToBuyer, ExecuteCallRouting, DistributeCall, TerminateCall, Distributable, ActiveStatus
  <2> QED
    BY <2>1, <2>2, <2>3, <2>4, <2>5, ReadStart
<1>2. CASE GetCallStatus(q, c)
  <2>1. StartOp(q, "status", c, "poll") /\ ReadRow(q, c) /\ c \in callSid /\ xbid' = xbid
        /\ UNCHANGED <<callRow, callWorld, callHistory>> /\ "status" \in Ops /\ callStatus[c] # "none"
    BY <1>2 DEF GetCallStatus, Ops, ActiveStatus
  <2>2. barred' \subseteq CallReqs
    BY <1>0, <1>2 DEF LocalTypeOK, GetCallStatus
  <2>3. xst' \in [CallReqs -> Written \union {"none"}] /\ \A p \in CallReqs \ {q} : xst'[p] = xst[p]
    BY <1>0, <1>2 DEF LocalTypeOK, GetCallStatus, Written
  <2> QED
    BY <2>1, <2>2, <2>3, ReadStart
<1> QED
  BY <1>1, <1>2

\* A request goes on without a write, or ends.
LEMMA GoingOnKeeps ==
    ASSUME CallInv, NEW q \in CallReqs,
           RouteRead(q) \/ Route(q) \/ GiveUp(q) \/ ConsentGiven(q) \/ Poll(q) \/ AcceptFails(q)
    PROVE  CallInv'
<1>0. LocalTypeOK /\ WorldTypeOK /\ UNCHANGED <<callRow, callWorld, callHistory>>
  BY DEF CallInv, RouteRead, Route, GiveUp, ConsentGiven, Poll, AcceptFails
<1>a. /\ UNCHANGED <<callRow, leg, activeCalls, tracked, callHistory>>
      /\ UNCHANGED <<callStatus, callBuyer, callSeller, callSid, accepted>>
  BY <1>0 DEF callRow, callWorld, callHistory
<1>1. ASSUME Finish(q) PROVE CallInv'
  BY <1>0, <1>a, <1>1, FinishEffect, QuietStep
<1>2. CASE GiveUp(q) \/ AcceptFails(q)
  BY <1>1, <1>2 DEF GiveUp, AcceptFails
<1>3. CASE RouteRead(q) \/ ConsentGiven(q)
  <2>1. xpc[q] \in {"read", "consent"} /\ Goto(q, "bids")
    BY <1>3 DEF RouteRead, ConsentGiven
  <2>2. PICK c \in Calls : At(q, c)
    BY <2>1 DEF CallInv, RequestsOK
  <2>3. /\ LocalTypeOK' /\ OthersSame(q) /\ xpc'[q] = "bids"
        /\ xcall'[q] = xcall[q] /\ xbid'[q] = xbid[q] /\ xbuyer'[q] = xbuyer[q]
        /\ xsid'[q] = xsid[q] /\ xst'[q] = xst[q]
    BY <1>0, <2>1, GotoEffect DEF Pcs
  <2>4. At(q, c)'
    BY <1>a, <2>1, <2>2, <2>3 DEF At
  <2> QED
    BY <1>a, <2>3, <2>4, QuietStep
<1>4. CASE Route(q)
  <2>1. PICK c \in Calls : At(q, c)
    BY <1>4 DEF CallInv, RequestsOK, Route
  <2>2. PICK b \in Bids : b \in OpenBids(c) /\ xbid' = [xbid EXCEPT ![q] = {b}]
    BY <1>4, <2>1 DEF Route, At, OpenBids
  <2>3. /\ xpc[q] = "bids" /\ xpc' = [xpc EXCEPT ![q] = "claim"]
        /\ UNCHANGED <<xop, xcall, xbuyer, xsid, xst, barred>>
        /\ xop[q] # "route" => c \in callSeller
    BY <1>4, <2>1 DEF Route, At
  <2>4. LocalTypeOK' /\ OthersSame(q) /\ xpc'[q] = "claim" /\ xbid'[q] = {b}
    BY <1>0, <2>2, <2>3 DEF LocalTypeOK, OthersSame, SameAt, Pcs
  <2>5. At(q, c)'
    BY <1>a, <2>1, <2>2, <2>3, <2>4 DEF At
  <2> QED
    BY <1>a, <2>4, <2>5, QuietStep
<1>5. CASE Poll(q)
  <2>1. PICK c \in Calls : At(q, c)
    BY <1>5 DEF CallInv, RequestsOK, Poll
  <2>2. PICK st \in mapProviderStatus(leg[c]) :
           IF st # xst[q]
           THEN /\ xst' = [xst EXCEPT ![q] = st]
                /\ xpc' = [xpc EXCEPT ![q] = "recordPoll"]
                /\ UNCHANGED <<xop, xcall, xbid, xbuyer, xsid, barred>>
           ELSE Finish(q)
    BY <1>5, <2>1 DEF Poll, At
  <2>3. xpc[q] = "poll"
    BY <1>5 DEF Poll
  <2>4. leg[c] \in {"live", "ended"}
    BY <1>0, <2>1, <2>3 DEF WorldTypeOK, At
  <2>5. st \in Written /\ (st \in ActiveStatus \/ leg[c] = "ended")
    BY <2>4 DEF mapProviderStatus, Written, ActiveStatus, EndedStatus
  <2>6. CASE st = xst[q]
    BY <1>1, <2>2, <2>6
  <2>7. CASE st # xst[q]
    <3>1. LocalTypeOK' /\ OthersSame(q) /\ xpc'[q] = "recordPoll" /\ xst'[q] = st
          /\ xcall'[q] = xcall[q] /\ xbid'[q] = xbid[q] /\ xbuyer'[q] = xbuyer[q] /\ xsid'[q] = xsid[q]
      BY <1>0, <2>2, <2>5, <2>7 DEF LocalTypeOK, OthersSame, SameAt, Pcs
    <3>2. At(q, c)'
      BY <1>a, <2>1, <2>3, <2>5, <3>1 DEF At
    <3> QED
      BY <1>a, <3>1, <3>2, QuietStep
  <2> QED
    BY <2>6, <2>7
<1> QED
  BY <1>2, <1>3, <1>4, <1>5

\* A request that writes its call's row and then ends, or goes on to hand over.
LEMMA WriteStep ==
    ASSUME CallInv, NEW D, NEW q \in CallReqs, NEW c \in Calls, WorldMoves(D),
           LocalTypeOK', OthersSame(q), xpc'[q] \notin {"dial", "accept"}, xpc'[q] = "idle" => ~xsid'[q],
           xpc'[q] # "idle" => At(q, c)',
           \A p \in CallReqs \ {q} : xpc[p] = "dial" => xcall[p] \intersect D = {},
           leg' \in [Calls -> {"none", "live", "ended"}], activeCalls' \subseteq Calls,
           UNCHANGED <<tracked, claims, accepted>>,
           \A d \in Calls : callStatus[d] = "none" => leg'[d] = "none",
           NEW st \in Written, NEW x \in Buyers, NEW sid \in BOOLEAN, UpdateRow(c, st, x, sid),
           sid => leg'[c] # "none" /\ c \notin callSeller,
           sid /\ st \notin ActiveStatus => leg'[c] = "ended",
           x \in Bids => x \in accepted[c],
           st = "pending" => c \notin callSeller
    PROVE  CallInv'
<1>1. WorldTypeOK
  BY DEF CallInv
<1>2. RequestsOK' /\ IdleClean' /\ OneDials'
  BY RequestStep
<1>3. RowsOK'
  BY RowsWritten
<1>4. WorldTypeOK'
  <2>1. /\ callStatus' \in [Calls -> ActiveStatus \union EndedStatus \union {"none"}]
        /\ callBuyer' \in [Calls -> Buyers]
        /\ callSeller' = callSeller /\ callSid' \subseteq Calls
    BY <1>1, RowWritten
  <2> QED
    BY <1>1, <2>1 DEF WorldTypeOK
<1>5. ClaimsOK'
  BY ClaimsKept DEF OthersSame
<1> QED
  BY <1>2, <1>3, <1>4, <1>5 DEF CallInv

\* The writes of seller distribution, the orchestrator and telephony, where
\* the provider's side does not move.
LEMMA WritesKeep ==
    ASSUME CallInv, NEW q \in CallReqs,
           AssignBuyer(q) \/ QueueForSellers(q) \/ RecordSid(q) \/ RecordEnd(q) \/ RecordPoll(q)
    PROVE  CallInv'
<1>0. /\ xpc[q] \in {"assign", "queue", "recordSid", "recordEnd", "recordPoll"}
      /\ UNCHANGED <<leg, tracked, claims, accepted>>
      /\ Finish(q) \/ (xpc[q] = "assign" /\ Goto(q, "handOver"))
  BY DEF AssignBuyer, QueueForSellers, RecordSid, RecordEnd, RecordPoll, callWorld, callHistory
<1>1. PICK c \in Calls : At(q, c)
  BY <1>0 DEF CallInv, RequestsOK
<1>2. LocalTypeOK /\ WorldTypeOK
  BY DEF CallInv
<1>3. /\ xcall[q] = {c} /\ xbuyer[q] \in Buyers /\ xsid[q] \in BOOLEAN
      /\ xsid[q] => leg[c] # "none" /\ c \notin callSeller
      /\ xbuyer[q] \in Bids => xbuyer[q] \in accepted[c]
  BY <1>1, <1>2 DEF At, LocalTypeOK
<1>4. PICK st \in Written, x \in Buyers, sid \in BOOLEAN :
        /\ UpdateRow(c, st, x, sid)
        /\ sid => leg[c] # "none" /\ c \notin callSeller
        /\ sid /\ st \notin ActiveStatus => leg[c] = "ended"
        /\ x \in Bids => x \in accepted[c]
        /\ st = "pending" => c \notin callSeller
        /\ activeCalls' \subseteq Calls
  <2>0. /\ "queued" \in Written /\ "queued" \in ActiveStatus /\ "canceled" \in Written
        /\ TRUE \in BOOLEAN /\ activeCalls \subseteq Calls
    BY <1>2 DEF Written, ActiveStatus, WorldTypeOK
  <2>1. CASE AssignBuyer(q)
    <3>1. PICK b \in Bids : UpdateRow(c, "queued", b, xsid[q]) /\ b \in accepted[c]
      BY <1>1, <1>3, <2>1 DEF AssignBuyer, At
    <3>2. activeCalls' = activeCalls /\ b \in Buyers
      BY <2>1 DEF AssignBuyer, callWorld, Buyers
    <3> QED
      BY <1>3, <2>0, <3>1, <3>2
  <2>2. CASE QueueForSellers(q)
    <3>1. UpdateRow(c, "queued", xbuyer[q], xsid[q]) /\ activeCalls' = activeCalls
      BY <1>3, <2>2 DEF QueueForSellers, callWorld
    <3> QED
      BY <1>3, <2>0, <3>1
  <2>3. CASE RecordSid(q)
    <3>1. UpdateRow(c, "queued", xbuyer[q], TRUE) /\ activeCalls' = activeCalls \union {c}
      BY <1>3, <2>3 DEF RecordSid
    <3>2. leg[c] # "none" /\ c \notin callSeller
      BY <1>1, <2>3 DEF At, RecordSid
    <3> QED
      BY <1>3, <2>0, <3>1, <3>2
  <2>4. CASE RecordEnd(q)
    <3>1. UpdateRow(c, "canceled", xbuyer[q], xsid[q]) /\ activeCalls' = activeCalls \ {c}
      BY <1>3, <2>4 DEF RecordEnd
    <3>2. leg[c] = "ended"
      BY <1>1, <2>4 DEF At, RecordEnd
    <3> QED
      BY <1>3, <2>0, <3>1, <3>2
  <2>5. CASE RecordPoll(q)
    <3>1. UpdateRow(c, xst[q], xbuyer[q], xsid[q]) /\ activeCalls' = activeCalls
      BY <1>3, <2>5 DEF RecordPoll, callWorld
    <3>2. xst[q] \in Written /\ (xst[q] \in ActiveStatus \/ leg[c] = "ended") /\ c \notin callSeller
      BY <1>1, <2>5 DEF At, RecordPoll
    <3> QED
      BY <1>3, <2>0, <3>1, <3>2
  <2> QED
    BY <2>1, <2>2, <2>3, <2>4, <2>5
<1>5. callSeller' = callSeller /\ callStatus'[c] # "none" /\ \A d \in Calls : callStatus[d] # "none" => callStatus'[d] # "none"
  BY <1>2, <1>4, RowWritten
<1>6. WorldMoves({})
  BY <1>0, <1>5 DEF WorldMoves
<1>7. \A d \in Calls : callStatus[d] = "none" => leg'[d] = "none"
  BY <1>0 DEF CallInv, RowsOK, RowOK
<1>8. leg' \in [Calls -> {"none", "live", "ended"}]
  BY <1>0, <1>2 DEF WorldTypeOK
<1>9. /\ LocalTypeOK' /\ OthersSame(q) /\ xpc'[q] \in {"idle", "handOver"} /\ (xpc'[q] = "idle" => ~xsid'[q])
      /\ xpc'[q] # "idle" => At(q, c)'
  <2>1. CASE Finish(q)
    BY <1>2, <2>1, FinishEffect
  <2>2. CASE xpc[q] = "assign" /\ Goto(q, "handOver")
    <3>1. /\ LocalTypeOK' /\ OthersSame(q) /\ xpc'[q] = "handOver" /\ xop'[q] = xop[q]
          /\ xcall'[q] = xcall[q] /\ xbid'[q] = xbid[q] /\ xbuyer'[q] = xbuyer[q]
          /\ xsid'[q] = xsid[q] /\ xst'[q] = xst[q]
      BY <1>2, <2>2, GotoEffect DEF Pcs
    <3>2. At(q, c)'
      BY <1>0, <1>1, <1>5, <2>2, <3>1 DEF At
    <3> QED
      BY <3>1, <3>2
  <2> QED
    BY <1>0, <2>1, <2>2
<1> QED
  BY <1>0, <1>4, <1>6, <1>7, <1>8, <1>9, WriteStep

\* Routing claims its call: RouteCall without a condition, buyer routing only
\* when it is pending, and then no claim of it took effect before.
LEMMA ClaimEffect ==
    ASSUME CallInv, NEW q \in CallReqs, ClaimAnyway(q) \/ ClaimIfPending(q)
    PROVE  \E c \in Calls :
             /\ At(q, c) /\ At(q, c)' /\ WorldMoves({}) /\ WorldTypeOK' /\ LocalTypeOK' /\ OthersSame(q)
             /\ RequestsOK' /\ IdleClean' /\ OneDials' /\ xpc[q] = "claim" /\ xpc'[q] = "accept"
             /\ xop'[q] = xop[q] /\ xcall'[q] = {c}
             /\ UpdateRow(c, "queued", xbuyer[q], xsid[q])
             /\ UNCHANGED <<leg, accepted>>
             /\ xop[q] = "route" => claims' = claims
             /\ xop[q] # "route" => callStatus[c] = "pending" /\ claims' = [claims EXCEPT ![c] = @ + 1]
<1>0. /\ xpc[q] = "claim" /\ Goto(q, "accept") /\ LocalTypeOK /\ WorldTypeOK
      /\ UNCHANGED <<leg, activeCalls, tracked, accepted>>
  BY DEF ClaimAnyway, ClaimIfPending, CallInv, callWorld, callHistory
<1>1. PICK c \in Calls : At(q, c)
  BY <1>0 DEF CallInv, RequestsOK
<1>2. /\ xcall[q] = {c} /\ xbuyer[q] \in Buyers /\ xsid[q] \in BOOLEAN /\ "queued" \in Written
      /\ UpdateRow(c, "queued", xbuyer[q], xsid[q])
      /\ xop[q] = "route" => claims' = claims
      /\ xop[q] # "route" => callStatus[c] = "pending" /\ claims' = [claims EXCEPT ![c] = @ + 1]
  BY <1>0, <1>1 DEF At, LocalTypeOK, ClaimAnyway, ClaimIfPending, Written, ActiveStatus, callHistory
<1>3. /\ callStatus' \in [Calls -> ActiveStatus \union EndedStatus \union {"none"}]
      /\ callBuyer' \in [Calls -> Buyers]
      /\ callSeller' = callSeller /\ callSid' \subseteq Calls
      /\ \A d \in Calls : callStatus[d] # "none" => callStatus'[d] # "none"
  BY <1>0, <1>2, RowWritten
<1>4. claims' \in [Calls -> Nat]
  BY <1>0, <1>2 DEF WorldTypeOK
<1>5. WorldMoves({}) /\ WorldTypeOK'
  BY <1>0, <1>3, <1>4 DEF WorldMoves, WorldTypeOK
<1>6. /\ LocalTypeOK' /\ OthersSame(q) /\ xpc'[q] = "accept" /\ xop'[q] = xop[q]
      /\ xcall'[q] = xcall[q] /\ xbid'[q] = xbid[q] /\ xbuyer'[q] = xbuyer[q]
      /\ xsid'[q] = xsid[q] /\ xst'[q] = xst[q]
  BY <1>0, GotoEffect DEF Pcs
<1>7. At(q, c)'
  BY <1>0, <1>1, <1>3, <1>6 DEF At
<1>8. RequestsOK' /\ IdleClean' /\ OneDials'
  BY <1>5, <1>6, <1>7, RequestStep
<1> QED
  BY <1>0, <1>1, <1>2, <1>5, <1>6, <1>7, <1>8

LEMMA ClaimsKeep ==
    ASSUME CallInv, NEW q \in CallReqs, ClaimAnyway(q) \/ ClaimIfPending(q)
    PROVE  CallInv'
<1>1. PICK c \in Calls :
        /\ At(q, c) /\ At(q, c)' /\ WorldMoves({}) /\ WorldTypeOK' /\ LocalTypeOK' /\ OthersSame(q)
        /\ RequestsOK' /\ IdleClean' /\ OneDials' /\ xpc[q] = "claim" /\ xpc'[q] = "accept"
        /\ xop'[q] = xop[q] /\ xcall'[q] = {c}
        /\ UpdateRow(c, "queued", xbuyer[q], xsid[q])
        /\ UNCHANGED <<leg, accepted>>
        /\ xop[q] = "route" => claims' = claims
        /\ xop[q] # "route" => callStatus[c] = "pending" /\ claims' = [claims EXCEPT ![c] = @ + 1]
  BY ClaimEffect
<1>2. /\ LocalTypeOK /\ WorldTypeOK /\ RowOK(c) /\ ClaimOK(c)
      /\ xbuyer[q] \in Buyers /\ xsid[q] \in BOOLEAN /\ "queued" \in Written /\ "queued" \in ActiveStatus
  BY DEF CallInv, RowsOK, ClaimsOK, LocalTypeOK, Written, ActiveStatus
<1>3. /\ xsid[q] => leg[c] # "none" /\ c \notin callSeller
      /\ xbuyer[q] \in Bids => xbuyer[q] \in accepted[c]
      /\ xop[q] # "route" => c \in callSeller
  BY <1>1 DEF At
<1>4. \A d \in Calls : callStatus[d] = "none" => leg'[d] = "none"
  BY <1>1 DEF CallInv, RowsOK, RowOK
<1>5. CASE xop[q] = "route"
  <2>1. RowsOK'
    BY <1>1, <1>2, <1>3, <1>4, <1>5, RowsWritten
  <2>2. ClaimsOK'
    <3>1. ASSUME NEW p \in CallReqs, NEW d \in Calls, Claimer(p, d)' PROVE Claimer(p, d)
      BY <1>1, <1>5, <3>1 DEF Claimer, OthersSame, SameAt
    <3> SUFFICES ASSUME NEW d \in Calls PROVE ClaimOK(d)'
      BY DEF ClaimsOK
    <3>2. ClaimOK(d)
      BY DEF CallInv, ClaimsOK
    <3> QED
      BY <1>1, <1>5, <3>1, <3>2 DEF ClaimOK
  <2> QED
    BY <1>1, <2>1, <2>2 DEF CallInv
<1>6. CASE xop[q] # "route"
  <2>1. claims[c] = 0 /\ callStatus[c] = "pending"
    BY <1>1, <1>2, <1>6 DEF RowOK
  <2>2. claims'[c] = 1 /\ \A d \in Calls \ {c} : claims'[d] = claims[d]
    BY <1>1, <1>2, <1>6, <2>1 DEF WorldTypeOK
  <2>3. /\ callStatus'[c] = "queued" /\ callBuyer'[c] = xbuyer[q] /\ (c \in callSid' <=> xsid[q]) /\ callSeller' = callSeller
        /\ \A d \in Calls \ {c} : /\ callStatus'[d] = callStatus[d] /\ callBuyer'[d] = callBuyer[d]
                                  /\ d \in callSid' <=> d \in callSid
    BY <1>1, <1>2, RowWritten, StoredStatus
  <2>4. RowsOK'
    <3>1. ASSUME NEW d \in Calls \ {c} PROVE RowOK(d)'
      <4>1. RowOK(d)
        BY DEF CallInv, RowsOK
      <4> QED
        BY <1>1, <1>2, <1>4, <2>2, <2>3, <4>1, OtherRow
    <3>2. RowOK(c)'
      <4>1. callStatus'[c] \notin EndedStatus /\ callStatus'[c] \notin {"none", "pending"}
        BY <2>3 DEF EndedStatus
      <4>2. xbuyer[q] \in Bids => xbuyer[q] \in accepted'[c]
        BY <1>1, <1>3
      <4> QED
        BY <1>1, <1>3, <1>6, <2>2, <2>3, <4>1, <4>2 DEF RowOK
    <3> QED
      BY <3>1, <3>2 DEF RowsOK
  <2>5. ClaimsOK'
    <3>1. ASSUME NEW p \in CallReqs, NEW d \in Calls, Claimer(p, d)' PROVE (p = q /\ d = c) \/ Claimer(p, d)
      BY <1>1, <3>1 DEF Claimer, OthersSame, SameAt
    <3>2. \A p \in CallReqs : ~Claimer(p, c)
      BY <1>2, <2>1 DEF ClaimOK
    <3>3. ClaimOK(c)'
      BY <1>1, <1>2, <2>1, <2>2, <3>1, <3>2 DEF ClaimOK
    <3>4. ASSUME NEW d \in Calls \ {c} PROVE ClaimOK(d)'
      <4>1. ClaimOK(d) /\ claims'[d] = claims[d] /\ accepted'[d] = accepted[d]
        BY <1>1, <2>2 DEF CallInv, ClaimsOK
      <4>2. \A p \in CallReqs : Claimer(p, d)' => Claimer(p, d)
        BY <3>1, <3>4
      <4> QED
        BY <4>1, <4>2 DEF ClaimOK
    <3> QED
      BY <3>3, <3>4 DEF ClaimsOK
  <2> QED
    BY <1>1, <2>4, <2>5 DEF CallInv
<1> QED
  BY <1>5, <1>6

\* The bid of a claimed call is stored as won: for buyer routing it is the
\* first one of the call.
LEMMA AcceptKeeps ==
    ASSUME CallInv, NEW q \in CallReqs, AcceptBid(q)
    PROVE  CallInv'
<1>0. /\ xpc[q] = "accept" /\ LocalTypeOK /\ WorldTypeOK
      /\ UNCHANGED <<callRow, leg, activeCalls, tracked, claims>>
      /\ UNCHANGED <<callStatus, callBuyer, callSeller, callSid>>
  BY DEF AcceptBid, CallInv, callRow
<1>1. PICK c \in Calls : At(q, c)
  BY <1>0 DEF CallInv, RequestsOK
<1>2. PICK b \in Bids : xbid[q] = {b} /\ xcall[q] = {c}
  BY <1>0, <1>1 DEF At
<1>3. /\ accepted' = [d \in Calls |-> IF d \in xcall[q] /\ xop[q] # "route" THEN accepted[d] \union {b} ELSE accepted[d]]
      /\ Finish(q) \/ (Goto(q, "assign") /\ xop[q] = "execute")
  BY <1>2 DEF AcceptBid
<1>4. /\ accepted' \in [Calls -> SUBSET Bids]
      /\ \A d \in Calls : accepted[d] \subseteq accepted'[d]
      /\ \A d \in Calls : (d # c \/ xop[q] = "route") => accepted'[d] = accepted[d]
      /\ xop[q] # "route" => accepted'[c] = accepted[c] \union {b}
  BY <1>0, <1>2, <1>3 DEF WorldTypeOK
<1>5. WorldMoves({}) /\ WorldTypeOK'
  BY <1>0, <1>4 DEF WorldMoves, WorldTypeOK
<1>6. /\ LocalTypeOK' /\ OthersSame(q) /\ xpc'[q] \in {"assign", "idle"} /\ (xpc'[q] = "idle" => ~xsid'[q])
      /\ xpc'[q] = "assign" => At(q, c)'
  <2>1. CASE Finish(q)
    BY <1>0, <2>1, FinishEffect
  <2>2. CASE Goto(q, "assign") /\ xop[q] = "execute"
    <3>1. /\ LocalTypeOK' /\ OthersSame(q) /\ xpc'[q] = "assign" /\ xop'[q] = xop[q]
          /\ xcall'[q] = xcall[q] /\ xbid'[q] = xbid[q] /\ xbuyer'[q] = xbuyer[q]
          /\ xsid'[q] = xsid[q] /\ xst'[q] = xst[q]
      BY <1>0, <2>2, GotoEffect DEF Pcs
    <3>2. b \in accepted'[c] /\ (xbuyer[q] \in Bids => xbuyer[q] \in accepted'[c])
      BY <1>1, <1>4, <2>2 DEF At
    <3>3. At(q, c)'
      BY <1>0, <1>1, <1>2, <2>2, <3>1, <3>2 DEF At
    <3> QED
      BY <3>1, <3>3
  <2> QED
    BY <1>3, <2>1, <2>2
<1>7. RequestsOK' /\ IdleClean' /\ OneDials'
  BY <1>5, <1>6, RequestStep
<1>8. RowsOK'
  <2>1. \A d \in Calls : callStatus[d] = "none" => leg'[d] = "none"
    BY <1>0 DEF CallInv, RowsOK, RowOK
  <2> QED
    BY <1>0, <1>5, <2>1, RowsSame
<1>9. ClaimsOK'
  <2>1. ASSUME NEW p \in CallReqs, NEW d \in Calls, Claimer(p, d)' PROVE Claimer(p, d) /\ p # q
    BY <1>6, <2>1 DEF Claimer, OthersSame, SameAt
  <2>2. ClaimOK(c)
    BY DEF CallInv, ClaimsOK
  <2>3. ASSUME NEW d \in Calls, d # c \/ xop[q] = "route" PROVE ClaimOK(d)'
    <3>1. ClaimOK(d) /\ claims'[d] = claims[d] /\ accepted'[d] = accepted[d]
      BY <1>0, <1>4, <2>3 DEF CallInv, ClaimsOK
    <3> QED
      BY <2>1, <3>1 DEF ClaimOK
  <2>4. CASE xop[q] # "route"
    <3>1. Claimer(q, c)
      BY <1>0, <1>2, <2>4 DEF Claimer
    <3>2. accepted'[c] = {b} /\ claims'[c] # 0
      BY <1>0, <1>4, <2>2, <2>4, <3>1 DEF ClaimOK
    <3>3. \A p \in CallReqs : ~Claimer(p, c)'
      BY <2>1, <2>2, <3>1 DEF ClaimOK
    <3>4. ClaimOK(c)'
      BY <3>2, <3>3 DEF ClaimOK
    <3> QED
      BY <2>3, <3>4 DEF ClaimsOK
  <2> QED
    BY <2>3, <2>4 DEF ClaimsOK
<1> QED
  BY <1>5, <1>6, <1>7, <1>8, <1>9 DEF CallInv

\* A call is created: it has no leg, no claim, and nobody dials it.
LEMMA CreateEffect ==
    ASSUME CallInv, NEW c \in Calls, NEW x \in {Caller, Nobody}, NEW s \in BOOLEAN, CreateRow(c, x, s),
           UNCHANGED <<leg, activeCalls, callHistory>>, tracked' \subseteq Calls
    PROVE  /\ WorldMoves({}) /\ WorldTypeOK' /\ RowsOK'
           /\ callStatus[c] = "none" /\ callStatus'[c] = "pending" /\ leg[c] = "none"
           /\ ~s => c \notin callSeller'
<1>0. WorldTypeOK /\ RowOK(c) /\ x \in Buyers /\ x \notin Bids /\ UNCHANGED <<claims, accepted>>
  BY CallAssumption DEF CallInv, RowsOK, Buyers, callHistory
<1>1. /\ callStatus[c] = "none" /\ callStatus'[c] = "pending" /\ callBuyer'[c] = x /\ callSid' = callSid
      /\ callStatus' \in [Calls -> ActiveStatus \union EndedStatus \union {"none"}]
      /\ callBuyer' \in [Calls -> Buyers] /\ callSeller' \subseteq Calls
      /\ \A d \in Calls \ {c} : /\ callStatus'[d] = callStatus[d] /\ callBuyer'[d] = callBuyer[d]
                                /\ d \in callSeller' <=> d \in callSeller
      /\ ~s => callSeller' = callSeller
  BY <1>0 DEF CreateRow, WorldTypeOK, ActiveStatus
<1>2. leg[c] = "none" /\ claims[c] = 0 /\ c \notin callSid /\ c \notin callSeller
  BY <1>0, <1>1 DEF RowOK, WorldTypeOK
<1>3. WorldMoves({})
  BY <1>0, <1>1 DEF WorldMoves
<1>4. WorldTypeOK'
  BY <1>0, <1>1 DEF WorldTypeOK
<1>5. RowsOK'
  <2>1. ASSUME NEW d \in Calls \ {c} PROVE RowOK(d)'
    <3>1. RowOK(d) /\ (callStatus[d] = "none" => leg'[d] = "none")
      BY DEF CallInv, RowsOK, RowOK
    <3> QED
      BY <1>0, <1>1, <1>3, <3>1, OtherRow
  <2>2. RowOK(c)'
    BY <1>0, <1>1, <1>2 DEF RowOK
  <2> QED
    BY <2>1, <2>2 DEF RowsOK
<1> QED
  BY <1>1, <1>2, <1>3, <1>4, <1>5

LEMMA CreationsKeep ==
    ASSUME CallInv, NEW q \in CallReqs, NEW c \in Calls, ProcessDirectCall(q, c) \/ InitiateCall(q, c)
    PROVE  CallInv'
<1>0. PICK op \in Ops, pc \in {"read", "dial"} :
        /\ StartOp(q, op, c, pc) /\ CreateRow(c, Caller, FALSE)
        /\ xbuyer' = [xbuyer EXCEPT ![q] = Caller]
        /\ UNCHANGED <<callWorld, xbid, xsid, xst, callHistory, barred>>
  BY DEF ProcessDirectCall, InitiateCall, Ops
<1>1. LocalTypeOK /\ Caller \in Buyers /\ Caller \notin Bids
  BY CallAssumption DEF CallInv, Buyers
<1>2. /\ LocalTypeOK' /\ OthersSame(q) /\ xpc[q] = "idle" /\ xpc'[q] = pc /\ xcall'[q] = {c}
      /\ xbuyer'[q] = Caller /\ xsid'[q] = xsid[q]
  BY <1>0, <1>1 DEF LocalTypeOK, OthersSame, SameAt, StartOp, Pcs
<1>3. /\ WorldMoves({}) /\ WorldTypeOK' /\ RowsOK' /\ leg' = leg
      /\ callStatus[c] = "none" /\ callStatus'[c] = "pending" /\ leg[c] = "none" /\ c \notin callSeller'
  <2>1. UNCHANGED <<leg, activeCalls, callHistory>> /\ tracked' \subseteq Calls
    BY <1>0 DEF callWorld, CallInv, WorldTypeOK
  <2> QED
    BY <1>0, <2>1, CreateEffect
<1>4. ~xsid[q]
  BY <1>2 DEF CallInv, IdleClean
<1>5. At(q, c)'
  BY <1>1, <1>2, <1>3, <1>4 DEF At
<1>6. ASSUME NEW p \in CallReqs, xpc[p] = "dial" PROVE xcall[p] # {c}
  BY <1>3, <1>6 DEF CallInv, RequestsOK, At
<1>7. RequestsOK' /\ IdleClean' /\ OneDials'
  BY <1>2, <1>3, <1>5, <1>6, RequestStep
<1>8. ClaimsOK'
  BY <1>0, <1>2, ClaimsKept DEF OthersSame, callHistory
<1> QED
  BY <1>2, <1>3, <1>7, <1>8 DEF CallInv

\* The provider opens or ends the leg of the request's call; no row is written.
LEMMA LegMoves ==
    ASSUME CallInv, NEW c \in Calls, NEW l \in {"live", "ended"},
           leg' = leg \/ leg' = [leg EXCEPT ![c] = l],
           callStatus[c] # "none", l = "live" => leg[c] = "none" \/ c \in callSeller, l = "ended" => leg[c] # "none",
           UNCHANGED <<accepted, callSeller>>,
           \A d \in Calls : callStatus[d] # "none" => callStatus'[d] # "none"
    PROVE  /\ leg' \in [Calls -> {"none", "live", "ended"}]
           /\ WorldMoves({d \in {c} : l = "live"})
           /\ \A d \in Calls : callStatus[d] = "none" => leg'[d] = "none"
<1>1. leg \in [Calls -> {"none", "live", "ended"}]
  BY DEF CallInv, WorldTypeOK
<1>2. /\ leg' \in [Calls -> {"none", "live", "ended"}] /\ leg'[c] \in {leg[c], l}
      /\ \A d \in Calls \ {c} : leg'[d] = leg[d]
  BY <1>1
<1>3. WorldMoves({d \in {c} : l = "live"})
  BY <1>2 DEF WorldMoves
<1>4. \A d \in Calls : callStatus[d] = "none" => leg'[d] = "none"
  BY <1>2 DEF CallInv, RowsOK, RowOK
<1> QED
  BY <1>2, <1>3, <1>4

\* The provider is asked to open or end a leg.
LEMMA ProviderKeeps ==
    ASSUME CallInv, NEW q \in CallReqs, Dial(q) \/ Hangup(q) \/ HangupFails(q) \/ HandOver(q)
    PROVE  CallInv'
<1>0. /\ xpc[q] \in {"dial", "hangup", "handOver"} /\ LocalTypeOK /\ WorldTypeOK
      /\ UNCHANGED <<callRow, activeCalls, tracked, callHistory>>
      /\ UNCHANGED <<callStatus, callBuyer, callSeller, callSid, claims, accepted>>
  BY DEF Dial, Hangup, HangupFails, HandOver, CallInv, callRow, callHistory
<1>1. PICK c \in Calls : At(q, c)
  BY <1>0 DEF CallInv, RequestsOK
<1>2. xcall[q] = {c} /\ RowOK(c) /\ callStatus[c] # "none"
  BY <1>1 DEF At, CallInv, RowsOK
<1>3. PICK l \in {"live", "ended"} :
        /\ leg' = leg \/ leg' = [leg EXCEPT ![c] = l]
        /\ l = "live" => (leg[c] = "none" /\ xpc[q] = "dial") \/ c \in callSeller
        /\ l = "ended" => leg[c] # "none" \/ leg' = leg
        /\ \/ Finish(q)
           \/ xpc[q] = "dial" /\ leg' = [leg EXCEPT ![c] = "live"] /\ Goto(q, "recordSid")
           \/ xpc[q] = "hangup" /\ xsid[q] /\ leg' = [leg EXCEPT ![c] = "ended"] /\ Goto(q, "recordEnd")
  <2>1. CASE Dial(q)
    BY <1>1, <1>2, <2>1 DEF Dial, At
  <2>2. CASE Hangup(q)
    BY <1>1, <1>2, <2>2 DEF Hangup, At
  <2>3. CASE HangupFails(q)
    BY <1>1, <1>2, <2>3 DEF HangupFails, At
  <2>4. CASE HandOver(q)
    BY <1>1, <1>2, <2>4 DEF HandOver, At
  <2> QED
    BY <2>1, <2>2, <2>3, <2>4
<1>4. /\ leg' \in [Calls -> {"none", "live", "ended"}]
      /\ WorldMoves({d \in {c} : l = "live"})
      /\ \A d \in Calls : callStatus[d] = "none" => leg'[d] = "none"
  <2>1. CASE leg' = leg
    BY <1>0, <2>1 DEF WorldMoves, WorldTypeOK, CallInv, RowsOK, RowOK
  <2>2. CASE leg' # leg
    BY <1>0, <1>2, <1>3, <2>2, LegMoves
  <2> QED
    BY <2>1, <2>2
<1>5. /\ LocalTypeOK' /\ OthersSame(q) /\ xpc'[q] \in {"recordSid", "recordEnd", "idle"}
      /\ xpc'[q] = "idle" => ~xsid'[q]
      /\ xpc'[q] # "idle" => At(q, c)'
  <2>1. CASE Finish(q)
    BY <1>0, <2>1, FinishEffect
  <2>2. ASSUME NEW pc \in {"recordSid", "recordEnd"}, Goto(q, pc),
               pc = "recordSid" => xpc[q] = "dial" /\ leg' = [leg EXCEPT ![c] = "live"],
               pc = "recordEnd" => xsid[q] /\ leg' = [leg EXCEPT ![c] = "ended"]
        PROVE  /\ LocalTypeOK' /\ OthersSame(q) /\ xpc'[q] = pc
               /\ At(q, c)'
    <3>1. /\ LocalTypeOK' /\ OthersSame(q) /\ xpc'[q] = pc
          /\ xcall'[q] = xcall[q] /\ xbid'[q] = xbid[q] /\ xbuyer'[q] = xbuyer[q]
          /\ xsid'[q] = xsid[q] /\ xst'[q] = xst[q]
      BY <1>0, <2>2, GotoEffect DEF Pcs
    <3>2. leg'[c] # "none" /\ (pc = "recordEnd" => leg'[c] = "ended") /\ c \notin callSeller
      BY <1>0, <1>1, <2>2 DEF WorldTypeOK, At
    <3>3. At(q, c)'
      BY <1>0, <1>1, <3>1, <3>2 DEF At
    <3> QED
      BY <3>1, <3>3
  <2> QED
    BY <1>3, <2>1, <2>2
<1>6. ASSUME NEW p \in CallReqs \ {q}, xpc[p] = "dial" PROVE xcall[p] \intersect {d \in {c} : l = "live"} = {}
  <2>1. PICK d \in Calls : xcall[p] = {d} /\ d \notin callSeller
    BY <1>6 DEF CallInv, RequestsOK, At
  <2>2. l = "live" => d # c
    BY <1>2, <1>3, <1>6, <2>1 DEF CallInv, OneDials
  <2> QED
    BY <2>1, <2>2
<1>7. RequestsOK' /\ IdleClean' /\ OneDials'
  BY <1>4, <1>5, <1>6, RequestStep
<1>8. RowsOK'
  BY <1>0, <1>4, RowsSame
<1>9. WorldTypeOK'
  BY <1>0, <1>4 DEF WorldTypeOK
<1>10. ClaimsOK'
  BY <1>0, <1>5, ClaimsKept DEF OthersSame
<1> QED
  BY <1>5, <1>7, <1>8, <1>9, <1>10 DEF CallInv

LEMMA DialFailsKeeps ==
    ASSUME CallInv, NEW q \in CallReqs, DialFails(q)
    PROVE  CallInv'
<1>0. /\ xpc[q] = "dial" /\ Finish(q) /\ LocalTypeOK /\ WorldTypeOK
      /\ UNCHANGED <<activeCalls, tracked, claims, accepted>>
  BY DEF DialFails, CallInv, callHistory
<1>1. PICK c \in Calls : At(q, c)
  BY <1>0 DEF CallInv, RequestsOK
<1>2. /\ xcall[q] = {c} /\ leg[c] = "none" /\ callStatus[c] # "none" /\ xbuyer[q] \in Buyers
      /\ xbuyer[q] \in Bids => xbuyer[q] \in accepted[c]
      /\ leg' = leg \/ leg' = [leg EXCEPT ![c] = "live"]
      /\ UpdateRow(c, "failed", xbuyer[q], FALSE) \/ UNCHANGED callRow
  BY <1>0, <1>1 DEF At, DialFails, LocalTypeOK
<1>3. "failed" \in Written /\ FALSE \in BOOLEAN
  BY DEF Written, EndedStatus
<1>4. callSeller' = callSeller /\ \A d \in Calls : callStatus[d] # "none" => callStatus'[d] # "none"
  <2>1. CASE UpdateRow(c, "failed", xbuyer[q], FALSE)
    BY <1>0, <1>2, <1>3, <2>1, RowWritten
  <2>2. CASE UNCHANGED callRow
    BY <2>2 DEF callRow
  <2> QED
    BY <1>2, <2>1, <2>2
<1>5. /\ leg' \in [Calls -> {"none", "live", "ended"}]
      /\ WorldMoves({d \in {c} : "live" = "live"})
      /\ \A d \in Calls : callStatus[d] = "none" => leg'[d] = "none"
  BY <1>0, <1>2, <1>4, LegMoves
<1>6. WorldMoves({c})
  BY <1>5 DEF WorldMoves
<1>7. ASSUME NEW p \in CallReqs \ {q}, xpc[p] = "dial" PROVE xcall[p] \intersect {c} = {}
  <2>1. xcall[p] # {c}
    BY <1>0, <1>2, <1>7 DEF CallInv, OneDials
  <2>2. \E d \in Calls : xcall[p] = {d}
    BY <1>7 DEF CallInv, RequestsOK, At
  <2> QED
    BY <2>1, <2>2
<1>8. LocalTypeOK' /\ OthersSame(q) /\ xpc'[q] = "idle" /\ ~xsid'[q]
  BY <1>0, FinishEffect
<1>9. CASE UpdateRow(c, "failed", xbuyer[q], FALSE)
  <2>1. activeCalls' \subseteq Calls
    BY <1>0 DEF WorldTypeOK
  <2> QED
    BY <1>0, <1>2, <1>3, <1>5, <1>6, <1>7, <1>8, <1>9, <2>1, WriteStep
<1>10. CASE UNCHANGED callRow
  <2>1. RequestsOK' /\ IdleClean' /\ OneDials'
    BY <1>6, <1>7, <1>8, RequestStep
  <2>2. RowsOK'
    BY <1>0, <1>5, <1>6, <1>10, RowsSame
  <2>3. WorldTypeOK'
    BY <1>0, <1>5, <1>10 DEF WorldTypeOK, callRow
  <2>4. ClaimsOK'
    BY <1>0, <1>8, ClaimsKept DEF OthersSame
  <2> QED
    BY <1>8, <2>1, <2>2, <2>3, <2>4 DEF CallInv
<1> QED
  BY <1>2, <1>9, <1>10

\* A step that touches no call and no request: of the consent service, or of
\* the bids.
LEMMA StillKeeps ==
    ASSUME CallInv, UNCHANGED <<callRow, leg, activeCalls, tracked, xpc, xop, callLocal, callHistory>>,
           barred' \subseteq CallReqs
    PROVE  CallInv'
<1>1. WorldMoves({})
  BY WorldStill DEF callHistory
<1>2. RequestsOK' /\ IdleClean' /\ OneDials' /\ \A p \in CallReqs : SameAt(p)
  BY <1>1, NoRequestStep
<1>3. RowsOK'
  <2>1. \A d \in Calls : callStatus[d] = "none" => leg'[d] = "none"
    BY DEF CallInv, RowsOK, RowOK
  <2> QED
    BY <1>1, <2>1, RowsSame DEF callHistory
<1>4. ClaimsOK'
  BY <1>2, ClaimsKept DEF callHistory
<1>5. LocalTypeOK' /\ WorldTypeOK'
  BY DEF CallInv, LocalTypeOK, WorldTypeOK, callRow, callLocal, callHistory
<1> QED
  BY <1>2, <1>3, <1>4, <1>5 DEF CallInv

\* Calls of sellers arrive and the parties hang up.
LEMMA OutsideKeeps ==
    ASSUME CallInv, NEW c \in Calls, ProcessSellerCall(c) \/ LegEnds(c)
    PROVE  CallInv'
<1>0. LocalTypeOK /\ WorldTypeOK /\ UNCHANGED <<xpc, xop, callLocal, callHistory, barred>>
  BY DEF CallInv, ProcessSellerCall, LegEnds
<1>1. WorldMoves({}) /\ WorldTypeOK' /\ RowsOK'
  <2>1. CASE ProcessSellerCall(c)
    <3>1. /\ CreateRow(c, Nobody, TRUE) /\ UNCHANGED <<leg, activeCalls, callHistory>>
          /\ tracked' \subseteq Calls /\ TRUE \in BOOLEAN
      BY <1>0, <2>1 DEF ProcessSellerCall, WorldTypeOK
    <3> QED
      BY <3>1, CreateEffect
  <2>2. CASE LegEnds(c)
    <3>1. /\ leg[c] = "live" /\ leg' = [leg EXCEPT ![c] = "ended"] /\ callStatus[c] # "none"
          /\ UNCHANGED <<callRow, activeCalls, tracked>>
          /\ UNCHANGED <<callStatus, callBuyer, callSeller, callSid, claims, accepted>>
      BY <2>2 DEF LegEnds, CallInv, RowsOK, RowOK, callRow, callHistory
    <3>2. /\ leg' \in [Calls -> {"none", "live", "ended"}]
          /\ WorldMoves({d \in {c} : "ended" = "live"})
          /\ \A d \in Calls : callStatus[d] = "none" => leg'[d] = "none"
      BY <3>1, LegMoves
    <3>3. {d \in {c} : "ended" = "live"} = {}
      OBVIOUS
    <3>4. WorldMoves({})
      BY <3>2, <3>3
    <3>5. RowsOK'
      BY <3>1, <3>2, <3>4, RowsSame
    <3> QED
      BY <1>0, <3>1, <3>2, <3>4, <3>5 DEF WorldTypeOK
  <2> QED
    BY <2>1, <2>2
<1>2. RequestsOK' /\ IdleClean' /\ OneDials' /\ \A p \in CallReqs : SameAt(p)
  BY <1>0, <1>1, NoRequestStep
<1>3. ClaimsOK'
  BY <1>0, <1>2, ClaimsKept DEF callHistory
<1>4. LocalTypeOK'
  BY <1>0 DEF LocalTypeOK, callLocal
<1> QED
  BY <1>1, <1>2, <1>3, <1>4 DEF CallInv

\* The steps of the bidding service and of the auctions touch bids only.
LEMMA BidStepStill ==
    ASSUME BidStep
    PROVE  UNCHANGED <<callRow, leg, activeCalls, tracked, xpc, xop, callLocal, callHistory, barred>>
<1>1. CASE PlaceStep \/ \E r \in BidReqs, b \in Bids, c \in Calls : ProcessBuyerBid(r, b, c)
  BY <1>1 DEF PlaceStep, WriteBid, PlaceBid, ProcessBuyerBid, NewBid
<1>2. CASE \E c \in Calls : AuctionReads(c) \/ AuctionAccepts(c) \/ AuctionRejects(c)
  BY <1>2 DEF AuctionReads, AuctionAccepts, AuctionRejects
<1>3. CASE \E r \in BidReqs : ProcessExpiredBids(r) \/ \E b \in Bids : EditBid(r, b)
  BY <1>3 DEF ProcessExpiredBids, EditBid
<1> QED
  BY <1>1, <1>2, <1>3 DEF BidStep

LEMMA CallInitial == CallInit => CallInv /\ BidTypeOK
<1> SUFFICES ASSUME CallInit PROVE CallInv /\ BidTypeOK
  OBVIOUS
<1>1. LocalTypeOK /\ IdleClean /\ OneDials /\ RequestsOK
  BY DEF CallInit, LocalTypeOK, IdleClean, OneDials, RequestsOK, Pcs, Ops, Buyers
<1>2. WorldTypeOK /\ BidTypeOK
  BY DEF CallInit, WorldTypeOK, BidTypeOK, BidStatus, Buyers
<1>3. RowsOK
  BY CallAssumption DEF CallInit, RowsOK, RowOK, EndedStatus
<1>4. ClaimsOK
  BY DEF CallInit, ClaimsOK, ClaimOK, Claimer
<1> QED
  BY <1>1, <1>2, <1>3, <1>4 DEF CallInv

LEMMA CallInductive ==
    ASSUME CallInv, [ExchangeNext]_<<callVars, consentVars>>
    PROVE  CallInv'
<1>0. barred \subseteq CallReqs
  BY DEF CallInv, LocalTypeOK
<1>1. CASE ConsentMoves
  <2>1. barred' \subseteq CallReqs
    BY <1>0, <1>1 DEF ConsentMoves
  <2>2. UNCHANGED <<callRow, leg, activeCalls, tracked, xpc, xop, callLocal, callHistory>>
    BY <1>1 DEF ConsentMoves, callWorld
  <2> QED
    BY <2>1, <2>2, StillKeeps
<1>2. CASE UNCHANGED <<callVars, consentVars>>
  <2>1. UNCHANGED <<callRow, leg, activeCalls, tracked, xpc, xop, callLocal, callHistory>> /\ barred' \subseteq CallReqs
    BY <1>0, <1>2 DEF callVars, callWorld
  <2> QED
    BY <2>1, StillKeeps
<1>3. CASE CallNext
  <2>1. CASE BidStep
    BY <1>0, <2>1, BidStepStill, StillKeeps
  <2>2. CASE \E c \in Calls : ProcessSellerCall(c) \/ LegEnds(c)
    BY <2>2, OutsideKeeps
  <2>3. ASSUME NEW q \in CallReqs, RoutingStep(q) PROVE CallInv'
    BY <2>3, GoingOnKeeps, ClaimsKeep, AcceptKeeps, WritesKeep, ProviderKeeps, ReadStartsKeep, CreationsKeep DEF RoutingStep
  <2>4. ASSUME NEW q \in CallReqs, CallRoutingStep(q) PROVE CallInv'
    BY <2>4, GoingOnKeeps, ClaimsKeep, ReadStartsKeep DEF CallRoutingStep
  <2>5. ASSUME NEW q \in CallReqs, TelephonyStep(q) PROVE CallInv'
    BY <2>5, GoingOnKeeps, ProviderKeeps, DialFailsKeeps, WritesKeep, ReadStartsKeep, CreationsKeep DEF TelephonyStep
  <2> QED
    BY <1>3, <2>1, <2>2, <2>3, <2>4, <2>5 DEF CallNext
<1> QED
  BY <1>1, <1>2, <1>3 DEF ExchangeNext

\* A step of a request writes no bid but the one it accepts, and comes to hold
\* none that is not open.
LEMMA RequestBids ==
    ASSUME LocalTypeOK, NEW q \in CallReqs,
           RoutingStep(q) \/ CallRoutingStep(q) \/ TelephonyStep(q)
    PROVE  /\ UNCHANGED <<bidCall, edits, winner, losers>>
           /\ \/ bidStatus' = bidStatus
              \/ xpc[q] = "accept" /\ \E b \in xbid[q] : bidStatus' = [bidStatus EXCEPT ![b] = "won"]
           /\ \A p \in CallReqs \ {q} : xpc'[p] = xpc[p] /\ xbid'[p] = xbid[p]
           /\ xpc'[q] \in {"claim", "accept"} =>
                \/ xpc[q] \in {"claim", "accept"} /\ xbid'[q] = xbid[q]
                \/ \E b \in Bids : bidStatus[b] = "active" /\ xbid'[q] = {b}
<1>1. ASSUME Finish(q) PROVE xpc'[q] = "idle" /\ \A p \in CallReqs \ {q} : xpc'[p] = xpc[p] /\ xbid'[p] = xbid[p]
  BY <1>1 DEF Finish, LocalTypeOK
<1>2. ASSUME NEW pc \in Pcs, Goto(q, pc)
      PROVE  xpc'[q] = pc /\ xbid' = xbid /\ \A p \in CallReqs \ {q} : xpc'[p] = xpc[p] /\ xbid'[p] = xbid[p]
  BY <1>2 DEF Goto, LocalTypeOK
<1>3. ASSUME NEW op, NEW c, NEW pc \in Pcs \ {"claim", "accept"}, StartOp(q, op, c, pc), xbid' = xbid
      PROVE  xpc'[q] = pc /\ \A p \in CallReqs \ {q} : xpc'[p] = xpc[p] /\ xbid'[p] = xbid[p]
  BY <1>3 DEF StartOp, LocalTypeOK
<1>4. CASE \/ AcceptFails(q) \/ HandOver(q) \/ GiveUp(q) \/ QueueForSellers(q)
           \/ DialFails(q) \/ RecordSid(q) \/ HangupFails(q) \/ RecordEnd(q) \/ RecordPoll(q)
  <2>1. Finish(q) /\ UNCHANGED <<bidStatus, bidCall, edits, winner, losers>>
    BY <1>4 DEF AcceptFails, HandOver, GiveUp, QueueForSellers, DialFails, RecordSid, HangupFails, RecordEnd, RecordPoll,
                callWorld, bidCopies
  <2> QED
    BY <1>1, <2>1
<1>5. CASE RouteRead(q) \/ ConsentGiven(q) \/ AssignBuyer(q) \/ Dial(q) \/ Hangup(q)
  <2>1. /\ UNCHANGED <<bidStatus, bidCall, edits, winner, losers>>
        /\ \E pc \in Pcs \ {"claim", "accept"} : Goto(q, pc)
    BY <1>5 DEF RouteRead, ConsentGiven, AssignBuyer, Dial, Hangup, callWorld, bidCopies, Pcs
  <2> QED
    BY <1>2, <2>1
<1>6. CASE ClaimIfPending(q) \/ ClaimAnyway(q)
  <2>1. UNCHANGED <<bidStatus, bidCall, edits, winner, losers>> /\ Goto(q, "accept") /\ xpc[q] = "claim" /\ "accept" \in Pcs
    BY <1>6 DEF ClaimIfPending, ClaimAnyway, callWorld, bidCopies, Pcs
  <2> QED
    BY <1>2, <2>1
<1>7. CASE AcceptBid(q)
  <2>1. /\ UNCHANGED <<bidCall, edits, winner, losers>> /\ xpc[q] = "accept" /\ "assign" \in Pcs
        /\ \E b \in xbid[q] : bidStatus' = [bidStatus EXCEPT ![b] = "won"]
        /\ Finish(q) \/ Goto(q, "assign")
    BY <1>7 DEF AcceptBid, bidCopies, Pcs
  <2> QED
    BY <1>1, <1>2, <2>1
<1>8. CASE Route(q)
  <2>1. /\ UNCHANGED <<bidStatus, bidCall, edits, winner, losers>> /\ xpc' = [xpc EXCEPT ![q] = "claim"]
        /\ \E b \in Bids : bidStatus[b] = "active" /\ xbid' = [xbid EXCEPT ![q] = {b}]
    BY <1>8 DEF Route, OpenBids, callWorld, bidCopies
  <2>2. \A p \in CallReqs \ {q} : xpc'[p] = xpc[p] /\ xbid'[p] = xbid[p]
    BY <2>1 DEF LocalTypeOK
  <2>3. \E b \in Bids : bidStatus[b] = "active" /\ xbid'[q] = {b}
    BY <2>1 DEF LocalTypeOK
  <2> QED
    BY <2>1, <2>2, <2>3
<1>9. CASE Poll(q)
  <2>1. /\ UNCHANGED <<bidStatus, bidCall, edits, winner, losers>>
        /\ Finish(q) \/ (xpc' = [xpc EXCEPT ![q] = "recordPoll"] /\ xbid' = xbid)
    BY <1>9 DEF Poll, callWorld, bidCopies
  <2>2. CASE Finish(q)
    BY <1>1, <2>1, <2>2
  <2>3. CASE xpc' = [xpc EXCEPT ![q] = "recordPoll"] /\ xbid' = xbid
    <3>1. xpc'[q] = "recordPoll" /\ \A p \in CallReqs \ {q} : xpc'[p] = xpc[p]
      BY <2>3 DEF LocalTypeOK
    <3> QED
      BY <2>1, <2>3, <3>1
  <2> QED
    BY <2>1, <2>2, <2>3
<1>10. CASE \E c \in Calls : \/ RouteCallToBuyer(q, c) \/ ExecuteCallRouting(q, c)
                             \/ ProcessDirectCall(q, c) \/ DistributeCall(q, c) \/ RouteCall(q, c)
                             \/ InitiateCall(q, c) \/ TerminateCall(q, c) \/ GetCallStatus(q, c)
  <2>1. /\ UNCHANGED <<bidStatus, bidCall, edits, winner, losers>> /\ xbid' = xbid
        /\ \E op \in Ops, c \in Calls, pc \in Pcs \ {"claim", "accept"} : StartOp(q, op, c, pc)
    BY <1>10 DEF RouteCallToBuyer, ExecuteCallRouting, ProcessDirectCall, DistributeCall, RouteCall, InitiateCall,
                 TerminateCall, GetCallStatus, callWorld, bidCopies, Ops, Pcs
  <2> QED
    BY <1>3, <2>1
<1> QED
  BY <1>4, <1>5, <1>6, <1>7, <1>8, <1>9, <1>10 DEF RoutingStep, CallRoutingStep, TelephonyStep

\* The steps of the bids keep the types of the rows and of the copies.
LEMMA BidStepTypes ==
    ASSUME BidTypeOK, BidStep
    PROVE  BidTypeOK'
<1>1. ASSUME NEW r \in BidReqs, WriteBid(r) PROVE BidTypeOK'
  <2>1. PICK w \in edits[r] : /\ bidStatus' \in {bidStatus, [bidStatus EXCEPT ![w[1]] = w[2]]}
                              /\ edits' = [edits EXCEPT ![r] = @ \ {w}]
    BY <1>1 DEF WriteBid
  <2>2. w[1] \in Bids /\ w[2] \in BidStatus
    BY <2>1 DEF BidTypeOK
  <2> QED
    BY <1>1, <2>1, <2>2 DEF BidTypeOK, WriteBid
<1>2. ASSUME NEW r \in BidReqs, NEW b \in Bids, NEW c \in Calls, PlaceBid(r, b, c) \/ ProcessBuyerBid(r, b, c)
      PROVE  BidTypeOK'
  <2>1. PICK st \in BidStatus : NewBid(r, b, c, st)
    BY <1>2 DEF PlaceBid, ProcessBuyerBid, BidStatus
  <2> QED
    BY <2>1 DEF NewBid, BidTypeOK
<1>3. ASSUME NEW r \in BidReqs, ProcessExpiredBids(r) \/ \E b \in Bids : EditBid(r, b) PROVE BidTypeOK'
  <2>1. PICK E \in SUBSET (Bids \X BidStatus) : edits' = [edits EXCEPT ![r] = E]
    <3>1. CASE ProcessExpiredBids(r)
      <4>1. PICK S \in SUBSET Bids : edits' = [edits EXCEPT ![r] = {<<b, "expired">> : b \in S}]
        BY <3>1 DEF ProcessExpiredBids
      <4>2. {<<b, "expired">> : b \in S} \in SUBSET (Bids \X BidStatus)
        BY <4>1 DEF BidStatus
      <4> QED
        BY <4>1, <4>2
    <3>2. ASSUME NEW b \in Bids, EditBid(r, b) PROVE \E E \in SUBSET (Bids \X BidStatus) : edits' = [edits EXCEPT ![r] = E]
      <4>1. PICK st \in {bidStatus[b], "canceled"} : edits' = [edits EXCEPT ![r] = {<<b, st>>}]
        BY <3>2 DEF EditBid
      <4>2. st \in BidStatus
        BY <4>1 DEF BidTypeOK, BidStatus
      <4>3. {<<b, st>>} \in SUBSET (Bids \X BidStatus)
        BY <4>2
      <4> QED
        BY <4>1, <4>3
    <3> QED
      BY <1>3, <3>1, <3>2
  <2> QED
    BY <1>3, <2>1 DEF ProcessExpiredBids, EditBid, BidTypeOK
<1>4. ASSUME NEW c \in Calls, AuctionReads(c) PROVE BidTypeOK'
  <2>0. PICK S \in SUBSET OpenBids(c) : \E w \in S : /\ winner' = [winner EXCEPT ![c] = {w}]
                                                     /\ losers' = [losers EXCEPT ![c] = S \ {w}]
    BY <1>4 DEF AuctionReads
  <2>1. PICK w \in S : winner' = [winner EXCEPT ![c] = {w}] /\ losers' = [losers EXCEPT ![c] = S \ {w}]
    BY <2>0
  <2>2. S \subseteq Bids /\ w \in Bids
    BY <2>1 DEF OpenBids
  <2> QED
    BY <1>4, <2>1, <2>2 DEF AuctionReads, BidTypeOK
<1>5. ASSUME NEW c \in Calls, AuctionAccepts(c) PROVE BidTypeOK'
  <2>1. PICK w \in winner[c] : \/ bidStatus' = [bidStatus EXCEPT ![w] = "won"] /\ UNCHANGED losers
                               \/ UNCHANGED bidStatus /\ losers' = [losers EXCEPT ![c] = {}]
    BY <1>5 DEF AuctionAccepts
  <2> QED
    BY <1>5, <2>1 DEF AuctionAccepts, BidTypeOK, BidStatus
<1>6. ASSUME NEW c \in Calls, AuctionRejects(c) PROVE BidTypeOK'
  <2>1. PICK b \in losers[c] : /\ bidStatus' \in {bidStatus, [bidStatus EXCEPT ![b] = "lost"]}
                               /\ losers' = [losers EXCEPT ![c] = @ \ {b}]
    BY <1>6 DEF AuctionRejects
  <2> QED
    BY <1>6, <2>1 DEF AuctionRejects, BidTypeOK, BidStatus
<1> QED
  BY <1>1, <1>2, <1>3, <1>4, <1>5, <1>6 DEF BidStep, PlaceStep

LEMMA BidsInductive ==
    ASSUME LocalTypeOK, BidTypeOK, [ExchangeNext]_<<callVars, consentVars>>
    PROVE  BidTypeOK'
<1>1. CASE UNCHANGED <<bidStatus, bidCall, edits, winner, losers>>
  BY <1>1 DEF BidTypeOK
<1>2. CASE ConsentMoves \/ UNCHANGED <<callVars, consentVars>> \/ \E c \in Calls : ProcessSellerCall(c) \/ LegEnds(c)
  BY <1>1, <1>2 DEF ConsentMoves, callVars, callWorld, bidCopies, ProcessSellerCall, LegEnds
<1>3. ASSUME NEW q \in CallReqs, RoutingStep(q) \/ CallRoutingStep(q) \/ TelephonyStep(q) PROVE BidTypeOK'
  <2>1. /\ UNCHANGED <<bidCall, edits, winner, losers>>
        /\ \/ bidStatus' = bidStatus
           \/ \E b \in xbid[q] : bidStatus' = [bidStatus EXCEPT ![b] = "won"]
    BY <1>3, RequestBids
  <2> QED
    BY <2>1 DEF BidTypeOK, LocalTypeOK, BidStatus
<1> QED
  BY <1>2, <1>3, BidStepTypes DEF ExchangeNext, CallNext

\* A step of the bids writes those it holds a copy of, and copies are taken of
\* bids that are open.
LEMMA BidStepSettled ==
    ASSUME BidTypeOK, BidStep, NEW b \in Bids, Settled(b)
    PROVE  Settled(b)' /\ bidStatus'[b] = bidStatus[b]
<1>0. /\ bidStatus[b] \in {"won", "lost", "canceled", "expired"}
      /\ \A r \in BidReqs : \A w \in edits[r] : w[1] # b
      /\ \A c \in Calls : b \notin winner[c] /\ b \notin losers[c]
      /\ UNCHANGED <<xpc, xbid>>
  BY BidStepStill DEF Settled, callLocal
<1>1. ASSUME bidStatus'[b] = bidStatus[b],
             \A r \in BidReqs : \A w \in edits'[r] : w[1] # b,
             \A c \in Calls : b \notin winner'[c] /\ b \notin losers'[c]
      PROVE  Settled(b)' /\ bidStatus'[b] = bidStatus[b]
  BY <1>0, <1>1 DEF Settled
<1>2. ASSUME NEW r \in BidReqs, WriteBid(r) PROVE Settled(b)' /\ bidStatus'[b] = bidStatus[b]
  <2>1. PICK w \in edits[r] : /\ bidStatus' \in {bidStatus, [bidStatus EXCEPT ![w[1]] = w[2]]}
                              /\ edits' = [edits EXCEPT ![r] = @ \ {w}]
    BY <1>2 DEF WriteBid
  <2>2. bidStatus'[b] = bidStatus[b]
    BY <1>0, <2>1 DEF BidTypeOK
  <2>3. \A s \in BidReqs : edits'[s] \subseteq edits[s]
    BY <2>1 DEF BidTypeOK
  <2>4. UNCHANGED <<winner, losers>>
    BY <1>2 DEF WriteBid
  <2> QED
    BY <1>0, <1>1, <2>2, <2>3, <2>4
<1>3. ASSUME NEW r \in BidReqs, NEW E, edits' = [edits EXCEPT ![r] = E], \A w \in E : w[1] # b,
             UNCHANGED <<bidStatus, winner, losers>>
      PROVE  Settled(b)' /\ bidStatus'[b] = bidStatus[b]
  <2>1. \A s \in BidReqs : edits'[s] = edits[s] \/ edits'[s] = E
    BY <1>3 DEF BidTypeOK
  <2> QED
    BY <1>0, <1>1, <1>3, <2>1
<1>4. ASSUME NEW r \in BidReqs, NEW a \in Bids, NEW c \in Calls, PlaceBid(r, a, c) \/ ProcessBuyerBid(r, a, c)
      PROVE  Settled(b)' /\ bidStatus'[b] = bidStatus[b]
  <2>1. PICK st \in BidStatus : NewBid(r, a, c, st)
    BY <1>4 DEF PlaceBid, ProcessBuyerBid, BidStatus
  <2>2. a # b /\ edits' = [edits EXCEPT ![r] = {<<a, st>>}] /\ UNCHANGED <<bidStatus, winner, losers>>
    BY <1>0, <2>1 DEF NewBid
  <2>3. \A w \in {<<a, st>>} : w[1] # b
    BY <2>2
  <2> QED
    BY <1>3, <2>2, <2>3
<1>5. ASSUME NEW r \in BidReqs, NEW a \in Bids, EditBid(r, a)
      PROVE  Settled(b)' /\ bidStatus'[b] = bidStatus[b]
  <2>1. PICK st \in {bidStatus[a], "canceled"} : edits' = [edits EXCEPT ![r] = {<<a, st>>}]
    BY <1>5 DEF EditBid
  <2>2. a # b /\ UNCHANGED <<bidStatus, winner, losers>>
    BY <1>0, <1>5 DEF EditBid
  <2>3. \A w \in {<<a, st>>} : w[1] # b
    BY <2>2
  <2> QED
    BY <1>3, <2>1, <2>2, <2>3
<1>6. ASSUME NEW r \in BidReqs, ProcessExpiredBids(r)
      PROVE  Settled(b)' /\ bidStatus'[b] = bidStatus[b]
  <2>1. PICK S \in SUBSET {a \in Bids : bidStatus[a] \in {"active", "pending"}} :
           edits' = [edits EXCEPT ![r] = {<<a, "expired">> : a \in S}]
    BY <1>6 DEF ProcessExpiredBids
  <2>2. \A w \in {<<a, "expired">> : a \in S} : w[1] # b
    BY <1>0, <2>1
  <2>3. UNCHANGED <<bidStatus, winner, losers>>
    BY <1>6 DEF ProcessExpiredBids
  <2> QED
    BY <1>3, <2>1, <2>2, <2>3
<1>7. ASSUME NEW c \in Calls, AuctionReads(c) PROVE Settled(b)' /\ bidStatus'[b] = bidStatus[b]
  <2>0. PICK S \in SUBSET OpenBids(c) : \E w \in S : /\ winner' = [winner EXCEPT ![c] = {w}]
                                                     /\ losers' = [losers EXCEPT ![c] = S \ {w}]
    BY <1>7 DEF AuctionReads
  <2>1. PICK w \in S : winner' = [winner EXCEPT ![c] = {w}] /\ losers' = [losers EXCEPT ![c] = S \ {w}]
    BY <2>0
  <2>2. b \notin S
    BY <1>0, <2>1 DEF OpenBids
  <2>3. \A d \in Calls : b \notin winner'[d] /\ b \notin losers'[d]
    BY <1>0, <2>1, <2>2 DEF BidTypeOK
  <2>4. UNCHANGED <<bidStatus, edits>>
    BY <1>7 DEF AuctionReads
  <2> QED
    BY <1>0, <1>1, <2>3, <2>4
<1>8. ASSUME NEW c \in Calls, AuctionAccepts(c) PROVE Settled(b)' /\ bidStatus'[b] = bidStatus[b]
  <2>1. PICK w \in winner[c] : \/ bidStatus' = [bidStatus EXCEPT ![w] = "won"] /\ UNCHANGED losers
                               \/ UNCHANGED bidStatus /\ losers' = [losers EXCEPT ![c] = {}]
    BY <1>8 DEF AuctionAccepts
  <2>2. bidStatus'[b] = bidStatus[b]
    BY <1>0, <2>1 DEF BidTypeOK
  <2>3. winner' = [winner EXCEPT ![c] = {}] /\ edits' = edits
    BY <1>8 DEF AuctionAccepts
  <2>4. \A d \in Calls : b \notin winner'[d] /\ b \notin losers'[d]
    BY <1>0, <2>1, <2>3 DEF BidTypeOK
  <2> QED
    BY <1>0, <1>1, <2>2, <2>3, <2>4
<1>9. ASSUME NEW c \in Calls, AuctionRejects(c) PROVE Settled(b)' /\ bidStatus'[b] = bidStatus[b]
  <2>1. PICK a \in losers[c] : /\ bidStatus' \in {bidStatus, [bidStatus EXCEPT ![a] = "lost"]}
                               /\ losers' = [losers EXCEPT ![c] = @ \ {a}]
    BY <1>9 DEF AuctionRejects
  <2>2. bidStatus'[b] = bidStatus[b]
    BY <1>0, <2>1 DEF BidTypeOK
  <2>3. \A d \in Calls : b \notin losers'[d]
    BY <1>0, <2>1 DEF BidTypeOK
  <2>4. UNCHANGED <<winner, edits>>
    BY <1>9 DEF AuctionRejects
  <2> QED
    BY <1>0, <1>1, <2>2, <2>3, <2>4
<1> QED
  BY <1>2, <1>4, <1>5, <1>6, <1>7, <1>8, <1>9 DEF BidStep, PlaceStep

LEMMA SettledStays ==
    ASSUME LocalTypeOK, BidTypeOK, [ExchangeNext]_<<callVars, consentVars>>, NEW b \in Bids, Settled(b)
    PROVE  Settled(b)' /\ bidStatus'[b] = bidStatus[b]
<1>1. CASE UNCHANGED <<bidStatus, edits, winner, losers, xpc, xbid>>
  BY <1>1 DEF Settled
<1>2. CASE ConsentMoves \/ UNCHANGED <<callVars, consentVars>> \/ \E c \in Calls : ProcessSellerCall(c) \/ LegEnds(c)
  BY <1>1, <1>2 DEF ConsentMoves, callVars, callWorld, callLocal, bidCopies, ProcessSellerCall, LegEnds
<1>3. ASSUME NEW q \in CallReqs, RoutingStep(q) \/ CallRoutingStep(q) \/ TelephonyStep(q)
      PROVE  Settled(b)' /\ bidStatus'[b] = bidStatus[b]
  <2>1. /\ UNCHANGED <<bidCall, edits, winner, losers>>
        /\ \/ bidStatus' = bidStatus
           \/ xpc[q] = "accept" /\ \E a \in xbid[q] : bidStatus' = [bidStatus EXCEPT ![a] = "won"]
        /\ \A p \in CallReqs \ {q} : xpc'[p] = xpc[p] /\ xbid'[p] = xbid[p]
        /\ xpc'[q] \in {"claim", "accept"} =>
             \/ xpc[q] \in {"claim", "accept"} /\ xbid'[q] = xbid[q]
             \/ \E a \in Bids : bidStatus[a] = "active" /\ xbid'[q] = {a}
    BY <1>3, RequestBids
  <2>2. bidStatus'[b] = bidStatus[b]
    BY <2>1 DEF Settled, BidTypeOK
  <2>3. \A p \in CallReqs : b \in xbid'[p] => xpc'[p] \notin {"claim", "accept"}
    BY <2>1 DEF Settled
  <2> QED
    BY <2>1, <2>2, <2>3 DEF Settled
<1> QED
  BY <1>2, <1>3, BidStepSettled DEF ExchangeNext, CallNext

ExchangeCalls == CallInv /\ BidTypeOK

LEMMA ExchangeCallsHold == ExchangeSpec => []ExchangeCalls
<1>1. ExchangeCalls /\ [ExchangeNext]_<<callVars, consentVars>> => ExchangeCalls'
  BY CallInductive, BidsInductive DEF ExchangeCalls, CallInv
<1>2. ExchangeInit => ExchangeCalls
  BY CallInitial DEF ExchangeInit, ExchangeCalls
<1> QED
  BY <1>1, <1>2, PTL DEF ExchangeSpec

LEMMA CallTypes == ExchangeCalls => CallTypeOK
  BY DEF ExchangeCalls, CallInv, LocalTypeOK, WorldTypeOK, BidTypeOK, CallTypeOK, Buyers

\* What the row names is the one accepted bid.
LEMMA OneBuyerFollows == CallInv => OneBuyerNamed
<1> SUFFICES ASSUME CallInv, NEW c \in Calls, callBuyer[c] \in Bids PROVE accepted[c] = {callBuyer[c]}
  BY DEF OneBuyerNamed
<1>1. callBuyer[c] \in accepted[c] /\ \A a, b \in accepted[c] : a = b
  BY DEF CallInv, RowsOK, RowOK, ClaimsOK, ClaimOK
<1> QED
  BY <1>1

\* Rows, bids, legs and the copies of every request keep their types.
THEOREM CallTypeCorrect == ExchangeSpec => []CallTypeOK
  BY ExchangeCallsHold, CallTypes, PTL

\* The conditional update of buyer routing (UpdateWithStatusCheck) takes
\* effect at most once per call, whatever the unconditional writers of the
\* same row do: a poll can make a call pending again only if telephony placed
\* it, and such a call has no seller to be routed from.
THEOREM CallsAreClaimedOnce == ExchangeSpec => []ClaimedOnce
<1>1. ExchangeCalls => ClaimedOnce
  BY DEF ExchangeCalls, CallInv, RowsOK, RowOK, ClaimedOnce
<1> QED
  BY <1>1, ExchangeCallsHold, PTL

\* A stored call names the buyer of a bid only if buyer routing stored that
\* bid, and no other of the call, as won: through overlapping executions, late
\* copies of the row and every failure between the claim, the bid and the
\* buyer (RouteCallToBuyer, ExecuteCallRouting).
THEOREM CallsHaveOneBuyer == ExchangeSpec => []OneBuyerNamed
<1>1. ExchangeCalls => OneBuyerNamed
  BY OneBuyerFollows DEF ExchangeCalls
<1> QED
  BY <1>1, ExchangeCallsHold, PTL

\* Once the edits, auctions and routers that read a bid while it was open are
\* done, its status never changes again (Update of the bids has no condition:
\* the tests of UpdateBid, CancelBid, finalizeAuction and the routers on what
\* they read are all that protects it).
THEOREM SettledBidsAreFinal == ExchangeSpec => SettledBidIsFinal
<1>1. ExchangeCalls /\ [ExchangeNext]_<<callVars, consentVars>>
        => [\A b \in Bids : Settled(b) => Settled(b)' /\ bidStatus'[b] = bidStatus[b]]_callVars
  BY SettledStays DEF ExchangeCalls, CallInv
<1> QED
  BY <1>1, ExchangeCallsHold, PTL DEF ExchangeSpec, SettledBidIsFinal

\* A row that names its leg and says the call is over is right: no late poll,
\* hang-up or stale copy reports a live call as ended (telephony).
THEOREM EndedRowsAreRight == ExchangeSpec => []EndedRowMeansEndedLeg
<1>1. ExchangeCalls => EndedRowMeansEndedLeg
  BY DEF ExchangeCalls, CallInv, WorldTypeOK, RowsOK, RowOK, EndedRowMeansEndedLeg
<1> QED
  BY <1>1, ExchangeCallsHold, PTL
-----------------------------------------------------------------------------
(* The two composed: a RouteCall begun after the revocation.                 *)

BarredOK ==
    /\ barred # {} => ~overtaken /\ withdrawn # {}
    /\ RevokedIsNotRouted

ExchangeInv == CallInv /\ BidTypeOK /\ RevocationInv /\ BarredOK

\* A step on the calls takes no barred request past the consent check: the
\* consent service says no.
LEMMA CallStepBars ==
    ASSUME ExchangeInv, CallNext, UNCHANGED consentVars
    PROVE  BarredOK'
<1>0. /\ LocalTypeOK /\ BarredOK /\ UNCHANGED <<withdrawn, overtaken>>
      /\ (~overtaken /\ withdrawn # {}) => TRUE \notin CheckConsent
  BY RevocationAnswers DEF ExchangeInv, CallInv, consentVars, UncontestedRevocationHolds
<1>1. ASSUME barred' \subseteq barred, \A q \in barred' : xpc'[q] = xpc[q] PROVE BarredOK'
  BY <1>0, <1>1 DEF BarredOK, RevokedIsNotRouted
<1>2. ASSUME NEW q \in CallReqs, Finish(q) PROVE BarredOK'
  <2>1. barred' = barred \ {q} /\ \A p \in CallReqs \ {q} : xpc'[p] = xpc[p]
    BY <1>0, <1>2 DEF Finish, LocalTypeOK
  <2> QED
    BY <1>0, <1>1, <2>1 DEF LocalTypeOK
<1>3. ASSUME NEW q \in CallReqs, xpc[q] # "consent", barred' = barred, NEW pc, xpc' = [xpc EXCEPT ![q] = pc] PROVE BarredOK'
  <2>1. q \notin barred
    BY <1>0, <1>3 DEF BarredOK, RevokedIsNotRouted
  <2>2. \A p \in CallReqs \ {q} : xpc'[p] = xpc[p]
    BY <1>0, <1>3 DEF LocalTypeOK
  <2> QED
    BY <1>0, <1>1, <1>3, <2>1, <2>2 DEF LocalTypeOK
<1>4. ASSUME NEW q \in CallReqs, NEW pc, Goto(q, pc), xpc[q] # "consent" PROVE BarredOK'
  BY <1>3, <1>4 DEF Goto
<1>5. CASE BidStep \/ \E c \in Calls : ProcessSellerCall(c) \/ LegEnds(c)
  <2>1. UNCHANGED <<xpc, barred>>
    BY <1>5, BidStepStill DEF ProcessSellerCall, LegEnds
  <2> QED
    BY <1>1, <2>1
<1>6. ASSUME NEW q \in CallReqs, RoutingStep(q) PROVE BarredOK'
  <2>1. CASE RouteRead(q) \/ ClaimIfPending(q) \/ AcceptBid(q) \/ AssignBuyer(q)
    BY <1>2, <1>4, <2>1 DEF RouteRead, ClaimIfPending, AcceptBid, AssignBuyer
  <2>2. CASE Route(q)
    BY <1>3, <2>2 DEF Route
  <2>3. CASE AcceptFails(q) \/ HandOver(q) \/ GiveUp(q) \/ QueueForSellers(q)
    BY <1>2, <2>3 DEF AcceptFails, HandOver, GiveUp, QueueForSellers
  <2>4. CASE \E c \in Calls : \/ RouteCallToBuyer(q, c) \/ ExecuteCallRouting(q, c)
                              \/ ProcessDirectCall(q, c) \/ DistributeCall(q, c)
    <3>1. barred' = barred /\ xpc[q] = "idle" /\ \E pc \in Pcs : xpc' = [xpc EXCEPT ![q] = pc]
      BY <2>4 DEF RouteCallToBuyer, ExecuteCallRouting, ProcessDirectCall, DistributeCall, StartOp, Pcs
    <3> QED
      BY <1>3, <3>1
  <2> QED
    BY <1>6, <2>1, <2>2, <2>3, <2>4 DEF RoutingStep
<1>7. ASSUME NEW q \in CallReqs, CallRoutingStep(q) PROVE BarredOK'
  <2>1. CASE ConsentGiven(q)
    <3>1. barred = {} /\ barred' = barred
      BY <1>0, <2>1 DEF ConsentGiven, Goto, BarredOK
    <3> QED
      BY <1>1, <3>1
  <2>2. CASE ClaimAnyway(q)
    BY <1>4, <2>2 DEF ClaimAnyway
  <2>3. CASE \E c \in Calls : RouteCall(q, c)
    <3>1. /\ xpc[q] = "idle" /\ xpc' = [xpc EXCEPT ![q] = "consent"]
          /\ barred' = IF withdrawn # {} /\ ~overtaken THEN barred \union {q} ELSE barred
      BY <2>3 DEF RouteCall, StartOp
    <3>2. xpc'[q] = "consent" /\ \A p \in CallReqs \ {q} : xpc'[p] = xpc[p]
      BY <1>0, <3>1 DEF LocalTypeOK
    <3> QED
      BY <1>0, <3>1, <3>2 DEF BarredOK, RevokedIsNotRouted, LocalTypeOK
  <2> QED
    BY <1>7, <2>1, <2>2, <2>3 DEF CallRoutingStep
<1>8. ASSUME NEW q \in CallReqs, TelephonyStep(q) PROVE BarredOK'
  <2>1. CASE Dial(q) \/ Hangup(q)
    BY <1>4, <2>1 DEF Dial, Hangup
  <2>2. CASE DialFails(q) \/ RecordSid(q) \/ HangupFails(q) \/ RecordEnd(q) \/ RecordPoll(q)
    BY <1>2, <2>2 DEF DialFails, RecordSid, HangupFails, RecordEnd, RecordPoll
  <2>3. CASE Poll(q)
    <3>1. xpc[q] = "poll" /\ (Finish(q) \/ (barred' = barred /\ xpc' = [xpc EXCEPT ![q] = "recordPoll"]))
      BY <2>3 DEF Poll
    <3> QED
      BY <1>2, <1>3, <3>1
  <2>4. CASE \E c \in Calls : InitiateCall(q, c) \/ TerminateCall(q, c) \/ GetCallStatus(q, c)
    <3>1. barred' = barred /\ xpc[q] = "idle" /\ \E pc \in Pcs : xpc' = [xpc EXCEPT ![q] = pc]
      BY <2>4 DEF InitiateCall, TerminateCall, GetCallStatus, StartOp, Pcs
    <3> QED
      BY <1>3, <3>1
  <2> QED
    BY <1>8, <2>1, <2>2, <2>3, <2>4 DEF TelephonyStep
<1> QED
  BY <1>5, <1>6, <1>7, <1>8 DEF CallNext

LEMMA ExchangeInductive ==
    ASSUME ExchangeInv, [ExchangeNext]_<<callVars, consentVars>>
    PROVE  ExchangeInv'
<1>1. CallInv' /\ BidTypeOK'
  BY CallInductive, BidsInductive DEF ExchangeInv, CallInv
<1>2. RevocationInv'
  <2>1. [ConsentNext]_consentVars
    BY DEF ExchangeNext, ConsentMoves
  <2> QED
    BY <2>1, RevocationInductive DEF ExchangeInv
<1>3. BarredOK'
  <2>1. CASE ConsentMoves
    <3>1. /\ xpc' = xpc
          /\ barred' = IF withdrawn \subseteq withdrawn' /\ ~overtaken' THEN barred ELSE {}
      BY <2>1 DEF ConsentMoves
    <3> QED
      BY <3>1 DEF ExchangeInv, BarredOK, RevokedIsNotRouted
  <2>2. CASE CallNext /\ UNCHANGED consentVars
    BY <2>2, CallStepBars
  <2>3. CASE UNCHANGED <<callVars, consentVars>>
    BY <2>3 DEF ExchangeInv, BarredOK, RevokedIsNotRouted, callVars, consentVars
  <2> QED
    BY <2>1, <2>2, <2>3 DEF ExchangeNext
<1> QED
  BY <1>1, <1>2, <1>3 DEF ExchangeInv

\* A RouteCall that begins after an acknowledged revocation does not get past
\* the consent check, as long as the consent of the number is not contested.
THEOREM RevokedCallsAreNotRouted == ExchangeSpec => []RevokedIsNotRouted
<1>1. ExchangeInv /\ [ExchangeNext]_<<callVars, consentVars>> => ExchangeInv'
  BY ExchangeInductive
<1>2. ExchangeInit => ExchangeInv
  BY CallInitial, RevocationInitial DEF ExchangeInit, ExchangeInv, BarredOK, RevokedIsNotRouted, CallInit
<1>3. ExchangeInv => RevokedIsNotRouted
  BY DEF ExchangeInv, BarredOK
<1> QED
  BY <1>1, <1>2, <1>3, PTL DEF ExchangeSpec
=============================================================================
