------------------------------ MODULE Auction ------------------------------
(***************************************************************************)
(* The bids of one call: the bidding service that creates, edits, cancels  *)
(* and expires them, the auction engine that decides them, and the bids    *)
(* table all of them read and write back without a version check.          *)
(*                                                                         *)
(* The engine keeps nothing that calls share but its map, keyed by call,   *)
(* so one call is modelled.  A read of the table and the write back that   *)
(* follows it are separate steps: any other request, timer or finalization *)
(* may run in between.                                                     *)
(***************************************************************************)
EXTENDS Integers

CONSTANTS
  Bids,          \* bid ids
  MinAmount, MaxAmount,  \* the service's minBidAmount and maxBidAmount
  Balance,       \* balance of the buyers, as GetBalance returns it
  Duration,      \* default lifetime of a bid
  Extensions,    \* the ExtendBy values of UpdateBid; empty: nobody edits a bid
  MaxNow,        \* bound: the clock stops there
  MaxAuctions,   \* bound: activeAuction objects ever created for the call
  Runs,          \* goroutines that may execute finalizeAuction
  Sessions,      \* goroutines that serve a bidding request
  Faults,        \* whether a repository call may return an error
  Exclusive      \* timing assumption: a finalization ends before another
                 \* trigger of the same auction enters finalizeAuction

ASSUME AmountAssumption == MinAmount \in Nat /\ MaxAmount \in Nat /\ MinAmount > 0
ASSUME TimeAssumption == Duration \in Nat /\ MaxNow \in Nat /\ Extensions \subseteq Nat
ASSUME AuctionAssumption == MaxAuctions \in Nat /\ Balance \in Nat
ASSUME FlagAssumption == Faults \in BOOLEAN /\ Exclusive \in BOOLEAN

ASSUME ProcAssumption == Runs \cap Sessions = {}

VARIABLES
  db,          \* the bids table: a row for each bid id, NoRow if absent
  biddable,    \* whether the call row is in pending or queued
  now,         \* the clock
  registered,  \* e.auctions[callID]: an auction, or 0 when there is none
  created,     \* how many activeAuction objects were allocated
  status,      \* their status field, "none" before they are allocated
  armed,       \* whether their closeTimer runs
  monitored,   \* whether their monitorAuction goroutine runs
  pc,          \* the next step of every run and session, "idle" when it has none
  target,      \* the auction it works on
  rows,        \* the copies of rows it holds
  decided      \* history: the rows each auction's finalizations wrote

storeVars == <<db, biddable, now>>
mapVars == <<registered, created>>
objectVars == <<status, armed, monitored>>
localVars == <<pc, target, rows>>
vars == <<storeVars, mapVars, objectVars, localVars, decided>>

-----------------------------------------------------------------------------
Amounts == MinAmount .. MaxAmount
Auctions == 1 .. MaxAuctions

BidStatus == {"none", "pending", "active", "winning", "won", "lost", "expired", "canceled"}

Row == [status : BidStatus, amount : Nat, expiresAt : Nat]
NoRow == [status |-> "none", amount |-> 0, expiresAt |-> 0]

\* In-memory copies of rows: NoRow for the bids that were not read.
NoRows == [b \in Bids |-> NoRow]
Held(copies) == {b \in Bids : copies[b].status # "none"}

\* Mutant: the query loses its status filter.
ActiveBids_AnyStatus ==
  [b \in Bids |-> IF db[b].status # "none" /\ db[b].expiresAt > now THEN db[b] ELSE NoRow]

\* GetActiveBidsForCall.
ActiveBids ==
  [b \in Bids |->
     IF db[b].status \in {"active", "winning"} /\ db[b].expiresAt > now
     THEN db[b] ELSE NoRow]

\* GetExpiredBids.
ExpiredBids ==
  [b \in Bids |->
     IF db[b].status \in {"pending", "active", "winning"} /\ db[b].expiresAt < now
     THEN db[b] ELSE NoRow]

\* Mutant: the comparison sorts the lowest bid first.
Highest_Ascending(copies) ==
  {b \in Held(copies) : \A c \in Held(copies) : copies[c].amount >= copies[b].amount}

\* The bids sort.Slice may put first: it is not stable, so ties are open.
Highest(copies) ==
  {b \in Held(copies) : \A c \in Held(copies) : copies[c].amount <= copies[b].amount}

\* The domain methods Accept and Reject, and the status CancelBid and
\* ProcessExpiredBids assign.
WithStatus(row, st) == [status |-> st, amount |-> row.amount, expiresAt |-> row.expiresAt]
Accept(row) == WithStatus(row, "won")
Reject(row) == WithStatus(row, "lost")

\* UpdateBid and CancelBid refuse any other status.
Modifiable == {"active", "pending"}

Procs == Runs \cup Sessions

Init ==
  /\ db = NoRows
  /\ biddable = TRUE
  /\ now = 0
  /\ registered = 0
  /\ created = 0
  /\ status = [i \in Auctions |-> "none"]
  /\ armed = [i \in Auctions |-> FALSE]
  /\ monitored = [i \in Auctions |-> FALSE]
  /\ pc = [p \in Procs |-> "idle"]
  /\ target = [p \in Procs |-> 0]
  /\ rows = [p \in Procs |-> NoRows]
  /\ decided = [i \in Auctions |-> NoRows]

\* Goroutine p goes on to step l, or returns and drops what it holds.
Goto(p, l) == pc' = [pc EXCEPT ![p] = l] /\ UNCHANGED <<target, rows>>
Return(p) == /\ pc' = [pc EXCEPT ![p] = "idle"]
             /\ target' = [target EXCEPT ![p] = 0]
             /\ rows' = [rows EXCEPT ![p] = NoRows]
Drop(p, b) == [rows EXCEPT ![p] = [rows[p] EXCEPT ![b] = NoRow]]

-----------------------------------------------------------------------------
(* finalizeAuction, and the three ways into it. *)

StartFinalize(r, i) ==
  /\ pc[r] = "idle"
  /\ pc' = [pc EXCEPT ![r] = "enter"]
  /\ target' = [target EXCEPT ![r] = i]
  /\ UNCHANGED <<rows, status, decided, storeVars, mapVars>>

\* time.AfterFunc: the close timer starts a goroutine of its own.
CloseTimerFires(r, i) ==
  /\ armed[i]
  /\ StartFinalize(r, i)
  /\ armed' = [armed EXCEPT ![i] = FALSE]
  /\ UNCHANGED monitored

\* monitorAuction: maxTimer.C.
MaxDurationReached(r, i) ==
  /\ monitored[i]
  /\ StartFinalize(r, i)
  /\ monitored' = [monitored EXCEPT ![i] = FALSE]
  /\ UNCHANGED armed

CloseAuction(r) ==
  /\ registered # 0
  /\ StartFinalize(r, registered)
  /\ UNCHANGED <<armed, monitored>>

\* monitorAuction: the context is the one of the request that placed the
\* first bid, so the monitor usually ends with that request.
RequestContextDone(i) ==
  /\ monitored[i]
  /\ monitored' = [monitored EXCEPT ![i] = FALSE]
  /\ UNCHANGED <<status, armed, decided, storeVars, mapVars, localVars>>

\* A run that has marked its auction as closing and not yet as closed.
InProgress == {"read", "accept", "reject"}

AlreadyClosed(r) ==
  /\ pc[r] = "enter"
  /\ status[target[r]] = "closed"
  /\ Return(r)
  /\ UNCHANGED <<decided, storeVars, mapVars, objectVars>>

\* Mutant: finalizeAuction does not look whether the auction is closed.
MarkClosing_NoClosedCheck(r) ==
  /\ pc[r] = "enter"
  /\ status' = [status EXCEPT ![target[r]] = "closing"]
  /\ Goto(r, "read")
  /\ UNCHANGED <<armed, monitored, decided, storeVars, mapVars>>

MarkClosing(r) ==
  /\ pc[r] = "enter"
  /\ status[target[r]] # "closed"
  /\ Exclusive => \A q \in Runs : target[q] = target[r] => pc[q] \notin InProgress
  /\ status' = [status EXCEPT ![target[r]] = "closing"]
  /\ Goto(r, "read")
  /\ UNCHANGED <<armed, monitored, decided, storeVars, mapVars>>

\* Mutant: finalizeAuction returns early when there is nothing to decide.
ReadBids_ReturnsWhenEmpty(r) ==
  /\ pc[r] = "read"
  /\ \/ /\ Held(ActiveBids) = {}
        /\ Return(r)
     \/ /\ Held(ActiveBids) # {}
        /\ pc' = [pc EXCEPT ![r] = "accept"]
        /\ rows' = [rows EXCEPT ![r] = ActiveBids]
        /\ UNCHANGED target
  /\ UNCHANGED <<decided, storeVars, mapVars, objectVars>>

ReadBids(r) ==
  /\ pc[r] = "read"
  /\ pc' = [pc EXCEPT ![r] = IF Held(ActiveBids) # {} THEN "accept" ELSE "reject"]
  /\ rows' = [rows EXCEPT ![r] = ActiveBids]
  /\ UNCHANGED <<target, decided, storeVars, mapVars, objectVars>>

\* The update of row b by run r's auction.
Decide(r, b, row) ==
  /\ db' = [db EXCEPT ![b] = row]
  /\ decided' = [decided EXCEPT ![target[r]] = [decided[target[r]] EXCEPT ![b] = row]]
  /\ rows' = Drop(r, b)
  /\ UNCHANGED <<target, biddable, now, mapVars, objectVars>>

AcceptWinner(r, w) ==
  /\ pc[r] = "accept"
  /\ w \in Highest(rows[r])
  /\ Decide(r, w, Accept(rows[r][w]))
  /\ pc' = [pc EXCEPT ![r] = "reject"]

\* The read or the winner's update returns an error: finalizeAuction returns,
\* leaving the auction registered and closing, with no timer.
FinalizeFails(r) ==
  /\ Faults
  /\ pc[r] \in {"read", "accept"}
  /\ Return(r)
  /\ UNCHANGED <<decided, storeVars, mapVars, objectVars>>

RejectLoser(r, l) ==
  /\ pc[r] = "reject"
  /\ l \in Highest(rows[r])
  /\ Decide(r, l, Reject(rows[r][l]))
  /\ UNCHANGED pc

\* "Log error but continue".
RejectLoserFails(r, l) ==
  /\ Faults
  /\ pc[r] = "reject"
  /\ l \in Highest(rows[r])
  /\ rows' = Drop(r, l)
  /\ UNCHANGED <<pc, target, decided, storeVars, mapVars, objectVars>>

\* Mutant: the closed auction is not deleted from the map.
MarkClosed_NoDelete(r) ==
  /\ pc[r] = "reject"
  /\ Held(rows[r]) = {}
  /\ status' = [status EXCEPT ![target[r]] = "closed"]
  /\ armed' = [armed EXCEPT ![target[r]] = FALSE]
  /\ Return(r)
  /\ UNCHANGED <<monitored, decided, storeVars, mapVars>>

\* Mutant: the status is left at closing when the auction is over.
MarkClosed_StatusForgotten(r) ==
  /\ pc[r] = "reject"
  /\ Held(rows[r]) = {}
  /\ armed' = [armed EXCEPT ![target[r]] = FALSE]
  /\ Goto(r, "unlist")
  /\ UNCHANGED <<status, monitored, decided, storeVars, mapVars>>

MarkClosed(r) ==
  /\ pc[r] = "reject"
  /\ Held(rows[r]) = {}
  /\ status' = [status EXCEPT ![target[r]] = "closed"]
  /\ armed' = [armed EXCEPT ![target[r]] = FALSE]
  /\ Goto(r, "unlist")
  /\ UNCHANGED <<monitored, decided, storeVars, mapVars>>

\* delete(e.auctions, auction.callID), whichever auction the map now holds.
Unlist(r) ==
  /\ pc[r] = "unlist"
  /\ registered' = 0
  /\ Return(r)
  /\ UNCHANGED <<created, decided, storeVars, objectVars>>

-----------------------------------------------------------------------------
(* PlaceBid, and HandleNewBid and RunAuction under it. *)

\* The checks of PlaceBid.  A refused request changes nothing but the
\* buyer's rate counter, which is not modelled here.
PlaceBid(s, b, a) ==
  /\ pc[s] = "idle"
  /\ db[b] = NoRow
  /\ \A t \in Sessions : rows[t][b] = NoRow
  /\ biddable
  /\ a <= Balance
  /\ pc' = [pc EXCEPT ![s] = "create"]
  /\ rows' = [rows EXCEPT ![s] = [NoRows EXCEPT ![b] =
       [status |-> "active", amount |-> a, expiresAt |-> now + Duration]]]
  /\ UNCHANGED <<target, decided, storeVars, mapVars, objectVars>>

CreateBid(s, b) ==
  /\ pc[s] = "create"
  /\ b \in Held(rows[s])
  /\ db' = [db EXCEPT ![b] = rows[s][b]]
  /\ rows' = Drop(s, b)
  /\ pc' = [pc EXCEPT ![s] = "lookup"]
  /\ UNCHANGED <<target, biddable, now, decided, mapVars, objectVars>>

\* Mutant: the result of the map lookup is used without its exists flag.
HandleNewBid_NoExistsCheck(s) ==
  /\ pc[s] = "lookup"
  /\ pc' = [pc EXCEPT ![s] = "reset"]
  /\ target' = [target EXCEPT ![s] = registered]
  /\ UNCHANGED <<rows, decided, storeVars, mapVars, objectVars>>

HandleNewBid(s) ==
  /\ pc[s] = "lookup"
  /\ pc' = [pc EXCEPT ![s] = IF registered = 0 THEN "run" ELSE "reset"]
  /\ target' = [target EXCEPT ![s] = registered]
  /\ UNCHANGED <<rows, decided, storeVars, mapVars, objectVars>>

\* A new activeAuction is registered and its monitor started.
NewAuction(s) ==
  /\ created < MaxAuctions
  /\ created' = created + 1
  /\ registered' = created + 1
  /\ status' = [status EXCEPT ![created + 1] = "open"]
  /\ monitored' = [monitored EXCEPT ![created + 1] = TRUE]
  /\ pc' = [pc EXCEPT ![s] = "initial"]
  /\ target' = [target EXCEPT ![s] = created + 1]
  /\ UNCHANGED <<armed, rows, decided, storeVars>>

\* Mutant: RunAuction trusts HandleNewBid's lookup and does not look again.
RunAuction_NoRecheck(s) == pc[s] = "run" /\ NewAuction(s)

\* RunAuction looks again: another request may have registered an auction
\* since HandleNewBid did.
RunAuction(s) == pc[s] = "run" /\ registered = 0 /\ NewAuction(s)

AuctionConflict(s) ==
  /\ pc[s] = "run"
  /\ registered # 0
  /\ Return(s)
  /\ UNCHANGED <<decided, storeVars, mapVars, objectVars>>

\* The initial bids: with none the close timer is not started.
InitialBids(s) ==
  /\ pc[s] = "initial"
  /\ IF Held(ActiveBids) # {} THEN Goto(s, "reset") ELSE Return(s)
  /\ UNCHANGED <<decided, storeVars, mapVars, objectVars>>

ResetCloseTimer(s) ==
  /\ pc[s] = "reset"
  /\ armed' = [armed EXCEPT ![target[s]] = TRUE]
  /\ Return(s)
  /\ UNCHANGED <<status, monitored, decided, storeVars, mapVars>>

\* Create or GetActiveBidsForCall returns an error: the request ends.
PlaceBidFails(s) ==
  /\ Faults
  /\ pc[s] \in {"create", "initial"}
  /\ Return(s)
  /\ UNCHANGED <<decided, storeVars, mapVars, objectVars>>

-----------------------------------------------------------------------------
(* UpdateBid, CancelBid and ProcessExpiredBids: read, then write back. *)

StartWriting(s, copies) ==
  /\ pc[s] = "idle"
  /\ pc' = [pc EXCEPT ![s] = "write"]
  /\ rows' = [rows EXCEPT ![s] = copies]
  /\ UNCHANGED <<target, decided, storeVars, mapVars, objectVars>>

\* Bound: no expiry is pushed beyond what the clock can make a difference to.
Horizon == MaxNow + Duration

UpdateBid(s, b, a, extendBy) ==
  /\ db[b].status \in Modifiable
  /\ db[b].expiresAt + extendBy <= Horizon
  /\ StartWriting(s, [NoRows EXCEPT ![b] =
       [status |-> db[b].status, amount |-> a, expiresAt |-> db[b].expiresAt + extendBy]])

CancelBid(s, b) ==
  /\ db[b].status \in Modifiable
  /\ StartWriting(s, [NoRows EXCEPT ![b] = WithStatus(db[b], "canceled")])

ProcessExpiredBids(s) ==
  /\ Held(ExpiredBids) # {}
  /\ StartWriting(s, [b \in Bids |->
       IF b \in Held(ExpiredBids) THEN WithStatus(db[b], "expired") ELSE NoRow])

\* One row is written back; an error skips it.
WriteRow(s, b) ==
  /\ pc[s] = "write"
  /\ b \in Held(rows[s])
  /\ \/ db' = [db EXCEPT ![b] = rows[s][b]]
     \/ Faults /\ UNCHANGED db
  /\ rows' = Drop(s, b)
  /\ pc' = IF Held(rows[s]) = {b} THEN [pc EXCEPT ![s] = "idle"] ELSE pc
  /\ UNCHANGED <<target, biddable, now, decided, mapVars, objectVars>>

-----------------------------------------------------------------------------
(* The environment: the clock, and the services that move the call on. *)

Tick ==
  /\ now < MaxNow
  /\ now' = now + 1
  /\ UNCHANGED <<db, biddable, decided, mapVars, objectVars, localVars>>

\* Telephony takes the call out of pending and queued: it rings, is answered,
\* fails or is terminated.
CallLeavesBidding ==
  /\ biddable
  /\ biddable' = FALSE
  /\ UNCHANGED <<db, now, decided, mapVars, objectVars, localVars>>

-----------------------------------------------------------------------------
RunStep(r) ==
  \/ AlreadyClosed(r) \/ MarkClosing(r) \/ ReadBids(r) \/ FinalizeFails(r)
  \/ \E b \in Bids : AcceptWinner(r, b) \/ RejectLoser(r, b) \/ RejectLoserFails(r, b)
  \/ MarkClosed(r) \/ Unlist(r)

Trigger(r) ==
  \/ CloseAuction(r)
  \/ \E i \in Auctions : CloseTimerFires(r, i) \/ MaxDurationReached(r, i)

SessionStep(s) ==
  \/ HandleNewBid(s) \/ RunAuction(s) \/ AuctionConflict(s)
  \/ InitialBids(s) \/ ResetCloseTimer(s) \/ PlaceBidFails(s)
  \/ \E b \in Bids : CreateBid(s, b) \/ WriteRow(s, b)

Request(s) ==
  \/ \E b \in Bids :
       \/ CancelBid(s, b)
       \/ \E a \in Amounts : PlaceBid(s, b, a) \/ \E e \in Extensions : UpdateBid(s, b, a, e)
  \/ ProcessExpiredBids(s)

Next ==
  \/ \E r \in Runs : RunStep(r) \/ Trigger(r)
  \/ \E s \in Sessions : SessionStep(s) \/ Request(s)
  \/ \E i \in Auctions : RequestContextDone(i)
  \/ Tick
  \/ CallLeavesBidding

Spec == Init /\ [][Next]_vars

\* Goroutines that have started run on, and an armed timer fires: the Go
\* scheduler and runtime timers guarantee both.  New requests, the monitor,
\* the clock and the call's progress are left to chance.
Fairness ==
  /\ \A r \in Runs : WF_vars(RunStep(r))
  /\ \A s \in Sessions : WF_vars(SessionStep(s))
  /\ \A i \in Auctions : WF_vars(\E r \in Runs : CloseTimerFires(r, i))

FairSpec == Spec /\ Fairness

-----------------------------------------------------------------------------
(* Properties *)

RunPc == {"idle", "enter", "read", "accept", "reject", "unlist"}
SessionPc == {"idle", "create", "lookup", "run", "initial", "reset", "write"}
AuctionStatus == {"none", "open", "closing", "closed"}

\* The types of the table, the engine's map and objects, and the local
\* variables of every request and finalization.  An auction that a goroutine,
\* a timer or a monitor will use has been allocated.
TypeOK ==
  /\ db \in [Bids -> Row] /\ biddable \in BOOLEAN /\ now \in Nat
  /\ created \in 0 .. MaxAuctions
  /\ registered \in 0 .. created
  /\ status \in [Auctions -> AuctionStatus]
  /\ armed \in [Auctions -> BOOLEAN]
  /\ monitored \in [Auctions -> BOOLEAN]
  /\ pc \in [Procs -> RunPc \cup SessionPc]
  /\ target \in [Procs -> 0 .. created]
  /\ rows \in [Procs -> [Bids -> Row]]
  /\ decided \in [Auctions -> [Bids -> Row]]
  /\ \A i \in Auctions : status[i] = "none" <=> i > created
  /\ \A i \in Auctions : armed[i] \/ monitored[i] => i <= created
  /\ \A r \in Runs : pc[r] \in RunPc /\ (pc[r] # "idle" => target[r] # 0)
  /\ \A s \in Sessions :
       pc[s] \in SessionPc /\ (pc[s] \in {"initial", "reset"} => target[s] # 0)

\* An auction the map still lists is either running or about to be removed by
\* the finalization that closed it: no closed auction is left in e.auctions,
\* where HandleNewBid would keep attaching new bids to it.
ListedUntilClosed ==
  registered # 0 =>
    \/ status[registered] \in {"open", "closing"}
    \/ \E r \in Runs : pc[r] = "unlist" /\ target[r] = registered

\* Concurrent finalizations, late timers and late bids never reopen an auction
\* that finalizeAuction has marked closed, nor put one back to open.
ClosedIsFinal ==
  [][\A i \in Auctions :
       /\ status[i] = "closed" => status'[i] = "closed"
       /\ status[i] = "closing" => status'[i] # "open"]_vars

\* RunAuction refuses to start a second auction for a call that has one
\* ("auction already running for call"): at most one is not closed.
OneOpenAuction ==
  \A i, j \in Auctions :
    status[i] \in {"open", "closing"} /\ status[j] \in {"open", "closing"} => i = j

\* What the finalizations of an auction wrote adds up to one decision: losers
\* only beside a winner, one winner, and no loser that bid more.
OneHighestWinner ==
  \A i \in Auctions : \A c \in Held(decided[i]) :
    \E w \in Held(decided[i]) :
      /\ decided[i][w].status = "won"
      /\ decided[i][c].amount <= decided[i][w].amount
      /\ decided[i][c].status = "won" => \A b \in Held(decided[i]) \ {c} : decided[i][b].status = "lost"

\* A bid one auction decided is not decided again by a later auction of the
\* same call.
BidDecidedOnce ==
  \A i, j \in Auctions : i # j => Held(decided[i]) \cap Held(decided[j]) = {}

\* Once a buyer's bid is won or lost, UpdateBid and CancelBid refuse it ("bid
\* cannot be modified in status"): a request never changes a decided row.
DecidedBidIsFinal ==
  [][\A b \in Bids : db[b].status \in {"won", "lost"} =>
       \/ db'[b] = db[b]
       \/ \E r \in Runs : rows'[r] # rows[r]]_vars

\* Every auction whose close timer runs is closed in the end.
ArmedAuctionCloses ==
  \A i \in Auctions : armed[i] ~> status[i] = "closed"

\* The inductive strengthening of the three invariants above that hold when
\* finalizations are exclusive.  Its parts: one run at a time is in progress on
\* an auction, which is then closing; the run about to delete the map's entry
\* deletes its own, closed auction; an auction not closed is the one listed.
OneRunPerAuction ==
  /\ \A r, q \in Runs :
       pc[r] \in InProgress /\ pc[q] \in InProgress /\ target[r] = target[q] => r = q
  /\ \A r \in Runs : pc[r] \in InProgress => status[target[r]] = "closing"

OneUnlisting ==
  /\ \A r, q \in Runs : pc[r] = "unlist" /\ pc[q] = "unlist" => r = q
  /\ \A r \in Runs : pc[r] = "unlist" => status[target[r]] = "closed" /\ registered = target[r]

OpenIsListed == \A i \in Auctions : status[i] \in {"open", "closing"} => registered = i

\* An auction that has decided anything is closed, or its one run is past the
\* winner; a loser still to be written bid no more than that winner, and has
\* not been decided.
DecisionInProgress ==
  /\ \A i \in Auctions : Held(decided[i]) # {} =>
       status[i] = "closed" \/ \E r \in Runs : pc[r] = "reject" /\ target[r] = i
  /\ \A r \in Runs : pc[r] = "reject" => \A c \in Held(rows[r]) :
       /\ decided[target[r]][c].status = "none"
       /\ \E w \in Held(decided[target[r]]) :
            /\ decided[target[r]][w].status = "won"
            /\ rows[r][c].amount <= decided[target[r]][w].amount

RunsInv == OneRunPerAuction /\ OneUnlisting /\ OpenIsListed
DecisionInv == DecisionInProgress /\ OneHighestWinner
ExclusiveInv == RunsInv /\ DecisionInv

\* The inductive strengthening of BidDecidedOnce when nobody edits a bid.  Its
\* parts: a row is created once, and what is written back over a row closes it;
\* a decided row is out of the active bids for good; what a run still has to
\* decide was decided by no auction.
Creates(s, b) == pc[s] = "create" /\ b \in Held(rows[s])

RowsInv ==
  /\ \A s \in Sessions, b \in Bids : Creates(s, b) =>
       db[b].status = "none" /\ \A t \in Sessions : Creates(t, b) => t = s
  /\ \A s \in Sessions : pc[s] = "write" => \A b \in Held(rows[s]) :
       rows[s][b].status \in {"canceled", "expired"} /\ db[b].status # "none"

UndecidedInv ==
  /\ \A i \in Auctions, b \in Bids : b \in Held(decided[i]) =>
       db[b].status \in {"won", "lost", "canceled", "expired"}
  /\ \A r \in Runs : pc[r] \in {"accept", "reject"} => \A b \in Held(rows[r]) :
       db[b].status # "none" /\ \A i \in Auctions : decided[i][b].status = "none"

DecidedOnceInv == RowsInv /\ UndecidedInv /\ BidDecidedOnce

\* Each auction behaves as AuctionOutcome says.
Outcome == INSTANCE AuctionOutcome WITH
  winners <- [i \in Auctions |-> {b \in Bids : decided[i][b].status = "won"}],
  closed <- [i \in Auctions |-> status[i] = "closed"]

\* The finalizations implement the abstract outcome: a winner is declared at
\* most once, and never after the auction is closed.
ImplementsOutcome == Outcome!Spec
=============================================================================
