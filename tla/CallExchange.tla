---------------------------- MODULE CallExchange ----------------------------
(***************************************************************************)
(* The calls and bids tables and the services that write them: call        *)
(* routing (callrouting.RouteCall), buyer routing (RouteCallToBuyer), the  *)
(* marketplace orchestrator, seller distribution, telephony and, on the    *)
(* bids, the bidding service and its auctions.  Each request is a          *)
(* goroutine that reads rows into copies, works on other tables or the     *)
(* provider, and writes a whole copy back; only buyer routing makes its    *)
(* write of a call conditional on the status it read.                      *)
(* RouteCall asks the consent service, so the module is composed with      *)
(* Consent: its CheckConsent is evaluated on the consent tables.           *)
(***************************************************************************)
EXTENDS Consent

CONSTANTS
    Calls, Bids,     \* row ids
    CallReqs,        \* request goroutines of the services
    BidReqs,         \* request goroutines of the bidding service
    MaxCallOps,      \* bound: requests started in a behaviour
    Nobody, Caller   \* buyer_id NULL; the buyer who placed the call itself

ASSUME CallAssumption ==
    /\ MaxCallOps \in Nat
    /\ Nobody \notin Bids /\ Caller \notin Bids

ActiveStatus == {"pending", "queued", "ringing", "in_progress"}
EndedStatus == {"completed", "failed", "no_answer"}
BidStatus == {"none", "pending", "active", "won", "lost", "canceled", "expired"}

VARIABLES
    callStatus,   \* calls.status, "none" for no row
    callBuyer,    \* calls.buyer_id: the buyer of a bid, Caller or Nobody
    callSeller,   \* calls with a seller_id
    callSid,      \* calls whose metadata holds the provider's call SID
    leg,          \* the provider's side of the call: "none", "live", "ended"
    activeCalls,  \* telephony's in-memory map
    tracked,      \* marketplace's activeAuctions, by call
    bidStatus,    \* bids.status, "none" for no row
    bidCall,      \* bids.call_id (a set of at most one)
    edits,        \* rows a bidding request has built or read and is about to write
    winner,       \* the bid the closing auction of a call is about to store as won
    losers,       \* the bids it will then store as lost
    xpc, xop,     \* where each request is, and which operation it runs
    xcall,        \* its call (a set of at most one)
    xbid,         \* the bid the router chose (a set of at most one)
    xbuyer, xsid, \* its copy of the row
    xst,          \* the status it will write
    xops,         \* requests started (bounded)
    claims,       \* history: conditional updates of the call that took effect
    accepted,     \* history: bids buyer routing stored as won for the call
    barred        \* history: RouteCalls begun after an uncontested revocation

callRow == <<callStatus, callBuyer, callSeller, callSid>>
bidCopies == <<edits, winner, losers>>
callWorld == <<leg, activeCalls, tracked, bidStatus, bidCall, bidCopies>>
callLocal == <<xcall, xbid, xbuyer, xsid, xst>>
callHistory == <<claims, accepted>>
callVars == <<callRow, callWorld, xpc, xop, callLocal, xops, callHistory, barred>>

\* Mutant: canceled and busy have no case of their own.
mapStatusToEnum_NoAliases(st) == st

\* mapStatusToEnum then mapEnumToStatus: what a status is once stored.
mapStatusToEnum(st) ==
    CASE st = "canceled" -> "failed"
      [] st = "busy" -> "no_answer"
      [] OTHER -> st

\* mapProviderStatus on what the provider can say of a leg; a status the
\* switch does not list ("initiated") becomes pending.
mapProviderStatus(l) ==
    IF l = "live" THEN {"queued", "ringing", "in_progress", "pending"}
    ELSE {"completed", "failed", "no_answer", "busy", "canceled"}

CallInit ==
    /\ callStatus = [c \in Calls |-> "none"]
    /\ callBuyer = [c \in Calls |-> Nobody]
    /\ callSeller = {} /\ callSid = {}
    /\ leg = [c \in Calls |-> "none"]
    /\ activeCalls = {} /\ tracked = {}
    /\ bidStatus = [b \in Bids |-> "none"]
    /\ bidCall = [b \in Bids |-> {}]
    /\ edits = [r \in BidReqs |-> {}]
    /\ winner = [c \in Calls |-> {}] /\ losers = [c \in Calls |-> {}]
    /\ xpc = [q \in CallReqs |-> "idle"]
    /\ xop = [q \in CallReqs |-> "none"]
    /\ xcall = [q \in CallReqs |-> {}]
    /\ xbid = [q \in CallReqs |-> {}]
    /\ xbuyer = [q \in CallReqs |-> Nobody]
    /\ xsid = [q \in CallReqs |-> FALSE]
    /\ xst = [q \in CallReqs |-> "none"]
    /\ xops = 0
    /\ claims = [c \in Calls |-> 0]
    /\ accepted = [c \in Calls |-> {}] /\ barred = {}

\* A request begins operation op on call c at step pc.
StartOp(q, op, c, pc) ==
    /\ xpc[q] = "idle"
    /\ xops < MaxCallOps
    /\ xops' = xops + 1
    /\ xpc' = [xpc EXCEPT ![q] = pc]
    /\ xop' = [xop EXCEPT ![q] = op]
    /\ xcall' = [xcall EXCEPT ![q] = {c}]

\* GetByID: the request's copy of the row.
ReadRow(q, c) ==
    /\ xbuyer' = [xbuyer EXCEPT ![q] = callBuyer[c]]
    /\ xsid' = [xsid EXCEPT ![q] = c \in callSid]

Finish(q) ==
    /\ xpc' = [xpc EXCEPT ![q] = "idle"]
    /\ xop' = [xop EXCEPT ![q] = "none"]
    /\ xcall' = [xcall EXCEPT ![q] = {}]
    /\ xbid' = [xbid EXCEPT ![q] = {}]
    /\ xbuyer' = [xbuyer EXCEPT ![q] = Nobody]
    /\ xsid' = [xsid EXCEPT ![q] = FALSE]
    /\ xst' = [xst EXCEPT ![q] = "none"]
    /\ barred' = barred \ {q}

Goto(q, pc) ==
    /\ xpc' = [xpc EXCEPT ![q] = pc]
    /\ UNCHANGED <<xop, xbid, xbuyer, xsid, xst, xcall, barred>>

\* Update: every column of the copy is written, whatever the row holds now.
\* The route id the routers set has no column and no metadata field.
UpdateRow(c, st, buyer, sid) ==
    /\ callStatus' = [callStatus EXCEPT ![c] = mapStatusToEnum(st)]
    /\ callBuyer' = [callBuyer EXCEPT ![c] = buyer]
    /\ callSid' = IF sid THEN callSid \union {c} ELSE callSid \ {c}
    /\ UNCHANGED callSeller

\* Create: a new call is pending.
CreateRow(c, buyer, seller) ==
    /\ callStatus[c] = "none"
    /\ callStatus' = [callStatus EXCEPT ![c] = "pending"]
    /\ callBuyer' = [callBuyer EXCEPT ![c] = buyer]
    /\ callSeller' = IF seller THEN callSeller \union {c} ELSE callSeller
    /\ UNCHANGED callSid
-----------------------------------------------------------------------------
(* Bids.  Whether a bid has expired at the moment of a read is left open.   *)

\* The bid object a request is about to store has a fresh id.
NewBid(r, b, c, st) ==
    /\ edits[r] = {}
    /\ bidStatus[b] = "none" /\ bidCall[b] = {}
    /\ bidCall' = [bidCall EXCEPT ![b] = {c}]
    /\ edits' = [edits EXCEPT ![r] = {<<b, st>>}]
    /\ UNCHANGED <<callRow, leg, activeCalls, tracked, bidStatus, winner, losers, xpc, xop, callLocal, xops, callHistory, barred>>

\* PlaceBid tests the call it reads, looks at the account, the balance and the
\* fraud check, and then stores an active bid (WriteBid).
PlaceBid(r, b, c) ==
    /\ callStatus[c] \in {"pending", "queued"}
    /\ NewBid(r, b, c, "active")

\* ProcessBuyerBid requires a call with a seller, in whatever status, and
\* stores a pending bid.
ProcessBuyerBid(r, b, c) ==
    /\ c \in callSeller
    /\ NewBid(r, b, c, "pending")

\* Mutant: the status of the bid is not tested.
EditBid_AnyStatus(r, b) ==
    /\ edits[r] = {}
    /\ bidStatus[b] # "none"
    /\ \E st \in {bidStatus[b], "canceled"} : edits' = [edits EXCEPT ![r] = {<<b, st>>}]
    /\ UNCHANGED <<callRow, leg, activeCalls, tracked, bidStatus, bidCall, winner, losers, xpc, xop, callLocal, xops, callHistory, barred>>

\* UpdateBid and CancelBid read a bid and test its status; UpdateBid will write
\* the status it read, CancelBid canceled.
EditBid(r, b) ==
    /\ edits[r] = {}
    /\ bidStatus[b] \in {"active", "pending"}
    /\ \E st \in {bidStatus[b], "canceled"} : edits' = [edits EXCEPT ![r] = {<<b, st>>}]
    /\ UNCHANGED <<callRow, leg, activeCalls, tracked, bidStatus, bidCall, winner, losers, xpc, xop, callLocal, xops, callHistory, barred>>

\* ProcessExpiredBids reads the expired bids and writes one after the other.
ProcessExpiredBids(r) ==
    /\ edits[r] = {}
    /\ \E S \in SUBSET {b \in Bids : bidStatus[b] \in {"active", "pending"}} :
          S # {} /\ edits' = [edits EXCEPT ![r] = {<<b, "expired">> : b \in S}]
    /\ UNCHANGED <<callRow, leg, activeCalls, tracked, bidStatus, bidCall, winner, losers, xpc, xop, callLocal, xops, callHistory, barred>>

\* Create and Update: the row takes the status of the copy, whatever it holds
\* now; or the store fails and nothing is written.
WriteBid(r) ==
    /\ \E w \in edits[r] :
          /\ bidStatus' \in {bidStatus, [bidStatus EXCEPT ![w[1]] = w[2]]}
          /\ edits' = [edits EXCEPT ![r] = @ \ {w}]
    /\ UNCHANGED <<callRow, leg, activeCalls, tracked, bidCall, winner, losers, xpc, xop, callLocal, xops, callHistory, barred>>

OpenBids(c) == {b \in Bids : bidStatus[b] = "active" /\ bidCall[b] = {c}}

\* finalizeAuction reads the open bids and takes the highest for the winner.
\* Two finalizations of one call at a time are module Auction's.
AuctionReads(c) ==
    /\ winner[c] = {} /\ losers[c] = {}
    /\ \E S \in SUBSET OpenBids(c) : \E w \in S :
          /\ winner' = [winner EXCEPT ![c] = {w}]
          /\ losers' = [losers EXCEPT ![c] = S \ {w}]
    /\ UNCHANGED <<callRow, leg, activeCalls, tracked, bidStatus, bidCall, edits, xpc, xop, callLocal, xops, callHistory, barred>>

\* The winner is stored; an error of that ends the finalization.
AuctionAccepts(c) ==
    /\ \E w \in winner[c] : \/ bidStatus' = [bidStatus EXCEPT ![w] = "won"] /\ UNCHANGED losers
                            \/ UNCHANGED bidStatus /\ losers' = [losers EXCEPT ![c] = {}]
    /\ winner' = [winner EXCEPT ![c] = {}]
    /\ UNCHANGED <<callRow, leg, activeCalls, tracked, bidCall, edits, xpc, xop, callLocal, xops, callHistory, barred>>

\* Then each loser, from the copy read at the start; an error is skipped.
AuctionRejects(c) ==
    /\ winner[c] = {}
    /\ \E b \in losers[c] :
          /\ bidStatus' \in {bidStatus, [bidStatus EXCEPT ![b] = "lost"]}
          /\ losers' = [losers EXCEPT ![c] = @ \ {b}]
    /\ UNCHANGED <<callRow, leg, activeCalls, tracked, bidCall, edits, winner, xpc, xop, callLocal, xops, callHistory, barred>>
-----------------------------------------------------------------------------
(* Routing                                                                  *)

\* RouteCall and RouteCallToBuyer read the call and require it to be pending.
RouteCall(q, c) ==
    /\ StartOp(q, "route", c, "consent")
    /\ callStatus[c] = "pending"
    /\ ReadRow(q, c)
    /\ barred' = IF withdrawn # {} /\ ~overtaken THEN barred \union {q} ELSE barred
    /\ UNCHANGED <<callRow, callWorld, xbid, xst, callHistory>>

RouteCallToBuyer(q, c) ==
    /\ StartOp(q, "buyer", c, "bids")
    /\ callStatus[c] = "pending"
    /\ ReadRow(q, c)
    /\ UNCHANGED <<callRow, callWorld, xbid, xst, callHistory, barred>>

\* ExecuteCallRouting reads the row, then asks buyer routing, which reads it
\* again (RouteRead); the first copy is the one it writes at the end.
ExecuteCallRouting(q, c) ==
    /\ StartOp(q, "execute", c, "read")
    /\ callStatus[c] # "none"
    /\ ReadRow(q, c)
    /\ UNCHANGED <<callRow, callWorld, xbid, xst, callHistory, barred>>

RouteRead(q) ==
    /\ xpc[q] = "read"
    /\ \E c \in xcall[q] : callStatus[c] = "pending"
    /\ Goto(q, "bids")
    /\ UNCHANGED <<callRow, callWorld, xops, callHistory>>

\* Mutant: the consent service is not asked.
ConsentGiven_NotAsked(q) ==
    /\ xpc[q] = "consent"
    /\ Goto(q, "bids")
    /\ UNCHANGED <<callRow, callWorld, xops, callHistory>>

\* The consent service answers yes for the number of the call.
ConsentGiven(q) ==
    /\ xpc[q] = "consent"
    /\ TRUE \in CheckConsent
    /\ Goto(q, "bids")
    /\ UNCHANGED <<callRow, callWorld, xops, callHistory>>

\* GetActiveBidsForCall, then the router takes one of the active bids: round
\* robin, best skill match or best cost score.  The buyer routers dereference
\* the seller of the call: without one the request panics (GiveUp).
Route(q) ==
    /\ xpc[q] = "bids"
    /\ xop[q] = "route" \/ xcall[q] \subseteq callSeller
    /\ \E c \in xcall[q] : \E b \in OpenBids(c) : xbid' = [xbid EXCEPT ![q] = {b}]
    /\ xpc' = [xpc EXCEPT ![q] = "claim"]
    /\ UNCHANGED <<callRow, callWorld, xop, xcall, xbuyer, xsid, xst, xops, callHistory, barred>>

\* callrouting writes its copy with no condition.
ClaimAnyway(q) ==
    /\ xpc[q] = "claim" /\ xop[q] = "route"
    /\ \E c \in xcall[q] : UpdateRow(c, "queued", xbuyer[q], xsid[q])
    /\ Goto(q, "accept")
    /\ UNCHANGED <<callWorld, xops, callHistory>>

\* Mutant: the update has no status condition.
ClaimIfPending_NoStatusCheck(q) ==
    /\ xpc[q] = "claim" /\ xop[q] # "route"
    /\ \E c \in xcall[q] :
          /\ UpdateRow(c, "queued", xbuyer[q], xsid[q])
          /\ claims' = [claims EXCEPT ![c] = @ + 1]
    /\ Goto(q, "accept")
    /\ UNCHANGED <<callWorld, xops, accepted>>

\* UpdateWithStatusCheck: the write takes effect only on a pending row.
ClaimIfPending(q) ==
    /\ xpc[q] = "claim" /\ xop[q] # "route"
    /\ \E c \in xcall[q] :
          /\ callStatus[c] = "pending"
          /\ UpdateRow(c, "queued", xbuyer[q], xsid[q])
          /\ claims' = [claims EXCEPT ![c] = @ + 1]
    /\ Goto(q, "accept")
    /\ UNCHANGED <<callWorld, xops, accepted>>

\* GetBidByID and Accept: the bid is won, whatever its status became.
AcceptBid(q) ==
    /\ xpc[q] = "accept"
    /\ \E b \in xbid[q] :
          /\ bidStatus' = [bidStatus EXCEPT ![b] = "won"]
          /\ accepted' = [c \in Calls |-> IF c \in xcall[q] /\ xop[q] # "route" THEN accepted[c] \union {b}
                                         ELSE accepted[c]]
    /\ IF xop[q] = "execute" THEN Goto(q, "assign") ELSE Finish(q)
    /\ UNCHANGED <<callRow, leg, activeCalls, tracked, bidCall, bidCopies, xops, claims>>

\* Mutant: the orchestrator goes on after the error.
AcceptFails_GoesOn(q) ==
    /\ xpc[q] = "accept"
    /\ IF xop[q] = "execute" THEN Goto(q, "assign") ELSE Finish(q)
    /\ UNCHANGED <<callRow, callWorld, xops, callHistory>>

\* Reading or storing the winning bid fails: the call stays queued.
AcceptFails(q) ==
    /\ xpc[q] = "accept"
    /\ Finish(q)
    /\ UNCHANGED <<callRow, callWorld, xops, callHistory>>

\* ExecuteCallRouting names the buyer and queues the call once more, on the
\* copy it read before the routing.
AssignBuyer(q) ==
    /\ xpc[q] = "assign"
    /\ \E c \in xcall[q], b \in xbid[q] : UpdateRow(c, "queued", b, xsid[q])
    /\ Goto(q, "handOver")
    /\ UNCHANGED <<callWorld, xops, callHistory>>

\* Telephony (behind the orchestrator's interface) is asked to dial: a leg is
\* opened or not, an answer or an error comes back, and neither is stored.
HandOver(q) ==
    /\ xpc[q] = "handOver"
    /\ \E c \in xcall[q] : leg' \in {leg, [leg EXCEPT ![c] = "live"]}
    /\ Finish(q)
    /\ UNCHANGED <<callRow, activeCalls, tracked, bidStatus, bidCall, bidCopies, xops, callHistory>>

\* Every other way a request ends: the call is not pending any more, consent
\* is refused, there are no bids, a router panics, or the store fails.
GiveUp(q) ==
    /\ xpc[q] \in {"read", "consent", "bids", "claim", "assign", "queue", "recordSid", "recordEnd", "recordPoll"}
    /\ Finish(q)
    /\ UNCHANGED <<callRow, callWorld, xops, callHistory>>
-----------------------------------------------------------------------------
(* Marketplace and seller distribution                                      *)

\* validateCallForDistribution.
Distributable(c) == callStatus[c] = "pending" /\ c \notin callSeller

\* ProcessIncomingCall with a seller: the call is stored without a buyer and
\* ProcessSellerCall, which requires the seller, asks seller distribution,
\* which refuses a call that has one; an auction is tracked only on success.
ProcessSellerCall(c) ==
    /\ xops < MaxCallOps
    /\ xops' = xops + 1
    /\ CreateRow(c, Nobody, TRUE)
    /\ tracked' = IF Distributable(c)' THEN tracked \union {c} ELSE tracked
    /\ UNCHANGED <<leg, activeCalls, bidStatus, bidCall, bidCopies, xpc, xop, callLocal, callHistory, barred>>

\* ProcessIncomingCall with a buyer: stored, then routed by ExecuteCallRouting.
ProcessDirectCall(q, c) ==
    /\ StartOp(q, "execute", c, "read")
    /\ CreateRow(c, Caller, FALSE)
    /\ xbuyer' = [xbuyer EXCEPT ![q] = Caller]
    /\ UNCHANGED <<callWorld, xbid, xsid, xst, callHistory, barred>>

\* DistributeCall: the call is read and checked, sellers are selected, and the
\* copy is written back as queued.
DistributeCall(q, c) ==
    /\ StartOp(q, "distribute", c, "queue")
    /\ Distributable(c)
    /\ ReadRow(q, c)
    /\ UNCHANGED <<callRow, callWorld, xbid, xst, callHistory, barred>>

QueueForSellers(q) ==
    /\ xpc[q] = "queue"
    /\ \E c \in xcall[q] : UpdateRow(c, "queued", xbuyer[q], xsid[q])
    /\ Finish(q)
    /\ UNCHANGED <<callWorld, xops, callHistory>>
-----------------------------------------------------------------------------
(* Telephony                                                                *)

InitiateCall(q, c) ==
    /\ StartOp(q, "initiate", c, "dial")
    /\ CreateRow(c, Caller, FALSE)
    /\ xbuyer' = [xbuyer EXCEPT ![q] = Caller]
    /\ UNCHANGED <<callWorld, xbid, xsid, xst, callHistory, barred>>

\* The provider opens a leg and answers with its SID.
Dial(q) ==
    /\ xpc[q] = "dial"
    /\ \E c \in xcall[q] : leg' = [leg EXCEPT ![c] = "live"]
    /\ Goto(q, "recordSid")
    /\ UNCHANGED <<callRow, activeCalls, tracked, bidStatus, bidCall, bidCopies, xops, callHistory>>

\* The provider refuses, or its answer is lost after it opened the leg: the
\* row is written as failed, and an error of that write is ignored.
DialFails(q) ==
    /\ xpc[q] = "dial"
    /\ \E c \in xcall[q] :
          /\ leg' \in {leg, [leg EXCEPT ![c] = "live"]}
          /\ UpdateRow(c, "failed", xbuyer[q], FALSE) \/ UNCHANGED callRow
    /\ Finish(q)
    /\ UNCHANGED <<activeCalls, tracked, bidStatus, bidCall, bidCopies, xops, callHistory>>

RecordSid(q) ==
    /\ xpc[q] = "recordSid"
    /\ \E c \in xcall[q] :
          /\ UpdateRow(c, "queued", xbuyer[q], TRUE)
          /\ activeCalls' = activeCalls \union {c}
    /\ Finish(q)
    /\ UNCHANGED <<leg, tracked, bidStatus, bidCall, bidCopies, xops, callHistory>>

TerminateCall(q, c) ==
    /\ StartOp(q, "terminate", c, "hangup")
    /\ callStatus[c] \in ActiveStatus
    /\ ReadRow(q, c)
    /\ UNCHANGED <<callRow, callWorld, xbid, xst, callHistory, barred>>

Hangup(q) ==
    /\ xpc[q] = "hangup"
    /\ xsid[q]
    /\ \E c \in xcall[q] : leg' = [leg EXCEPT ![c] = "ended"]
    /\ Goto(q, "recordEnd")
    /\ UNCHANGED <<callRow, activeCalls, tracked, bidStatus, bidCall, bidCopies, xops, callHistory>>

\* Mutant: the provider's error is ignored.
HangupFails_Ignored(q) ==
    /\ xpc[q] = "hangup"
    /\ Goto(q, "recordEnd")
    /\ UNCHANGED <<callRow, callWorld, xops, callHistory>>

\* The provider refuses (it knows no such SID), or its answer is lost.
HangupFails(q) ==
    /\ xpc[q] = "hangup"
    /\ \/ UNCHANGED leg
       \/ \E c \in xcall[q] : xsid[q] /\ leg' = [leg EXCEPT ![c] = "ended"]
    /\ Finish(q)
    /\ UNCHANGED <<callRow, activeCalls, tracked, bidStatus, bidCall, bidCopies, xops, callHistory>>

RecordEnd(q) ==
    /\ xpc[q] = "recordEnd"
    /\ \E c \in xcall[q] :
          /\ UpdateRow(c, "canceled", xbuyer[q], xsid[q])
          /\ activeCalls' = activeCalls \ {c}
    /\ Finish(q)
    /\ UNCHANGED <<leg, tracked, bidStatus, bidCall, bidCopies, xops, callHistory>>

GetCallStatus(q, c) ==
    /\ StartOp(q, "status", c, "poll")
    /\ callStatus[c] \in ActiveStatus /\ c \in callSid
    /\ ReadRow(q, c)
    /\ xst' = [xst EXCEPT ![q] = callStatus[c]]
    /\ UNCHANGED <<callRow, callWorld, xbid, callHistory, barred>>

\* The provider answers; a status equal to the copy's is not written.
Poll(q) ==
    /\ xpc[q] = "poll"
    /\ \E c \in xcall[q] : \E st \in mapProviderStatus(leg[c]) :
          IF st # xst[q]
          THEN /\ xst' = [xst EXCEPT ![q] = st]
               /\ xpc' = [xpc EXCEPT ![q] = "recordPoll"]
               /\ UNCHANGED <<xop, xcall, xbid, xbuyer, xsid, barred>>
          ELSE Finish(q)
    /\ UNCHANGED <<callRow, callWorld, xops, callHistory>>

RecordPoll(q) ==
    /\ xpc[q] = "recordPoll"
    /\ \E c \in xcall[q] : UpdateRow(c, xst[q], xbuyer[q], xsid[q])
    /\ Finish(q)
    /\ UNCHANGED <<callWorld, xops, callHistory>>

\* The parties hang up.
LegEnds(c) ==
    /\ leg[c] = "live"
    /\ leg' = [leg EXCEPT ![c] = "ended"]
    /\ UNCHANGED <<callRow, activeCalls, tracked, bidStatus, bidCall, bidCopies, xpc, xop, callLocal, xops, callHistory, barred>>
-----------------------------------------------------------------------------
RoutingStep(q) ==
    \/ RouteRead(q) \/ Route(q) \/ ClaimIfPending(q)
    \/ AcceptBid(q) \/ AcceptFails(q) \/ AssignBuyer(q) \/ HandOver(q) \/ GiveUp(q)
    \/ QueueForSellers(q)
    \/ \E c \in Calls : \/ RouteCallToBuyer(q, c) \/ ExecuteCallRouting(q, c)
                        \/ ProcessDirectCall(q, c) \/ DistributeCall(q, c)

CallRoutingStep(q) ==
    \/ ConsentGiven(q) \/ ClaimAnyway(q)
    \/ \E c \in Calls : RouteCall(q, c)

TelephonyStep(q) ==
    \/ Dial(q) \/ DialFails(q) \/ RecordSid(q)
    \/ Hangup(q) \/ HangupFails(q) \/ RecordEnd(q)
    \/ Poll(q) \/ RecordPoll(q)
    \/ \E c \in Calls : InitiateCall(q, c) \/ TerminateCall(q, c) \/ GetCallStatus(q, c)

PlaceStep ==
    \E r \in BidReqs : WriteBid(r) \/ \E b \in Bids, c \in Calls : PlaceBid(r, b, c)

BidStep ==
    \/ PlaceStep
    \/ \E c \in Calls : AuctionReads(c) \/ AuctionAccepts(c) \/ AuctionRejects(c)
    \/ \E r \in BidReqs : ProcessExpiredBids(r) \/ \E b \in Bids : EditBid(r, b)
    \/ \E r \in BidReqs, b \in Bids, c \in Calls : ProcessBuyerBid(r, b, c)

CallNext ==
    \/ BidStep
    \/ \E c \in Calls : ProcessSellerCall(c) \/ LegEnds(c)
    \/ \E q \in CallReqs : RoutingStep(q) \/ CallRoutingStep(q) \/ TelephonyStep(q)

\* A step of the consent service; a grant that begins lifts the bar, and so
\* does a save that was overtaken or a second consumer with the number.
ConsentMoves ==
    /\ ConsentNext
    /\ barred' = IF withdrawn \subseteq withdrawn' /\ ~overtaken' THEN barred ELSE {}
    /\ UNCHANGED <<callRow, callWorld, xpc, xop, callLocal, xops, callHistory>>

ExchangeNext == ConsentMoves \/ (CallNext /\ UNCHANGED consentVars)

ExchangeInit == ConsentInit /\ CallInit

ExchangeSpec == ExchangeInit /\ [][ExchangeNext]_<<callVars, consentVars>>
-----------------------------------------------------------------------------
CallTypeOK ==
    /\ callStatus \in [Calls -> ActiveStatus \union EndedStatus \union {"none"}]
    /\ callBuyer \in [Calls -> Bids \union {Caller, Nobody}]
    /\ callSeller \subseteq Calls /\ callSid \subseteq Calls
    /\ leg \in [Calls -> {"none", "live", "ended"}]
    /\ activeCalls \subseteq Calls /\ tracked \subseteq Calls
    /\ bidStatus \in [Bids -> BidStatus]
    /\ bidCall \in [Bids -> SUBSET Calls]
    /\ edits \in [BidReqs -> SUBSET (Bids \X BidStatus)]
    /\ winner \in [Calls -> SUBSET Bids] /\ losers \in [Calls -> SUBSET Bids]
    /\ xcall \in [CallReqs -> SUBSET Calls]
    /\ xbid \in [CallReqs -> SUBSET Bids]
    /\ xbuyer \in [CallReqs -> Bids \union {Caller, Nobody}]
    /\ xsid \in [CallReqs -> BOOLEAN]
    /\ claims \in [Calls -> Nat]
    /\ accepted \in [Calls -> SUBSET Bids]
    /\ barred \subseteq CallReqs

\* However many buyer routings, RouteCalls, polls, distributions and hang-ups
\* race on a call, the conditional update of RouteCallToBuyer takes effect at
\* most once: nothing makes a call that was claimed pending again.
ClaimedOnce ==
    \A c \in Calls : claims[c] <= 1

\* A call is given to one buyer: the row names the buyer of a bid only if
\* buyer routing stored that bid as won for the call before, and it did so for
\* no other bid.  Every failure between the claim, the bid and the buyer ends
\* the request, and no late copy of the row brings in another buyer.  What
\* the bid's row says afterwards is another matter (SettledBidIsFinal).
OneBuyerNamed ==
    \A c \in Calls : callBuyer[c] \in Bids => accepted[c] = {callBuyer[c]}

\* A decided bid of which no request, auction or router holds a copy.
Settled(b) ==
    /\ bidStatus[b] \in {"won", "lost", "canceled", "expired"}
    /\ \A r \in BidReqs : \A w \in edits[r] : w[1] # b
    /\ \A c \in Calls : b \notin winner[c] /\ b \notin losers[c]
    /\ \A q \in CallReqs : b \in xbid[q] => xpc[q] \notin {"claim", "accept"}

\* Only a copy taken before a bid was decided can change it afterwards: once
\* the edits, auctions and routers that read it while it was open are done, the
\* bid keeps its status for ever, however many requests come after.
SettledBidIsFinal ==
    [][\A b \in Bids : Settled(b) => Settled(b)' /\ bidStatus'[b] = bidStatus[b]]_callVars

\* A call shown as ended whose provider leg is known has really ended: no
\* order of polls, hang-ups and late writes reports a live call as over.
EndedRowMeansEndedLeg ==
    \A c \in callSid : callStatus[c] \in EndedStatus => leg[c] = "ended"

\* A RouteCall that begins after a revocation was acknowledged does not get past
\* the consent check, however the consent operations interleave with it, until
\* a new grant begins or the consent of the number is contested.
RevokedIsNotRouted ==
    \A q \in barred : xpc[q] = "consent"
=============================================================================
