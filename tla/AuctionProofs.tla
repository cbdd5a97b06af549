--------------------------- MODULE AuctionProofs ---------------------------
(* Proofs about Auction, for any numbers of bids, auctions and goroutines. *)
EXTENDS Auction, TLAPS

USE AmountAssumption, TimeAssumption, AuctionAssumption, FlagAssumption, ProcAssumption

\* The empty row is a row that holds nothing.
LEMMA EmptyRow == NoRow \in Row /\ NoRow.status = "none" /\ NoRows \in [Bids -> Row] /\ Held(NoRows) = {}
  BY DEF NoRow, Row, BidStatus, NoRows, Held

\* The two queries return rows of the table.
LEMMA QueryTypes ==
  ASSUME db \in [Bids -> Row]
  PROVE  ActiveBids \in [Bids -> Row] /\ ExpiredBids \in [Bids -> Row]
  BY EmptyRow DEF ActiveBids, ExpiredBids

\* A status change keeps a row a row, and its amount.
LEMMA StatusChange ==
  ASSUME NEW row \in Row, NEW st \in BidStatus
  PROVE  /\ WithStatus(row, st) \in Row
         /\ WithStatus(row, st).status = st
         /\ WithStatus(row, st).amount = row.amount
  BY DEF WithStatus, Row

\* Accept and Reject, as status changes.
LEMMA MethodTypes ==
  ASSUME NEW row \in Row
  PROVE  /\ Accept(row) \in Row /\ Accept(row).status = "won" /\ Accept(row).amount = row.amount
         /\ Reject(row) \in Row /\ Reject(row).status = "lost" /\ Reject(row).amount = row.amount
  BY StatusChange DEF Accept, Reject, BidStatus

\* Every table, map, object and local variable keeps its type in every step:
\* in particular no goroutine ever works on an auction that was not allocated.
THEOREM TypeCorrect == Spec => []TypeOK
<1>1. Init => TypeOK
  BY EmptyRow DEF Init, TypeOK, Auctions, AuctionStatus, RunPc, SessionPc, Procs
<1>2. TypeOK /\ [Next]_vars => TypeOK'
  <2> SUFFICES ASSUME TypeOK, [Next]_vars PROVE TypeOK'
    OBVIOUS
  <2> USE EmptyRow, QueryTypes DEF TypeOK, storeVars, mapVars, objectVars, localVars, Auctions, AuctionStatus, RunPc, SessionPc, Procs
  <2>1. ASSUME NEW r \in Runs, NEW i \in Auctions, CloseTimerFires(r, i) PROVE TypeOK'
    BY <2>1 DEF CloseTimerFires, StartFinalize
  <2>2. ASSUME NEW r \in Runs, NEW i \in Auctions, MaxDurationReached(r, i) PROVE TypeOK'
    BY <2>2 DEF MaxDurationReached, StartFinalize
  <2>3. ASSUME NEW r \in Runs, CloseAuction(r) PROVE TypeOK'
    BY <2>3 DEF CloseAuction, StartFinalize
  <2>4. ASSUME NEW i \in Auctions, RequestContextDone(i) PROVE TypeOK'
    BY <2>4 DEF RequestContextDone
  <2>5. ASSUME NEW r \in Runs, AlreadyClosed(r) PROVE TypeOK'
    BY <2>5 DEF AlreadyClosed, Return
  <2>6. ASSUME NEW r \in Runs, MarkClosing(r) PROVE TypeOK'
    BY <2>6 DEF MarkClosing, Goto
  <2>7. ASSUME NEW r \in Runs, ReadBids(r) PROVE TypeOK'
    BY <2>7 DEF ReadBids
  <2>8. ASSUME NEW r \in Runs, NEW b \in Bids, AcceptWinner(r, b) PROVE TypeOK'
    BY <2>8, MethodTypes DEF AcceptWinner, Decide, Drop, Highest, Held
  <2>9. ASSUME NEW r \in Runs, FinalizeFails(r) PROVE TypeOK'
    BY <2>9 DEF FinalizeFails, Return
  <2>10. ASSUME NEW r \in Runs, NEW b \in Bids, RejectLoser(r, b) PROVE TypeOK'
    BY <2>10, MethodTypes DEF RejectLoser, Decide, Drop, Highest, Held
  <2>11. ASSUME NEW r \in Runs, NEW b \in Bids, RejectLoserFails(r, b) PROVE TypeOK'
    BY <2>11 DEF RejectLoserFails, Drop, Highest, Held
  <2>12. ASSUME NEW r \in Runs, MarkClosed(r) PROVE TypeOK'
    BY <2>12 DEF MarkClosed, Goto
  <2>13. ASSUME NEW r \in Runs, Unlist(r) PROVE TypeOK'
    BY <2>13 DEF Unlist, Return
  <2>14. ASSUME NEW s \in Sessions, NEW b \in Bids, NEW a \in Amounts, PlaceBid(s, b, a) PROVE TypeOK'
    <3>1. [status |-> "active", amount |-> a, expiresAt |-> now + Duration] \in Row
      BY DEF Row, BidStatus, Amounts
    <3>2. rows' \in [Procs -> [Bids -> Row]]
      BY <2>14, <3>1 DEF PlaceBid
    <3> QED
      BY <2>14, <3>2 DEF PlaceBid
  <2>15. ASSUME NEW s \in Sessions, NEW b \in Bids, CreateBid(s, b) PROVE TypeOK'
    BY <2>15 DEF CreateBid, Drop, Held
  <2>16. ASSUME NEW s \in Sessions, HandleNewBid(s) PROVE TypeOK'
    BY <2>16 DEF HandleNewBid
  <2>17. ASSUME NEW s \in Sessions, RunAuction(s) PROVE TypeOK'
    BY <2>17 DEF RunAuction, NewAuction
  <2>18. ASSUME NEW s \in Sessions, AuctionConflict(s) PROVE TypeOK'
    BY <2>18 DEF AuctionConflict, Return
  <2>19. ASSUME NEW s \in Sessions, InitialBids(s) PROVE TypeOK'
    <3>1. CASE Goto(s, "reset")
      BY <2>19, <3>1 DEF InitialBids, Goto
    <3>2. CASE Return(s)
      BY <2>19, <3>2 DEF InitialBids, Return
    <3> QED
      BY <2>19, <3>1, <3>2 DEF InitialBids
  <2>20. ASSUME NEW s \in Sessions, ResetCloseTimer(s) PROVE TypeOK'
    BY <2>20 DEF ResetCloseTimer, Return
  <2>21. ASSUME NEW s \in Sessions, PlaceBidFails(s) PROVE TypeOK'
    BY <2>21 DEF PlaceBidFails, Return
  <2>22. ASSUME NEW s \in Sessions, NEW b \in Bids, NEW a \in Amounts, NEW e \in Extensions, UpdateBid(s, b, a, e) PROVE TypeOK'
    <3>0. [status |-> db[b].status, amount |-> a, expiresAt |-> db[b].expiresAt + e] \in Row
      <4>1. db[b] \in Row /\ a \in Nat /\ e \in Nat
        BY DEF Amounts
      <4> QED
        BY <4>1 DEF Row
    <3>1. [NoRows EXCEPT ![b] =
             [status |-> db[b].status, amount |-> a, expiresAt |-> db[b].expiresAt + e]] \in [Bids -> Row]
      BY <3>0
    <3>2. StartWriting(s, [NoRows EXCEPT ![b] =
             [status |-> db[b].status, amount |-> a, expiresAt |-> db[b].expiresAt + e]])
      BY <2>22 DEF UpdateBid
    <3> QED
      BY <3>1, <3>2 DEF StartWriting
  <2>23. ASSUME NEW s \in Sessions, NEW b \in Bids, CancelBid(s, b) PROVE TypeOK'
    <3>1. [NoRows EXCEPT ![b] = WithStatus(db[b], "canceled")] \in [Bids -> Row]
      BY StatusChange DEF BidStatus
    <3>2. StartWriting(s, [NoRows EXCEPT ![b] = WithStatus(db[b], "canceled")])
      BY <2>23 DEF CancelBid
    <3> QED
      BY <3>1, <3>2 DEF StartWriting
  <2>24. ASSUME NEW s \in Sessions, ProcessExpiredBids(s) PROVE TypeOK'
    <3>1. [b \in Bids |->
             IF b \in Held(ExpiredBids) THEN WithStatus(db[b], "expired") ELSE NoRow] \in [Bids -> Row]
      BY StatusChange DEF BidStatus
    <3>2. StartWriting(s, [b \in Bids |->
             IF b \in Held(ExpiredBids) THEN WithStatus(db[b], "expired") ELSE NoRow])
      BY <2>24 DEF ProcessExpiredBids
    <3> QED
      BY <3>1, <3>2 DEF StartWriting
  <2>25. ASSUME NEW s \in Sessions, NEW b \in Bids, WriteRow(s, b) PROVE TypeOK'
    <3>1. db' \in [Bids -> Row] /\ rows' \in [Procs -> [Bids -> Row]]
      BY <2>25 DEF WriteRow, Drop
    <3>2. pc' \in [Procs -> RunPc \cup SessionPc] /\ (\A r \in Runs : pc'[r] = pc[r])
      BY <2>25 DEF WriteRow
    <3>3. \A t \in Sessions : pc'[t] \in SessionPc /\ (pc'[t] \in {"initial", "reset"} => pc'[t] = pc[t])
      BY <2>25 DEF WriteRow
    <3> QED
      BY <2>25, <3>1, <3>2, <3>3 DEF WriteRow
  <2>26. CASE Tick
    BY <2>26 DEF Tick
  <2>27. CASE CallLeavesBidding
    BY <2>27 DEF CallLeavesBidding
  <2>28. CASE UNCHANGED vars
    BY <2>28 DEF vars
  <2> QED
    BY <2>1, <2>2, <2>3, <2>4, <2>5, <2>6, <2>7, <2>8, <2>9, <2>10, <2>11, <2>12, <2>13, <2>14, <2>15, <2>16, <2>17, <2>18, <2>19, <2>20, <2>21, <2>22, <2>23, <2>24, <2>25, <2>26, <2>27, <2>28 DEF Next, RunStep, Trigger, SessionStep, Request
<1> QED
  BY <1>1, <1>2, PTL DEF Spec

-----------------------------------------------------------------------------
\* Who changes the status of an auction, or what its finalizations decided.
\* The proofs that need only an auction's life cycle rest on this.
LEMMA AuctionSteps ==
  ASSUME TypeOK, [Next]_vars
  PROVE  \/ UNCHANGED <<status, decided>>
         \/ \E r \in Runs : MarkClosing(r) \/ MarkClosed(r)
         \/ \E r \in Runs, b \in Bids : AcceptWinner(r, b) \/ RejectLoser(r, b)
         \/ \E s \in Sessions : RunAuction(s)
<1> USE DEF objectVars
<1>1. ASSUME NEW r \in Runs, NEW i \in Auctions, CloseTimerFires(r, i) PROVE UNCHANGED <<status, decided>>
  BY <1>1 DEF CloseTimerFires, StartFinalize
<1>2. ASSUME NEW r \in Runs, NEW i \in Auctions, MaxDurationReached(r, i) PROVE UNCHANGED <<status, decided>>
  BY <1>2 DEF MaxDurationReached, StartFinalize
<1>3. ASSUME NEW r \in Runs, CloseAuction(r) PROVE UNCHANGED <<status, decided>>
  BY <1>3 DEF CloseAuction, StartFinalize
<1>4. ASSUME NEW i \in Auctions, RequestContextDone(i) PROVE UNCHANGED <<status, decided>>
  BY <1>4 DEF RequestContextDone
<1>5. ASSUME NEW r \in Runs, AlreadyClosed(r) PROVE UNCHANGED <<status, decided>>
  BY <1>5 DEF AlreadyClosed
<1>6. ASSUME NEW r \in Runs, ReadBids(r) PROVE UNCHANGED <<status, decided>>
  BY <1>6 DEF ReadBids
<1>7. ASSUME NEW r \in Runs, FinalizeFails(r) PROVE UNCHANGED <<status, decided>>
  BY <1>7 DEF FinalizeFails
<1>8. ASSUME NEW r \in Runs, NEW b \in Bids, RejectLoserFails(r, b) PROVE UNCHANGED <<status, decided>>
  BY <1>8 DEF RejectLoserFails
<1>9. ASSUME NEW r \in Runs, Unlist(r) PROVE UNCHANGED <<status, decided>>
  BY <1>9 DEF Unlist
<1>10. ASSUME NEW s \in Sessions, NEW b \in Bids, NEW a \in Amounts, PlaceBid(s, b, a) PROVE UNCHANGED <<status, decided>>
  BY <1>10 DEF PlaceBid
<1>11. ASSUME NEW s \in Sessions, NEW b \in Bids, CreateBid(s, b) PROVE UNCHANGED <<status, decided>>
  BY <1>11 DEF CreateBid
<1>12. ASSUME NEW s \in Sessions, HandleNewBid(s) PROVE UNCHANGED <<status, decided>>
  BY <1>12 DEF HandleNewBid
<1>13. ASSUME NEW s \in Sessions, AuctionConflict(s) PROVE UNCHANGED <<status, decided>>
  BY <1>13 DEF AuctionConflict
<1>14. ASSUME NEW s \in Sessions, InitialBids(s) PROVE UNCHANGED <<status, decided>>
  BY <1>14 DEF InitialBids
<1>15. ASSUME NEW s \in Sessions, ResetCloseTimer(s) PROVE UNCHANGED <<status, decided>>
  BY <1>15 DEF ResetCloseTimer
<1>16. ASSUME NEW s \in Sessions, PlaceBidFails(s) PROVE UNCHANGED <<status, decided>>
  BY <1>16 DEF PlaceBidFails
<1>17. ASSUME NEW s \in Sessions, NEW b \in Bids, NEW a \in Amounts, NEW e \in Extensions, UpdateBid(s, b, a, e) PROVE UNCHANGED <<status, decided>>
  BY <1>17 DEF UpdateBid, StartWriting
<1>18. ASSUME NEW s \in Sessions, NEW b \in Bids, CancelBid(s, b) PROVE UNCHANGED <<status, decided>>
  BY <1>18 DEF CancelBid, StartWriting
<1>19. ASSUME NEW s \in Sessions, ProcessExpiredBids(s) PROVE UNCHANGED <<status, decided>>
  BY <1>19 DEF ProcessExpiredBids, StartWriting
<1>20. ASSUME NEW s \in Sessions, NEW b \in Bids, WriteRow(s, b) PROVE UNCHANGED <<status, decided>>
  BY <1>20 DEF WriteRow
<1>21. ASSUME Tick PROVE UNCHANGED <<status, decided>>
  BY <1>21 DEF Tick
<1>22. ASSUME CallLeavesBidding PROVE UNCHANGED <<status, decided>>
  BY <1>22 DEF CallLeavesBidding
<1>23. CASE UNCHANGED vars
  BY <1>23 DEF vars
<1> QED
  BY <1>1, <1>2, <1>3, <1>4, <1>5, <1>6, <1>7, <1>8, <1>9, <1>10, <1>11, <1>12, <1>13, <1>14, <1>15, <1>16, <1>17, <1>18, <1>19, <1>20, <1>21, <1>22, <1>23 DEF Next, RunStep, Trigger, SessionStep, Request

\* finalizeAuction and RunAuction, the only writers of an auction's status,
\* never take one back from closed, or from closing to open.
THEOREM ClosedForGood == Spec => ClosedIsFinal
<1> DEFINE Keeps == \A i \in Auctions :
                /\ status[i] = "closed" => status'[i] = "closed"
                /\ status[i] = "closing" => status'[i] # "open"
<1>1. ASSUME TypeOK, [Next]_vars PROVE Keeps
  <2>1. CASE status' = status
    BY <2>1
  <2>0. ASSUME NEW r \in Runs, NEW b \in Bids, AcceptWinner(r, b) \/ RejectLoser(r, b) PROVE Keeps
    BY <2>0 DEF AcceptWinner, RejectLoser, Decide, objectVars
  <2>2. ASSUME NEW r \in Runs, MarkClosing(r) PROVE Keeps
    BY <1>1, <2>2 DEF MarkClosing, TypeOK
  <2>3. ASSUME NEW r \in Runs, MarkClosed(r) PROVE Keeps
    BY <1>1, <2>3 DEF MarkClosed, TypeOK
  <2>4. ASSUME NEW s \in Sessions, RunAuction(s) PROVE Keeps
    <3>1. created + 1 \in Auctions /\ status[created + 1] = "none"
      BY <1>1, <2>4 DEF RunAuction, NewAuction, TypeOK, Auctions
    <3> QED
      BY <1>1, <2>4, <3>1 DEF RunAuction, NewAuction, TypeOK
  <2> QED
    BY <1>1, <2>0, <2>1, <2>2, <2>3, <2>4, AuctionSteps
<1> QED
  BY <1>1, TypeCorrect, PTL DEF Spec, ClosedIsFinal

-----------------------------------------------------------------------------
\* The auction the map lists is running, or the run that closed it is about to
\* delete it: however finalizations overlap, and whichever entry they delete.
THEOREM ListedAuctionsRun == Spec => []ListedUntilClosed
<1>1. Init => ListedUntilClosed
  BY DEF Init, ListedUntilClosed
<1>2. ASSUME TypeOK, ListedUntilClosed, [Next]_vars PROVE ListedUntilClosed'
  <2> USE <1>2 DEF ListedUntilClosed, TypeOK, storeVars, mapVars, objectVars, localVars, Procs, Auctions, AuctionStatus
  <2>1. ASSUME NEW r \in Runs, NEW i \in Auctions, CloseTimerFires(r, i) PROVE ListedUntilClosed'
    BY <2>1 DEF CloseTimerFires, StartFinalize
  <2>2. ASSUME NEW r \in Runs, NEW i \in Auctions, MaxDurationReached(r, i) PROVE ListedUntilClosed'
    BY <2>2 DEF MaxDurationReached, StartFinalize
  <2>3. ASSUME NEW r \in Runs, CloseAuction(r) PROVE ListedUntilClosed'
    BY <2>3 DEF CloseAuction, StartFinalize
  <2>4. ASSUME NEW i \in Auctions, RequestContextDone(i) PROVE ListedUntilClosed'
    BY <2>4 DEF RequestContextDone
  <2>5. ASSUME NEW r \in Runs, AlreadyClosed(r) PROVE ListedUntilClosed'
    BY <2>5 DEF AlreadyClosed, Return
  <2>6. ASSUME NEW r \in Runs, MarkClosing(r) PROVE ListedUntilClosed'
    BY <2>6 DEF MarkClosing, Goto
  <2>7. ASSUME NEW r \in Runs, ReadBids(r) PROVE ListedUntilClosed'
    BY <2>7 DEF ReadBids
  <2>8. ASSUME NEW r \in Runs, NEW b \in Bids, AcceptWinner(r, b) PROVE ListedUntilClosed'
    BY <2>8 DEF AcceptWinner, Decide
  <2>9. ASSUME NEW r \in Runs, FinalizeFails(r) PROVE ListedUntilClosed'
    BY <2>9 DEF FinalizeFails, Return
  <2>10. ASSUME NEW r \in Runs, NEW b \in Bids, RejectLoser(r, b) PROVE ListedUntilClosed'
    BY <2>10 DEF RejectLoser, Decide
  <2>11. ASSUME NEW r \in Runs, NEW b \in Bids, RejectLoserFails(r, b) PROVE ListedUntilClosed'
    BY <2>11 DEF RejectLoserFails
  <2>12. ASSUME NEW r \in Runs, MarkClosed(r) PROVE ListedUntilClosed'
    BY <2>12 DEF MarkClosed, Goto
  <2>13. ASSUME NEW r \in Runs, Unlist(r) PROVE ListedUntilClosed'
    BY <2>13 DEF Unlist, Return
  <2>14. ASSUME NEW s \in Sessions, NEW b \in Bids, NEW a \in Amounts, PlaceBid(s, b, a) PROVE ListedUntilClosed'
    BY <2>14 DEF PlaceBid
  <2>15. ASSUME NEW s \in Sessions, NEW b \in Bids, CreateBid(s, b) PROVE ListedUntilClosed'
    BY <2>15 DEF CreateBid
  <2>16. ASSUME NEW s \in Sessions, HandleNewBid(s) PROVE ListedUntilClosed'
    BY <2>16 DEF HandleNewBid
  <2>17. ASSUME NEW s \in Sessions, RunAuction(s) PROVE ListedUntilClosed'
    BY <2>17 DEF RunAuction, NewAuction
  <2>18. ASSUME NEW s \in Sessions, AuctionConflict(s) PROVE ListedUntilClosed'
    BY <2>18 DEF AuctionConflict, Return
  <2>19. ASSUME NEW s \in Sessions, InitialBids(s) PROVE ListedUntilClosed'
    BY <2>19 DEF InitialBids, Goto, Return
  <2>20. ASSUME NEW s \in Sessions, ResetCloseTimer(s) PROVE ListedUntilClosed'
    BY <2>20 DEF ResetCloseTimer, Return
  <2>21. ASSUME NEW s \in Sessions, PlaceBidFails(s) PROVE ListedUntilClosed'
    BY <2>21 DEF PlaceBidFails, Return
  <2>22. ASSUME NEW s \in Sessions, NEW b \in Bids, NEW a \in Amounts, NEW e \in Extensions, UpdateBid(s, b, a, e) PROVE ListedUntilClosed'
    BY <2>22 DEF UpdateBid, StartWriting
  <2>23. ASSUME NEW s \in Sessions, NEW b \in Bids, CancelBid(s, b) PROVE ListedUntilClosed'
    BY <2>23 DEF CancelBid, StartWriting
  <2>24. ASSUME NEW s \in Sessions, ProcessExpiredBids(s) PROVE ListedUntilClosed'
    BY <2>24 DEF ProcessExpiredBids, StartWriting
  <2>25. ASSUME NEW s \in Sessions, NEW b \in Bids, WriteRow(s, b) PROVE ListedUntilClosed'
    BY <2>25 DEF WriteRow
  <2>26. ASSUME Tick PROVE ListedUntilClosed'
    BY <2>26 DEF Tick
  <2>27. ASSUME CallLeavesBidding PROVE ListedUntilClosed'
    BY <2>27 DEF CallLeavesBidding
  <2>28. CASE UNCHANGED vars
    BY <2>28 DEF vars
  <2> QED
    BY <2>1, <2>2, <2>3, <2>4, <2>5, <2>6, <2>7, <2>8, <2>9, <2>10, <2>11, <2>12, <2>13, <2>14, <2>15, <2>16, <2>17, <2>18, <2>19, <2>20, <2>21, <2>22, <2>23, <2>24, <2>25, <2>26, <2>27, <2>28 DEF Next, RunStep, Trigger, SessionStep, Request
<1> QED
  BY <1>1, <1>2, TypeCorrect, PTL DEF Spec

-----------------------------------------------------------------------------
\* From here on finalizations of an auction are exclusive.  First the goroutines
\* and the map: one run per auction, and the map lists the one open auction.
LEMMA RunsInvStep ==
  ASSUME Exclusive, TypeOK, RunsInv, [Next]_vars
  PROVE  RunsInv'
<1> USE DEF RunsInv, OneRunPerAuction, OneUnlisting, OpenIsListed, InProgress, TypeOK,
            storeVars, mapVars, objectVars, localVars, Procs, Auctions, AuctionStatus
<1>1. ASSUME NEW r \in Runs, NEW i \in Auctions, CloseTimerFires(r, i) PROVE RunsInv'
  BY <1>1 DEF CloseTimerFires, StartFinalize
<1>2. ASSUME NEW r \in Runs, NEW i \in Auctions, MaxDurationReached(r, i) PROVE RunsInv'
  BY <1>2 DEF MaxDurationReached, StartFinalize
<1>3. ASSUME NEW r \in Runs, CloseAuction(r) PROVE RunsInv'
  BY <1>3 DEF CloseAuction, StartFinalize
<1>4. ASSUME NEW i \in Auctions, RequestContextDone(i) PROVE RunsInv'
  BY <1>4 DEF RequestContextDone
<1>5. ASSUME NEW r \in Runs, AlreadyClosed(r) PROVE RunsInv'
  BY <1>5 DEF AlreadyClosed, Return
<1>6. ASSUME NEW r \in Runs, MarkClosing(r) PROVE RunsInv'
  BY <1>6 DEF MarkClosing, Goto
<1>7. ASSUME NEW r \in Runs, ReadBids(r) PROVE RunsInv'
  BY <1>7 DEF ReadBids
<1>8. ASSUME NEW r \in Runs, NEW b \in Bids, AcceptWinner(r, b) PROVE RunsInv'
  BY <1>8 DEF AcceptWinner, Decide
<1>9. ASSUME NEW r \in Runs, FinalizeFails(r) PROVE RunsInv'
  BY <1>9 DEF FinalizeFails, Return
<1>10. ASSUME NEW r \in Runs, NEW b \in Bids, RejectLoser(r, b) PROVE RunsInv'
  BY <1>10 DEF RejectLoser, Decide
<1>11. ASSUME NEW r \in Runs, NEW b \in Bids, RejectLoserFails(r, b) PROVE RunsInv'
  BY <1>11 DEF RejectLoserFails
<1>12. ASSUME NEW r \in Runs, MarkClosed(r) PROVE RunsInv'
  BY <1>12 DEF MarkClosed, Goto
<1>13. ASSUME NEW r \in Runs, Unlist(r) PROVE RunsInv'
  BY <1>13 DEF Unlist, Return
<1>14. ASSUME NEW s \in Sessions, NEW b \in Bids, NEW a \in Amounts, PlaceBid(s, b, a) PROVE RunsInv'
  BY <1>14 DEF PlaceBid
<1>15. ASSUME NEW s \in Sessions, NEW b \in Bids, CreateBid(s, b) PROVE RunsInv'
  BY <1>15 DEF CreateBid
<1>16. ASSUME NEW s \in Sessions, HandleNewBid(s) PROVE RunsInv'
  BY <1>16 DEF HandleNewBid
<1>17. ASSUME NEW s \in Sessions, RunAuction(s) PROVE RunsInv'
  BY <1>17 DEF RunAuction, NewAuction
<1>18. ASSUME NEW s \in Sessions, AuctionConflict(s) PROVE RunsInv'
  BY <1>18 DEF AuctionConflict, Return
<1>19. ASSUME NEW s \in Sessions, InitialBids(s) PROVE RunsInv'
  <2>1. CASE Goto(s, "reset")
    BY <1>19, <2>1 DEF InitialBids, Goto
  <2>2. CASE Return(s)
    BY <1>19, <2>2 DEF InitialBids, Return
  <2> QED
    BY <1>19, <2>1, <2>2 DEF InitialBids
<1>20. ASSUME NEW s \in Sessions, ResetCloseTimer(s) PROVE RunsInv'
  BY <1>20 DEF ResetCloseTimer, Return
<1>21. ASSUME NEW s \in Sessions, PlaceBidFails(s) PROVE RunsInv'
  BY <1>21 DEF PlaceBidFails, Return
<1>22. ASSUME NEW s \in Sessions, NEW b \in Bids, NEW a \in Amounts, NEW e \in Extensions, UpdateBid(s, b, a, e) PROVE RunsInv'
  BY <1>22 DEF UpdateBid, StartWriting
<1>23. ASSUME NEW s \in Sessions, NEW b \in Bids, CancelBid(s, b) PROVE RunsInv'
  BY <1>23 DEF CancelBid, StartWriting
<1>24. ASSUME NEW s \in Sessions, ProcessExpiredBids(s) PROVE RunsInv'
  BY <1>24 DEF ProcessExpiredBids, StartWriting
<1>25. ASSUME NEW s \in Sessions, NEW b \in Bids, WriteRow(s, b) PROVE RunsInv'
  BY <1>25 DEF WriteRow
<1>26. ASSUME Tick PROVE RunsInv'
  BY <1>26 DEF Tick
<1>27. ASSUME CallLeavesBidding PROVE RunsInv'
  BY <1>27 DEF CallLeavesBidding
<1>28. CASE UNCHANGED vars
  BY <1>28 DEF vars
<1> QED
  BY <1>1, <1>2, <1>3, <1>4, <1>5, <1>6, <1>7, <1>8, <1>9, <1>10, <1>11, <1>12, <1>13, <1>14, <1>15, <1>16, <1>17, <1>18, <1>19, <1>20, <1>21, <1>22, <1>23, <1>24, <1>25, <1>26, <1>27, <1>28 DEF Next, RunStep, Trigger, SessionStep, Request

\* Then what the runs decide.  Most steps write no decision, keep closed
\* auctions closed, and leave the runs past their winner where they are, or
\* with fewer rows to write, or with their auction closed.
NoDecision ==
  /\ decided' = decided
  /\ \A i \in Auctions : status[i] = "closed" => status'[i] = "closed"
  /\ \A r \in Runs : pc[r] = "reject" =>
       (pc'[r] = "reject" /\ target'[r] = target[r]) \/ status'[target[r]] = "closed"
  /\ \A r \in Runs : pc'[r] = "reject" => \A c \in Bids :
       \/ rows'[r][c].status = "none"
       \/ pc[r] = "reject" /\ target'[r] = target[r] /\ rows'[r][c] = rows[r][c]

\* Such a step keeps what is known about the decisions.
LEMMA NoDecisionKeeps ==
  ASSUME DecisionInv, NoDecision
  PROVE  DecisionInv'
  BY DEF DecisionInv, DecisionInProgress, OneHighestWinner, NoDecision, Held

\* The two steps that decide: accepting the winner, and rejecting a loser.  The
\* other steps of the module are of the kind above.
LEMMA DecisionInvStep ==
  ASSUME Exclusive, TypeOK, RunsInv, DecisionInv, [Next]_vars
  PROVE  DecisionInv'
<1> USE DEF TypeOK, storeVars, mapVars, objectVars, localVars, Procs, Auctions, AuctionStatus
<1>1. ASSUME NEW r \in Runs, NEW i \in Auctions, CloseTimerFires(r, i) PROVE DecisionInv'
  <2>1. NoDecision
    BY <1>1, EmptyRow, QueryTypes DEF NoDecision, CloseTimerFires, StartFinalize
  <2> QED
    BY <2>1, NoDecisionKeeps
<1>2. ASSUME NEW r \in Runs, NEW i \in Auctions, MaxDurationReached(r, i) PROVE DecisionInv'
  <2>1. NoDecision
    BY <1>2, EmptyRow, QueryTypes DEF NoDecision, MaxDurationReached, StartFinalize
  <2> QED
    BY <2>1, NoDecisionKeeps
<1>3. ASSUME NEW r \in Runs, CloseAuction(r) PROVE DecisionInv'
  <2>1. NoDecision
    BY <1>3, EmptyRow, QueryTypes DEF NoDecision, CloseAuction, StartFinalize
  <2> QED
    BY <2>1, NoDecisionKeeps
<1>4. ASSUME NEW i \in Auctions, RequestContextDone(i) PROVE DecisionInv'
  <2>1. NoDecision
    BY <1>4, EmptyRow, QueryTypes DEF NoDecision, RequestContextDone
  <2> QED
    BY <2>1, NoDecisionKeeps
<1>5. ASSUME NEW r \in Runs, AlreadyClosed(r) PROVE DecisionInv'
  <2>1. NoDecision
    BY <1>5, EmptyRow, QueryTypes DEF NoDecision, AlreadyClosed, Return
  <2> QED
    BY <2>1, NoDecisionKeeps
<1>6. ASSUME NEW r \in Runs, MarkClosing(r) PROVE DecisionInv'
  <2>1. NoDecision
    BY <1>6, EmptyRow, QueryTypes DEF NoDecision, MarkClosing, Goto
  <2> QED
    BY <2>1, NoDecisionKeeps
<1>7. ASSUME NEW r \in Runs, ReadBids(r) PROVE DecisionInv'
  <2>1. NoDecision
    <3>1. pc'[r] = "reject" => \A c \in Bids : rows'[r][c].status = "none"
      BY <1>7 DEF ReadBids, Held
    <3> QED
      BY <1>7, <3>1 DEF NoDecision, ReadBids
  <2> QED
    BY <2>1, NoDecisionKeeps
<1>8. ASSUME NEW r \in Runs, NEW b \in Bids, AcceptWinner(r, b) PROVE DecisionInv'
  <2> DEFINE i == target[r]
  <2>1. i \in Auctions /\ b \in Held(rows[r]) /\ status[i] = "closing"
    BY <1>8 DEF AcceptWinner, Highest, RunsInv, OneRunPerAuction, InProgress, RunPc
  <2>2. \A q \in Runs : pc[q] = "reject" => target[q] # i
    BY <1>8, <2>1 DEF AcceptWinner, RunsInv, OneRunPerAuction, InProgress
  <2>3. Held(decided[i]) = {}
    BY <2>1, <2>2 DEF DecisionInv, DecisionInProgress
  <2> DEFINE row == Accept(rows[r][b])
  <2>4. row \in Row /\ row.status = "won" /\ row.amount = rows[r][b].amount
    BY MethodTypes
  <2>5. /\ decided' = [decided EXCEPT ![i] = [decided[i] EXCEPT ![b] = row]]
        /\ rows' = [rows EXCEPT ![r] = [rows[r] EXCEPT ![b] = NoRow]]
        /\ pc' = [pc EXCEPT ![r] = "reject"]
        /\ status' = status /\ target' = target
    BY <1>8 DEF AcceptWinner, Decide, Drop
  <2>6. decided'[i][b] = row /\ \A c \in Bids \ {b} : decided'[i][c].status = "none"
    BY <2>1, <2>3, <2>5 DEF Held
  <2>7. \A j \in Auctions \ {i} : decided'[j] = decided[j]
    BY <2>5
  <2>8. \A c \in Bids : rows[r][c].status # "none" => rows[r][c].amount <= row.amount
    BY <1>8, <2>4 DEF AcceptWinner, Highest, Held
  <2> HIDE DEF row
  <2>9. DecisionInProgress'
    <3>1. \A j \in Auctions : Held(decided'[j]) # {} =>
            status'[j] = "closed" \/ \E q \in Runs : pc'[q] = "reject" /\ target'[q] = j
      BY <1>8, <2>1, <2>5, <2>7 DEF DecisionInv, DecisionInProgress, AcceptWinner, Held
    <3>2. \A q \in Runs \ {r} : pc'[q] = "reject" =>
            pc[q] = "reject" /\ rows'[q] = rows[q] /\ target'[q] = target[q]
              /\ decided'[target[q]] = decided[target[q]]
      BY <2>2, <2>5, <2>7
    <3>3. \A c \in Held(rows'[r]) : c # b /\ rows'[r][c] = rows[r][c] /\ rows[r][c].status # "none"
      BY <2>5, EmptyRow DEF Held
    <3>4. \A c \in Held(rows'[r]) :
            /\ decided'[i][c].status = "none"
            /\ b \in Held(decided'[i]) /\ decided'[i][b].status = "won"
            /\ rows'[r][c].amount <= decided'[i][b].amount
      BY <2>4, <2>6, <2>8, <3>3 DEF Held
    <3>5. \A q \in Runs : pc'[q] = "reject" => \A c \in Held(rows'[q]) :
            /\ decided'[target'[q]][c].status = "none"
            /\ \E w \in Held(decided'[target'[q]]) :
                 /\ decided'[target'[q]][w].status = "won"
                 /\ rows'[q][c].amount <= decided'[target'[q]][w].amount
      <4> SUFFICES ASSUME NEW q \in Runs, pc'[q] = "reject", NEW c \in Held(rows'[q])
                   PROVE  /\ decided'[target'[q]][c].status = "none"
                          /\ \E w \in Held(decided'[target'[q]]) :
                               /\ decided'[target'[q]][w].status = "won"
                               /\ rows'[q][c].amount <= decided'[target'[q]][w].amount
        OBVIOUS
      <4>1. CASE q = r
        BY <4>1, <3>4, <2>5
      <4>2. CASE q # r
        <5>1. pc[q] = "reject" /\ rows'[q] = rows[q] /\ target'[q] = target[q]
                /\ decided'[target[q]] = decided[target[q]]
          BY <4>2, <3>2
        <5>2. c \in Held(rows[q])
          BY <5>1 DEF Held
        <5> QED
          BY <5>1, <5>2 DEF DecisionInv, DecisionInProgress, Held
      <4> QED
        BY <4>1, <4>2
    <3> QED
      BY <3>1, <3>5 DEF DecisionInProgress, Held
  <2>10. OneHighestWinner'
    <3>1. ASSUME NEW j \in Auctions, NEW c \in Held(decided'[j])
          PROVE  \E w \in Held(decided'[j]) :
                   /\ decided'[j][w].status = "won"
                   /\ decided'[j][c].amount <= decided'[j][w].amount
                   /\ decided'[j][c].status = "won" =>
                        \A d \in Held(decided'[j]) \ {c} : decided'[j][d].status = "lost"
      <4>1. CASE j = i
        <5>1. Held(decided'[j]) = {b}
          BY <4>1, <2>4, <2>6 DEF Held
        <5>2. decided'[j][b].status = "won" /\ decided'[j][b].amount \in Nat /\ c = b
          BY <4>1, <3>1, <5>1, <2>4, <2>6 DEF Row
        <5> QED
          BY <5>1, <5>2
      <4>2. CASE j # i
        <5>1. decided'[j] = decided[j]
          BY <4>2, <2>7
        <5>2. \E w \in Held(decided[j]) :
                /\ decided[j][w].status = "won"
                /\ decided[j][c].amount <= decided[j][w].amount
                /\ decided[j][c].status = "won" =>
                     \A d \in Held(decided[j]) \ {c} : decided[j][d].status = "lost"
          BY <3>1, <5>1 DEF DecisionInv, OneHighestWinner, Held
        <5> QED
          BY <5>1, <5>2 DEF Held
      <4> QED
        BY <4>1, <4>2
    <3> QED
      BY <3>1 DEF OneHighestWinner, Held
  <2> QED
    BY <2>9, <2>10 DEF DecisionInv
<1>9. ASSUME NEW r \in Runs, FinalizeFails(r) PROVE DecisionInv'
  <2>1. NoDecision
    BY <1>9, EmptyRow, QueryTypes DEF NoDecision, FinalizeFails, Return
  <2> QED
    BY <2>1, NoDecisionKeeps
<1>10. ASSUME NEW r \in Runs, NEW b \in Bids, RejectLoser(r, b) PROVE DecisionInv'
  <2> DEFINE i == target[r]
  <2>1. i \in Auctions /\ pc[r] = "reject" /\ b \in Held(rows[r])
    BY <1>10 DEF RejectLoser, Highest, RunPc
  <2>2. \A q \in Runs \ {r} : pc[q] = "reject" => target[q] # i
    BY <2>1 DEF RunsInv, OneRunPerAuction, InProgress
  <2>3. PICK w \in Held(decided[i]) :
          decided[i][w].status = "won" /\ rows[r][b].amount <= decided[i][w].amount
    BY <2>1 DEF DecisionInv, DecisionInProgress
  <2>4. decided[i][b].status = "none" /\ w # b /\ w \in Bids
    BY <2>1, <2>3 DEF DecisionInv, DecisionInProgress, Held
  <2> DEFINE row == Reject(rows[r][b])
  <2>5. row \in Row /\ row.status = "lost" /\ row.amount = rows[r][b].amount
    BY MethodTypes
  <2>6. /\ decided' = [decided EXCEPT ![i] = [decided[i] EXCEPT ![b] = row]]
        /\ rows' = [rows EXCEPT ![r] = [rows[r] EXCEPT ![b] = NoRow]]
        /\ pc' = pc /\ status' = status /\ target' = target
    BY <1>10 DEF RejectLoser, Decide, Drop
  <2>7. decided'[i][b] = row /\ \A c \in Bids \ {b} : decided'[i][c] = decided[i][c]
    BY <2>1, <2>6
  <2>8. \A j \in Auctions \ {i} : decided'[j] = decided[j]
    BY <2>6
  <2>9. Held(decided'[i]) = Held(decided[i]) \cup {b} /\ w \in Held(decided'[i])
    BY <2>3, <2>5, <2>7 DEF Held
  <2> HIDE DEF row
  <2>10. DecisionInProgress'
    <3>1. \A j \in Auctions : Held(decided'[j]) # {} =>
            status'[j] = "closed" \/ \E q \in Runs : pc'[q] = "reject" /\ target'[q] = j
      <4>1. ASSUME NEW j \in Auctions, Held(decided'[j]) # {}, j # i
            PROVE  status'[j] = "closed" \/ \E q \in Runs : pc'[q] = "reject" /\ target'[q] = j
        <5>1. Held(decided[j]) # {}
          BY <4>1, <2>8 DEF Held
        <5> QED
          BY <5>1, <2>6 DEF DecisionInv, DecisionInProgress
      <4> QED
        BY <4>1, <2>1, <2>6
    <3>2. \A c \in Held(rows'[r]) : c # b /\ c \in Held(rows[r]) /\ rows'[r][c] = rows[r][c]
      BY <2>6, EmptyRow DEF Held
    <3>3. \A q \in Runs : pc'[q] = "reject" => \A c \in Held(rows'[q]) :
            /\ decided'[target'[q]][c].status = "none"
            /\ \E v \in Held(decided'[target'[q]]) :
                 /\ decided'[target'[q]][v].status = "won"
                 /\ rows'[q][c].amount <= decided'[target'[q]][v].amount
      <4> SUFFICES ASSUME NEW q \in Runs, pc'[q] = "reject", NEW c \in Held(rows'[q])
                   PROVE  /\ decided'[target'[q]][c].status = "none"
                          /\ \E v \in Held(decided'[target'[q]]) :
                               /\ decided'[target'[q]][v].status = "won"
                               /\ rows'[q][c].amount <= decided'[target'[q]][v].amount
        OBVIOUS
      <4>1. CASE q = r
        <5>1. c \in Bids \ {b} /\ c \in Held(rows[r]) /\ rows'[r][c] = rows[r][c]
          BY <4>1, <3>2 DEF Held
        <5>2. decided[i][c].status = "none" /\ \E v \in Held(decided[i]) :
                decided[i][v].status = "won" /\ rows[r][c].amount <= decided[i][v].amount
          BY <5>1, <2>1 DEF DecisionInv, DecisionInProgress
        <5>3. \A v \in Held(decided[i]) : v \in Held(decided'[i]) /\ decided'[i][v] = decided[i][v]
          BY <2>4, <2>7, <2>9 DEF Held
        <5>4. PICK v \in Held(decided[i]) :
                decided[i][v].status = "won" /\ rows[r][c].amount <= decided[i][v].amount
          BY <5>2
        <5>5. v \in Held(decided'[i]) /\ decided'[i][v].status = "won"
              /\ rows'[q][c].amount <= decided'[i][v].amount
          BY <4>1, <5>1, <5>3, <5>4
        <5>6. target'[q] = i /\ decided'[i][c].status = "none"
          BY <4>1, <5>1, <5>2, <2>6, <2>7
        <5> QED
          BY <5>5, <5>6
      <4>2. CASE q # r
        BY <4>2, <2>2, <2>6, <2>8 DEF DecisionInv, DecisionInProgress
      <4> QED
        BY <4>1, <4>2
    <3> QED
      BY <3>1, <3>3 DEF DecisionInProgress, Held
  <2>11. OneHighestWinner'
    <3>1. ASSUME NEW j \in Auctions, NEW c \in Held(decided'[j])
          PROVE  \E v \in Held(decided'[j]) :
                   /\ decided'[j][v].status = "won"
                   /\ decided'[j][c].amount <= decided'[j][v].amount
                   /\ decided'[j][c].status = "won" =>
                        \A d \in Held(decided'[j]) \ {c} : decided'[j][d].status = "lost"
      <4>1. CASE j = i /\ c = b
        BY <4>1, <2>3, <2>4, <2>5, <2>7, <2>9
      <4>2. CASE j = i /\ c # b
        <5>1. c \in Held(decided[i]) /\ decided'[i][c] = decided[i][c]
          BY <4>2, <3>1, <2>7, <2>9 DEF Held
        <5>2. PICK v \in Held(decided[i]) :
                /\ decided[i][v].status = "won"
                /\ decided[i][c].amount <= decided[i][v].amount
                /\ decided[i][c].status = "won" =>
                     \A d \in Held(decided[i]) \ {c} : decided[i][d].status = "lost"
          BY <5>1, <2>1 DEF DecisionInv, OneHighestWinner
        <5>3. v \in Held(decided'[i]) /\ decided'[i][v] = decided[i][v]
          BY <5>2, <2>4, <2>7, <2>9 DEF Held
        <5>4. decided[i][c].status = "won" =>
                \A d \in Held(decided'[i]) \ {c} : decided'[i][d].status = "lost"
          BY <5>2, <2>5, <2>7, <2>9 DEF Held
        <5> QED
          BY <4>2, <5>1, <5>2, <5>3, <5>4
      <4>3. CASE j # i
        <5>1. decided'[j] = decided[j]
          BY <4>3, <2>8
        <5>2. \E v \in Held(decided[j]) :
                /\ decided[j][v].status = "won"
                /\ decided[j][c].amount <= decided[j][v].amount
                /\ decided[j][c].status = "won" =>
                     \A d \in Held(decided[j]) \ {c} : decided[j][d].status = "lost"
          BY <3>1, <5>1 DEF DecisionInv, OneHighestWinner, Held
        <5> QED
          BY <5>1, <5>2 DEF Held
      <4> QED
        BY <4>1, <4>2, <4>3
    <3> QED
      BY <3>1 DEF OneHighestWinner, Held
  <2> QED
    BY <2>10, <2>11 DEF DecisionInv
<1>11. ASSUME NEW r \in Runs, NEW b \in Bids, RejectLoserFails(r, b) PROVE DecisionInv'
  <2>1. NoDecision
    BY <1>11, EmptyRow, QueryTypes DEF NoDecision, RejectLoserFails, Drop, Highest, Held
  <2> QED
    BY <2>1, NoDecisionKeeps
<1>12. ASSUME NEW r \in Runs, MarkClosed(r) PROVE DecisionInv'
  <2>1. NoDecision
    BY <1>12, EmptyRow, QueryTypes DEF NoDecision, MarkClosed, Goto
  <2> QED
    BY <2>1, NoDecisionKeeps
<1>13. ASSUME NEW r \in Runs, Unlist(r) PROVE DecisionInv'
  <2>1. NoDecision
    BY <1>13, EmptyRow, QueryTypes DEF NoDecision, Unlist, Return
  <2> QED
    BY <2>1, NoDecisionKeeps
<1>14. ASSUME NEW s \in Sessions, NEW b \in Bids, NEW a \in Amounts, PlaceBid(s, b, a) PROVE DecisionInv'
  <2>1. NoDecision
    BY <1>14, EmptyRow, QueryTypes DEF NoDecision, PlaceBid
  <2> QED
    BY <2>1, NoDecisionKeeps
<1>15. ASSUME NEW s \in Sessions, NEW b \in Bids, CreateBid(s, b) PROVE DecisionInv'
  <2>1. NoDecision
    BY <1>15, EmptyRow, QueryTypes DEF NoDecision, CreateBid, Drop, Held
  <2> QED
    BY <2>1, NoDecisionKeeps
<1>16. ASSUME NEW s \in Sessions, HandleNewBid(s) PROVE DecisionInv'
  <2>1. NoDecision
    BY <1>16, EmptyRow, QueryTypes DEF NoDecision, HandleNewBid
  <2> QED
    BY <2>1, NoDecisionKeeps
<1>17. ASSUME NEW s \in Sessions, RunAuction(s) PROVE DecisionInv'
  <2>1. NoDecision
    BY <1>17, EmptyRow, QueryTypes DEF NoDecision, RunAuction, NewAuction
  <2> QED
    BY <2>1, NoDecisionKeeps
<1>18. ASSUME NEW s \in Sessions, AuctionConflict(s) PROVE DecisionInv'
  <2>1. NoDecision
    BY <1>18, EmptyRow, QueryTypes DEF NoDecision, AuctionConflict, Return
  <2> QED
    BY <2>1, NoDecisionKeeps
<1>19. ASSUME NEW s \in Sessions, InitialBids(s) PROVE DecisionInv'
  <2>1. NoDecision
    <3>1. CASE Goto(s, "reset")
      BY <1>19, <3>1 DEF InitialBids, Goto, NoDecision
    <3>2. CASE Return(s)
      BY <1>19, <3>2 DEF InitialBids, Return, NoDecision
    <3> QED
      BY <1>19, <3>1, <3>2 DEF InitialBids
  <2> QED
    BY <2>1, NoDecisionKeeps
<1>20. ASSUME NEW s \in Sessions, ResetCloseTimer(s) PROVE DecisionInv'
  <2>1. NoDecision
    BY <1>20, EmptyRow, QueryTypes DEF NoDecision, ResetCloseTimer, Return
  <2> QED
    BY <2>1, NoDecisionKeeps
<1>21. ASSUME NEW s \in Sessions, PlaceBidFails(s) PROVE DecisionInv'
  <2>1. NoDecision
    BY <1>21, EmptyRow, QueryTypes DEF NoDecision, PlaceBidFails, Return
  <2> QED
    BY <2>1, NoDecisionKeeps
<1>22. ASSUME NEW s \in Sessions, NEW b \in Bids, NEW a \in Amounts, NEW e \in Extensions, UpdateBid(s, b, a, e) PROVE DecisionInv'
  <2>1. NoDecision
    BY <1>22, EmptyRow, QueryTypes DEF NoDecision, UpdateBid, StartWriting
  <2> QED
    BY <2>1, NoDecisionKeeps
<1>23. ASSUME NEW s \in Sessions, NEW b \in Bids, CancelBid(s, b) PROVE DecisionInv'
  <2>1. NoDecision
    BY <1>23, EmptyRow, QueryTypes DEF NoDecision, CancelBid, StartWriting
  <2> QED
    BY <2>1, NoDecisionKeeps
<1>24. ASSUME NEW s \in Sessions, ProcessExpiredBids(s) PROVE DecisionInv'
  <2>1. NoDecision
    BY <1>24, EmptyRow, QueryTypes DEF NoDecision, ProcessExpiredBids, StartWriting
  <2> QED
    BY <2>1, NoDecisionKeeps
<1>25. ASSUME NEW s \in Sessions, NEW b \in Bids, WriteRow(s, b) PROVE DecisionInv'
  <2>1. NoDecision
    BY <1>25, EmptyRow, QueryTypes DEF NoDecision, WriteRow, Drop, Held
  <2> QED
    BY <2>1, NoDecisionKeeps
<1>26. ASSUME Tick PROVE DecisionInv'
  <2>1. NoDecision
    BY <1>26, EmptyRow, QueryTypes DEF NoDecision, Tick
  <2> QED
    BY <2>1, NoDecisionKeeps
<1>27. ASSUME CallLeavesBidding PROVE DecisionInv'
  <2>1. NoDecision
    BY <1>27, EmptyRow, QueryTypes DEF NoDecision, CallLeavesBidding
  <2> QED
    BY <2>1, NoDecisionKeeps
<1>28. CASE UNCHANGED vars
  <2>1. NoDecision
    BY <1>28 DEF NoDecision, vars
  <2> QED
    BY <2>1, NoDecisionKeeps
<1> QED
  BY <1>1, <1>2, <1>3, <1>4, <1>5, <1>6, <1>7, <1>8, <1>9, <1>10, <1>11, <1>12, <1>13, <1>14, <1>15, <1>16, <1>17, <1>18, <1>19, <1>20, <1>21, <1>22, <1>23, <1>24, <1>25, <1>26, <1>27, <1>28 DEF Next, RunStep, Trigger, SessionStep, Request

\* When finalizations are exclusive, the strengthening is invariant.
LEMMA ExclusiveInvariant ==
  ASSUME Exclusive
  PROVE  Spec => []ExclusiveInv
<1>1. Init => ExclusiveInv
  BY EmptyRow DEF Init, ExclusiveInv, RunsInv, OneRunPerAuction, OneUnlisting, OpenIsListed, InProgress,
       DecisionInv, DecisionInProgress, OneHighestWinner, Procs
<1>2. TypeOK /\ ExclusiveInv /\ [Next]_vars => ExclusiveInv'
  BY RunsInvStep, DecisionInvStep DEF ExclusiveInv
<1> QED
  BY <1>1, <1>2, TypeCorrect, PTL DEF Spec

\* RunAuction's refusal works when finalizations are exclusive: two auctions of
\* the call are never both open or closing.
THEOREM OneOpenAuctionHolds ==
  ASSUME Exclusive
  PROVE  Spec => []OneOpenAuction
<1>1. ExclusiveInv => OneOpenAuction
  BY DEF ExclusiveInv, RunsInv, OpenIsListed, OneOpenAuction
<1> QED
  BY <1>1, ExclusiveInvariant, PTL

\* When finalizations are exclusive, what finalizeAuction wrote for an auction
\* is one winner, which no loser outbid.
THEOREM OneHighestWinnerHolds ==
  ASSUME Exclusive
  PROVE  Spec => []OneHighestWinner
<1>1. ExclusiveInv => OneHighestWinner
  BY DEF ExclusiveInv, DecisionInv
<1> QED
  BY <1>1, ExclusiveInvariant, PTL

\* When finalizations are exclusive, the engine implements AuctionOutcome:
\* accepting a winner is Declare, marking the auction closed is Close, and every
\* other step changes neither the winners nor which auctions are over.
THEOREM AuctionImplementsOutcome ==
  ASSUME Exclusive
  PROVE  Spec => ImplementsOutcome
<1> DEFINE Winners(d) == {b \in Bids : d[b].status = "won"}
<1>1. ASSUME Init PROVE Outcome!Init
  <2>1. \A i \in Auctions : Winners(decided[i]) = {} /\ status[i] # "closed"
    BY <1>1, EmptyRow DEF Init, NoRows
  <2> QED
    BY <2>1 DEF Outcome!Init
<1>2. ASSUME TypeOK, ExclusiveInv, [Next]_vars PROVE [Outcome!Next]_(Outcome!vars)
  <2> USE <1>2 DEF ExclusiveInv, TypeOK, Procs, Auctions
  <2>1. CASE UNCHANGED <<status, decided>>
    BY <2>1 DEF Outcome!vars
  <2>2. ASSUME NEW r \in Runs, MarkClosing(r) PROVE UNCHANGED Outcome!vars
    BY <2>2 DEF MarkClosing, Outcome!vars, AuctionStatus
  <2>3. ASSUME NEW r \in Runs, MarkClosed(r) PROVE Outcome!Next
    <3>0. PICK i \in Auctions : i = target[r]
      BY <2>3 DEF MarkClosed, RunPc
    <3>1. status[i] = "closing" /\ decided' = decided /\ status' = [status EXCEPT ![i] = "closed"]
      BY <2>3, <3>0 DEF MarkClosed, RunsInv, OneRunPerAuction, InProgress
    <3>2. Outcome!Close(i)
      BY <3>1 DEF Outcome!Close
    <3> QED
      BY <3>1, <3>2 DEF Outcome!Next
  <2>4. ASSUME NEW s \in Sessions, RunAuction(s) PROVE UNCHANGED Outcome!vars
    <3>1. created + 1 \in Auctions /\ status[created + 1] = "none"
      BY <2>4 DEF RunAuction, NewAuction
    <3> QED
      BY <2>4, <3>1 DEF RunAuction, NewAuction, Outcome!vars
  <2>5. ASSUME NEW r \in Runs, NEW b \in Bids, AcceptWinner(r, b) PROVE Outcome!Next
    <3>0. PICK i \in Auctions : i = target[r]
      BY <2>5 DEF AcceptWinner, RunPc
    <3>1. b \in Held(rows[r]) /\ status[i] = "closing"
      BY <2>5, <3>0 DEF AcceptWinner, Highest, RunsInv, OneRunPerAuction, InProgress, RunPc
    <3>2. \A q \in Runs : pc[q] = "reject" => target[q] # i
      BY <2>5, <3>0, <3>1 DEF AcceptWinner, RunsInv, OneRunPerAuction, InProgress
    <3>3. Held(decided[i]) = {}
      BY <3>1, <3>2 DEF DecisionInv, DecisionInProgress
    <3> DEFINE row == Accept(rows[r][b])
    <3>4. row \in Row /\ row.status = "won"
      BY MethodTypes
    <3>5. decided' = [decided EXCEPT ![i] = [decided[i] EXCEPT ![b] = row]] /\ status' = status
      BY <2>5, <3>0 DEF AcceptWinner, Decide, objectVars
    <3> HIDE DEF row
    <3>6. /\ Winners(decided[i]) = {} /\ Winners(decided'[i]) = {b}
          /\ \A j \in Auctions \ {i} : decided'[j] = decided[j]
      BY <3>1, <3>3, <3>4, <3>5 DEF Held
    <3>7. Outcome!Declare(i, b)
      BY <3>1, <3>5, <3>6 DEF Outcome!Declare
    <3> QED
      BY <3>1, <3>7 DEF Outcome!Next
  <2>6. ASSUME NEW r \in Runs, NEW b \in Bids, RejectLoser(r, b) PROVE UNCHANGED Outcome!vars
    <3>0. PICK i \in Auctions : i = target[r]
      BY <2>6 DEF RejectLoser, RunPc
    <3>1. pc[r] = "reject" /\ b \in Held(rows[r])
      BY <2>6 DEF RejectLoser, Highest
    <3>2. decided[i][b].status = "none"
      BY <3>0, <3>1 DEF DecisionInv, DecisionInProgress
    <3> DEFINE row == Reject(rows[r][b])
    <3>3. row \in Row /\ row.status = "lost"
      BY MethodTypes
    <3>4. decided' = [decided EXCEPT ![i] = [decided[i] EXCEPT ![b] = row]] /\ status' = status
      BY <2>6, <3>0 DEF RejectLoser, Decide, objectVars
    <3> HIDE DEF row
    <3>5. \A j \in Auctions : Winners(decided'[j]) = Winners(decided[j])
      BY <3>1, <3>2, <3>3, <3>4
    <3> QED
      BY <3>4, <3>5 DEF Outcome!vars
  <2> QED
    BY <2>1, <2>2, <2>3, <2>4, <2>5, <2>6, AuctionSteps
<1> QED
  BY <1>1, <1>2, TypeCorrect, ExclusiveInvariant, PTL DEF Spec, ImplementsOutcome, Outcome!Spec

\* A step after which the table and the decisions are as before, and nobody has
\* more to write, keeps the strengthening.
LEMMA QuietKeepsOnce ==
  ASSUME TypeOK, DecidedOnceInv, db' = db, decided' = decided,
         \A p \in Procs : pc'[p] \in {"create", "write", "accept", "reject"} =>
           pc[p] = pc'[p] /\ \A b \in Bids : rows'[p][b].status # "none" => rows'[p][b] = rows[p][b]
  PROVE  DecidedOnceInv'
<1> USE DEF DecidedOnceInv, Held, Procs, Creates
<1>1. RowsInv'
  BY DEF RowsInv
<1>2. UndecidedInv'
  BY DEF UndecidedInv
<1>3. BidDecidedOnce'
  BY DEF BidDecidedOnce
<1> QED
  BY <1>1, <1>2, <1>3

\* When finalizations are exclusive, only one run at a time decides bids.
LEMMA OneDecider ==
  ASSUME TypeOK, RunsInv
  PROVE  \A r, q \in Runs : pc[r] \in InProgress /\ pc[q] \in InProgress => r = q
<1> SUFFICES ASSUME NEW r \in Runs, NEW q \in Runs, pc[r] \in InProgress, pc[q] \in InProgress
             PROVE  r = q
  OBVIOUS
<1>1. target[r] \in Auctions /\ target[q] \in Auctions
  BY DEF TypeOK, InProgress, Auctions, Procs
<1>2. target[r] = target[q]
  BY <1>1 DEF RunsInv, OneRunPerAuction, OpenIsListed
<1> QED
  BY <1>2 DEF RunsInv, OneRunPerAuction

\* The run that writes its decision on a bid no auction has decided keeps the
\* strengthening: it is the only one with bids to decide.
LEMMA DecisionKeepsOnce ==
  ASSUME TypeOK, RunsInv, DecidedOnceInv,
         NEW r \in Runs, NEW b \in Bids, NEW row \in Row,
         pc[r] \in {"accept", "reject"}, b \in Held(rows[r]), row.status \in {"won", "lost"},
         Decide(r, b, row), pc' = [pc EXCEPT ![r] = "reject"]
  PROVE  DecidedOnceInv'
<1> USE DEF Procs
<1>1. PICK i \in Auctions : i = target[r]
  BY DEF TypeOK, Auctions
<1>2. /\ db' = [db EXCEPT ![b] = row]
      /\ decided' = [decided EXCEPT ![i] = [decided[i] EXCEPT ![b] = row]]
      /\ rows' = [rows EXCEPT ![r] = [rows[r] EXCEPT ![b] = NoRow]]
  BY <1>1 DEF Decide, Drop
<1>3. \A s \in Sessions : pc'[s] = pc[s] /\ rows'[s] = rows[s]
  BY <1>2, ProcAssumption DEF TypeOK
<1>4. db[b].status # "none" /\ \A j \in Auctions : decided[j][b].status = "none"
  BY DEF DecidedOnceInv, UndecidedInv
<1>5. \A q \in Runs : pc'[q] \in {"accept", "reject"} => q = r
  BY OneDecider DEF TypeOK, InProgress
<1>6. \A c \in Bids : db'[c].status = IF c = b THEN row.status ELSE db[c].status
  BY <1>2 DEF TypeOK
<1>7. \A j \in Auctions, c \in Bids : decided'[j][c] = IF j = i /\ c = b THEN row ELSE decided[j][c]
  BY <1>2 DEF TypeOK
<1>8. \A c \in Held(rows'[r]) : c # b /\ c \in Held(rows[r])
  BY <1>2, EmptyRow DEF Held, TypeOK
<1>9. RowsInv'
  BY <1>3, <1>4, <1>6 DEF RowsInv, Creates, Held, DecidedOnceInv
<1>10. UndecidedInv'
  <2>1. \A j \in Auctions, c \in Bids : c \in Held(decided'[j]) =>
          db'[c].status \in {"won", "lost", "canceled", "expired"}
    BY <1>6, <1>7 DEF DecidedOnceInv, UndecidedInv, Held
  <2>2. \A c \in Held(rows'[r]) : db'[c].status # "none" /\ \A j \in Auctions : decided'[j][c].status = "none"
    BY <1>6, <1>7, <1>8 DEF DecidedOnceInv, UndecidedInv, Held
  <2> QED
    BY <1>5, <2>1, <2>2 DEF UndecidedInv
<1>11. BidDecidedOnce'
  BY <1>4, <1>7 DEF BidDecidedOnce, Held, DecidedOnceInv
<1> QED
  BY <1>9, <1>10, <1>11 DEF DecidedOnceInv

\* A request that has read rows and will close them keeps the strengthening.
LEMMA WritingKeepsOnce ==
  ASSUME TypeOK, DecidedOnceInv, NEW s \in Sessions, NEW copies \in [Bids -> Row],
         StartWriting(s, copies),
         \A b \in Held(copies) : copies[b].status \in {"canceled", "expired"} /\ db[b].status # "none"
  PROVE  DecidedOnceInv'
<1> USE DEF DecidedOnceInv, StartWriting, Procs, storeVars
<1>1. \A p \in Procs : p # s => pc'[p] = pc[p] /\ rows'[p] = rows[p]
  BY DEF TypeOK
<1>2. pc'[s] = "write" /\ rows'[s] = copies /\ \A r \in Runs : r # s
  BY ProcAssumption DEF TypeOK
<1>3. RowsInv'
  BY <1>1, <1>2 DEF RowsInv, Creates, Held
<1>4. UndecidedInv'
  BY <1>1, <1>2 DEF UndecidedInv, Held
<1>5. BidDecidedOnce'
  BY DEF BidDecidedOnce, Held
<1> QED
  BY <1>3, <1>4, <1>5

\* Without edits, no step lets a second auction decide a bid.
LEMMA DecidedOnceStep ==
  ASSUME Extensions = {}, TypeOK, ExclusiveInv, DecidedOnceInv, [Next]_vars
  PROVE  DecidedOnceInv'
<1> USE DEF Procs
<1> DEFINE Quiet ==
      /\ db' = db /\ decided' = decided
      /\ \A p \in Procs : pc'[p] \in {"create", "write", "accept", "reject"} =>
           pc[p] = pc'[p] /\ \A b \in Bids : rows'[p][b].status # "none" => rows'[p][b] = rows[p][b]
<1>0. ASSUME Quiet PROVE DecidedOnceInv'
  BY <1>0, QuietKeepsOnce
<1>1. ASSUME NEW r \in Runs, Trigger(r) PROVE Quiet
  BY <1>1 DEF Trigger, CloseTimerFires, MaxDurationReached, CloseAuction, StartFinalize, TypeOK, storeVars
<1>2. ASSUME NEW r \in Runs, AlreadyClosed(r) \/ FinalizeFails(r) \/ Unlist(r) PROVE Quiet
  BY <1>2 DEF AlreadyClosed, FinalizeFails, Unlist, Return, TypeOK, storeVars
<1>3. ASSUME NEW r \in Runs, MarkClosing(r) \/ MarkClosed(r) PROVE Quiet
  BY <1>3 DEF MarkClosing, MarkClosed, Goto, TypeOK, storeVars
<1>4. ASSUME NEW r \in Runs, NEW b \in Bids, RejectLoserFails(r, b) PROVE Quiet
  BY <1>4, EmptyRow DEF RejectLoserFails, Drop, TypeOK, storeVars
<1>5. ASSUME NEW s \in Sessions, HandleNewBid(s) \/ RunAuction(s) PROVE Quiet
  BY <1>5 DEF HandleNewBid, RunAuction, NewAuction, TypeOK, storeVars
<1>6. ASSUME NEW s \in Sessions, AuctionConflict(s) \/ ResetCloseTimer(s) \/ PlaceBidFails(s) PROVE Quiet
  BY <1>6 DEF AuctionConflict, ResetCloseTimer, PlaceBidFails, Return, TypeOK, storeVars
<1>7. ASSUME NEW s \in Sessions, InitialBids(s) PROVE Quiet
  <2>1. CASE Goto(s, "reset")
    BY <1>7, <2>1 DEF InitialBids, Goto, TypeOK, storeVars
  <2>2. CASE Return(s)
    BY <1>7, <2>2 DEF InitialBids, Return, TypeOK, storeVars
  <2> QED
    BY <1>7, <2>1, <2>2 DEF InitialBids
<1>8. ASSUME \/ \E i \in Auctions : RequestContextDone(i)
             \/ Tick \/ CallLeavesBidding \/ UNCHANGED vars
      PROVE  Quiet
  BY <1>8 DEF RequestContextDone, Tick, CallLeavesBidding, vars, localVars, storeVars
<1>9. ASSUME NEW r \in Runs, ReadBids(r) PROVE DecidedOnceInv'
  <2>1. /\ \A p \in Procs : p # r => pc'[p] = pc[p] /\ rows'[p] = rows[p]
        /\ pc'[r] \in {"accept", "reject"} /\ rows'[r] = ActiveBids
        /\ \A s \in Sessions : s # r
        /\ db' = db /\ decided' = decided
    BY <1>9, ProcAssumption DEF ReadBids, TypeOK, storeVars
  <2>2. \A b \in Held(ActiveBids) : db[b].status \in {"active", "winning"}
    BY EmptyRow DEF Held, ActiveBids
  <2>3. \A b \in Held(ActiveBids) : db[b].status # "none" /\ \A i \in Auctions : decided[i][b].status = "none"
    BY <2>2 DEF DecidedOnceInv, UndecidedInv, Held
  <2>4. RowsInv'
    BY <2>1 DEF DecidedOnceInv, RowsInv, Creates, Held
  <2>5. UndecidedInv'
    BY <2>1, <2>3 DEF DecidedOnceInv, UndecidedInv, Held
  <2>6. BidDecidedOnce'
    BY <2>1 DEF DecidedOnceInv, BidDecidedOnce, Held
  <2> QED
    BY <2>4, <2>5, <2>6 DEF DecidedOnceInv
<1>10. ASSUME NEW r \in Runs, NEW b \in Bids, AcceptWinner(r, b) PROVE DecidedOnceInv'
  <2>1. b \in Held(rows[r]) /\ rows[r][b] \in Row
    BY <1>10 DEF AcceptWinner, Highest, TypeOK
  <2>2. Accept(rows[r][b]) \in Row /\ Accept(rows[r][b]).status = "won"
    BY <2>1, MethodTypes
  <2> QED
    BY <1>10, <2>1, <2>2, DecisionKeepsOnce DEF AcceptWinner, ExclusiveInv
<1>11. ASSUME NEW r \in Runs, NEW b \in Bids, RejectLoser(r, b) PROVE DecidedOnceInv'
  <2>1. b \in Held(rows[r]) /\ rows[r][b] \in Row
    BY <1>11 DEF RejectLoser, Highest, TypeOK
  <2>2. Reject(rows[r][b]) \in Row /\ Reject(rows[r][b]).status = "lost"
    BY <2>1, MethodTypes
  <2>3. pc' = [pc EXCEPT ![r] = "reject"]
    BY <1>11 DEF RejectLoser, TypeOK
  <2> QED
    BY <1>11, <2>1, <2>2, <2>3, DecisionKeepsOnce DEF RejectLoser, ExclusiveInv
<1>12. ASSUME NEW s \in Sessions, NEW b \in Bids, NEW a \in Amounts, PlaceBid(s, b, a) PROVE DecidedOnceInv'
  <2> DEFINE new == [status |-> "active", amount |-> a, expiresAt |-> now + Duration]
  <2>1. /\ \A p \in Procs : p # s => pc'[p] = pc[p] /\ rows'[p] = rows[p]
        /\ pc'[s] = "create" /\ rows'[s] = [NoRows EXCEPT ![b] = new]
        /\ \A r \in Runs : r # s
        /\ db' = db /\ decided' = decided
    BY <1>12, ProcAssumption DEF PlaceBid, TypeOK, storeVars
  <2>2. db[b].status = "none" /\ \A t \in Sessions : rows[t][b].status = "none"
    BY <1>12, EmptyRow DEF PlaceBid
  <2> HIDE DEF new
  <2>3. \A c \in Bids : c # b => [NoRows EXCEPT ![b] = new][c].status = "none"
    BY EmptyRow DEF NoRows
  <2>4. RowsInv'
    <3>1. \A t \in Sessions, c \in Bids :
            Creates(t, c)' => (t = s /\ c = b) \/ (t # s /\ c # b /\ Creates(t, c))
      BY <2>1, <2>2, <2>3 DEF Creates, Held
    <3>2. \A t \in Sessions : pc'[t] = "write" => t # s /\ pc[t] = "write" /\ rows'[t] = rows[t]
      BY <2>1
    <3> QED
      BY <2>1, <2>2, <3>1, <3>2 DEF DecidedOnceInv, RowsInv, Held
  <2>5. UndecidedInv'
    BY <2>1 DEF DecidedOnceInv, UndecidedInv, Held
  <2>6. BidDecidedOnce'
    BY <2>1 DEF DecidedOnceInv, BidDecidedOnce, Held
  <2> QED
    BY <2>4, <2>5, <2>6 DEF DecidedOnceInv
<1>13. ASSUME NEW s \in Sessions, NEW b \in Bids, CreateBid(s, b) PROVE DecidedOnceInv'
  <2>1. /\ \A p \in Procs : p # s => pc'[p] = pc[p] /\ rows'[p] = rows[p]
        /\ pc'[s] = "lookup" /\ \A r \in Runs : r # s
        /\ decided' = decided
        /\ \A c \in Bids : db'[c] = IF c = b THEN rows[s][b] ELSE db[c]
    BY <1>13, ProcAssumption DEF CreateBid, Drop, TypeOK
  <2>2. Creates(s, b) /\ rows[s][b].status # "none" /\ db[b].status = "none"
    BY <1>13 DEF CreateBid, Creates, Held, DecidedOnceInv, RowsInv
  <2>3. \A i \in Auctions : decided[i][b].status = "none"
    BY <2>2 DEF DecidedOnceInv, UndecidedInv, Held
  <2>4. RowsInv'
    BY <2>1, <2>2 DEF DecidedOnceInv, RowsInv, Creates, Held
  <2>5. UndecidedInv'
    BY <2>1, <2>2, <2>3 DEF DecidedOnceInv, UndecidedInv, Held
  <2>6. BidDecidedOnce'
    BY <2>1 DEF DecidedOnceInv, BidDecidedOnce, Held
  <2> QED
    BY <2>4, <2>5, <2>6 DEF DecidedOnceInv
<1>14. ASSUME NEW s \in Sessions, NEW b \in Bids, CancelBid(s, b) PROVE DecidedOnceInv'
  <2> DEFINE copies == [NoRows EXCEPT ![b] = WithStatus(db[b], "canceled")]
  <2>1. db[b] \in Row /\ db[b].status # "none"
    BY <1>14 DEF CancelBid, Modifiable, TypeOK
  <2>2. copies \in [Bids -> Row] /\ StartWriting(s, copies)
    BY <1>14, <2>1, EmptyRow, StatusChange DEF CancelBid, BidStatus
  <2>3. copies[b].status = "canceled" /\ \A c \in Bids \ {b} : copies[c].status = "none"
    BY <2>1, EmptyRow, StatusChange DEF NoRows, BidStatus
  <2>4. \A c \in Held(copies) : c = b /\ copies[c].status = "canceled"
    BY <2>3 DEF Held
  <2> QED
    BY <2>1, <2>2, <2>4, WritingKeepsOnce
<1>15. ASSUME NEW s \in Sessions, ProcessExpiredBids(s) PROVE DecidedOnceInv'
  <2> DEFINE copies == [b \in Bids |-> IF b \in Held(ExpiredBids) THEN WithStatus(db[b], "expired") ELSE NoRow]
  <2>1. copies \in [Bids -> Row] /\ StartWriting(s, copies)
    BY <1>15, EmptyRow, StatusChange DEF ProcessExpiredBids, BidStatus, TypeOK
  <2>2. \A b \in Held(ExpiredBids) : db[b].status # "none"
    BY EmptyRow DEF Held, ExpiredBids
  <2>3. \A b \in Held(copies) : copies[b].status = "expired" /\ b \in Held(ExpiredBids)
    BY EmptyRow, StatusChange DEF Held, BidStatus, TypeOK
  <2> QED
    BY <2>1, <2>2, <2>3, WritingKeepsOnce
<1>16. ASSUME NEW s \in Sessions, NEW b \in Bids, WriteRow(s, b) PROVE DecidedOnceInv'
  <2>1. /\ \A p \in Procs : p # s => pc'[p] = pc[p] /\ rows'[p] = rows[p]
        /\ pc[s] = "write" /\ pc'[s] \in {"write", "idle"}
        /\ \A c \in Bids : rows'[s][c] = IF c = b THEN NoRow ELSE rows[s][c]
        /\ \A r \in Runs : r # s
        /\ decided' = decided
    BY <1>16, EmptyRow, ProcAssumption DEF WriteRow, Drop, TypeOK
  <2>2. rows[s][b].status \in {"canceled", "expired"} /\ db[b].status # "none"
    BY <1>16 DEF WriteRow, DecidedOnceInv, RowsInv
  <2>3. \A c \in Bids : \/ db'[c] = db[c]
                        \/ c = b /\ db'[c].status \in {"canceled", "expired"}
    BY <1>16, <2>2 DEF WriteRow, TypeOK
  <2>4. RowsInv'
    BY <2>1, <2>2, <2>3, EmptyRow DEF DecidedOnceInv, RowsInv, Creates, Held
  <2>5. UndecidedInv'
    BY <2>1, <2>2, <2>3 DEF DecidedOnceInv, UndecidedInv, Held
  <2>6. BidDecidedOnce'
    BY <2>1 DEF DecidedOnceInv, BidDecidedOnce, Held
  <2> QED
    BY <2>4, <2>5, <2>6 DEF DecidedOnceInv
<1> HIDE DEF Quiet
<1> QED
  BY <1>0, <1>1, <1>2, <1>3, <1>4, <1>5, <1>6, <1>7, <1>8, <1>9, <1>10, <1>11, <1>12, <1>13, <1>14, <1>15, <1>16
     DEF Next, RunStep, SessionStep, Request

\* When finalizations are exclusive and no buyer edits a bid (an edit writes a
\* stale row back, status included), a bid that one auction of the call decided
\* is decided by no other, whatever is cancelled, expires or fails meanwhile.
THEOREM BidDecidedOnceHolds ==
  ASSUME Exclusive, Extensions = {}
  PROVE  Spec => []BidDecidedOnce
<1>1. Init => DecidedOnceInv
  BY EmptyRow DEF Init, DecidedOnceInv, RowsInv, UndecidedInv, BidDecidedOnce, Creates, Procs
<1>2. TypeOK /\ ExclusiveInv /\ DecidedOnceInv /\ [Next]_vars => DecidedOnceInv'
  BY DecidedOnceStep
<1>3. DecidedOnceInv => BidDecidedOnce
  BY DEF DecidedOnceInv
<1> QED
  BY <1>1, <1>2, <1>3, TypeCorrect, ExclusiveInvariant, PTL DEF Spec
=============================================================================
