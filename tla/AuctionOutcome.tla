--------------------------- MODULE AuctionOutcome ---------------------------
(***************************************************************************)
(* What finalizeAuction promises for each auction of a call: while the     *)
(* auction runs at most one bid is declared its winner, the declaration is *)
(* never withdrawn, and nothing is declared once the auction is closed.    *)
(* Auction.tla implements this specification (see its Outcome instance).   *)
(***************************************************************************)
CONSTANTS Bids, Auctions

VARIABLES
  winners,   \* winners[i]: the bids auction i has accepted
  closed     \* closed[i]: auction i is over

vars == <<winners, closed>>

Init == /\ winners = [i \in Auctions |-> {}]
        /\ closed = [i \in Auctions |-> FALSE]

Declare(i, b) == /\ ~closed[i]
                 /\ winners[i] = {}
                 /\ winners' = [winners EXCEPT ![i] = {b}]
                 /\ UNCHANGED closed

Close(i) == /\ ~closed[i]
            /\ closed' = [closed EXCEPT ![i] = TRUE]
            /\ UNCHANGED winners

Next == \E i \in Auctions : Close(i) \/ \E b \in Bids : Declare(i, b)

Spec == Init /\ [][Next]_vars
=============================================================================
