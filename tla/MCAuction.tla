----------------------------- MODULE MCAuction -----------------------------
(* TLC instances of Auction: ids are model values and interchangeable. *)
EXTENDS Auction, TLC

Symmetry == Permutations(Bids) \cup Permutations(Runs) \cup Permutations(Sessions)
=============================================================================
