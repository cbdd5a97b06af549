--------------------------- MODULE MCAuditLogger ---------------------------
(* TLC instances of AuditLogger: events and workers are interchangeable. *)
EXTENDS AuditLogger

Symmetry == Permutations(Events) \cup Permutations(Workers)
=============================================================================
