------------------------ MODULE MCDncCircuitBreaker ------------------------
(* TLC instances of DncCircuitBreaker.  Both check liveness, so the callers, *)
(* although interchangeable, are not declared symmetric.                     *)
EXTENDS DncCircuitBreaker
=============================================================================
