------------------------------- MODULE MCBackend -------------------------------
(***************************************************************************)
(* A tunnelled env that is reaped after an odd number of seconds, unless   *)
(* the run's override says never, and a direct one that is never reaped.   *)
(***************************************************************************)
EXTENDS Backend

MCIdleTimeout == [e \in Envs |-> IF e = "fast" THEN 3 ELSE 0]
MCDials == [c \in Clients |-> IF c = "c1" THEN {"fast"} ELSE {"fast", "slow"}]
=============================================================================
