--------------------------- MODULE ConfigRegister ---------------------------
(***************************************************************************)
(* What a configuration store promises: it holds one configuration, every  *)
(* update takes effect as a whole or not at all, and nothing else ever     *)
(* changes what it holds.  A configuration is the set of updates that went *)
(* into it.                                                                *)
(***************************************************************************)
CONSTANT Updates

VARIABLE value

Init == value = {}

Update(u) == value' = value \union {u}

Next == \E u \in Updates : Update(u)

Spec == Init /\ [][Next]_value
=============================================================================
