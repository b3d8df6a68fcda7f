------------------------------- MODULE Gateway -------------------------------
(***************************************************************************)
(* What one client connection promises, whatever protocol it speaks: only  *)
(* a client that has logged in gets anything run; nothing the policy       *)
(* denies is run; a refusal is in the audit log before the next request is *)
(* read; a statement that did run is in the log too, unless the connection *)
(* ended with it.  A statement that was allowed but did not reach the      *)
(* database may be logged or not.  The connection may end at every step.   *)
(***************************************************************************)
EXTENDS Sequences

CONSTANTS
    Texts,    \* the statements clients send
    Denied    \* the ones that the policy of the connection's env denies

VARIABLES
    phase,    \* "outside" until the login, then "inside", at last "gone"
    ran,      \* the statements handed to the database, in order
    audit     \* the audit log of the connection

vars == <<phase, ran, audit>>

Init ==
    /\ phase = "outside"
    /\ ran = <<>>
    /\ audit = <<>>

Stay == phase' \in {phase, "gone"}

Login ==
    /\ phase = "outside"
    /\ phase' = "inside"
    /\ UNCHANGED <<ran, audit>>

Leave ==
    /\ phase' = "gone"
    /\ UNCHANGED <<ran, audit>>

Logged(t, decisions) ==
    \E e \in [stmt : {t}, decision : decisions,
              why : {"none", "policy", "pool", "backend"}] :
        audit' = Append(audit, e)

Refuse(t) ==
    /\ phase = "inside"
    /\ Stay
    /\ t \in Denied
    /\ Logged(t, {"Deny"})
    /\ UNCHANGED ran

Run(t) ==
    /\ phase = "inside"
    /\ Stay
    /\ t \notin Denied
    /\ ran' = Append(ran, t)
    /\ Logged(t, {"Allow", "Deny", "Error"}) \/ (phase' = "gone" /\ UNCHANGED audit)

Fail(t) ==
    /\ phase = "inside"
    /\ Stay
    /\ t \notin Denied
    /\ Logged(t, {"Error"}) \/ UNCHANGED audit
    /\ UNCHANGED ran

Next ==
    \/ Login
    \/ Leave
    \/ \E t \in Texts : Refuse(t) \/ Run(t) \/ Fail(t)

Spec == Init /\ [][Next]_vars
=============================================================================
