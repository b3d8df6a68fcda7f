------------------------------ MODULE MCSessions ------------------------------
(***************************************************************************)
(* Instances of Sessions.  The texts are one of each kind the handlers     *)
(* tell apart: an allowed one, a denied one, a denied one that cannot be   *)
(* sliced at byte 64, and an allowed one with a placeholder that becomes   *)
(* the first or the second when a parameter is inlined.                    *)
(***************************************************************************)
EXTENDS Sessions

MCTexts == {"select", "delete", "delete_wide", "template"}

MCInlined ==
    [tp \in MCTexts \X {"plain", "other"} |->
        IF tp[1] # "template" THEN tp[1]
        ELSE IF tp[2] = "plain" THEN "select" ELSE "delete"]
=============================================================================
