--------------------------- MODULE MCSealedStore ---------------------------
(***************************************************************************)
(* Instances of SealedStore: three edits are enough for a backup that is   *)
(* two saves old, two keys for an init that crashed and one that worked.   *)
(***************************************************************************)
EXTENDS SealedStore
=============================================================================
