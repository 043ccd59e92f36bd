----------------------------- MODULE MCEtcdLock -----------------------------
(***************************************************************************)
(* Instances of EtcdLock: two Lock objects.                                *)
(***************************************************************************)
EXTENDS EtcdLock

CONSTANTS l1, l2
=============================================================================
