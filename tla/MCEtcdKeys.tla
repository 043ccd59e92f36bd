----------------------------- MODULE MCEtcdKeys -----------------------------
(***************************************************************************)
(* Instances of EtcdKeys.                                                  *)
(***************************************************************************)
EXTENDS EtcdKeys, TLC

CONSTANTS m1, m2, u1, u2, w1
=============================================================================
