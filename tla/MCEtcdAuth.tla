----------------------------- MODULE MCEtcdAuth -----------------------------
(***************************************************************************)
(* Instances of EtcdAuth: two administrators, two permissions, of which    *)
(* user root has one of itself.                                            *)
(***************************************************************************)
EXTENDS EtcdAuth, TLC

CONSTANTS a1, a2, r1, r2

AdminSymmetry == Permutations({a1, a2})
=============================================================================
