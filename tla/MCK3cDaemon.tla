---------------------------- MODULE MCK3cDaemon ----------------------------
(* Instances of K3cDaemon for TLC. *)
EXTENDS K3cDaemon, TLC

Symmetry ==
    Permutations(Pod \ ForeignPod) \cup Permutations(Ctr) \cup Permutations(Client)
=============================================================================
