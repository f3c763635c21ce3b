----------------------------- MODULE MCBstTable -----------------------------
(***************************************************************************)
(* Instances of BstTable for TLC: one realm of each kind of address, one   *)
(* of them with two counters.                                              *)
(***************************************************************************)
EXTENDS BstTable

SomeRealms == {"ingress-port-priority-group", "egress-uc-queue"}
=============================================================================
