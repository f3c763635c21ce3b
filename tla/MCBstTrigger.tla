---------------------------- MODULE MCBstTrigger ----------------------------
(***************************************************************************)
(* Instances of BstTrigger for TLC.  Index stands for two of the thirteen  *)
(* entries of bst_realm_index_map, the device entry among them because an  *)
(* unmapped counter is counted there.                                      *)
(***************************************************************************)
EXTENDS BstTrigger

OneUnit   == {0}
\* unit 1 does not exist when NumUnits = 1
ExtraUnit == {0, 1}
Limits    == {1, 2}
OneLimit  == {1}
None      == {}
=============================================================================
