---------------------------- MODULE MCBstReport -----------------------------
(***************************************************************************)
(* Instances of BstReport for TLC: two of the eleven realms, so that one   *)
(* can change while the other is read, and three configurations.           *)
(***************************************************************************)
EXTENDS BstReport

Bits     == {0, 1}
Seconds  == {1, 2}
OneOrTwo == {{1}, {1, 2}}

\* BVIEW_BST_PERIODIC_REPORT_DEFAULT, BVIEW_BST_DEFAULT_SEND_INCR_REPORT and
\* BVIEW_BST_DEFAULT_SNAPSHOT_TRIGGER
FactoryConf == [async |-> FALSE, incr |-> TRUE, snap |-> TRUE, interval |-> 1]

\* between the other two every field changes while the timer runs
ThreeConfs ==
  {FactoryConf,
   [async |-> TRUE, incr |-> TRUE, snap |-> FALSE, interval |-> 1],
   [async |-> TRUE, incr |-> FALSE, snap |-> TRUE, interval |-> 2]}
=============================================================================
