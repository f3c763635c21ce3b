---------------------------- MODULE MCBstConfig -----------------------------
(***************************************************************************)
(* Instances of BstConfig for TLC: two limits, so that a stale one can be  *)
(* told from a current one, and one or two of the eleven realms.           *)
(***************************************************************************)
EXTENDS BstConfig

AllKinds  == EventKinds
RestKinds == {"feature", "trigger", "expiry"}
SetKinds  == {"feature"}

\* an earlier run has left BST on or off; the limits are interchangeable, so
\* one of them is the limit at the start
StoredAtStart ==
  {[enable |-> e, max |-> CHOOSE l \in Limits : TRUE, track |-> Realms]
     : e \in BOOLEAN}

\* all realms, or all but one
FullOrNot == {Realms, Realms \ {CHOOSE r \in Realms : TRUE}}
=============================================================================
