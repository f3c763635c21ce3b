---------------------------- MODULE MCRedirector -----------------------------
(***************************************************************************)
(* An instance of Redirector for TLC: the OVSDB plugin, which knows one    *)
(* unit and has all BST callbacks for its silicon, a plugin that serves    *)
(* all silicon but not every operation, one that is refused and, with a    *)
(* table of two, one that may come too late.                               *)
(***************************************************************************)
EXTENDS Redirector, TLC

CONSTANTS td2, th, ovsdb, generic, late, tooMany

None3 == [f \in FeatureIds |-> None]
For(mask, callbacks) == [mask |-> mask, callbacks |-> callbacks]

SomeFeatures ==
  (ovsdb   :> [None3 EXCEPT !["SYSTEM"] = For(AllAsics, OvsdbSystem),
                            !["BST"] = For({td2, th}, OvsdbBst)]) @@
  (generic :> [None3 EXCEPT !["BST"] = For(AllAsics, {"config_set"})]) @@
  (late    :> [None3 EXCEPT !["BST"] = For({td2}, {"config_set", "clear_stats"})]) @@
  (tooMany :> [None3 EXCEPT !["BST"] = For({td2}, OvsdbBst)])

SomeSilicon ==
  (ovsdb   :> (0 :> td2 @@ 1 :> None)) @@
  (generic :> (0 :> None @@ 1 :> None)) @@
  (late    :> (0 :> None @@ 1 :> None)) @@
  (tooMany :> (0 :> th @@ 1 :> th))

Named(names) == {op \in AllOps : <<op.feature, op.cb>> \in names}
SomeOps == Named({<<"BST", "clear_stats">>, <<"SYSTEM", "num_ports">>,
                  <<"SYSTEM", "num_units">>})
=============================================================================
