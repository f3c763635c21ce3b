------------------------------ MODULE MCAgent --------------------------------
(***************************************************************************)
(* An instance of Agent for TLC: two shells, two valid values and one that *)
(* is not of every setting.                                                *)
(***************************************************************************)
EXTENDS Agent

DefaultSettings == [ip |-> "127.0.0.1", port |-> 9070, agent |-> 8080]

\* one setting of each is refused, with another that is accepted
SomeMaps == {[ip |-> BadAddress, port |-> 8080, agent |-> 9070],
             [ip |-> "10.0.0.1", port |-> BadPort, agent |-> BadPort]}
=============================================================================
