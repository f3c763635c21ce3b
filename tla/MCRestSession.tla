--------------------------- MODULE MCRestSession ----------------------------
(***************************************************************************)
(* The instance of RestSession for TLC: two sessions stand for the five,   *)
(* and there is a client more than there are sessions.  TLC keeps clients  *)
(* and sockets apart, as a symmetry set is not sound for liveness.         *)
(***************************************************************************)
EXTENDS RestSession
=============================================================================
