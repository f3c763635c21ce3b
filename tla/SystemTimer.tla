---------------------------- MODULE SystemTimer -----------------------------
(***************************************************************************)
(* The periodic timers that the applications keep (system_time.c): an id,  *)
(* a flag in_use, and what the kernel runs under that id.  Starting and    *)
(* stopping a timer may fail at each of its system calls, and the heartbeat *)
(* and the collections of BST meet these failures in the same way.         *)
(***************************************************************************)
EXTENDS Naturals

Bit(b) == IF b THEN 1 ELSE 0

\* what a start or a stop leaves: the timer, running timers it has lost,
\* failures, and whether it reports success.  A timer runs at an interval, or
\* at 0 when the kernel does not run it
Outcome(t, lost, failures, ok) ==
  [timer |-> t, lost |-> lost, faults |-> failures, ok |-> ok]

\* reg_hb_heartbeat_timer_stop, bst_periodic_collection_timer_delete: nothing
\* to do for a timer that is not in use; a failure leaves it as it is
Stops(t) ==
  {Outcome([inUse |-> FALSE, runs |-> IF t.inUse THEN 0 ELSE t.runs], 0, 0, TRUE)}
    \cup IF t.inUse THEN {Outcome(t, 0, 1, FALSE)} ELSE {}

\* system_timer_add: timer_create overwrites the id, so a timer that is still
\* there runs on without an owner
Adds(s, interval) ==
  LET t == s.timer
      lost == Bit(t.runs # 0)
  IN {Outcome([inUse |-> TRUE, runs |-> interval], lost, s.faults, TRUE),
      Outcome([t EXCEPT !.runs = 0], lost, s.faults + 1, FALSE), \* timer_settime
      Outcome(t, 0, s.faults + 1, FALSE)}                        \* timer_create

\* reg_hb_heartbeat_timer_start, bst_periodic_collection_timer_add: go on when
\* the old timer is not deleted
Starts(t, interval) == UNION {Adds(s, interval) : s \in Stops(t)}
=============================================================================
