-------------------------------- MODULE SbApi --------------------------------
(***************************************************************************)
(* What the south-bound API (sbapi_system_name_get and its siblings)       *)
(* promises to the applications: an operation is carried out at one moment *)
(* between its call and its return, by the plugin that suits the unit's    *)
(* silicon best among those registered at that moment.  Redirector         *)
(* implements it with a lock, a table and two look-ups.                    *)
(***************************************************************************)
EXTENDS SbOps

CONSTANTS
  Ops,        \* the operations the clients call
  LockFaults  \* can pthread_rwlock_rdlock fail?

VARIABLES
  registered,  \* the plugins that have registered
  calls        \* each client's call

NoCall == [op |-> None, unit |-> None, fault |-> FALSE, rv |-> None]

\* "1. If an exact match for a silicon is found then that function list is
\* returned.  2. Else return a function list that has support for all silicon
\* types."
Best(asic, f) ==
  LET exact == {p \in registered : ForAsic(p, asic, f)} IN
    IF exact # {} THEN exact ELSE {p \in registered : ForAll(p, f)}

Ask(op, asic) ==
  LET best == Best(asic, op.feature) IN
    IF best = {} THEN {"FAILURE"} ELSE UNION {Answers(op, asic, p) : p \in best}

\* a unit's silicon is what the SYSTEM plugin says it is
AskUnit(op, unit) ==
  LET systems == Best(AllAsics, "SYSTEM")
      known == {p \in systems : unit \in UnitsOf(p)}
  IN (UNION {Ask(op, {Silicon[p][unit]}) : p \in known})
       \cup (IF known = systems /\ systems # {} THEN {} ELSE {"FAILURE"})

Outcomes(op, unit) == IF op.byUnit THEN AskUnit(op, unit) ELSE Ask(op, AllAsics)

-----------------------------------------------------------------------------
Init ==
  /\ registered = {}
  /\ calls = [c \in Clients |-> NoCall]

Register ==
  /\ \E p \in Plugins \ registered : registered' = registered \cup {p}
  /\ UNCHANGED calls

Call(c) ==
  /\ calls[c] = NoCall
  /\ \E op \in Ops, u \in Units \cup {None} :
       /\ op.byUnit <=> u # None
       /\ calls' = [calls EXCEPT ![c].op = op, ![c].unit = u]
  /\ UNCHANGED registered

Pending(c) == calls[c].op # None /\ calls[c].rv = None

Serve(c) ==
  /\ Pending(c)
  /\ \E rv \in Outcomes(calls[c].op, calls[c].unit) : calls' = [calls EXCEPT ![c].rv = rv]
  /\ UNCHANGED registered

\* the lock could not be taken
Fail(c) ==
  /\ LockFaults
  /\ Pending(c)
  /\ calls' = [calls EXCEPT ![c].fault = TRUE, ![c].rv = "FAILURE"]
  /\ UNCHANGED registered

Return(c) ==
  /\ calls[c].rv # None
  /\ calls' = [calls EXCEPT ![c] = NoCall]
  /\ UNCHANGED registered

Next == Register \/ \E c \in Clients : Call(c) \/ Serve(c) \/ Fail(c) \/ Return(c)

Spec == Init /\ [][Next]_<<registered, calls>>
=============================================================================
