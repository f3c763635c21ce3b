----------------------------- MODULE Redirector ------------------------------
(***************************************************************************)
(* The south-bound redirector (sbplugin_redirect_core.c and the three      *)
(* files of sbapi_* functions): a table of plugins under one read-write    *)
(* lock.                                                                   *)
(*                                                                         *)
(* Every sbapi_* function runs the same steps.  One that names a unit asks *)
(* for the unit's silicon first and lets go of the lock in between.  The   *)
(* look-up of the plugin takes the read lock its caller already holds a    *)
(* second time, and a third time for a capability, and the plugin is       *)
(* called under it.  The lock has default attributes: a reader is let in   *)
(* while a writer waits.                                                   *)
(***************************************************************************)
EXTENDS SbOps, Naturals

CONSTANTS
  Ops,         \* the operations the clients call
  LockFaults,  \* can pthread_rwlock_rdlock and _wrlock fail?
  MaxPlugins,  \* BVIEW_MAX_SUPPORTED_SB_PLUGINS
  MaxAsics     \* BVIEW_MAX_ASICS_ON_A_PLATFORM

Slots == 1 .. MaxPlugins

ASSUME RedirectorAssumption ==
  /\ MaxPlugins \in Nat \ {0} /\ MaxAsics \in Nat
  /\ LockFaults \in BOOLEAN
  /\ Ops \subseteq AllOps
  /\ None \notin Plugins /\ None \notin Units /\ None \notin AsicTypes
  /\ OtherAsic \notin AsicTypes

\* A plugin's masks and asic list name silicon the agent knows, and the null
\* pointer is none of the values that it is told from.
ASSUME PluginAssumption ==
  /\ \A p \in Plugins, f \in FeatureIds : Has(p, f) => Features[p][f].mask \subseteq AllAsics
  /\ \A p \in Plugins, u \in Units : Silicon[p][u] \in AsicTypes \cup {None}
  /\ None \notin AllOps /\ None \notin Status
  /\ \A asic \in SUBSET AllAsics : asic # None

\* One plugin serves all silicon per feature: the look-up would take a second
\* one for an exact match.
ASSUME OneForAll ==
  \A f \in FeatureIds : \A p, q \in Plugins : ForAll(p, f) /\ ForAll(q, f) => p = q

VARIABLES
  table,   \* sbRedirectPluginList: the plugin in a slot that is in use
  writer,  \* the registration that holds the lock
  depth,   \* how many times a client holds it for reading
  pc,      \* where each client is
  call,    \* its arguments and local variables
  rpc      \* where each plugin's registration is

vars == <<table, writer, depth, pc, call, rpc>>

\* fault is a history field: has the lock failed this call?
NoCall == [op |-> None, unit |-> None, fault |-> FALSE, rv |-> None,
           asic |-> None, handle |-> None]

\* sb_redirector_init
Init ==
  /\ table = [s \in Slots |-> None]
  /\ writer = None
  /\ depth = [c \in Clients |-> 0]
  /\ pc = [c \in Clients |-> "idle"]
  /\ call = [c \in Clients |-> NoCall]
  /\ rpc = [p \in Plugins |-> "start"]

-----------------------------------------------------------------------------
(* sb_redirect_feature_handle_get *)

SlotsFor(f) == {s \in Slots : table[s] # None /\ Has(table[s], f)}

First(slots) == CHOOSE s \in slots : \A t \in slots : s <= t

\* mutant: the first plugin that serves the silicon at all
FirstFit(asic, f) ==
  LET fits == {s \in SlotsFor(f) : asic \subseteq Features[table[s]][f].mask} IN
    IF fits = {} THEN None ELSE table[First(fits)]

\* the loop remembers the first plugin for all silicon, and stops at a plugin
\* whose mask has the silicon's bits
Lookup(asic, f) ==
  LET all   == {s \in SlotsFor(f) : ForAll(table[s], f)}
      exact == {s \in SlotsFor(f) : asic \subseteq Features[table[s]][f].mask}
                 \ (IF all = {} THEN {} ELSE {First(all)})
  IN IF exact # {} THEN table[First(exact)]
     ELSE IF all # {} THEN table[First(all)]
     ELSE None

-----------------------------------------------------------------------------
(* A call of an sbapi_* function *)

Call(c) ==
  /\ pc[c] = "idle"
  /\ \E op \in Ops, u \in Units \cup {None} :
       /\ op.byUnit <=> u # None
       /\ call' = [call EXCEPT ![c] =
            [NoCall EXCEPT !.op = op, !.unit = u,
                           !.asic = IF op.byUnit THEN None ELSE AllAsics]]
  /\ pc' = [pc EXCEPT ![c] = "lock"]
  /\ UNCHANGED <<table, writer, depth, rpc>>

\* is the call still to learn its unit's silicon?
Typing(c) == call[c].asic = None

\* sb_redirect_asic_capabilities_get takes the lock once more
Levels(c) == IF ~Typing(c) /\ call[c].op.kind = "capability" THEN 2 ELSE 1

\* mutant: a waiting writer keeps readers out, as with the attribute
\* PTHREAD_RWLOCK_PREFER_WRITER_NONRECURSIVE_NP
CanReadAfterWriters(c) == writer = None /\ \A p \in Plugins : rpc[p] # "lock"

\* glibc's default lock: readers first
CanRead(c) == writer = None

\* SB_REDIRECT_RWLOCK_RD_LOCK
Lock(c) ==
  /\ pc[c] = "lock"
  /\ CanRead(c)
  /\ depth' = [depth EXCEPT ![c] = @ + 1]
  /\ pc' = [pc EXCEPT ![c] = IF depth[c] + 1 = Levels(c) THEN "get" ELSE "lock"]
  /\ UNCHANGED <<table, writer, call, rpc>>

\* the macro returns from the function that it is in, and a caller that holds
\* the lock releases it
LockFails(c) ==
  /\ LockFaults
  /\ pc[c] \in {"lock", "get"}
  /\ call' = [call EXCEPT ![c].fault = TRUE, ![c].rv = "FAILURE"]
  /\ pc' = [pc EXCEPT ![c] = IF depth[c] = 0 THEN "return" ELSE "unlock"]
  /\ UNCHANGED <<table, writer, depth, rpc>>

\* sbapi_system_unit_to_asic_type_get: the look-up, nested in the lock, and
\* the search of the asic list
GetType(c) ==
  /\ pc[c] = "get" /\ Typing(c)
  /\ CanRead(c)
  /\ LET p == Lookup(AllAsics, "SYSTEM")
         u == call[c].unit
     IN call' = IF p # None /\ u \in UnitsOf(p)
                THEN [call EXCEPT ![c].asic = {Silicon[p][u]}]
                ELSE [call EXCEPT ![c].rv = "FAILURE"]
  /\ pc' = [pc EXCEPT ![c] = "unlock"]
  /\ UNCHANGED <<table, writer, depth, rpc>>

\* the look-up of the plugin that carries the operation out
GetHandle(c) ==
  /\ pc[c] = "get" /\ ~Typing(c)
  /\ CanRead(c)
  /\ LET p == Lookup(call[c].asic, call[c].op.feature) IN
       /\ call' = IF p = None THEN [call EXCEPT ![c].rv = "FAILURE"]
                  ELSE [call EXCEPT ![c].handle = p]
       /\ pc' = [pc EXCEPT ![c] = IF p = None THEN "unlock" ELSE "answer"]
  /\ UNCHANGED <<table, writer, depth, rpc>>

\* the plugin's callback, or what its tables say
Answer(c) ==
  /\ pc[c] = "answer"
  /\ \E rv \in Answers(call[c].op, call[c].asic, call[c].handle) :
       call' = [call EXCEPT ![c].rv = rv]
  /\ pc' = [pc EXCEPT ![c] = "unlock"]
  /\ UNCHANGED <<table, writer, depth, rpc>>

\* mutant: the lock of a capability's function is not released
UnlockOnce(c) ==
  /\ pc[c] = "unlock"
  /\ depth' = [depth EXCEPT ![c] = @ - 1]
  /\ pc' = [pc EXCEPT ![c] = IF call[c].rv = None THEN "lock" ELSE "return"]
  /\ UNCHANGED <<table, writer, call, rpc>>

\* SB_REDIRECT_RWLOCK_UNLOCK, as often as the lock was taken; then the second
\* look-up or the return
Unlock(c) ==
  /\ pc[c] = "unlock"
  /\ depth' = [depth EXCEPT ![c] = @ - 1]
  /\ pc' = [pc EXCEPT ![c] = IF depth[c] > 1 THEN "unlock"
                             ELSE IF call[c].rv = None THEN "lock" ELSE "return"]
  /\ UNCHANGED <<table, writer, call, rpc>>

Return(c) ==
  /\ pc[c] = "return"
  /\ call' = [call EXCEPT ![c] = NoCall]
  /\ pc' = [pc EXCEPT ![c] = "idle"]
  /\ UNCHANGED <<table, writer, depth, rpc>>

-----------------------------------------------------------------------------
(* sb_plugin_register *)

\* sb_plugin_validate
Validate(p) ==
  /\ rpc[p] = "start"
  /\ rpc' = [rpc EXCEPT ![p] = IF Cardinality(UnitsOf(p)) > MaxAsics THEN "done" ELSE "lock"]
  /\ UNCHANGED <<table, writer, depth, pc, call>>

\* mutant: the registration does not wait for the readers
WriteLockIgnoresReaders(p) ==
  /\ rpc[p] = "lock"
  /\ writer = None
  /\ writer' = p
  /\ rpc' = [rpc EXCEPT ![p] = "place"]
  /\ UNCHANGED <<table, depth, pc, call>>

WriteLock(p) ==
  /\ rpc[p] = "lock"
  /\ writer = None
  /\ \A c \in Clients : depth[c] = 0
  /\ writer' = p
  /\ rpc' = [rpc EXCEPT ![p] = "place"]
  /\ UNCHANGED <<table, depth, pc, call>>

\* the plugin is not registered; sbplugin_common_init returns the failure
WriteLockFails(p) ==
  /\ LockFaults
  /\ rpc[p] = "lock"
  /\ rpc' = [rpc EXCEPT ![p] = "done"]
  /\ UNCHANGED <<table, writer, depth, pc, call>>

FreeSlots == {s \in Slots : table[s] = None}

\* the plugin goes to the first entry that is not in use; a full table is
\* answered with TABLE_FULL
Place(p) ==
  /\ rpc[p] = "place"
  /\ table' = IF FreeSlots = {} THEN table ELSE [table EXCEPT ![First(FreeSlots)] = p]
  /\ rpc' = [rpc EXCEPT ![p] = "unlock"]
  /\ UNCHANGED <<writer, depth, pc, call>>

WriteUnlock(p) ==
  /\ rpc[p] = "unlock"
  /\ writer' = None
  /\ rpc' = [rpc EXCEPT ![p] = "done"]
  /\ UNCHANGED <<table, depth, pc, call>>

-----------------------------------------------------------------------------
Client(c) ==
  \/ Lock(c)
  \/ GetType(c)
  \/ GetHandle(c)
  \/ Answer(c)
  \/ Unlock(c)
  \/ Return(c)

Registration(p) ==
  \/ Validate(p)
  \/ WriteLock(p)
  \/ Place(p)
  \/ WriteUnlock(p)

Next ==
  \/ \E c \in Clients : Call(c) \/ LockFails(c) \/ Client(c)
  \/ \E p \in Plugins : WriteLockFails(p) \/ Registration(p)

Spec == Init /\ [][Next]_vars

\* threads that can take a step take it, and a plugin returns from its
\* callbacks; nobody has to call
Fairness ==
  /\ \A c \in Clients : WF_vars(Client(c))
  /\ \A p \in Plugins : WF_vars(Registration(p))

FairSpec == Spec /\ Fairness

-----------------------------------------------------------------------------
(* Properties *)

CallRecord == [op : AllOps \cup {None}, unit : Units \cup {None}, fault : BOOLEAN,
          rv : Status \cup {None}, asic : (SUBSET AllAsics) \cup {None},
          handle : Plugins \cup {None}]

\* Every variable has its type.
TypeOK ==
  /\ table \in [Slots -> Plugins \cup {None}]
  /\ writer \in Plugins \cup {None}
  /\ depth \in [Clients -> 0 .. 2]
  /\ pc \in [Clients -> {"idle", "lock", "get", "answer", "unlock", "return"}]
  /\ call \in [Clients -> CallRecord]
  /\ rpc \in [Plugins -> {"start", "lock", "place", "unlock", "done"}]

\* The read lock is released as often as it was taken, on every path, a failed
\* nested lock included, and a plugin is called only while no registration
\* changes the table it was found in.
LockDiscipline ==
  \A c \in Clients :
    /\ pc[c] \in {"idle", "return"} => depth[c] = 0
    /\ pc[c] \in {"get", "answer", "unlock"} => depth[c] > 0
    /\ depth[c] > 0 => writer = None

\* An sbapi_* function that was called returns: the read locks it nests never
\* wait for a registration that waits for them.
CallsReturn == \A c \in Clients : pc[c] # "idle" ~> pc[c] = "idle"

Registered == {table[s] : s \in Slots} \ {None}

\* a call as its caller sees it
Seen(r) == [op |-> r.op, unit |-> r.unit, fault |-> r.fault, rv |-> r.rv]
SeenCalls == [c \in Clients |-> Seen(call[c])]

Api == INSTANCE SbApi WITH registered <- Registered, calls <- SeenCalls

\* The redirector implements the API: although a call looks the table up twice
\* and registrations come in between, its answer is one that the best plugins
\* of a single moment give, and a registered plugin stays.
ImplementsApi == Api!Spec
=============================================================================
