-------------------------- MODULE RedirectorProofs --------------------------
(***************************************************************************)
(* What holds of Redirector for every set of plugins, operations, units    *)
(* and clients and every size of the table.                                *)
(***************************************************************************)
EXTENDS Redirector, WellFoundedInduction, TLAPS

\* A client holds the lock as its program counter says.
DepthFits ==
  \A c \in Clients :
    /\ pc[c] \in {"idle", "return"} => depth[c] = 0
    /\ pc[c] = "lock" => depth[c] < Levels(c)
    /\ pc[c] \in {"get", "answer", "unlock"} => depth[c] > 0

\* A registration between its lock and its unlock is the writer, and then
\* there are no readers.
WriterFits ==
  /\ \A p \in Plugins : rpc[p] \in {"place", "unlock"} => writer = p
  /\ writer # None => \A c \in Clients : depth[c] = 0

\* A call keeps its arguments from its start to its return, and it has an answer
\* when it returns and none before the plugin is found.
CallFits ==
  \A c \in Clients :
    /\ pc[c] = "idle" => call[c] = NoCall
    /\ pc[c] # "idle" => /\ call[c].op \in Ops
                         /\ call[c].op.byUnit <=> call[c].unit # None
    /\ pc[c] \in {"lock", "get", "answer"} => call[c].rv = None
    /\ pc[c] = "return" => call[c].rv # None

LockInv == TypeOK /\ DepthFits /\ CallFits /\ WriterFits

-----------------------------------------------------------------------------
(* The operations: what the steps of a call tell them apart by *)

Kinds == {"callback", "table", "capability"}

OpFits(op) ==
  /\ op.feature \in FeatureIds
  /\ op.byUnit \in BOOLEAN
  /\ op.kind \in Kinds
  /\ op.absent \in Status

\* The functions of a feature that name a unit are operations.
LEMMA UnitOpsFit ==
  ASSUME NEW f \in FeatureIds, NEW names, NEW op \in UnitOps(f, names)
  PROVE  OpFits(op)
<1>1. PICK n \in names :
        op = [cb |-> n, feature |-> f, byUnit |-> TRUE, kind |-> "callback",
              absent |-> "UNSUPPORTED"]
  BY Zenon DEF UnitOps
<1> QED
  BY <1>1 DEF OpFits, Kinds, Status

\* So are the system functions without a unit,
LEMMA SystemOpsFit ==
  ASSUME NEW names, NEW op \in SystemOps(names)
  PROVE  OpFits(op)
<1>1. PICK n \in names :
        op = [cb |-> n, feature |-> "SYSTEM", byUnit |-> FALSE,
              kind |-> "callback", absent |-> "UNSUPPORTED"]
  BY Zenon DEF SystemOps
<1> QED
  BY <1>1 DEF OpFits, Kinds, Status, FeatureIds

\* those that the SYSTEM entry of a plugin answers by itself,
LEMMA TableOpsFit ==
  ASSUME NEW names, NEW op \in TableOps(names)
  PROVE  OpFits(op)
<1>1. PICK n \in names :
        op = [[cb |-> n, feature |-> "SYSTEM", byUnit |-> FALSE,
               kind |-> "callback", absent |-> "UNSUPPORTED"] EXCEPT !.kind = "table"]
  BY Zenon DEF TableOps, SystemOps
<1> QED
  BY <1>1 DEF OpFits, Kinds, Status, FeatureIds

\* those that copy a capability,
LEMMA CapabilityOpsFit ==
  ASSUME NEW names, NEW op \in CapabilityOps(names)
  PROVE  OpFits(op)
<1>1. PICK n \in names :
        op = [[cb |-> n, feature |-> "SYSTEM", byUnit |-> TRUE,
               kind |-> "callback", absent |-> "UNSUPPORTED"] EXCEPT !.kind = "capability"]
  BY Zenon DEF CapabilityOps, UnitOps
<1> QED
  BY <1>1 DEF OpFits, Kinds, Status, FeatureIds

\* and those that ask for the network operating system.
LEMMA NetworkOsOpsFit ==
  ASSUME NEW op \in NetworkOsOps
  PROVE  OpFits(op)
<1>1. PICK n \in {"network_os_get"} :
        op = [[cb |-> n, feature |-> "SYSTEM", byUnit |-> FALSE,
               kind |-> "callback", absent |-> "UNSUPPORTED"] EXCEPT !.absent = "FAILURE"]
  BY Zenon DEF NetworkOsOps, SystemOps
<1> QED
  BY <1>1 DEF OpFits, Kinds, Status, FeatureIds

\* Each sbapi_* function answers a missing callback with a status, and asks for
\* one of the features.
LEMMA AllOpsFit == \A op \in AllOps : OpFits(op)
<1> USE DEF FeatureIds
<1>1. \A op \in BstOps : OpFits(op)
  BY UnitOpsFit
  DEF BstOps, BstConfigOps, BstSnapshotOps, BstIngressPortOps, BstPoolOps,
      BstEgressOps, BstQueueOps, BstCpuOps, BstClearStatsOps,
      BstIngressPortThresholdOps, BstPoolThresholdOps, BstEgressThresholdOps,
      BstQueueThresholdOps, BstCpuThresholdOps, BstThresholdsOps, BstTriggerOps
<1>2. \A op \in PtOps \cup MaxBufOps : OpFits(op)
  BY UnitOpsFit
  DEF PtOps, PtConfigOps, PtReasonOps, PtCounterOps, PtTriggerOps, MaxBufOps
<1>3. \A op \in UNION {NameOps, AddressOps, NotationOps, PortNotationOps, TimeOps,
                       LagNotationOps} : OpFits(op)
  BY SystemOpsFit
  DEF NameOps, AddressOps, NotationOps, PortNotationOps, TimeOps, LagNotationOps
<1>4. \A op \in NumUnitsOps \cup FeatureMaskOps : OpFits(op)
  BY TableOpsFit DEF NumUnitsOps, FeatureMaskOps
<1>5. \A op \in UNION {CapabilitiesOps, UnicastOps, PoolCountOps, CpuCountOps,
                       RqeCountOps, PriorityGroupOps} : OpFits(op)
  BY CapabilityOpsFit
  DEF CapabilitiesOps, UnicastOps, PoolCountOps, CpuCountOps, RqeCountOps,
      PriorityGroupOps
<1> QED
  BY <1>1, <1>2, <1>3, <1>4, <1>5, NetworkOsOpsFit DEF AllOps

\* An answer is a status.
LEMMA AnswersFit ==
  ASSUME NEW op \in AllOps, NEW asic, NEW p
  PROVE  Answers(op, asic, p) \subseteq Status
<1>1. op.kind \in Kinds /\ op.absent \in Status
  BY AllOpsFit DEF OpFits
<1>2. CASE op.kind = "table"
  BY <1>2 DEF Answers, Status
<1>3. CASE op.kind = "capability"
  BY <1>3 DEF Answers, Status
<1>4. CASE op.kind = "callback"
  BY <1>1, <1>4 DEF Answers, Status
<1> QED
  BY <1>1, <1>2, <1>3, <1>4 DEF Kinds

-----------------------------------------------------------------------------
(* The look-up *)

Before == {ss \in Nat \X Nat : ss[1] < ss[2]}

\* The loop over the table stops at the lowest slot that it looks for.
LEMMA FirstIn ==
  ASSUME NEW S \in SUBSET Slots, S # {}
  PROVE  First(S) \in S
<1>1. IsWellFoundedOn(Before, Nat)
  BY NatLessThanWellFounded, Zenon DEF OpToRel, Before
<1>2. S \subseteq Nat
  BY RedirectorAssumption DEF Slots
<1>3. PICK s \in S : \A t \in S : <<t, s>> \notin Before
  BY <1>1, <1>2, WFMin
<1>4. ASSUME NEW t \in S PROVE s <= t
  <2>1. <<t, s>> \in Before <=> t < s
    BY <1>2 DEF Before
  <2> QED
    BY <1>2, <1>3, <2>1
<1> QED
  BY <1>4 DEF First

\* What the look-up returns is registered, or nothing.
LEMMA LookupType ==
  ASSUME TypeOK, NEW asic, NEW f
  PROVE  Lookup(asic, f) \in Plugins \cup {None}
<1> DEFINE all   == {s \in SlotsFor(f) : ForAll(table[s], f)}
           fits  == {s \in SlotsFor(f) : asic \subseteq Features[table[s]][f].mask}
           exact == fits \ (IF all = {} THEN {} ELSE {First(all)})
<1>1. all \in SUBSET Slots /\ exact \in SUBSET Slots
  BY DEF SlotsFor
<1>2. Lookup(asic, f) = IF exact # {} THEN table[First(exact)]
                        ELSE IF all # {} THEN table[First(all)] ELSE None
  BY Zenon DEF Lookup
<1> HIDE DEF all, exact
<1> QED
  BY <1>1, <1>2, FirstIn DEF TypeOK

-----------------------------------------------------------------------------
(* The lock *)

\* A call holds the lock once or twice.
LEMMA LevelsFit == \A c \in Clients : Levels(c) \in 1 .. 2
  BY DEF Levels

\* LockInv holds at the start.
LEMMA LockInit == Init => LockInv
<1> USE RedirectorAssumption
<1>1. NoCall \in CallRecord
  BY DEF NoCall, CallRecord
<1> QED
  BY <1>1 DEF Init, LockInv, TypeOK, DepthFits, CallFits, WriterFits

\* A call's answer, the silicon it learns and the plugin it finds have their
\* types.
LEMMA CallFields ==
  ASSUME NEW r \in CallRecord
  PROVE  /\ \A rv \in Status : [r EXCEPT !.rv = rv] \in CallRecord
         /\ \A p \in Plugins : [r EXCEPT !.handle = p] \in CallRecord
         /\ \A asic \in SUBSET AllAsics : [r EXCEPT !.asic = asic] \in CallRecord
         /\ [r EXCEPT !.fault = TRUE, !.rv = "FAILURE"] \in CallRecord
<1>1. ASSUME NEW rv \in Status
      PROVE  [r EXCEPT !.rv = rv] \in CallRecord
  BY <1>1 DEF CallRecord
<1>2. ASSUME NEW p \in Plugins
      PROVE  [r EXCEPT !.handle = p] \in CallRecord
  BY <1>2 DEF CallRecord
<1>3. ASSUME NEW asic \in SUBSET AllAsics
      PROVE  [r EXCEPT !.asic = asic] \in CallRecord
  BY <1>3 DEF CallRecord
<1>4. [r EXCEPT !.fault = TRUE, !.rv = "FAILURE"] \in CallRecord
  BY DEF CallRecord, Status
<1> QED
  BY <1>1, <1>2, <1>3, <1>4

\* One client's step changes that client's call alone.
LEMMA CallsFit ==
  ASSUME call \in [Clients -> CallRecord], NEW c \in Clients, NEW r \in CallRecord,
         call' = [call EXCEPT ![c] = r]
  PROVE  call' \in [Clients -> CallRecord]
  OBVIOUS

\* Every step keeps the types.
LEMMA TypeStep == LockInv /\ [Next]_vars => TypeOK'
<1> SUFFICES ASSUME LockInv, [Next]_vars
             PROVE  TypeOK'
    OBVIOUS
<1> USE RedirectorAssumption DEF LockInv
<1>1. ASSUME NEW c \in Clients, Call(c)
      PROVE  TypeOK'
  <2>1. PICK op \in Ops, u \in Units \cup {None} :
          call' = [call EXCEPT ![c] =
            [NoCall EXCEPT !.op = op, !.unit = u,
                           !.asic = IF op.byUnit THEN None ELSE AllAsics]]
    BY <1>1 DEF Call
  <2>2. [NoCall EXCEPT !.op = op, !.unit = u,
                       !.asic = IF op.byUnit THEN None ELSE AllAsics] \in CallRecord
    BY DEF NoCall, CallRecord
  <2>3. call' \in [Clients -> CallRecord]
    BY <2>1, <2>2, CallsFit DEF TypeOK
  <2> QED
    BY <1>1, <2>3 DEF Call, TypeOK
<1>2. ASSUME NEW c \in Clients, Lock(c)
      PROVE  TypeOK'
  <2>1. depth[c] + 1 \in 0 .. 2
    BY <1>2, LevelsFit DEF Lock, DepthFits, TypeOK
  <2> QED
    BY <1>2, <2>1 DEF Lock, TypeOK
<1>3. ASSUME NEW c \in Clients, LockFails(c)
      PROVE  TypeOK'
  <2>1. [call[c] EXCEPT !.fault = TRUE, !.rv = "FAILURE"] \in CallRecord
    BY CallFields DEF TypeOK
  <2>2. call' = [call EXCEPT ![c] = [call[c] EXCEPT !.fault = TRUE, !.rv = "FAILURE"]]
    BY <1>3 DEF LockFails, TypeOK
  <2>3. call' \in [Clients -> CallRecord]
    BY <2>1, <2>2, CallsFit DEF TypeOK
  <2> QED
    BY <1>3, <2>3 DEF LockFails, TypeOK
<1>4. ASSUME NEW c \in Clients, GetType(c)
      PROVE  TypeOK'
  <2> DEFINE p == Lookup(AllAsics, "SYSTEM")
             u == call[c].unit
  <2>0. [call[c] EXCEPT !.rv = "FAILURE"] \in CallRecord
    BY CallFields DEF TypeOK, Status
  <2>1. \/ /\ p # None /\ u \in UnitsOf(p)
           /\ call' = [call EXCEPT ![c].asic = {Silicon[p][u]}]
        \/ call' = [call EXCEPT ![c].rv = "FAILURE"]
    BY <1>4 DEF GetType
  <2>2. p \in Plugins \cup {None}
    BY LookupType
  <2> HIDE DEF p
  <2>3. CASE p # None /\ u \in UnitsOf(p) /\ call' = [call EXCEPT ![c].asic = {Silicon[p][u]}]
    <3>1. {Silicon[p][u]} \in SUBSET AllAsics
      BY <2>2, <2>3, PluginAssumption DEF UnitsOf, AllAsics
    <3>2. [call[c] EXCEPT !.asic = {Silicon[p][u]}] \in CallRecord
      BY <3>1, CallFields DEF TypeOK
    <3>3. call' = [call EXCEPT ![c] = [call[c] EXCEPT !.asic = {Silicon[p][u]}]]
      BY <2>3
    <3>4. call' \in [Clients -> CallRecord]
      BY <3>2, <3>3, CallsFit DEF TypeOK
    <3> QED
      BY <1>4, <3>4 DEF GetType, TypeOK
  <2>4. CASE call' = [call EXCEPT ![c].rv = "FAILURE"]
    <3>1. call' \in [Clients -> CallRecord]
      BY <2>4, <2>0, CallsFit DEF TypeOK
    <3> QED
      BY <1>4, <3>1 DEF GetType, TypeOK
  <2> QED
    BY <2>1, <2>3, <2>4
<1>5. ASSUME NEW c \in Clients, GetHandle(c)
      PROVE  TypeOK'
  <2> DEFINE p == Lookup(call[c].asic, call[c].op.feature)
  <2>1. \/ call' = [call EXCEPT ![c].rv = "FAILURE"]
        \/ p # None /\ call' = [call EXCEPT ![c].handle = p]
    BY <1>5 DEF GetHandle
  <2>2. p \in Plugins \cup {None}
    BY LookupType
  <2>3. pc' \in [Clients -> {"idle", "lock", "get", "answer", "unlock", "return"}]
    BY <1>5 DEF GetHandle, TypeOK
  <2> HIDE DEF p
  <2>4. call' \in [Clients -> CallRecord]
    <3>1. CASE call' = [call EXCEPT ![c].rv = "FAILURE"]
      <4>1. [call[c] EXCEPT !.rv = "FAILURE"] \in CallRecord
        BY CallFields DEF TypeOK, Status
      <4> QED
        BY <3>1, <4>1, CallsFit DEF TypeOK
    <3>2. CASE p # None /\ call' = [call EXCEPT ![c].handle = p]
      <4>1. [call[c] EXCEPT !.handle = p] \in CallRecord
        BY <2>2, <3>2, CallFields DEF TypeOK
      <4>2. call' = [call EXCEPT ![c] = [call[c] EXCEPT !.handle = p]]
        BY <3>2
      <4> QED
        BY <4>1, <4>2, CallsFit DEF TypeOK
    <3> QED
      BY <2>1, <3>1, <3>2
  <2> QED
    BY <1>5, <2>3, <2>4 DEF GetHandle, TypeOK
<1>6. ASSUME NEW c \in Clients, Answer(c)
      PROVE  TypeOK'
  <2>0. call[c].op \in AllOps
    BY <1>6 DEF Answer, CallFits
  <2>1. PICK rv \in Status : call' = [call EXCEPT ![c].rv = rv]
    BY <1>6, <2>0, AnswersFit DEF Answer
  <2>2. [call[c] EXCEPT !.rv = rv] \in CallRecord
    BY CallFields DEF TypeOK
  <2>3. call' \in [Clients -> CallRecord]
    BY <2>1, <2>2, CallsFit DEF TypeOK
  <2> QED
    BY <1>6, <2>3 DEF Answer, TypeOK
<1>7. ASSUME NEW c \in Clients, Unlock(c)
      PROVE  TypeOK'
  <2>1. depth[c] - 1 \in 0 .. 2
    BY <1>7 DEF Unlock, DepthFits, TypeOK
  <2> QED
    BY <1>7, <2>1 DEF Unlock, TypeOK
<1>8. ASSUME NEW c \in Clients, Return(c)
      PROVE  TypeOK'
  <2>1. NoCall \in CallRecord
    BY DEF NoCall, CallRecord
  <2> QED
    BY <1>8, <2>1 DEF Return, TypeOK
<1>9. ASSUME NEW p \in Plugins, WriteLockFails(p) \/ Registration(p)
      PROVE  TypeOK'
  <2>1. FreeSlots # {} => First(FreeSlots) \in Slots
    BY FirstIn DEF FreeSlots
  <2>2. CASE Place(p)
    <3>1. table' \in [Slots -> Plugins \cup {None}]
      BY <2>1, <2>2 DEF Place, TypeOK
    <3> QED
      BY <2>2, <3>1 DEF Place, TypeOK
  <2>3. CASE Validate(p)
    BY <2>3 DEF Validate, TypeOK
  <2>4. CASE WriteLock(p)
    BY <2>4 DEF WriteLock, TypeOK
  <2>5. CASE WriteUnlock(p)
    BY <2>5 DEF WriteUnlock, TypeOK
  <2>6. CASE WriteLockFails(p)
    BY <2>6 DEF WriteLockFails, TypeOK
  <2> QED
    BY <1>9, <2>2, <2>3, <2>4, <2>5, <2>6 DEF Registration
<1>10. CASE UNCHANGED vars
  BY <1>10 DEF vars, TypeOK
<1> QED
  BY <1>1, <1>2, <1>3, <1>4, <1>5, <1>6, <1>7, <1>8, <1>9, <1>10
  DEF Next, Client

\* Read locks balance on every path of a call, and readers and a writer exclude
\* each other.
LEMMA LockStep == LockInv /\ [Next]_vars => DepthFits' /\ WriterFits'
<1> SUFFICES ASSUME LockInv, [Next]_vars
             PROVE  DepthFits' /\ WriterFits'
    OBVIOUS
<1> USE RedirectorAssumption DEF LockInv
<1>1. ASSUME NEW c \in Clients, Call(c)
      PROVE  DepthFits' /\ WriterFits'
  <2>1. \A d \in Clients : Levels(d)' \in 1 .. 2
    BY DEF Levels
  <2>2. DepthFits'
    <3>1. \A d \in Clients \ {c} : Levels(d)' = Levels(d)
      BY <1>1 DEF Call, Levels, Typing, TypeOK
    <3> QED
      BY <1>1, <2>1, <3>1 DEF Call, DepthFits, TypeOK
  <2> QED
    BY <1>1, <2>2 DEF Call, WriterFits, TypeOK
<1>2. ASSUME NEW c \in Clients, Lock(c)
      PROVE  DepthFits' /\ WriterFits'
  <2>1. \A d \in Clients : Levels(d)' = Levels(d)
    BY <1>2 DEF Lock, Levels, Typing
  <2>2. DepthFits'
    BY <1>2, <2>1, LevelsFit DEF Lock, DepthFits, TypeOK
  <2> QED
    BY <1>2, <2>2 DEF Lock, CanRead, WriterFits, TypeOK
<1>3. ASSUME NEW c \in Clients, LockFails(c)
      PROVE  DepthFits' /\ WriterFits'
  <2>1. \A d \in Clients \ {c} : Levels(d)' = Levels(d)
    BY <1>3 DEF LockFails, Levels, Typing, TypeOK
  <2>2. DepthFits'
    BY <1>3, <2>1 DEF LockFails, DepthFits, TypeOK
  <2> QED
    BY <1>3, <2>2 DEF LockFails, WriterFits
<1>4. ASSUME NEW c \in Clients, GetType(c) \/ GetHandle(c) \/ Answer(c)
      PROVE  DepthFits' /\ WriterFits'
  <2>1. /\ pc' \in [Clients -> {"idle", "lock", "get", "answer", "unlock", "return"}]
        /\ pc'[c] \in {"answer", "unlock"} /\ pc[c] \in {"get", "answer"}
        /\ \A d \in Clients \ {c} : pc'[d] = pc[d] /\ call'[d] = call[d]
        /\ UNCHANGED <<table, writer, depth, rpc>>
    BY <1>4 DEF GetType, GetHandle, Answer, TypeOK
  <2>2. \A d \in Clients \ {c} : Levels(d)' = Levels(d)
    BY <2>1 DEF Levels, Typing
  <2>3. DepthFits'
    BY <2>1, <2>2 DEF DepthFits
  <2> QED
    BY <2>1, <2>3 DEF WriterFits
<1>5. ASSUME NEW c \in Clients, Unlock(c)
      PROVE  DepthFits' /\ WriterFits'
  <2>1. \A d \in Clients : Levels(d)' = Levels(d)
    BY <1>5 DEF Unlock, Levels, Typing
  <2>2. DepthFits'
    BY <1>5, <2>1, LevelsFit DEF Unlock, DepthFits, TypeOK
  <2> QED
    BY <1>5, <2>2 DEF Unlock, DepthFits, WriterFits, TypeOK
<1>6. ASSUME NEW c \in Clients, Return(c)
      PROVE  DepthFits' /\ WriterFits'
  <2>1. \A d \in Clients \ {c} : Levels(d)' = Levels(d)
    BY <1>6 DEF Return, Levels, Typing, TypeOK
  <2>2. DepthFits'
    BY <1>6, <2>1 DEF Return, DepthFits, TypeOK
  <2> QED
    BY <1>6, <2>2 DEF Return, WriterFits
<1>7. ASSUME NEW p \in Plugins, WriteLockFails(p) \/ Registration(p)
      PROVE  DepthFits' /\ WriterFits'
  <2>1. UNCHANGED <<depth, pc, call>>
    BY <1>7
    DEF WriteLockFails, Registration, Validate, WriteLock, Place, WriteUnlock
  <2>2. DepthFits'
    BY <2>1 DEF DepthFits, Levels, Typing
  <2>3. WriterFits'
    BY <1>7
    DEF WriteLockFails, Registration, Validate, WriteLock, Place, WriteUnlock,
        WriterFits, TypeOK
  <2> QED
    BY <2>2, <2>3
<1>8. CASE UNCHANGED vars
  BY <1>8 DEF vars, DepthFits, Levels, Typing, WriterFits
<1> QED
  BY <1>1, <1>2, <1>3, <1>4, <1>5, <1>6, <1>7, <1>8 DEF Next, Client

\* Every step keeps what a call has gathered so far.
LEMMA CallStep == LockInv /\ [Next]_vars => CallFits'
<1> SUFFICES ASSUME LockInv, [Next]_vars
             PROVE  CallFits'
    OBVIOUS
<1> USE RedirectorAssumption, PluginAssumption DEF LockInv
<1>1. ASSUME NEW c \in Clients, Call(c)
      PROVE  CallFits'
  <2>1. PICK op \in Ops, u \in Units \cup {None} :
          /\ op.byUnit <=> u # None
          /\ call' = [call EXCEPT ![c] =
               [NoCall EXCEPT !.op = op, !.unit = u,
                              !.asic = IF op.byUnit THEN None ELSE AllAsics]]
    BY <1>1 DEF Call
  <2>2. call'[c].op = op /\ call'[c].unit = u /\ call'[c].rv = None
    BY <2>1 DEF TypeOK, NoCall
  <2> QED
    BY <1>1, <2>1, <2>2 DEF Call, CallFits, TypeOK
<1>2. ASSUME NEW c \in Clients, Lock(c) \/ Unlock(c)
      PROVE  CallFits'
  BY <1>2 DEF Lock, Unlock, CallFits, TypeOK
<1>3. ASSUME NEW c \in Clients, LockFails(c)
      PROVE  CallFits'
  <2>1. call' = [call EXCEPT ![c] = [call[c] EXCEPT !.fault = TRUE, !.rv = "FAILURE"]]
    BY <1>3 DEF LockFails, TypeOK
  <2>2. /\ call'[c].op = call[c].op /\ call'[c].unit = call[c].unit
        /\ call'[c].rv = "FAILURE"
    BY <2>1 DEF TypeOK, CallRecord
  <2> QED
    BY <1>3, <2>1, <2>2 DEF LockFails, CallFits, TypeOK, Status
<1>4. ASSUME NEW c \in Clients, GetType(c) \/ GetHandle(c) \/ Answer(c)
      PROVE  CallFits'
  <2>1. /\ \A d \in Clients \ {c} : pc'[d] = pc[d] /\ call'[d] = call[d]
        /\ pc[c] # "idle" /\ pc'[c] \in {"unlock", "answer"}
        /\ call'[c].op = call[c].op /\ call'[c].unit = call[c].unit
    BY <1>4 DEF GetType, GetHandle, Answer, TypeOK, CallRecord
  <2>2. pc'[c] = "answer" => call'[c].rv = call[c].rv /\ pc[c] = "get"
    BY <1>4 DEF GetType, GetHandle, Answer, TypeOK, CallRecord
  <2> QED
    BY <2>1, <2>2 DEF CallFits
<1>5. ASSUME NEW c \in Clients, Return(c)
      PROVE  CallFits'
  BY <1>5 DEF Return, CallFits, TypeOK
<1>6. ASSUME NEW p \in Plugins, WriteLockFails(p) \/ Registration(p)
      PROVE  CallFits'
  BY <1>6
  DEF WriteLockFails, Registration, Validate, WriteLock, Place, WriteUnlock, CallFits
<1>7. CASE UNCHANGED vars
  BY <1>7 DEF vars, CallFits
<1> QED
  BY <1>1, <1>2, <1>3, <1>4, <1>5, <1>6, <1>7 DEF Next, Client

\* LockInv holds of every reachable state of every instance.
THEOREM LockInvariant == Spec => []LockInv
<1>1. LockInv /\ [Next]_vars => LockInv'
  BY TypeStep, LockStep, CallStep DEF LockInv
<1> QED
  BY LockInit, <1>1, PTL DEF Spec

\* Every variable keeps its type, for every number of clients, units and
\* plugins: a call nests at most two read locks, its answer is a status and its
\* handle is a plugin.
THEOREM TypeCorrect == Spec => []TypeOK
<1>1. LockInv => TypeOK
  BY DEF LockInv
<1> QED
  BY LockInvariant, <1>1, PTL

\* The read lock is released as often as it was taken, on every path of every
\* sbapi_* function, and no registration changes the table under a reader.
THEOREM LockDisciplined == Spec => []LockDiscipline
<1>1. LockInv => LockDiscipline
  BY RedirectorAssumption
  DEF LockInv, TypeOK, DepthFits, WriterFits, LockDiscipline
<1> QED
  BY LockInvariant, <1>1, PTL

-----------------------------------------------------------------------------
(* The refinement of the API *)

\* A plugin is in at most one slot, and not before its registration has placed
\* it.
TableFits ==
  /\ \A s, t \in Slots : table[s] = table[t] /\ table[s] # None => s = t
  /\ \A s \in Slots : table[s] # None => rpc[table[s]] \in {"unlock", "done"}

\* The silicon a call looks for is the one the SYSTEM plugin names for its unit.
AsicFits ==
  \A c \in Clients :
    pc[c] # "idle" =>
      /\ ~call[c].op.byUnit => call[c].asic = AllAsics
      /\ call[c].op.byUnit /\ call[c].asic # None =>
           \E p \in Registered : /\ ForAll(p, "SYSTEM")
                                 /\ call[c].unit \in UnitsOf(p)
                                 /\ call[c].asic = {Silicon[p][call[c].unit]}

\* The plugin that is called is the best one while it is called.
HandleFits ==
  \A c \in Clients :
    pc[c] = "answer" => /\ call[c].asic # None
                        /\ call[c].handle \in Api!Best(call[c].asic, call[c].op.feature)

RefineInv == LockInv /\ TableFits /\ AsicFits /\ HandleFits

\* What the two modules have in common means the same in both.
LEMMA SameOps ==
  /\ \A p, f : Api!Has(p, f) <=> Has(p, f)
  /\ \A p, f : Api!ForAll(p, f) <=> ForAll(p, f)
  /\ \A p, asic, f : Api!ForAsic(p, asic, f) <=> ForAsic(p, asic, f)
  /\ \A p : Api!UnitsOf(p) = UnitsOf(p)
  /\ Api!AllAsics = AllAsics
  /\ \A op, asic, p : Api!Answers(op, asic, p) = Answers(op, asic, p)
  BY Zenon
  DEF Api!Has, Api!ForAll, Api!ForAsic, Api!UnitsOf, Api!AllAsics, Api!Answers,
      Has, ForAll, ForAsic, UnitsOf, AllAsics, Answers

\* The loop over the table returns one of the plugins the API promises: the
\* slot of the first plugin for all silicon is the only one of its kind.
LEMMA LookupBest ==
  ASSUME TypeOK, TableFits, NEW f \in FeatureIds, NEW asic \in SUBSET AllAsics
  PROVE  /\ Lookup(asic, f) # None => Lookup(asic, f) \in Api!Best(asic, f)
         /\ Lookup(asic, f) = None => Api!Best(asic, f) = {}
<1> DEFINE all   == {s \in SlotsFor(f) : ForAll(table[s], f)}
           fits  == {s \in SlotsFor(f) : asic \subseteq Features[table[s]][f].mask}
           exact == fits \ (IF all = {} THEN {} ELSE {First(all)})
           Exact == {p \in Registered : ForAsic(p, asic, f)}
           All   == {p \in Registered : ForAll(p, f)}
<1> USE RedirectorAssumption
<1>1. all \in SUBSET Slots /\ exact \in SUBSET Slots
  BY DEF SlotsFor
<1>2. Lookup(asic, f) = IF exact # {} THEN table[First(exact)]
                        ELSE IF all # {} THEN table[First(all)] ELSE None
  BY Zenon DEF Lookup
<1>3. Api!Best(asic, f) = IF Exact # {} THEN Exact ELSE All
  BY SameOps, Zenon DEF Api!Best
<1>4. \A s \in Slots : table[s] # None => table[s] \in Plugins /\ table[s] \in Registered
  BY DEF TypeOK, Registered
<1>5. \A p \in Registered : \E s \in Slots : table[s] = p /\ table[s] # None
  BY DEF Registered
<1>6. \A s, t \in all : s = t
  BY <1>4, OneForAll DEF SlotsFor, TableFits
<1>7. all # {} => First(all) \in all
  BY <1>1, FirstIn
<1>8. \A s \in exact : table[s] \in Exact
  BY <1>4, <1>6, <1>7 DEF SlotsFor, ForAsic
<1>9. Exact # {} => exact # {}
  <2> SUFFICES ASSUME NEW p \in Exact PROVE exact # {}
    OBVIOUS
  <2>1. PICK s \in Slots : table[s] = p /\ table[s] # None
    BY <1>5
  <2>2. s \in fits /\ s \notin all
    BY <2>1 DEF SlotsFor, ForAsic
  <2> QED
    BY <2>2, <1>7
<1>10. \A s \in all : table[s] \in All
  BY <1>4 DEF SlotsFor
<1>11. All # {} => all # {}
  BY <1>5 DEF SlotsFor, ForAll
<1>12. exact # {} => First(exact) \in exact
  BY <1>1, FirstIn
<1>13. Exact = {} => exact = {}
  BY <1>8
<1>14. (exact # {} => table[First(exact)] # None) /\ (all # {} => table[First(all)] # None)
  BY <1>7, <1>12 DEF SlotsFor
<1> HIDE DEF all, fits, exact, Exact, All
<1> QED
  BY <1>2, <1>3, <1>7, <1>8, <1>9, <1>10, <1>11, <1>12, <1>13, <1>14

\* For all silicon at once only a plugin for all silicon will do.
LEMMA BestForAll ==
  ASSUME TypeOK, NEW f \in FeatureIds
  PROVE  Api!Best(AllAsics, f) = {p \in Registered : ForAll(p, f)}
<1>1. Registered \subseteq Plugins
  BY DEF TypeOK, Registered
<1>2. \A p \in Registered : ~ForAsic(p, AllAsics, f)
  BY <1>1, PluginAssumption DEF ForAsic, ForAll
<1>3. Api!Best(AllAsics, f)
        = LET exact == {p \in Registered : ForAsic(p, AllAsics, f)}
          IN IF exact # {} THEN exact ELSE {p \in Registered : ForAll(p, f)}
  BY SameOps, Zenon DEF Api!Best
<1> QED
  BY <1>2, <1>3

\* While nobody registers, the best plugins are the same.
LEMMA BestSame ==
  ASSUME UNCHANGED table
  PROVE  /\ Registered' = Registered
         /\ \A asic, f : Api!Best(asic, f)' = Api!Best(asic, f)
  BY DEF Registered, Api!Best

\* RefineInv holds at the start.
LEMMA RefineInit == Init => RefineInv
<1> SUFFICES ASSUME Init PROVE RefineInv
    OBVIOUS
<1>1. LockInv
  BY LockInit
<1>2. TableFits
  BY DEF Init, TableFits
<1>3. AsicFits /\ HandleFits
  BY DEF Init, AsicFits, HandleFits
<1> QED
  BY <1>1, <1>2, <1>3 DEF RefineInv

\* Every step keeps the table as a registration leaves it.
LEMMA TableStep == LockInv /\ TableFits /\ [Next]_vars => TableFits'
<1> SUFFICES ASSUME LockInv, TableFits, [Next]_vars
             PROVE  TableFits'
    OBVIOUS
<1> USE RedirectorAssumption DEF LockInv
<1>1. ASSUME NEW c \in Clients, Call(c) \/ LockFails(c) \/ Client(c)
      PROVE  TableFits'
  <2>1. UNCHANGED <<table, rpc>>
    BY <1>1
    DEF Call, LockFails, Client, Lock, GetType, GetHandle, Answer, Unlock, Return
  <2> QED
    BY <2>1 DEF TableFits
<1>2. ASSUME NEW p \in Plugins, Place(p)
      PROVE  TableFits'
  <2>1. CASE FreeSlots = {}
    BY <1>2, <2>1 DEF Place, TableFits, TypeOK
  <2>2. CASE FreeSlots # {}
    <3> DEFINE n == First(FreeSlots)
    <3>1. n \in Slots /\ table[n] = None
      BY <2>2, FirstIn DEF FreeSlots
    <3>2. table' = [table EXCEPT ![n] = p]
      BY <1>2, <2>2 DEF Place
    <3> HIDE DEF n
    <3>3. \A s \in Slots : table[s] # p
      BY <1>2 DEF Place, TableFits
    <3>4. \A s \in Slots : table'[s] = IF s = n THEN p ELSE table[s]
      BY <3>1, <3>2 DEF TypeOK
    <3>5. \A s \in Slots : table[s] # None => table[s] \in Plugins
      BY DEF TypeOK
    <3>6. \A q \in Plugins : rpc'[q] = IF q = p THEN "unlock" ELSE rpc[q]
      BY <1>2 DEF Place, TypeOK
    <3> QED
      BY <3>1, <3>3, <3>4, <3>5, <3>6 DEF TableFits
  <2> QED
    BY <2>1, <2>2
<1>3. ASSUME NEW p \in Plugins,
             WriteLockFails(p) \/ Validate(p) \/ WriteLock(p) \/ WriteUnlock(p)
      PROVE  TableFits'
  <2>1. UNCHANGED table /\ rpc[p] \in {"start", "lock", "unlock"}
    BY <1>3 DEF WriteLockFails, Validate, WriteLock, WriteUnlock
  <2>2. \A q \in Plugins : rpc'[q] = rpc[q] \/ rpc'[q] = "done" \/ rpc[q] \in {"start", "lock"}
    BY <1>3 DEF WriteLockFails, Validate, WriteLock, WriteUnlock, TypeOK
  <2>3. \A s \in Slots : table[s] # None => table[s] \in Plugins
    BY DEF TypeOK
  <2> QED
    BY <2>1, <2>2, <2>3 DEF TableFits
<1>4. CASE UNCHANGED vars
  BY <1>4 DEF vars, TableFits
<1> QED
  BY <1>1, <1>2, <1>3, <1>4 DEF Next, Registration

\* A registration leaves the ones before it in the table.
LEMMA RegisteredGrows ==
  ASSUME LockInv, NEW p \in Plugins, Place(p)
  PROVE  Registered' = Registered \/ Registered' = Registered \cup {p}
<1> USE RedirectorAssumption DEF LockInv
<1>1. CASE FreeSlots = {}
  BY <1>1 DEF Place, Registered
<1>2. CASE FreeSlots # {}
  <2> DEFINE n == First(FreeSlots)
  <2>1. n \in Slots /\ table[n] = None
    BY <1>2, FirstIn DEF FreeSlots
  <2>2. table' = [table EXCEPT ![n] = p]
    BY <1>2 DEF Place
  <2> HIDE DEF n
  <2>3. \A s \in Slots : table'[s] = IF s = n THEN p ELSE table[s]
    BY <2>1, <2>2 DEF TypeOK
  <2>4. Registered' = {table'[s] : s \in Slots} \ {None}
    BY DEF Registered
  <2> QED
    BY <2>1, <2>3, <2>4 DEF Registered
<1> QED
  BY <1>1, <1>2

\* No plugin is ever taken out of the table.
LEMMA RegisteredStep ==
  LockInv /\ [Next]_vars => Registered \subseteq Registered'
<1> SUFFICES ASSUME LockInv, [Next]_vars
             PROVE  Registered \subseteq Registered'
    OBVIOUS
<1>1. ASSUME NEW p \in Plugins, Place(p)
      PROVE  Registered \subseteq Registered'
  BY <1>1, RegisteredGrows
<1>2. CASE UNCHANGED table
  BY <1>2, BestSame
<1> QED
  BY <1>1, <1>2
  DEF Next, Client, Registration, vars, Call, LockFails, Lock, GetType, GetHandle,
      Answer, Unlock, Return, Validate, WriteLock, WriteLockFails, WriteUnlock

\* The silicon that a call looked up is the unit's.
LEMMA AsicStep == RefineInv /\ [Next]_vars => AsicFits'
<1> SUFFICES ASSUME RefineInv, [Next]_vars
             PROVE  AsicFits'
    OBVIOUS
<1> USE DEF RefineInv, LockInv
<1> DEFINE Same(d) == /\ call'[d].op = call[d].op /\ call'[d].unit = call[d].unit
                      /\ call'[d].asic = call[d].asic
           Fits(d) == /\ ~call'[d].op.byUnit => call'[d].asic = AllAsics
                      /\ call'[d].op.byUnit /\ call'[d].asic # None =>
                           \E p \in Registered' :
                              /\ ForAll(p, "SYSTEM")
                              /\ call'[d].unit \in UnitsOf(p)
                              /\ call'[d].asic = {Silicon[p][call'[d].unit]}
<1>1. ASSUME NEW d \in Clients, pc[d] # "idle", Same(d)
      PROVE  Fits(d)
  BY <1>1, RegisteredStep DEF AsicFits
<1>2. ASSUME NEW c \in Clients, Call(c)
      PROVE  /\ \A d \in Clients \ {c} : pc'[d] = pc[d] /\ Same(d)
             /\ Fits(c)
  <2>1. PICK op \in Ops, u \in Units \cup {None} :
          call' = [call EXCEPT ![c] =
            [NoCall EXCEPT !.op = op, !.unit = u,
                           !.asic = IF op.byUnit THEN None ELSE AllAsics]]
    BY <1>2 DEF Call
  <2>2. call'[c].op = op /\ call'[c].asic = IF op.byUnit THEN None ELSE AllAsics
    BY <2>1 DEF TypeOK, NoCall
  <2> QED
    BY <1>2, <2>1, <2>2 DEF Call, TypeOK
<1>3. ASSUME NEW c \in Clients, GetType(c)
      PROVE  /\ \A d \in Clients \ {c} : pc'[d] = pc[d] /\ Same(d)
             /\ pc[c] # "idle"
             /\ Same(c) \/ Fits(c)
  <2> DEFINE p == Lookup(AllAsics, "SYSTEM")
             u == call[c].unit
  <2>1. p # None => p \in Registered /\ ForAll(p, "SYSTEM")
    BY LookupBest, BestForAll DEF FeatureIds
  <2>2. \/ /\ p # None /\ u \in UnitsOf(p)
           /\ call' = [call EXCEPT ![c].asic = {Silicon[p][u]}]
        \/ call' = [call EXCEPT ![c].rv = "FAILURE"]
    BY <1>3 DEF GetType
  <2>3. call[c].op.byUnit
    BY <1>3, PluginAssumption DEF GetType, Typing, AsicFits
  <2> HIDE DEF p
  <2>4. \A d \in Clients \ {c} : pc'[d] = pc[d] /\ Same(d)
    BY <1>3, <2>2 DEF GetType, TypeOK
  <2>5. CASE p # None /\ u \in UnitsOf(p)
             /\ call' = [call EXCEPT ![c].asic = {Silicon[p][u]}]
    <3>1. /\ call'[c].op = call[c].op /\ call'[c].unit = call[c].unit
          /\ call'[c].asic = {Silicon[p][u]}
      BY <2>5 DEF TypeOK, CallRecord
    <3>2. Registered' = Registered
      BY <1>3, BestSame DEF GetType
    <3>3. Fits(c)
      BY <2>1, <2>3, <2>5, <3>1, <3>2
    <3> QED
      BY <1>3, <2>4, <3>3 DEF GetType
  <2>6. CASE call' = [call EXCEPT ![c].rv = "FAILURE"]
    <3>1. Same(c)
      BY <2>6 DEF TypeOK, CallRecord
    <3>2. pc[c] # "idle"
      BY <1>3 DEF GetType
    <3> QED
      BY <2>4, <3>1, <3>2
  <2> QED
    BY <2>2, <2>5, <2>6
<1>4. ASSUME NEW c \in Clients, LockFails(c) \/ Lock(c) \/ GetHandle(c) \/ Answer(c) \/ Unlock(c)
      PROVE  \A d \in Clients : (pc'[d] # "idle" => pc[d] # "idle") /\ Same(d)
  BY <1>4 DEF LockFails, Lock, GetHandle, Answer, Unlock, TypeOK, CallRecord
<1>5. ASSUME NEW c \in Clients, Return(c)
      PROVE  /\ \A d \in Clients \ {c} : pc'[d] = pc[d] /\ Same(d)
             /\ pc'[c] = "idle"
  BY <1>5 DEF Return, TypeOK
<1>6. ASSUME NEW p \in Plugins, WriteLockFails(p) \/ Registration(p)
      PROVE  UNCHANGED <<pc, call>>
  BY <1>6
  DEF WriteLockFails, Registration, Validate, WriteLock, Place, WriteUnlock
<1>7. \A d \in Clients : pc'[d] # "idle" => Fits(d)
  <2>1. CASE \E c \in Clients : Call(c)
    BY <1>1, <1>2, <2>1
  <2>2. CASE \E c \in Clients : GetType(c)
    BY <1>1, <1>3, <2>2
  <2>3. CASE \E c \in Clients : LockFails(c) \/ Lock(c) \/ GetHandle(c) \/ Answer(c) \/ Unlock(c)
    BY <1>1, <1>4, <2>3
  <2>4. CASE \E c \in Clients : Return(c)
    BY <1>1, <1>5, <2>4
  <2>5. CASE UNCHANGED <<pc, call>>
    BY <1>1, <2>5
  <2> QED
    BY <1>6, <2>1, <2>2, <2>3, <2>4, <2>5 DEF Next, Client, vars
<1> QED
  BY <1>7 DEF AsicFits

\* The plugin that is called is one of the best.
LEMMA HandleStep == RefineInv /\ [Next]_vars => HandleFits'
<1> SUFFICES ASSUME RefineInv, [Next]_vars
             PROVE  HandleFits'
    OBVIOUS
<1> USE DEF RefineInv, LockInv
<1> DEFINE Fits(d) == /\ call[d].asic # None
                      /\ call[d].handle \in Api!Best(call[d].asic, call[d].op.feature)
<1>1. ASSUME UNCHANGED table, NEW d \in Clients, pc[d] = "answer", call'[d] = call[d]
      PROVE  Fits(d)'
  BY <1>1, BestSame DEF HandleFits
<1>2. ASSUME NEW c \in Clients, GetHandle(c), pc'[c] = "answer"
      PROVE  Fits(c)'
  <2> DEFINE p == Lookup(call[c].asic, call[c].op.feature)
  <2>1. /\ call[c].asic # None /\ p # None
        /\ call' = [call EXCEPT ![c].handle = p]
    BY <1>2 DEF GetHandle, Typing, TypeOK
  <2>2. call[c].asic \in SUBSET AllAsics
    BY <2>1 DEF TypeOK, CallRecord
  <2>3. call[c].op.feature \in FeatureIds
    BY <1>2, RedirectorAssumption, AllOpsFit DEF GetHandle, CallFits, OpFits
  <2>4. p \in Api!Best(call[c].asic, call[c].op.feature)
    BY <2>1, <2>2, <2>3, LookupBest
  <2> HIDE DEF p
  <2>5. /\ call'[c].asic = call[c].asic /\ call'[c].op = call[c].op
        /\ call'[c].handle = p
    BY <2>1 DEF TypeOK, CallRecord
  <2> QED
    BY <1>2, <2>1, <2>4, <2>5, BestSame DEF GetHandle
<1>3. ASSUME NEW c \in Clients, Call(c) \/ LockFails(c) \/ Client(c),
             NEW d \in Clients, pc'[d] = "answer"
      PROVE  Fits(d)'
  <2>1. UNCHANGED table
    BY <1>3
    DEF Call, LockFails, Client, Lock, GetType, GetHandle, Answer, Unlock, Return
  <2>2. \/ pc[d] = "answer" /\ call'[d] = call[d]
        \/ c = d /\ GetHandle(c)
    BY <1>3
    DEF Call, LockFails, Client, Lock, GetType, GetHandle, Answer, Unlock, Return, TypeOK
  <2> QED
    BY <1>1, <1>2, <1>3, <2>1, <2>2
<1>4. ASSUME NEW p \in Plugins, Place(p)
      PROVE  \A d \in Clients : pc[d] # "answer"
  BY <1>4, RedirectorAssumption DEF Place, WriterFits, DepthFits, TypeOK
<1>5. \A d \in Clients : pc'[d] = "answer" => Fits(d)'
  <2>1. CASE \E p \in Plugins : Place(p)
    BY <1>4, <2>1 DEF Place
  <2>2. CASE UNCHANGED <<table, pc, call>>
    BY <1>1, <2>2
  <2> QED
    BY <1>3, <2>1, <2>2
    DEF Next, Registration, Validate, WriteLock, WriteLockFails, WriteUnlock, vars
<1> QED
  BY <1>5 DEF HandleFits

\* What a step of one call does to the calls as their callers see them.
LEMMA SeenStep ==
  ASSUME TypeOK, NEW c \in Clients, NEW r, call' = [call EXCEPT ![c] = r]
  PROVE  /\ SeenCalls' = [SeenCalls EXCEPT ![c] = Seen(r)]
         /\ SeenCalls[c] = Seen(call[c])
  BY DEF TypeOK, SeenCalls, Seen

SeenRecord == [op : AllOps \cup {None}, unit : Units \cup {None},
               fault : BOOLEAN, rv : Status \cup {None}]

\* Two views of a call with equal fields are one.
LEMMA SeenEqual ==
  ASSUME NEW x \in SeenRecord, NEW y \in SeenRecord,
         x.op = y.op, x.unit = y.unit, x.fault = y.fault, x.rv = y.rv
  PROVE  x = y
  BY DEF SeenRecord

\* The view of a call is one.
LEMMA SeenType == \A r \in CallRecord : Seen(r) \in SeenRecord
  BY DEF CallRecord, SeenRecord, Seen

\* What the caller of a call whose lock failed sees.
LEMMA SeenFailure ==
  ASSUME NEW s \in SeenRecord
  PROVE  LET x == [s EXCEPT !.fault = TRUE, !.rv = "FAILURE"]
         IN  /\ x \in SeenRecord
             /\ x.op = s.op /\ x.unit = s.unit /\ x.fault = TRUE /\ x.rv = "FAILURE"
<1> DEFINE x == [s EXCEPT !.fault = TRUE, !.rv = "FAILURE"]
<1>1. x \in SeenRecord
  BY DEF SeenRecord, Status
<1>2. x.op = s.op /\ x.unit = s.unit
  BY DEF SeenRecord
<1>3. x.fault = TRUE /\ x.rv = "FAILURE"
  BY DEF SeenRecord
<1> QED
  BY <1>1, <1>2, <1>3

\* An answer that a step gives is one that the API allows at that moment.
LEMMA ServeStep ==
  ASSUME RefineInv, NEW c \in Clients, NEW rv \in Status,
         pc[c] \in {"get", "answer"},
         call' = [call EXCEPT ![c].rv = rv], UNCHANGED table,
         rv \in Api!Outcomes(call[c].op, call[c].unit)
  PROVE  Api!Serve(c)
<1> USE DEF RefineInv, LockInv
<1>1. call' = [call EXCEPT ![c] = [call[c] EXCEPT !.rv = rv]]
  BY DEF TypeOK
<1>2. SeenCalls' = [SeenCalls EXCEPT ![c] = Seen([call[c] EXCEPT !.rv = rv])]
  BY <1>1, SeenStep
<1>3. SeenCalls[c] = Seen(call[c])
  BY <1>1, SeenStep
<1>4. Seen([call[c] EXCEPT !.rv = rv]) = [Seen(call[c]) EXCEPT !.rv = rv]
  BY DEF Seen, TypeOK, CallRecord
<1>5. SeenCalls' = [SeenCalls EXCEPT ![c].rv = rv]
  BY <1>2, <1>3, <1>4 DEF SeenCalls
<1>6. call[c].op # None /\ call[c].rv = None
  BY RedirectorAssumption, PluginAssumption DEF CallFits
<1>7. /\ SeenCalls[c].op = call[c].op /\ SeenCalls[c].unit = call[c].unit
      /\ SeenCalls[c].rv = call[c].rv
  BY <1>3 DEF Seen
<1>8. UNCHANGED Registered
  BY BestSame
<1> QED
  BY <1>5, <1>6, <1>7, <1>8 DEF Api!Serve, Api!Pending

\* The outcomes of an operation, unfolded once.
LEMMA AskUnfolded ==
  ASSUME NEW op, NEW asic
  PROVE  /\ Api!Best(asic, op.feature) = {} => Api!Ask(op, asic) = {"FAILURE"}
         /\ \A p \in Api!Best(asic, op.feature) :
              Answers(op, asic, p) \subseteq Api!Ask(op, asic)
  BY SameOps DEF Api!Ask

\* The outcomes of an operation on a unit, whose silicon is asked for first.
LEMMA AskUnitUnfolded ==
  ASSUME TypeOK, NEW op, NEW u
  PROVE  /\ \A p \in Registered :
              ForAll(p, "SYSTEM") /\ u \in UnitsOf(p)
                => Api!Ask(op, {Silicon[p][u]}) \subseteq Api!AskUnit(op, u)
         /\ (\A p \in Registered : ~ForAll(p, "SYSTEM"))
              => "FAILURE" \in Api!AskUnit(op, u)
         /\ \A p \in Registered :
              ForAll(p, "SYSTEM") /\ u \notin UnitsOf(p)
                => "FAILURE" \in Api!AskUnit(op, u)
<1> DEFINE systems == Api!Best(Api!AllAsics, "SYSTEM")
           known   == {p \in systems : u \in Api!UnitsOf(p)}
           answers == UNION {Api!Ask(op, {Silicon[p][u]}) : p \in known}
<1>1. systems = {p \in Registered : ForAll(p, "SYSTEM")}
  BY SameOps, BestForAll DEF FeatureIds
<1>2. Api!AskUnit(op, u)
        = answers \cup (IF known = systems /\ systems # {} THEN {} ELSE {"FAILURE"})
  BY Zenon DEF Api!AskUnit
<1>3. \A p \in known : Api!Ask(op, {Silicon[p][u]}) \subseteq Api!AskUnit(op, u)
  BY <1>2, Zenon
<1>4. ASSUME systems = {} \/ known # systems
      PROVE  "FAILURE" \in Api!AskUnit(op, u)
  <2> HIDE DEF systems, known, answers
  <2> QED
    BY <1>2, <1>4
<1> HIDE DEF systems
<1>5. \A p \in systems : u \in UnitsOf(p) <=> p \in known
  BY SameOps
<1> HIDE DEF known
<1>6. \A p \in systems : u \notin UnitsOf(p) => known # systems
  BY <1>5
<1> QED
  BY <1>1, <1>3, <1>4, <1>5, <1>6

\* Every step of the redirector is a step of the API or changes nothing that its
\* callers see.
LEMMA ApiStep ==
  RefineInv /\ [Next]_vars => [Api!Next]_<<Registered, SeenCalls>>
<1> SUFFICES ASSUME RefineInv, [Next]_vars
             PROVE  [Api!Next]_<<Registered, SeenCalls>>
    OBVIOUS
<1> USE DEF RefineInv, LockInv
<1>1. ASSUME NEW c \in Clients, Call(c)
      PROVE  Api!Call(c)
  <2>1. PICK op \in Ops, u \in Units \cup {None} :
          /\ op.byUnit <=> u # None
          /\ call' = [call EXCEPT ![c] =
               [NoCall EXCEPT !.op = op, !.unit = u,
                              !.asic = IF op.byUnit THEN None ELSE AllAsics]]
    BY <1>1 DEF Call
  <2> DEFINE r == [NoCall EXCEPT !.op = op, !.unit = u,
                                 !.asic = IF op.byUnit THEN None ELSE AllAsics]
  <2>2. SeenCalls' = [SeenCalls EXCEPT ![c] = Seen(r)] /\ SeenCalls[c] = Seen(call[c])
    BY <2>1, SeenStep
  <2>3. Seen(call[c]) = Api!NoCall
    <3>1. call[c] = NoCall
      BY <1>1 DEF Call, CallFits
    <3> QED
      BY <3>1 DEF Seen, NoCall, Api!NoCall
  <2>4. Seen(r) = [Api!NoCall EXCEPT !.op = op, !.unit = u]
    <3>1. r.op = op /\ r.unit = u /\ r.fault = FALSE /\ r.rv = None
      BY DEF NoCall
    <3> DEFINE x == [Api!NoCall EXCEPT !.op = op, !.unit = u]
    <3>2. x.op = op /\ x.unit = u /\ x.fault = FALSE /\ x.rv = None
      BY DEF Api!NoCall
    <3>3. x \in SeenRecord
      BY RedirectorAssumption DEF Api!NoCall, SeenRecord
    <3>4. Seen(r) \in SeenRecord
      BY <3>1, RedirectorAssumption DEF Seen, SeenRecord
    <3> HIDE DEF r, x
    <3>5. /\ Seen(r).op = op /\ Seen(r).unit = u
          /\ Seen(r).fault = FALSE /\ Seen(r).rv = None
      BY <3>1 DEF Seen
    <3>6. Seen(r) = x
      BY <3>2, <3>3, <3>4, <3>5, SeenEqual
    <3> QED
      BY <3>6 DEF x
  <2>5. SeenCalls' = [SeenCalls EXCEPT ![c].op = op, ![c].unit = u]
    BY <2>2, <2>3, <2>4 DEF SeenCalls
  <2>6. UNCHANGED Registered
    BY <1>1, BestSame DEF Call
  <2> QED
    BY <2>1, <2>2, <2>3, <2>5, <2>6 DEF Api!Call
<1>2. ASSUME NEW c \in Clients, Lock(c) \/ Unlock(c)
      PROVE  UNCHANGED <<Registered, SeenCalls>>
  BY <1>2, BestSame DEF Lock, Unlock, SeenCalls
<1>3. ASSUME NEW c \in Clients, LockFails(c)
      PROVE  Api!Fail(c)
  <2> DEFINE r == [call[c] EXCEPT !.fault = TRUE, !.rv = "FAILURE"]
  <2>1. call' = [call EXCEPT ![c] = r]
    BY <1>3 DEF LockFails, TypeOK
  <2>2. SeenCalls' = [SeenCalls EXCEPT ![c] = Seen(r)] /\ SeenCalls[c] = Seen(call[c])
    BY <2>1, SeenStep
  <2>3. Seen(r) = [Seen(call[c]) EXCEPT !.fault = TRUE, !.rv = "FAILURE"]
    <3>1. /\ r.op = call[c].op /\ r.unit = call[c].unit
          /\ r.fault = TRUE /\ r.rv = "FAILURE"
      BY DEF TypeOK, CallRecord
    <3> DEFINE x == [Seen(call[c]) EXCEPT !.fault = TRUE, !.rv = "FAILURE"]
    <3>2. Seen(call[c]) \in SeenRecord
      BY SeenType DEF TypeOK
    <3>3. x \in SeenRecord
      BY <3>2, SeenFailure
    <3>4. /\ x.op = call[c].op /\ x.unit = call[c].unit
          /\ x.fault = TRUE /\ x.rv = "FAILURE"
      <4>1. /\ x.op = Seen(call[c]).op /\ x.unit = Seen(call[c]).unit
            /\ x.fault = TRUE /\ x.rv = "FAILURE"
        BY <3>2, SeenFailure
      <4>2. Seen(call[c]).op = call[c].op /\ Seen(call[c]).unit = call[c].unit
        BY DEF Seen
      <4> QED
        BY <4>1, <4>2
    <3>5. r \in CallRecord
      BY CallFields DEF TypeOK
    <3> HIDE DEF r, x
    <3>6. Seen(r).op = r.op /\ Seen(r).unit = r.unit
          /\ Seen(r).fault = r.fault /\ Seen(r).rv = r.rv
      BY DEF Seen
    <3>7. Seen(r) = x
      BY <3>1, <3>3, <3>4, <3>5, <3>6, SeenType, SeenEqual
    <3> QED
      BY <3>7 DEF x
  <2>4. SeenCalls' = [SeenCalls EXCEPT ![c].fault = TRUE, ![c].rv = "FAILURE"]
    BY <2>2, <2>3 DEF SeenCalls
  <2>5. call[c].op # None /\ call[c].rv = None
    BY <1>3, RedirectorAssumption, PluginAssumption DEF LockFails, CallFits
  <2>6. Api!Pending(c)
    BY <2>2, <2>5 DEF Api!Pending, Seen
  <2>7. UNCHANGED Registered
    BY <1>3, BestSame DEF LockFails
  <2> QED
    BY <1>3, <2>4, <2>6, <2>7 DEF LockFails, Api!Fail
<1>4. ASSUME NEW c \in Clients, GetType(c)
      PROVE  Api!Serve(c) \/ UNCHANGED <<Registered, SeenCalls>>
  <2> DEFINE p == Lookup(AllAsics, "SYSTEM")
             u == call[c].unit
  <2>1. CASE p # None /\ u \in UnitsOf(p)
    <3>1. call' = [call EXCEPT ![c] = [call[c] EXCEPT !.asic = {Silicon[p][u]}]]
      BY <1>4, <2>1 DEF GetType, TypeOK
    <3> DEFINE r == [call[c] EXCEPT !.asic = {Silicon[p][u]}]
    <3>2. SeenCalls' = [SeenCalls EXCEPT ![c] = Seen(r)] /\ SeenCalls[c] = Seen(call[c])
      BY <3>1, SeenStep
    <3>3. Seen(r) = Seen(call[c])
      BY DEF Seen, TypeOK, CallRecord
    <3>4. SeenCalls' = SeenCalls
      BY <3>2, <3>3 DEF SeenCalls
    <3> QED
      BY <1>4, <3>4, BestSame DEF GetType
  <2>2. CASE ~(p # None /\ u \in UnitsOf(p))
    <3>1. call' = [call EXCEPT ![c].rv = "FAILURE"]
      BY <1>4, <2>2 DEF GetType
    <3>2. "FAILURE" \in Api!AskUnit(call[c].op, u)
      <4>1. p = None => \A q \in Registered : ~ForAll(q, "SYSTEM")
        BY LookupBest, BestForAll DEF FeatureIds
      <4>2. p # None => p \in Registered /\ ForAll(p, "SYSTEM")
        BY LookupBest, BestForAll DEF FeatureIds
      <4> HIDE DEF p
      <4> QED
        BY <2>2, <4>1, <4>2, AskUnitUnfolded
    <3>3. call[c].op.byUnit
      BY <1>4, PluginAssumption DEF GetType, Typing, AsicFits
    <3>4. "FAILURE" \in Api!Outcomes(call[c].op, u)
      BY <3>2, <3>3 DEF Api!Outcomes
    <3> QED
      BY <1>4, <3>1, <3>4, ServeStep DEF GetType, Status
  <2> QED
    BY <2>1, <2>2
<1>5. ASSUME NEW c \in Clients, call[c].asic # None, pc[c] # "idle"
      PROVE  Api!Ask(call[c].op, call[c].asic)
               \subseteq Api!Outcomes(call[c].op, call[c].unit)
  <2>1. CASE call[c].op.byUnit
    BY <1>5, <2>1, AskUnitUnfolded DEF AsicFits, Api!Outcomes
  <2>2. CASE ~call[c].op.byUnit
    BY <1>5, <2>2, SameOps DEF AsicFits, Api!Outcomes
  <2> QED
    BY <2>1, <2>2
<1>6. ASSUME NEW c \in Clients, GetHandle(c)
      PROVE  Api!Serve(c) \/ UNCHANGED <<Registered, SeenCalls>>
  <2> DEFINE p == Lookup(call[c].asic, call[c].op.feature)
  <2>1. call[c].asic # None /\ call[c].asic \in SUBSET AllAsics
    BY <1>6 DEF GetHandle, Typing, TypeOK, CallRecord
  <2>2. call[c].op.feature \in FeatureIds
    BY <1>6, RedirectorAssumption, AllOpsFit DEF GetHandle, CallFits, OpFits
  <2>3. CASE p = None
    <3>1. call' = [call EXCEPT ![c].rv = "FAILURE"]
      BY <1>6, <2>3 DEF GetHandle
    <3>2. Api!Best(call[c].asic, call[c].op.feature) = {}
      BY <2>1, <2>2, <2>3, LookupBest
    <3>3. "FAILURE" \in Api!Outcomes(call[c].op, call[c].unit)
      BY <1>5, <1>6, <2>1, <3>2, AskUnfolded DEF GetHandle
    <3> QED
      BY <1>6, <3>1, <3>3, ServeStep DEF GetHandle, Status
  <2>4. CASE p # None
    <3>1. call' = [call EXCEPT ![c] = [call[c] EXCEPT !.handle = p]]
      BY <1>6, <2>4 DEF GetHandle, TypeOK
    <3> DEFINE r == [call[c] EXCEPT !.handle = p]
    <3>2. SeenCalls' = [SeenCalls EXCEPT ![c] = Seen(r)] /\ SeenCalls[c] = Seen(call[c])
      BY <3>1, SeenStep
    <3>3. Seen(r) = Seen(call[c])
      BY DEF Seen, TypeOK, CallRecord
    <3>4. SeenCalls' = SeenCalls
      BY <3>2, <3>3 DEF SeenCalls
    <3> QED
      BY <1>6, <3>4, BestSame DEF GetHandle
  <2> QED
    BY <2>3, <2>4
<1>7. ASSUME NEW c \in Clients, Answer(c)
      PROVE  Api!Serve(c)
  <2>1. PICK rv \in Answers(call[c].op, call[c].asic, call[c].handle) :
          call' = [call EXCEPT ![c].rv = rv]
    BY <1>7 DEF Answer
  <2>2. rv \in Status
    BY <1>7, <2>1, RedirectorAssumption, AnswersFit DEF Answer, CallFits
  <2>3. rv \in Api!Outcomes(call[c].op, call[c].unit)
    BY <1>5, <1>7, <2>1, AskUnfolded DEF Answer, HandleFits
  <2> QED
    BY <1>7, <2>1, <2>2, <2>3, ServeStep DEF Answer
<1>8. ASSUME NEW c \in Clients, Return(c)
      PROVE  Api!Return(c)
  <2>1. SeenCalls' = [SeenCalls EXCEPT ![c] = Seen(NoCall)] /\ SeenCalls[c] = Seen(call[c])
    BY <1>8, SeenStep DEF Return
  <2>2. Seen(NoCall) = Api!NoCall
    BY DEF Seen, NoCall, Api!NoCall
  <2>3. SeenCalls[c].rv # None
    BY <1>8, <2>1 DEF Return, CallFits, Seen
  <2>4. UNCHANGED Registered
    BY <1>8, BestSame DEF Return
  <2> QED
    BY <2>1, <2>2, <2>3, <2>4 DEF Api!Return
<1>9. ASSUME NEW p \in Plugins, Place(p)
      PROVE  Api!Register \/ UNCHANGED <<Registered, SeenCalls>>
  <2>1. p \notin Registered
    BY <1>9 DEF Place, Registered, TableFits
  <2>2. UNCHANGED SeenCalls
    BY <1>9 DEF Place, SeenCalls
  <2> QED
    BY <1>9, <2>1, <2>2, RegisteredGrows DEF Api!Register
<1>10. ASSUME NEW p \in Plugins,
              WriteLockFails(p) \/ Validate(p) \/ WriteLock(p) \/ WriteUnlock(p)
       PROVE  UNCHANGED <<Registered, SeenCalls>>
  BY <1>10, BestSame DEF WriteLockFails, Validate, WriteLock, WriteUnlock, SeenCalls
<1>11. CASE UNCHANGED vars
  BY <1>11, BestSame DEF vars, SeenCalls
<1> QED
  BY <1>1, <1>2, <1>3, <1>4, <1>6, <1>7, <1>8, <1>9, <1>10, <1>11
  DEF Next, Client, Registration, Api!Next

\* Every sbapi_* call of every number of clients is answered as the best plugins
\* of one moment between its call and its return would, although it looks the
\* table up twice and registrations come in between, and a registered plugin
\* stays registered.
THEOREM RedirectorImplementsApi == Spec => ImplementsApi
<1>1. Init => Api!Init
  BY DEF Init, Api!Init, Registered, SeenCalls, Seen, NoCall, Api!NoCall
<1>2. RefineInv /\ [Next]_vars => RefineInv'
  BY TypeStep, LockStep, CallStep, TableStep, AsicStep, HandleStep
  DEF RefineInv, LockInv
<1> QED
  BY RefineInit, ApiStep, <1>1, <1>2, PTL DEF Spec, ImplementsApi, Api!Spec
=============================================================================
