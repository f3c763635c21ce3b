---------------------------- MODULE BstReportProofs ---------------------------
(***************************************************************************)
(* What holds of BstReport for every number of realms, every set of        *)
(* counter values and configurations and every number of timer failures.   *)
(***************************************************************************)
EXTENDS BstReport, TLAPS

\* A timer that is not in use does not run.
TimerFits ==
  /\ ~timer.inUse => timer.runs = 0
  /\ orphans <= faults

\* As long as every report arrives, what the collector knows stays equal to the
\* active record while the next collection is under way, not only when the bst
\* thread is at rest.
ViewFits == synced => \A r \in track : view[r] = data.active[r]

ReportInv == TypeOK /\ TimerFits /\ TimerFollowsConfig /\ ViewFits

-----------------------------------------------------------------------------
(* SystemTimer: what a start or a stop can leave *)

Timers == [inUse : BOOLEAN, runs : Intervals \cup {0}]

\* A stop that succeeds leaves no running timer, and one that fails leaves all
\* as it was.
LEMMA StopsFit ==
  ASSUME NEW t \in Timers, ~t.inUse => t.runs = 0, NEW o \in Stops(t)
  PROVE  /\ \/ o.timer = [inUse |-> FALSE, runs |-> 0] /\ o.faults = 0 /\ o.ok = TRUE
            \/ o.timer = t /\ t.inUse /\ o.faults = 1 /\ o.ok = FALSE
         /\ o.lost = 0
<1>1. \/ o = Outcome([inUse |-> FALSE, runs |-> IF t.inUse THEN 0 ELSE t.runs], 0, 0, TRUE)
      \/ t.inUse /\ o = Outcome(t, 0, 1, FALSE)
  BY DEF Stops
<1>2. (IF t.inUse THEN 0 ELSE t.runs) = 0
  OBVIOUS
<1>3. CASE o = Outcome([inUse |-> FALSE, runs |-> 0], 0, 0, TRUE)
  BY <1>3 DEF Outcome
<1>4. CASE t.inUse /\ o = Outcome(t, 0, 1, FALSE)
  BY <1>4 DEF Outcome
<1> QED
  BY <1>1, <1>2, <1>3, <1>4

\* A start that succeeds leaves the timer running at its interval; a timer that
\* it loses is one that it could not stop.
LEMMA StartsFit ==
  ASSUME NEW t \in Timers, ~t.inUse => t.runs = 0,
         NEW n \in Intervals, NEW o \in Starts(t, n)
  PROVE  /\ \/ o.timer = [inUse |-> TRUE, runs |-> n] /\ o.ok = TRUE
            \/ /\ o.ok = FALSE
               /\ o.timer \in {t, [inUse |-> FALSE, runs |-> 0], [inUse |-> t.inUse, runs |-> 0]}
         /\ o.lost \in {0, 1} /\ o.faults \in Nat /\ o.lost <= o.faults
<1> DEFINE idle == [inUse |-> FALSE, runs |-> 0]
<1>1. PICK s \in Stops(t) : o \in Adds(s, n)
  BY DEF Starts
<1>2. \/ s.timer = idle /\ s.faults = 0
      \/ s.timer = t /\ s.faults = 1
  BY StopsFit
<1>3. idle \in Timers /\ idle.inUse = FALSE /\ idle.runs = 0
  BY DEF Timers
<1> DEFINE lost == Bit(s.timer.runs # 0)
<1>4. lost \in {0, 1} /\ lost <= s.faults /\ s.faults \in {0, 1}
  BY <1>2, <1>3 DEF Bit
<1>5. [s.timer EXCEPT !.runs = 0] \in {idle, [inUse |-> t.inUse, runs |-> 0]}
  <2>1. CASE s.timer = idle
    BY <2>1
  <2>2. CASE s.timer = t
    BY <2>2 DEF Timers
  <2> QED
    BY <1>2, <2>1, <2>2
<1>6. \/ o = Outcome([inUse |-> TRUE, runs |-> n], lost, s.faults, TRUE)
      \/ o = Outcome([s.timer EXCEPT !.runs = 0], lost, s.faults + 1, FALSE)
      \/ o = Outcome(s.timer, 0, s.faults + 1, FALSE)
  BY <1>1 DEF Adds
<1> HIDE DEF lost, idle
<1>7. CASE o = Outcome([inUse |-> TRUE, runs |-> n], lost, s.faults, TRUE)
  BY <1>4, <1>7 DEF Outcome
<1>8. CASE o = Outcome([s.timer EXCEPT !.runs = 0], lost, s.faults + 1, FALSE)
  <2>1. /\ o.timer = [s.timer EXCEPT !.runs = 0] /\ o.lost = lost
        /\ o.faults = s.faults + 1 /\ o.ok = FALSE
    BY <1>8 DEF Outcome
  <2> QED
    BY <1>4, <1>5, <2>1 DEF idle
<1>9. CASE o = Outcome(s.timer, 0, s.faults + 1, FALSE)
  <2>1. /\ o.timer = s.timer /\ o.lost = 0
        /\ o.faults = s.faults + 1 /\ o.ok = FALSE
    BY <1>9 DEF Outcome
  <2> QED
    BY <1>2, <1>4, <2>1 DEF idle
<1> QED
  BY <1>6, <1>7, <1>8, <1>9

-----------------------------------------------------------------------------
TimerType ==
  /\ timer \in Timers
  /\ orphans \in 0 .. MaxFaults
  /\ faults \in 0 .. MaxFaults
  /\ broken \in BOOLEAN

\* A stop of the timer keeps its types; one that did not fail stops it.
LEMMA StopBecomes ==
  ASSUME TimerType, TimerFits, NEW o \in Stops(timer), Becomes(o)
  PROVE  /\ TimerType' /\ TimerFits'
         /\ ~broken' => timer'.inUse = FALSE /\ timer'.runs = 0
<1> USE ReportAssumption
<1>1. /\ \/ o.timer = [inUse |-> FALSE, runs |-> 0] /\ o.faults = 0 /\ o.ok = TRUE
         \/ o.timer = timer /\ timer.inUse /\ o.faults = 1 /\ o.ok = FALSE
      /\ o.lost = 0
  BY StopsFit DEF TimerFits, TimerType
<1>2. CASE /\ o.timer = [inUse |-> FALSE, runs |-> 0] /\ o.faults = 0
           /\ o.ok = TRUE /\ o.lost = 0
  <2>1. timer' \in Timers /\ timer'.inUse = FALSE /\ timer'.runs = 0
    BY <1>2 DEF Becomes, Timers
  <2> QED
    BY <1>2, <2>1 DEF Becomes, TimerType, TimerFits
<1>3. CASE o.timer = timer /\ o.faults = 1 /\ o.ok = FALSE /\ o.lost = 0
  <2>1. /\ timer' = timer /\ orphans' = orphans + 0 /\ faults' = faults + 1
        /\ broken' = TRUE /\ faults + 1 <= MaxFaults
    BY <1>3 DEF Becomes
  <2> QED
    BY <2>1 DEF TimerType, TimerFits
<1> QED
  BY <1>1, <1>2, <1>3

\* So does a start, which leaves it running at the interval that was asked for.
LEMMA StartBecomes ==
  ASSUME TimerType, TimerFits, NEW n \in Intervals, NEW o \in Starts(timer, n), Becomes(o)
  PROVE  /\ TimerType' /\ TimerFits'
         /\ ~broken' => timer'.inUse = TRUE /\ timer'.runs = n
<1> USE ReportAssumption
<1>1. /\ \/ o.timer = [inUse |-> TRUE, runs |-> n] /\ o.ok = TRUE
         \/ /\ o.ok = FALSE
            /\ o.timer \in {timer, [inUse |-> FALSE, runs |-> 0],
                            [inUse |-> timer.inUse, runs |-> 0]}
      /\ o.lost \in {0, 1} /\ o.faults \in Nat /\ o.lost <= o.faults
  BY StartsFit DEF TimerFits, TimerType
<1>2. /\ orphans' \in 0 .. MaxFaults /\ faults' \in 0 .. MaxFaults
      /\ orphans' <= faults' /\ broken' = ~o.ok
  BY <1>1 DEF Becomes, TimerType, Timers, TimerFits
<1>3. CASE o.timer = [inUse |-> TRUE, runs |-> n] /\ o.ok = TRUE
  BY <1>2, <1>3 DEF Becomes, TimerType, Timers, TimerFits
<1>4. CASE o.ok = FALSE /\ o.timer = timer
  BY <1>2, <1>4 DEF Becomes, TimerType, Timers, TimerFits
<1>5. CASE o.ok = FALSE /\ o.timer = [inUse |-> FALSE, runs |-> 0]
  <2>1. timer' \in Timers /\ timer'.inUse = FALSE /\ timer'.runs = 0
    BY <1>5 DEF Becomes, TimerType, Timers
  <2> QED
    BY <1>2, <1>5, <2>1 DEF Becomes, TimerType, TimerFits
<1>6. CASE o.ok = FALSE /\ o.timer = [inUse |-> timer.inUse, runs |-> 0]
  <2>1. timer' \in Timers /\ timer'.inUse = timer.inUse /\ timer'.runs = 0
    BY <1>6 DEF Becomes, TimerType, Timers
  <2> QED
    BY <1>2, <1>6, <2>1 DEF Becomes, TimerType, TimerFits
<1> QED
  BY <1>1, <1>3, <1>4, <1>5, <1>6

-----------------------------------------------------------------------------
\* ReportInv holds at the start.
LEMMA ReportInit == Init => ReportInv
<1> SUFFICES ASSUME Init PROVE ReportInv
    OBVIOUS
<1> USE ReportAssumption DEF Init
<1>1. Zero \in Snapshot
  BY DEF Zero, Snapshot
<1>2. data \in [Records -> Snapshot]
  BY <1>1
<1>3. timer \in [inUse : BOOLEAN, runs : Intervals \cup {0}]
  OBVIOUS
<1>4. TypeOK
  <2>1. bstQ \in Seq(Message) /\ Len(bstQ) <= QLen
    OBVIOUS
  <2>2. orphans \in 0 .. MaxFaults /\ faults \in 0 .. MaxFaults /\ realm \in 1 .. NumRealms + 1
    OBVIOUS
  <2> QED
    BY <1>1, <1>2, <1>3, <2>1, <2>2 DEF TypeOK
<1>5. TimerFits /\ TimerFollowsConfig
  <2>1. conf.async = FALSE
    <3>1. conf.async \in BOOLEAN /\ ~conf.async
      BY DEF Conf
    <3> QED
      BY <3>1
  <2>2. timer.inUse = FALSE /\ timer.runs = 0 /\ orphans = 0 /\ faults = 0
    OBVIOUS
  <2>3. (IF conf.async THEN conf.interval ELSE 0) = 0
    BY <2>1
  <2>4. orphans <= faults
    BY <2>2
  <2>5. timer.inUse = conf.async
    BY <2>1, <2>2, Zenon
  <2> HIDE DEF Init
  <2> QED
    BY <2>2, <2>3, <2>4, <2>5 DEF TimerFits, TimerFollowsConfig
<1>6. ViewFits
  BY DEF ViewFits, Records, Zero
<1> QED
  BY <1>4, <1>5, <1>6 DEF ReportInv

\* bst_send_request never overfills the queue.
LEMMA PostFits ==
  ASSUME TypeOK, NEW m \in Message, Post(m)
  PROVE  bstQ' \in Seq(Message) /\ Len(bstQ') <= QLen
  BY ReportAssumption DEF Post, TypeOK

\* What a handler takes is a message, and the queue gets shorter.
LEMMA TakeFits ==
  ASSUME TypeOK, NEW t, Take(t)
  PROVE  /\ bstQ' \in Seq(Message) /\ Len(bstQ') <= QLen
         /\ Head(bstQ) \in Message /\ Head(bstQ).type = t
<1>1. bstQ \in Seq(Message) /\ bstQ # <<>> /\ Len(bstQ) <= QLen
  BY DEF Take, TypeOK
<1>2. Tail(bstQ) \in Seq(Message) /\ Len(Tail(bstQ)) <= QLen /\ Head(bstQ) \in Message
  BY <1>1, ReportAssumption
<1> QED
  BY <1>2 DEF Take

\* The kinds of message, taken apart.
LEMMA MessageKinds ==
  ASSUME NEW m \in Message
  PROVE  /\ m.type = "SET_FEATURE" => m.conf \in Conf
         /\ m.type = "SET_TRACK" => m.realms \in TrackSets
  BY ReportAssumption DEF Message

\* The rotation leaves the new collection in the active record and the one
\* before in the backup, and all three are still there.
LEMMA RotateFits ==
  ASSUME data \in [Records -> Snapshot], data' = Rotate
  PROVE  /\ data' \in [Records -> Snapshot]
         /\ data'.active = data.current
         /\ data'.backup = data.active
<1>1. /\ data.active \in Snapshot /\ data.backup \in Snapshot /\ data.current \in Snapshot
  BY DEF Records
<1>2. data' = [active |-> data.current, backup |-> data.active, current |-> data.backup]
  BY DEF Rotate
<1>3. DOMAIN data' = Records /\ \A r \in Records : data'[r] \in Snapshot
  BY <1>1, <1>2 DEF Records
<1>4. data' = [r \in Records |-> data'[r]]
  BY <1>2, <1>3 DEF Records
<1> QED
  BY <1>2, <1>3, <1>4

\* Every step keeps ReportInv.
LEMMA ReportStep == ReportInv /\ [Next]_vars => ReportInv'
<1> SUFFICES ASSUME ReportInv, [Next]_vars
             PROVE  ReportInv'
    OBVIOUS
<1> USE ReportAssumption DEF ReportInv
<1> USE DEF TimerFits, TimerFollowsConfig, ViewFits, timerVars
<1>1. CASE Request
  <2>1. bstQ' \in Seq(Message) /\ Len(bstQ') <= QLen
    BY <1>1, PostFits DEF Request
  <2> QED
    BY <1>1, <2>1 DEF Request, TypeOK
<1>2. CASE TimerCb
  <2>1. [type |-> "PERIODIC"] \in Message
    BY DEF Message
  <2>2. bstQ' \in Seq(Message) /\ Len(bstQ') <= QLen
    BY <1>2, <2>1, PostFits DEF TimerCb
  <2> QED
    BY <1>2, <2>2 DEF TimerCb, TypeOK
<1>3. CASE MonitorStat
  <2>1. counters' \in Snapshot
    BY <1>3 DEF MonitorStat, TypeOK, Snapshot
  <2> QED
    BY <1>3, <2>1 DEF MonitorStat, TypeOK
<1>4. CASE SetFeature
  <2> DEFINE c == Head(bstQ).conf
  <2>1. /\ bstQ' \in Seq(Message) /\ Len(bstQ') <= QLen
        /\ c \in Conf
    BY <1>4, TakeFits, MessageKinds DEF SetFeature
  <2>2. /\ conf' = c
        /\ \/ c.async /\ (c.interval # conf.interval \/ ~conf.async)
                      /\ \E o \in TimerAdd(c.interval) : Becomes(o)
           \/ /\ c.async /\ ~(c.interval # conf.interval \/ ~conf.async)
              /\ UNCHANGED <<timer, orphans, faults, broken>>
           \/ ~c.async /\ \E o \in TimerDelete : Becomes(o)
    BY <1>4 DEF SetFeature
  <2>3. c.interval \in Intervals /\ c.async \in BOOLEAN
    BY <2>1 DEF Conf
  <2> HIDE DEF c
  <2>4. TimerType
    BY DEF TimerType, TypeOK, Timers
  <2>5. /\ TimerType' /\ TimerFits'
        /\ ~broken' => /\ timer'.inUse = c.async
                       /\ timer'.runs = IF c.async THEN c.interval ELSE 0
    <3>1. CASE c.async /\ \E o \in TimerAdd(c.interval) : Becomes(o)
      <4>1. PICK o \in Starts(timer, c.interval) : Becomes(o)
        BY <3>1 DEF TimerAdd
      <4>2. /\ TimerType' /\ TimerFits'
            /\ ~broken' => timer'.inUse = TRUE /\ timer'.runs = c.interval
        BY <2>3, <2>4, <4>1, StartBecomes
      <4> QED
        BY <2>3, <3>1, <4>2
    <3>2. CASE c.async /\ ~(c.interval # conf.interval \/ ~conf.async)
               /\ UNCHANGED <<timer, orphans, faults, broken>>
      BY <2>3, <2>4, <3>2 DEF TimerType
    <3>3. CASE ~c.async /\ \E o \in TimerDelete : Becomes(o)
      <4>1. PICK o \in Stops(timer) : Becomes(o)
        BY <3>3 DEF TimerDelete
      <4>2. /\ TimerType' /\ TimerFits'
            /\ ~broken' => timer'.inUse = FALSE /\ timer'.runs = 0
        BY <2>4, <4>1, StopBecomes
      <4> QED
        BY <2>3, <3>3, <4>2
    <3> QED
      BY <2>2, <3>1, <3>2, <3>3
  <2>6. UNCHANGED <<counters, data, track, pc, req, realm, rv, view, synced>>
    BY <1>4 DEF SetFeature
  <2>7. TypeOK'
    BY <2>1, <2>2, <2>5, <2>6 DEF TypeOK, TimerType, Timers, c
  <2>8. ViewFits'
    BY <2>6
  <2>9. orphans' <= faults'
    BY <2>5
  <2> QED
    BY <2>2, <2>5, <2>7, <2>8, <2>9
<1>5. CASE SetTrack
  <2>1. /\ bstQ' \in Seq(Message) /\ Len(bstQ') <= QLen
        /\ Head(bstQ).realms \in TrackSets
    BY <1>5, TakeFits, MessageKinds DEF SetTrack
  <2>2. track' \in TrackSets /\ synced' = (synced /\ track' \subseteq track)
    BY <1>5, <2>1 DEF SetTrack, TypeOK
  <2>3. UNCHANGED <<counters, data, conf, timer, orphans, faults, broken, pc, req, realm, rv, view>>
    BY <1>5 DEF SetTrack
  <2>4. TypeOK'
    BY <2>1, <2>2, <2>3 DEF TypeOK
  <2>5. ViewFits'
    BY <2>2, <2>3
  <2> QED
    BY <2>3, <2>4, <2>5
<1>6. CASE ClearStats
  <2>1. bstQ' \in Seq(Message) /\ Len(bstQ') <= QLen
    BY <1>6, TakeFits DEF ClearStats
  <2>2. Zero \in Snapshot
    BY DEF Zero, Snapshot
  <2>3. data' \in [Records -> Snapshot] /\ data'.active = Zero
    BY <1>6, <2>2 DEF ClearStats, Records
  <2>4. track \subseteq Realms
    BY DEF TypeOK
  <2>5. ViewFits'
    BY <1>6, <2>3 DEF ClearStats
  <2> QED
    BY <1>6, <2>1, <2>3, <2>5 DEF ClearStats, TypeOK
<1>7. CASE StartCollection
  <2>1. PICK t \in ReportTypes : Take(t)
    BY <1>7 DEF StartCollection
  <2>2. bstQ' \in Seq(Message) /\ Len(bstQ') <= QLen /\ req' \in Message
    BY <1>7, <2>1, TakeFits DEF StartCollection
  <2>3. Zero \in Snapshot
    BY DEF Zero, Snapshot
  <2>4. data' \in [Records -> Snapshot] /\ data'.active = data.active
    BY <1>7, <2>3 DEF StartCollection, TypeOK, Records
  <2>5. UNCHANGED <<counters, conf, track, timer, orphans, faults, broken, view, synced>>
    BY <1>7 DEF StartCollection
  <2>6. ViewFits'
    BY <2>4, <2>5
  <2> QED
    BY <1>7, <2>2, <2>4, <2>5, <2>6 DEF StartCollection, TypeOK
<1>8. CASE CollectRealm
  <2>1. data' \in [Records -> Snapshot] /\ data'.active = data.active
    <3>1. CASE data' = [data EXCEPT !.current[realm] = counters[realm]]
      <4>1. data.current \in Snapshot /\ counters[realm] \in Values
        BY <1>8 DEF CollectRealm, TypeOK, Records, Snapshot
      <4>2. [data.current EXCEPT ![realm] = counters[realm]] \in Snapshot
        BY <4>1 DEF Snapshot
      <4>3. data' = [data EXCEPT !.current = [data.current EXCEPT ![realm] = counters[realm]]]
        BY <3>1 DEF TypeOK
      <4> QED
        BY <4>2, <4>3 DEF TypeOK, Records
    <3>2. CASE UNCHANGED data
      BY <3>2 DEF TypeOK
    <3> QED
      BY <1>8, <3>1, <3>2 DEF CollectRealm
  <2>2. UNCHANGED <<counters, conf, track, timer, orphans, faults, broken, bstQ, pc, req, view, synced>>
    BY <1>8 DEF CollectRealm
  <2>3. realm' \in 1 .. NumRealms + 1 /\ rv' \in BOOLEAN
    <3>1. realm \in 1 .. NumRealms /\ rv \in BOOLEAN
      BY <1>8 DEF CollectRealm, TypeOK, Realms
    <3>2. realm' \in {realm + 1, NumRealms + 1} /\ rv' \in {rv, FALSE}
      BY <1>8 DEF CollectRealm
    <3>3. realm' \in 1 .. NumRealms + 1
      BY <3>1, <3>2
    <3>4. rv' \in BOOLEAN
      BY <3>1, <3>2
    <3> QED
      BY <3>3, <3>4
  <2>4. ViewFits'
    BY <2>1, <2>2
  <2> QED
    BY <2>1, <2>2, <2>3, <2>4 DEF TypeOK
<1>9. CASE Respond
  <2>1. /\ data' \in [Records -> Snapshot]
        /\ data'.active = data.current /\ data'.backup = data.active
    BY <1>9, RotateFits DEF Respond, TypeOK
  <2>2. PICK ok \in Result : SendResponse(ok, Rotate.backup, Rotate.active)
    BY <1>9 DEF Respond
  <2>3. UNCHANGED <<counters, conf, track, timer, orphans, faults, broken, bstQ>>
    BY <1>9 DEF Respond
  <2> DEFINE cur == data.current
  <2>4. Rotate.backup = data.active /\ Rotate.active = cur
    BY DEF Rotate
  <2>5. CASE /\ ok /\ req.type # "GET"
             /\ view' = Told(Encoded(data.active, cur), cur)
             /\ synced' = (req.type = "PERIODIC" /\ (synced \/ ~conf.incr))
    <3>1. view' \in Snapshot /\ synced' \in BOOLEAN
      <4>1. cur \in Snapshot /\ view \in Snapshot
        BY DEF TypeOK, Records
      <4> QED
        BY <2>5, <4>1 DEF Told, Snapshot
    <3>2. ASSUME synced', NEW r \in track
          PROVE  view'[r] = cur[r]
      <4>1. req.type = "PERIODIC" /\ (synced \/ ~conf.incr)
        BY <2>5, <3>2
      <4>2. r \in Realms
        BY DEF TypeOK
      <4>3. view'[r] = IF r \in Encoded(data.active, cur) THEN cur[r] ELSE view[r]
        BY <2>5, <4>2 DEF Told
      <4>4. r \in Included
        BY <4>1 DEF Included
      <4>5. CASE conf.incr
        <5>1. r \in Encoded(data.active, cur) <=> cur[r] # data.active[r]
          BY <4>1, <4>4, <4>5 DEF Encoded, Differential
        <5>2. view[r] = data.active[r]
          BY <4>1, <4>5
        <5> QED
          BY <4>3, <5>1, <5>2
      <4>6. CASE ~conf.incr
        BY <4>1, <4>3, <4>4, <4>6 DEF Encoded, Differential, Incremental
      <4> QED
        BY <4>5, <4>6
    <3>3. ViewFits'
      BY <2>1, <2>3, <3>2
    <3>4. TypeOK'
      BY <1>9, <2>1, <2>3, <3>1 DEF Respond, TypeOK
    <3> QED
      BY <2>3, <3>3, <3>4
  <2>6. CASE view' = view /\ synced' = FALSE
    <3>1. view' \in Snapshot /\ synced' \in BOOLEAN
      BY <2>6 DEF TypeOK
    <3>2. TypeOK'
      BY <1>9, <2>1, <2>3, <3>1 DEF Respond, TypeOK
    <3> QED
      BY <2>3, <2>6, <3>2
  <2> QED
    BY <2>2, <2>4, <2>5, <2>6 DEF SendResponse
<1>10. CASE CollectorMoves
  <2>1. Zero \in Snapshot
    BY DEF Zero, Snapshot
  <2> QED
    BY <1>10, <2>1 DEF CollectorMoves, TypeOK
<1>11. CASE UNCHANGED vars
  BY <1>11 DEF vars, TypeOK
<1> QED
  BY <1>1, <1>2, <1>3, <1>4, <1>5, <1>6, <1>7, <1>8, <1>9, <1>10, <1>11 DEF Next, BstThread

\* ReportInv holds of every reachable state of every instance.
THEOREM ReportInvariant == Spec => []ReportInv
  BY ReportInit, ReportStep, PTL DEF Spec

\* Every variable keeps its type: the bst queue stays within its capacity and
\* the rotation of the three records never loses one.
THEOREM ReportTypeCorrect == Spec => []TypeOK
<1>1. ReportInv => TypeOK
  BY DEF ReportInv
<1> QED
  BY ReportInvariant, <1>1, PTL

\* After any sequence of bst_config_feature_set, with any failures of the
\* system's timers, the collection timer follows the configuration.
THEOREM ReportTimerFollows == Spec => []TimerFollowsConfig
<1>1. ReportInv => TimerFollowsConfig
  BY DEF ReportInv
<1> QED
  BY ReportInvariant, <1>1, PTL

\* Incremental periodic reports add up to the counters that were last
\* collected, as long as bst_send_response delivers each of them: the backup
\* that bst_update_data leaves is what the collector was told, however counters,
\* configurations and tracked realms change in between, and a full report makes
\* up for those that were lost.
THEOREM IncrementalReportsAddUp == Spec => []CollectorSynced
<1>1. ReportInv => CollectorSynced
  BY DEF ReportInv, ViewFits, CollectorSynced
<1> QED
  BY ReportInvariant, <1>1, PTL
=============================================================================
