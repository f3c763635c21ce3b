--------------------------- MODULE HeartbeatProofs ---------------------------
(***************************************************************************)
(* What holds of Heartbeat for every set of sessions and intervals, every  *)
(* capacity and every number of failures.                                  *)
(***************************************************************************)
EXTENDS Heartbeat, TLAPS

States == {"register", "properties", "receive", "port", "handle", "send", "exited"}

\* The buffer of an answer is out of the pool from its encoding to its sending.
FreeFits == free = IF pc = "send" THEN NumSlices - 1 ELSE NumSlices

\* The thread ends with the failure that is one too many.
ErrorsFit == pc # "exited" => errors <= MaxErrors

\* A timer that is not in use does not run, and only a failed stop can leave a
\* running timer without an owner.
TimerFits ==
  /\ ~timer.inUse => timer.runs = 0
  /\ orphans <= faults

\* The feature is enabled, at the default interval, until the thread receives.
StartsEnabled == pc \in {"register", "properties"} => config.enable

HeartbeatInv ==
  TypeOK /\ FreeFits /\ ErrorsFit /\ TimerFits /\ StartsEnabled /\ TimerFollows

-----------------------------------------------------------------------------
(* SystemTimer: what a start or a stop can leave *)

Timers == [inUse : BOOLEAN, runs : Intervals \cup {0}]

\* A stop that succeeds leaves no running timer, and one that fails leaves all
\* as it was.
LEMMA StopsFit ==
  ASSUME NEW t \in Timers, ~t.inUse => t.runs = 0, NEW o \in Stops(t)
  PROVE  /\ \/ o.timer = [inUse |-> FALSE, runs |-> 0] /\ o.faults = 0 /\ o.ok = TRUE
            \/ o.timer = t /\ t.inUse /\ o.faults = 1 /\ o.ok = FALSE
         /\ o.lost = 0
<1>1. \/ o = Outcome([inUse |-> FALSE, runs |-> IF t.inUse THEN 0 ELSE t.runs], 0, 0, TRUE)
      \/ t.inUse /\ o = Outcome(t, 0, 1, FALSE)
  BY DEF Stops
<1>2. (IF t.inUse THEN 0 ELSE t.runs) = 0
  OBVIOUS
<1>3. CASE o = Outcome([inUse |-> FALSE, runs |-> 0], 0, 0, TRUE)
  BY <1>3 DEF Outcome
<1>4. CASE t.inUse /\ o = Outcome(t, 0, 1, FALSE)
  BY <1>4 DEF Outcome
<1> QED
  BY <1>1, <1>2, <1>3, <1>4

\* A start that succeeds leaves the timer running at its interval; a timer that
\* it loses is one that it could not stop.
LEMMA StartsFit ==
  ASSUME NEW t \in Timers, ~t.inUse => t.runs = 0,
         NEW n \in Intervals, NEW o \in Starts(t, n)
  PROVE  /\ \/ o.timer = [inUse |-> TRUE, runs |-> n] /\ o.ok = TRUE
            \/ /\ o.ok = FALSE
               /\ o.timer \in {t, [inUse |-> FALSE, runs |-> 0], [inUse |-> t.inUse, runs |-> 0]}
         /\ o.lost \in {0, 1} /\ o.faults \in Nat /\ o.lost <= o.faults
<1> DEFINE idle == [inUse |-> FALSE, runs |-> 0]
<1>1. PICK s \in Stops(t) : o \in Adds(s, n)
  BY DEF Starts
<1>2. \/ s.timer = idle /\ s.faults = 0
      \/ s.timer = t /\ s.faults = 1
  BY StopsFit
<1>3. idle \in Timers /\ idle.inUse = FALSE /\ idle.runs = 0
  BY DEF Timers
<1> DEFINE lost == Bit(s.timer.runs # 0)
<1>4. lost \in {0, 1} /\ lost <= s.faults /\ s.faults \in {0, 1}
  BY <1>2, <1>3 DEF Bit
<1>5. [s.timer EXCEPT !.runs = 0] \in {idle, [inUse |-> t.inUse, runs |-> 0]}
  <2>1. CASE s.timer = idle
    BY <2>1
  <2>2. CASE s.timer = t
    BY <2>2 DEF Timers
  <2> QED
    BY <1>2, <2>1, <2>2
<1>6. \/ o = Outcome([inUse |-> TRUE, runs |-> n], lost, s.faults, TRUE)
      \/ o = Outcome([s.timer EXCEPT !.runs = 0], lost, s.faults + 1, FALSE)
      \/ o = Outcome(s.timer, 0, s.faults + 1, FALSE)
  BY <1>1 DEF Adds
<1> HIDE DEF lost, idle
<1>7. CASE o = Outcome([inUse |-> TRUE, runs |-> n], lost, s.faults, TRUE)
  BY <1>4, <1>7 DEF Outcome
<1>8. CASE o = Outcome([s.timer EXCEPT !.runs = 0], lost, s.faults + 1, FALSE)
  <2>1. /\ o.timer = [s.timer EXCEPT !.runs = 0] /\ o.lost = lost
        /\ o.faults = s.faults + 1 /\ o.ok = FALSE
    BY <1>8 DEF Outcome
  <2> QED
    BY <1>4, <1>5, <2>1 DEF idle
<1>9. CASE o = Outcome(s.timer, 0, s.faults + 1, FALSE)
  <2>1. /\ o.timer = s.timer /\ o.lost = 0
        /\ o.faults = s.faults + 1 /\ o.ok = FALSE
    BY <1>9 DEF Outcome
  <2> QED
    BY <1>2, <1>4, <2>1 DEF idle
<1> QED
  BY <1>6, <1>7, <1>8, <1>9

-----------------------------------------------------------------------------
TimerType ==
  /\ timer \in Timers
  /\ orphans \in 0 .. MaxFaults
  /\ faults \in 0 .. MaxFaults
  /\ broken \in BOOLEAN

\* A stop of the timer keeps its types; one that did not fail stops it.
LEMMA StopBecomes ==
  ASSUME TimerType, TimerFits, NEW o \in Stops(timer), Becomes(o)
  PROVE  /\ TimerType' /\ TimerFits'
         /\ ~broken' => timer'.inUse = FALSE /\ timer'.runs = 0
<1> USE HeartbeatAssumption
<1>1. /\ \/ o.timer = [inUse |-> FALSE, runs |-> 0] /\ o.faults = 0 /\ o.ok = TRUE
         \/ o.timer = timer /\ timer.inUse /\ o.faults = 1 /\ o.ok = FALSE
      /\ o.lost = 0
  BY StopsFit DEF TimerFits, TimerType
<1>2. CASE /\ o.timer = [inUse |-> FALSE, runs |-> 0] /\ o.faults = 0
           /\ o.ok = TRUE /\ o.lost = 0
  <2>1. timer' \in Timers /\ timer'.inUse = FALSE /\ timer'.runs = 0
    BY <1>2 DEF Becomes, Timers
  <2> QED
    BY <1>2, <2>1 DEF Becomes, TimerType, TimerFits
<1>3. CASE o.timer = timer /\ o.faults = 1 /\ o.ok = FALSE /\ o.lost = 0
  <2>1. /\ timer' = timer /\ orphans' = orphans + 0 /\ faults' = faults + 1
        /\ broken' = TRUE /\ faults + 1 <= MaxFaults
    BY <1>3 DEF Becomes
  <2> QED
    BY <2>1 DEF TimerType, TimerFits
<1> QED
  BY <1>1, <1>2, <1>3

\* So does a start, which leaves it running at the interval that was asked for.
LEMMA StartBecomes ==
  ASSUME TimerType, TimerFits, NEW n \in Intervals, NEW o \in Starts(timer, n), Becomes(o)
  PROVE  /\ TimerType' /\ TimerFits'
         /\ ~broken' => timer'.inUse = TRUE /\ timer'.runs = n
<1> USE HeartbeatAssumption
<1>1. /\ \/ o.timer = [inUse |-> TRUE, runs |-> n] /\ o.ok = TRUE
         \/ /\ o.ok = FALSE
            /\ o.timer \in {timer, [inUse |-> FALSE, runs |-> 0],
                            [inUse |-> timer.inUse, runs |-> 0]}
      /\ o.lost \in {0, 1} /\ o.faults \in Nat /\ o.lost <= o.faults
  BY StartsFit DEF TimerFits, TimerType
<1>2. /\ orphans' \in 0 .. MaxFaults /\ faults' \in 0 .. MaxFaults
      /\ orphans' <= faults' /\ broken' = ~o.ok
  BY <1>1 DEF Becomes, TimerType, Timers, TimerFits
<1>3. CASE o.timer = [inUse |-> TRUE, runs |-> n] /\ o.ok = TRUE
  BY <1>2, <1>3 DEF Becomes, TimerType, Timers, TimerFits
<1>4. CASE o.ok = FALSE /\ o.timer = timer
  BY <1>2, <1>4 DEF Becomes, TimerType, Timers, TimerFits
<1>5. CASE o.ok = FALSE /\ o.timer = [inUse |-> FALSE, runs |-> 0]
  <2>1. timer' \in Timers /\ timer'.inUse = FALSE /\ timer'.runs = 0
    BY <1>5 DEF Becomes, TimerType, Timers
  <2> QED
    BY <1>2, <1>5, <2>1 DEF Becomes, TimerType, TimerFits
<1>6. CASE o.ok = FALSE /\ o.timer = [inUse |-> timer.inUse, runs |-> 0]
  <2>1. timer' \in Timers /\ timer'.inUse = timer.inUse /\ timer'.runs = 0
    BY <1>6 DEF Becomes, TimerType, Timers
  <2> QED
    BY <1>2, <1>6, <2>1 DEF Becomes, TimerType, TimerFits
<1> QED
  BY <1>1, <1>3, <1>4, <1>5, <1>6

\* HeartbeatInv holds at the start.
LEMMA HeartbeatInit == Init => HeartbeatInv
<1> SUFFICES ASSUME Init PROVE HeartbeatInv
    OBVIOUS
<1> USE HeartbeatAssumption DEF Init
<1>1. TypeOK
  <2>1. modules \in [1 .. MaxModules -> Features \cup {None}]
    OBVIOUS
  <2>2. config \in Setting /\ timer \in [inUse : BOOLEAN, runs : Intervals \cup {0}]
    BY DEF Setting
  <2>3. queue \in Seq(Requests \cup {Beat}) /\ Len(queue) <= QLen
    OBVIOUS
  <2>4. /\ orphans \in 0 .. MaxFaults /\ due \in 0 .. MaxDue /\ errors \in 0 .. MaxErrors + 1
        /\ free \in 0 .. NumSlices /\ faults \in 0 .. MaxFaults
    OBVIOUS
  <2>5. request \in Requests \cup {Beat}
    OBVIOUS
  <2> QED
    BY <2>1, <2>2, <2>3, <2>4, <2>5 DEF TypeOK
<1>2. FreeFits /\ ErrorsFit /\ TimerFits /\ StartsEnabled /\ TimerFollows
  BY DEF FreeFits, ErrorsFit, TimerFits, StartsEnabled, TimerFollows
<1> QED
  BY <1>1, <1>2 DEF HeartbeatInv

\* An entry is made in the table of modules.
LEMMA EnterType ==
  ASSUME TypeOK, NEW f \in Features, Enter(f)
  PROVE  modules' \in [1 .. MaxModules -> Features \cup {None}]
  BY DEF Enter, TypeOK

\* A posted message leaves the queue within its capacity.
LEMMA AppendType ==
  ASSUME TypeOK, HasRoom, NEW m \in Requests \cup {Beat}
  PROVE  Append(queue, m) \in Seq(Requests \cup {Beat}) /\ Len(Append(queue, m)) <= QLen
  BY HeartbeatAssumption DEF TypeOK, HasRoom

\* What is answered is a session, or nobody.
LEMMA AnswerType ==
  ASSUME TypeOK, NEW r
  PROVE  Answer(r) \subseteq Sessions
  BY DEF TypeOK, Answer

\* Every step keeps HeartbeatInv.
LEMMA HeartbeatStep == HeartbeatInv /\ [Next]_vars => HeartbeatInv'
<1> SUFFICES ASSUME HeartbeatInv, [Next]_vars
             PROVE  HeartbeatInv'
    OBVIOUS
<1> USE HeartbeatAssumption DEF HeartbeatInv
<1> USE DEF TypeOK, FreeFits, ErrorsFit, TimerFits, StartsEnabled, TimerFollows
<1>1. CASE Register
  <2>1. modules' \in [1 .. MaxModules -> Features \cup {None}]
    BY <1>1, EnterType DEF Register, Features
  <2> QED
    BY <1>1, <2>1 DEF Register
<1>2. CASE GetProperties
  <2>1. PICK o \in Starts(timer, config.interval) : Becomes(o)
    BY <1>2 DEF GetProperties
  <2>2. config.interval \in Intervals /\ config.enable
    BY <1>2 DEF GetProperties, Setting
  <2>3. /\ TimerType' /\ TimerFits'
        /\ ~broken' => timer'.inUse = TRUE /\ timer'.runs = config.interval
    BY <2>1, <2>2, StartBecomes DEF TimerType, Timers
  <2> QED
    BY <1>2, <2>2, <2>3 DEF GetProperties, TimerType, Timers
<1>3. CASE GetPropertiesFails
  BY <1>3 DEF GetPropertiesFails
<1>4. CASE Receive
  <2>1. /\ request' \in Requests \cup {Beat}
        /\ queue' \in Seq(Requests \cup {Beat}) /\ Len(queue') <= QLen
    BY <1>4 DEF Receive
  <2> QED
    BY <1>4, <2>1 DEF Receive
<1>5. CASE ReceiveFails
  BY <1>5 DEF ReceiveFails
<1>6. CASE ReadPort
  BY <1>6 DEF ReadPort
<1>7. CASE SetFeature
  <2>1. request.config \in Setting
    BY <1>7 DEF SetFeature, Requests, Gets, PropertyGets, Sets, Beat
  <2>2. config' \in Setting /\ config'.interval \in Intervals /\ config'.enable \in BOOLEAN
    BY <1>7, <2>1 DEF SetFeature, Setting
  <2>3. /\ TimerType' /\ TimerFits'
        /\ ~broken' => /\ timer'.inUse = config'.enable
                       /\ timer'.runs = IF config'.enable THEN config'.interval ELSE 0
    <3>1. CASE ~config'.enable
      <4>1. PICK o \in Stops(timer) : Becomes(o)
        BY <1>7, <3>1 DEF SetFeature
      <4> QED
        BY <2>2, <3>1, <4>1, StopBecomes DEF TimerType, Timers
    <3>2. CASE config'.enable /\ Restarts(config')
      <4>1. PICK o \in Starts(timer, config'.interval) : Becomes(o)
        BY <1>7, <3>2 DEF SetFeature
      <4>2. /\ TimerType' /\ TimerFits'
            /\ ~broken' => timer'.inUse = TRUE /\ timer'.runs = config'.interval
        BY <2>2, <4>1, StartBecomes DEF TimerType, Timers
      <4> QED
        BY <2>2, <3>2, <4>2
    <3>3. CASE config'.enable /\ ~Restarts(config')
      <4>1. UNCHANGED <<timer, orphans, faults, broken>>
        BY <1>7, <3>3 DEF SetFeature
      <4> QED
        BY <1>7, <3>3, <4>1 DEF SetFeature, Restarts, TimerType, Timers
    <3> QED
      BY <3>1, <3>2, <3>3
  <2>4. waiting' \subseteq Sessions
    BY <1>7, AnswerType DEF SetFeature
  <2> QED
    BY <1>7, <2>2, <2>3, <2>4 DEF SetFeature, TimerType, Timers
<1>8. CASE Encode
  BY <1>8 DEF Encode, TakeBuffer
<1>9. CASE Send
  <2>1. waiting' \subseteq Sessions
    BY <1>9, AnswerType DEF Send
  <2> QED
    BY <1>9, <2>1 DEF Send, FreeBuffer
<1>10. CASE Expire
  BY <1>10 DEF Expire
<1>11. CASE TimerCallback
  <2>1. queue' \in Seq(Requests \cup {Beat}) /\ Len(queue') <= QLen
    BY <1>11, AppendType DEF TimerCallback
  <2> QED
    BY <1>11, <2>1 DEF TimerCallback
<1>12. CASE OtherRegisters
  <2>1. modules' \in [1 .. MaxModules -> Features \cup {None}]
    BY <1>12, EnterType DEF OtherRegisters, Features
  <2> QED
    BY <1>12, <2>1 DEF OtherRegisters
<1>13. CASE Ask
  <2>1. PICK r \in Requests :
          queue' = Append(queue, r) /\ waiting' = waiting \cup {r.from}
    BY <1>13 DEF Ask
  <2>2. r.from \in Sessions
    BY DEF Requests, Gets, PropertyGets, Sets
  <2>3. queue' \in Seq(Requests \cup {Beat}) /\ Len(queue') <= QLen
    BY <1>13, <2>1, AppendType DEF Ask
  <2> QED
    BY <1>13, <2>1, <2>2, <2>3 DEF Ask
<1>14. CASE SetAgentPort
  BY <1>14 DEF SetAgentPort
<1>15. CASE UNCHANGED vars
  BY <1>15 DEF vars
<1> QED
  BY <1>1, <1>2, <1>3, <1>4, <1>5, <1>6, <1>7, <1>8, <1>9, <1>10, <1>11, <1>12,
     <1>13, <1>14, <1>15 DEF Next, App

\* HeartbeatInv holds of every reachable state of every instance.
THEOREM HeartbeatInvariant == Spec => []HeartbeatInv
  BY HeartbeatInit, HeartbeatStep, PTL DEF Spec

\* Every variable keeps its type: the queue and the pool of system_utils stay
\* within their capacities, and no buffer is given back that was not taken.
THEOREM HeartbeatTypeCorrect == Spec => []TypeOK
<1>1. HeartbeatInv => TypeOK
  BY DEF HeartbeatInv
<1> QED
  BY HeartbeatInvariant, <1>1, PTL

\* After any sequence of reg_hb_config_feature_set, with any failures of the
\* system's timers, the timer follows the configuration.
THEOREM HeartbeatTimerFollows == Spec => []TimerFollows
<1>1. HeartbeatInv => TimerFollows
  BY DEF HeartbeatInv
<1> QED
  BY HeartbeatInvariant, <1>1, PTL
=============================================================================
