-------------------------- MODULE BstTriggerProofs --------------------------
(***************************************************************************)
(* What holds of BstTrigger for every number of units, every realm map,    *)
(* every limit and every queue capacity.                                   *)
(***************************************************************************)
EXTENDS BstTrigger, TLAPS

\* The trigger thread holds a message of the kind its handler expects, for a
\* unit the system has.
Collecting == {"check", "post", "timer", "bump"}
Clearing   == {"clear", "untimer", "enable"}

MessageFits ==
  /\ tpc \in Collecting => tmsg \in TriggerCollect /\ tmsg.unit \in Units
  /\ tpc \in Clearing => tmsg \in ClearCount

\* RateLimit is not inductive.  The posted reports are bounded by the count,
\* except for the one posted and not yet counted; a thread about to post read a
\* limit that the reports have not reached.
Pending(u, i) ==
  tpc \in {"timer", "bump"} /\ tmsg.unit = u /\ IndexOf(tmsg.counter) = i

SentCounted ==
  \A u \in Units, i \in Index :
    sent[u][i] <= count[u][i] + (IF Pending(u, i) THEN 1 ELSE 0)

PostBelowLimit ==
  tpc = "post" => /\ tmax \in MaxValues
                  /\ sent[tmsg.unit][IndexOf(tmsg.counter)] < tmax

RateInv == TypeOK /\ MessageFits /\ SentCounted /\ PostBelowLimit /\ RateLimit

-----------------------------------------------------------------------------
\* Every counter is counted somewhere, the unmapped ones at index 0.
LEMMA IndexOfType == \A c \in Counters : IndexOf(c) \in Index
  BY TriggerAssumption DEF IndexOf, Mapped, Counters

\* A message appended to a queue that is not full leaves it within capacity.
LEMMA AppendFits ==
  ASSUME NEW S, NEW q \in Seq(S), NEW m \in S, NEW cap \in Nat,
         Len(q) <= cap, ~Full(q, cap)
  PROVE  Append(q, m) \in Seq(S) /\ Len(Append(q, m)) <= cap
  BY DEF Full

\* A posted message leaves the trigger queue within its capacity.
LEMMA PostTriggerType ==
  ASSUME trigQ \in Seq(TrigMessage), Len(trigQ) <= TrigQLen,
         NEW m \in TrigMessage, PostTrigger(m)
  PROVE  trigQ' \in Seq(TrigMessage) /\ Len(trigQ') <= TrigQLen
  BY AppendFits, TriggerAssumption DEF PostTrigger

\* Adding one to an entry of a two-dimensional array of counts.
LEMMA BumpType ==
  ASSUME NEW f \in [Units -> [Index -> Nat]], NEW u \in Units, NEW i \in Index
  PROVE  /\ [f EXCEPT ![u][i] = @ + 1] \in [Units -> [Index -> Nat]]
         /\ \A v \in Units, j \in Index :
              [f EXCEPT ![u][i] = @ + 1][v][j]
                = f[v][j] + (IF v = u /\ j = i THEN 1 ELSE 0)
  OBVIOUS

\* A queue from which a message is taken.
LEMMA TailFits ==
  ASSUME NEW S, NEW q \in Seq(S), q # <<>>, NEW cap \in Nat, Len(q) <= cap
  PROVE  Tail(q) \in Seq(S) /\ Len(Tail(q)) <= cap /\ Head(q) \in S
  OBVIOUS

-----------------------------------------------------------------------------
\* Types, queue capacities and the message each handler works on, for every
\* instance: no path of the trigger thread overfills a queue or dereferences a
\* unit that sbapi_system_num_units_get does not count.
LEMMA TypeStep ==
  TypeOK /\ MessageFits /\ [Next]_vars => TypeOK' /\ MessageFits'
<1> SUFFICES ASSUME TypeOK, MessageFits, [Next]_vars
             PROVE  TypeOK' /\ MessageFits'
    OBVIOUS
<1> USE TriggerAssumption
<1>1. ASSUME NEW u \in AsicUnits, NEW c \in Counters, TriggerCb(u, c)
      PROVE  TypeOK' /\ MessageFits'
  <2>1. [type |-> "TRIGGER_COLLECT", unit |-> u, counter |-> c] \in TrigMessage
    BY DEF TrigMessage, TriggerCollect
  <2> QED
    BY <1>1, <2>1, PostTriggerType DEF TriggerCb, TypeOK, MessageFits
<1>2. ASSUME NEW u \in Units, TimerExpires(u)
      PROVE  TypeOK' /\ MessageFits'
  BY <1>2 DEF TimerExpires, TypeOK, MessageFits
<1>3. ASSUME NEW u \in Units, TimerCb(u)
      PROVE  TypeOK' /\ MessageFits'
  <2>1. [type |-> "CLEAR_TRIGGER_COUNT", unit |-> u] \in TrigMessage
    BY DEF TrigMessage, ClearCount
  <2> QED
    BY <1>3, <2>1, PostTriggerType DEF TimerCb, TypeOK, MessageFits
<1>4. ASSUME NEW u \in Units, NEW n \in MaxValues, SetMaxTriggers(u, n)
      PROVE  TypeOK' /\ MessageFits'
  BY <1>4 DEF SetMaxTriggers, TypeOK, MessageFits
<1>5. CASE NbRequest
  <2>1. [type |-> "NB_REQUEST"] \in BstMessage
    BY DEF BstMessage
  <2> QED
    BY <1>5, <2>1, AppendFits DEF NbRequest, TypeOK, MessageFits
<1>6. CASE BstReceive
  BY <1>6, TailFits DEF BstReceive, TypeOK, MessageFits
<1>7. CASE ReceiveFails
  BY <1>7 DEF ReceiveFails, TypeOK, MessageFits
<1>8. CASE ReceiveTrigger
  <2> DEFINE m == Head(trigQ)
  <2>1. /\ trigQ' \in Seq(TrigMessage) /\ Len(trigQ') <= TrigQLen
        /\ m \in TrigMessage
    BY <1>8, TailFits DEF ReceiveTrigger, TypeOK
  <2>2. \/ /\ m.unit >= NumUnits
           /\ UNCHANGED <<tpc, tmsg, rcvdErr>>
        \/ m.unit < NumUnits /\ rcvdErr' = 0 /\ tmsg' = m /\ tpc' = Handler(m)
    BY <1>8 DEF ReceiveTrigger
  <2>3. UNCHANGED <<bstQ, count, timer, expired, maxTriggers, tmax, sent>>
    BY <1>8 DEF ReceiveTrigger
  <2> HIDE DEF m
  <2>4. CASE UNCHANGED <<tpc, tmsg, rcvdErr>>
    BY <2>1, <2>3, <2>4 DEF TypeOK, MessageFits
  <2>5. CASE m.unit < NumUnits /\ rcvdErr' = 0 /\ tmsg' = m /\ tpc' = Handler(m)
    <3>1. CASE m \in TriggerCollect
      <4>1. m.type = "TRIGGER_COLLECT" /\ m.unit \in Nat
        BY <3>1 DEF TriggerCollect
      <4>2. m.unit \in Units /\ tpc' = "check"
        BY <2>5, <4>1 DEF Handler, Units
      <4> QED
        BY <2>1, <2>3, <2>5, <3>1, <4>2
        DEF TypeOK, MessageFits, Collecting, Clearing, ThreadStates
    <3>2. CASE m \in ClearCount
      <4>1. tpc' = "clear"
        BY <2>5, <3>2 DEF ClearCount, Handler
      <4> QED
        BY <2>1, <2>3, <2>5, <3>2, <4>1
        DEF TypeOK, MessageFits, Collecting, Clearing, ThreadStates
    <3> QED
      BY <2>1, <3>1, <3>2 DEF TrigMessage
  <2> QED
    BY <2>2, <2>4, <2>5
<1>9. CASE CheckLimit
  BY <1>9
  DEF CheckLimit, TypeOK, MessageFits, Collecting, Clearing, ThreadStates
<1>10. CASE PostReport
  <2>1. tmsg \in TriggerCollect /\ tmsg.unit \in Units
    BY <1>10 DEF PostReport, MessageFits, Collecting
  <2>2. IndexOf(tmsg.counter) \in Index
    BY <2>1, IndexOfType DEF TriggerCollect
  <2>3. [type |-> "TRIGGER_REPORT", unit |-> tmsg.unit,
         counter |-> IndexOf(tmsg.counter)] \in BstMessage
    BY <2>1, <2>2 DEF BstMessage
  <2> DEFINE u == tmsg.unit
             i == IndexOf(tmsg.counter)
             r == [type |-> "TRIGGER_REPORT", unit |-> u, counter |-> i]
  <2>7. \/ UNCHANGED <<bstQ, sent>>
        \/ /\ ~Full(bstQ, BstQLen)
           /\ bstQ' = Append(bstQ, r)
           /\ sent' = [sent EXCEPT ![u][i] = @ + 1]
    BY <1>10 DEF PostReport
  <2>8. r \in BstMessage /\ u \in Units /\ i \in Index
    BY <2>1, <2>2, <2>3
  <2> HIDE DEF u, i, r
  <2>4. bstQ' \in Seq(BstMessage) /\ Len(bstQ') <= BstQLen
    <3>1. bstQ \in Seq(BstMessage) /\ Len(bstQ) <= BstQLen
      BY DEF TypeOK
    <3>2. CASE ~Full(bstQ, BstQLen) /\ bstQ' = Append(bstQ, r)
      BY <2>8, <3>1, <3>2, AppendFits
    <3> QED
      BY <2>7, <3>1, <3>2
  <2>5. sent' \in [Units -> [Index -> Nat]]
    <3>1. sent \in [Units -> [Index -> Nat]]
      BY DEF TypeOK
    <3>2. CASE sent' = [sent EXCEPT ![u][i] = @ + 1]
      BY <2>8, <3>1, <3>2, BumpType
    <3> QED
      BY <2>7, <3>1, <3>2
  <2>6. tpc' \in {"recv", "timer", "bump"}
    BY <1>10 DEF PostReport
  <2> QED
    BY <1>10, <2>1, <2>4, <2>5, <2>6
    DEF PostReport, TypeOK, MessageFits, Collecting, Clearing, ThreadStates
<1>11. CASE TimerAdd
  BY <1>11 DEF TimerAdd, TypeOK, MessageFits, Collecting, Clearing, ThreadStates
<1>12. CASE BumpCount
  <2>1. tmsg.unit \in Units /\ IndexOf(tmsg.counter) \in Index
    BY <1>12, IndexOfType DEF BumpCount, MessageFits, Collecting, TriggerCollect
  <2> QED
    BY <1>12, <2>1
    DEF BumpCount, TypeOK, MessageFits, Collecting, Clearing, ThreadStates
<1>13. CASE ClearCounts
  BY <1>13 DEF ClearCounts, TypeOK, MessageFits, Collecting, Clearing, ThreadStates
<1>14. CASE TimerDelete
  BY <1>14 DEF TimerDelete, TypeOK, MessageFits, Collecting, Clearing, ThreadStates
<1>15. CASE PostEnable
  <2>1. tmsg.unit \in Units
    BY <1>15 DEF PostEnable, MessageFits, Clearing, ClearCount
  <2>2. [type |-> "ENABLE_BST_ON_TRIGGER", unit |-> tmsg.unit] \in BstMessage
    BY <2>1 DEF BstMessage
  <2>3. bstQ' \in Seq(BstMessage) /\ Len(bstQ') <= BstQLen
    BY <1>15, <2>2, AppendFits DEF PostEnable, TypeOK
  <2> QED
    BY <1>15, <2>3
    DEF PostEnable, TypeOK, MessageFits, Collecting, Clearing, ThreadStates
<1>16. CASE UNCHANGED vars
  BY <1>16 DEF vars, TypeOK, MessageFits
<1> QED
  BY <1>1, <1>2, <1>3, <1>4, <1>5, <1>6, <1>7, <1>8, <1>9, <1>10, <1>11,
     <1>12, <1>13, <1>14, <1>15, <1>16 DEF Next, TriggerThread

\* The start has the types.
LEMMA TypeInit == Init => TypeOK /\ MessageFits
  BY TriggerAssumption
  DEF Init, TypeOK, MessageFits, Idle, Collecting, Clearing, ThreadStates

\* TypeOK for every instance: bst_trigger_send_request and bst_send_request
\* never overfill a queue, and every count the thread touches exists.
THEOREM TypeCorrect == Spec => []TypeOK
<1>1. Spec => [](TypeOK /\ MessageFits)
  BY TypeInit, TypeStep, PTL DEF Spec
<1> QED
  BY <1>1, PTL

-----------------------------------------------------------------------------
\* Nothing has been counted or sent at the start.
LEMMA RateInit == Init => SentCounted /\ PostBelowLimit /\ RateLimit
<1> SUFFICES ASSUME Init PROVE SentCounted /\ PostBelowLimit /\ RateLimit
    OBVIOUS
<1>1. tpc = "recv" /\ \A u \in Units, i \in Index : sent[u][i] = 0 /\ count[u][i] = 0
  BY DEF Init
<1>2. PICK n \in MaxValues : n \in Nat
  BY TriggerAssumption
<1>3. RateLimit
  BY <1>1, <1>2 DEF RateLimit
<1> QED
  BY <1>1, <1>3 DEF SentCounted, PostBelowLimit, Pending

\* A step that changes neither the reports posted nor the counts, and is not
\* between a post and its count, keeps the bounds.
LEMMA RateKept ==
  ASSUME RateInv, UNCHANGED <<count, sent>>,
         tpc \notin {"timer", "bump"}, tpc' # "post"
  PROVE  SentCounted' /\ PostBelowLimit' /\ RateLimit'
  BY TriggerAssumption
  DEF RateInv, TypeOK, SentCounted, PostBelowLimit, RateLimit, Pending

\* Every step keeps RateInv.
LEMMA RateStep == RateInv /\ [Next]_vars => RateInv'
<1> SUFFICES ASSUME RateInv, [Next]_vars
             PROVE  RateInv'
    OBVIOUS
<1> USE TriggerAssumption
<1>a. TypeOK' /\ MessageFits'
  BY TypeStep DEF RateInv
<1>b. SUFFICES SentCounted' /\ PostBelowLimit' /\ RateLimit'
  BY <1>a DEF RateInv
<1>c. /\ sent \in [Units -> [Index -> Nat]]
      /\ count \in [Units -> [Index -> Nat]]
      /\ maxTriggers \in [Units -> MaxValues]
  BY DEF RateInv, TypeOK
<1>1. CASE UNCHANGED <<tpc, tmsg, tmax, count, sent>>
  BY <1>1 DEF RateInv, SentCounted, PostBelowLimit, RateLimit, Pending
<1>2. CASE ReceiveTrigger
  <2>1. tpc' # "post" /\ tpc = "recv"
    BY <1>2 DEF ReceiveTrigger, Handler
  <2> QED
    BY <1>2, <2>1, RateKept DEF ReceiveTrigger
<1>3. CASE CheckLimit
  <2> DEFINE u == tmsg.unit
             i == IndexOf(tmsg.counter)
  <2>1. u \in Units /\ i \in Index
    BY <1>3, IndexOfType
    DEF CheckLimit, RateInv, MessageFits, Collecting, TriggerCollect
  <2>2. \A v \in Units, j \in Index : sent[v][j] <= count[v][j]
    BY <1>3, <1>c DEF CheckLimit, RateInv, SentCounted, Pending
  <2>3. SentCounted'
    BY <1>3, <1>c, <2>2 DEF CheckLimit, SentCounted, Pending
  <2>4. tpc' = "post" => /\ tmax' = maxTriggers[u]
                         /\ ~(count[u][i] >= maxTriggers[u] /\ maxTriggers[u] # 0)
    BY <1>3 DEF CheckLimit
  <2>6. /\ count[u][i] \in Nat /\ sent[u][i] \in Nat
        /\ maxTriggers[u] \in MaxValues /\ maxTriggers[u] \in Nat \ {0}
        /\ sent[u][i] <= count[u][i]
    BY <1>c, <2>1, <2>2
  <2> HIDE DEF u, i
  <2>5. tpc' = "post" => tmax' \in MaxValues /\ sent[u][i] < tmax'
    BY <2>4, <2>6
  <2> USE DEF u, i
  <2> QED
    BY <1>3, <2>3, <2>5 DEF CheckLimit, PostBelowLimit, RateInv, RateLimit
<1>4. CASE PostReport
  <2> DEFINE u == tmsg.unit
             i == IndexOf(tmsg.counter)
  <2>1. u \in Units /\ i \in Index
    BY <1>4, IndexOfType
    DEF PostReport, RateInv, MessageFits, Collecting, TriggerCollect
  <2>2. CASE UNCHANGED sent
    BY <1>4, <2>2, RateKept DEF PostReport
  <2>3. CASE sent' = [sent EXCEPT ![u][i] = @ + 1] /\ tpc' \in {"timer", "bump"}
    <3>1. \A v \in Units, j \in Index :
            sent'[v][j] = sent[v][j] + (IF v = u /\ j = i THEN 1 ELSE 0)
      BY <1>c, <2>1, <2>3, BumpType
    <3>2. \A v \in Units, j \in Index : sent[v][j] <= count[v][j]
      BY <1>4, <1>c DEF PostReport, RateInv, SentCounted, Pending
    <3>3. tmax \in MaxValues /\ sent[u][i] < tmax
      BY <1>4 DEF PostReport, RateInv, PostBelowLimit
    <3>4. UNCHANGED <<count, tmsg>>
      BY <1>4 DEF PostReport
    <3>5. SentCounted'
      BY <1>c, <2>3, <3>1, <3>2, <3>4 DEF SentCounted, Pending
    <3>6. RateLimit'
      <4> SUFFICES ASSUME NEW v \in Units, NEW j \in Index
                   PROVE  \E n \in MaxValues : sent'[v][j] <= n
          BY DEF RateLimit
      <4>1. CASE v = u /\ j = i
        BY <1>c, <2>1, <3>1, <3>3, <4>1
      <4>2. CASE ~(v = u /\ j = i)
        BY <1>c, <3>1, <4>2 DEF RateInv, RateLimit
      <4> QED
        BY <4>1, <4>2
    <3> QED
      BY <2>3, <3>5, <3>6 DEF PostBelowLimit
  <2> QED
    BY <1>4, <2>2, <2>3 DEF PostReport
<1>5. CASE TimerAdd
  BY <1>5, <1>c
  DEF TimerAdd, RateInv, SentCounted, PostBelowLimit, RateLimit, Pending
<1>6. CASE BumpCount
  <2> DEFINE u == tmsg.unit
             i == IndexOf(tmsg.counter)
  <2>1. u \in Units /\ i \in Index
    BY <1>6, IndexOfType
    DEF BumpCount, RateInv, MessageFits, Collecting, TriggerCollect
  <2>2. \A v \in Units, j \in Index :
          count'[v][j] = count[v][j] + (IF v = u /\ j = i THEN 1 ELSE 0)
    BY <1>6, <1>c, <2>1, BumpType DEF BumpCount
  <2>3. UNCHANGED sent /\ tpc' = "recv" /\ tpc = "bump"
    BY <1>6 DEF BumpCount
  <2>4. SentCounted'
    BY <1>c, <2>2, <2>3 DEF RateInv, SentCounted, Pending
  <2> QED
    BY <2>3, <2>4 DEF RateInv, RateLimit, PostBelowLimit
<1>7. CASE ClearCounts
  <2>1. tmsg.unit \in Units
    BY <1>7 DEF ClearCounts, RateInv, MessageFits, Clearing, ClearCount
  <2>2. \A v \in Units, j \in Index :
          /\ count'[v][j] = IF v = tmsg.unit THEN 0 ELSE count[v][j]
          /\ sent'[v][j] = IF v = tmsg.unit THEN 0 ELSE sent[v][j]
    BY <1>7, <1>c, <2>1 DEF ClearCounts
  <2>3. tpc = "clear" /\ tpc' \in {"untimer", "enable"}
    BY <1>7 DEF ClearCounts
  <2>4. SentCounted'
    BY <1>c, <2>2, <2>3 DEF RateInv, SentCounted, Pending
  <2>5. RateLimit'
    BY <1>c, <2>2 DEF RateInv, RateLimit
  <2> QED
    BY <2>3, <2>4, <2>5 DEF PostBelowLimit
<1>8. CASE TimerDelete
  BY <1>8, RateKept DEF TimerDelete
<1>9. CASE PostEnable
  BY <1>9, RateKept DEF PostEnable
<1> QED
  BY <1>1, <1>2, <1>3, <1>4, <1>5, <1>6, <1>7, <1>8, <1>9
  DEF Next, TriggerThread, TriggerCb, TimerExpires, TimerCb, SetMaxTriggers,
      NbRequest, BstReceive, ReceiveFails, vars

\* RateLimit for every instance, with or without failing timers, failing
\* receives and counters outside the map.
THEOREM RateLimited == Spec => []RateLimit
<1>1. Init => RateInv
  BY TypeInit, RateInit DEF RateInv
<1>2. RateInv => RateLimit
  BY DEF RateInv
<1> QED
  BY <1>1, <1>2, RateStep, PTL DEF Spec

-----------------------------------------------------------------------------
\* CountedHasTimer holds at every step, not only between messages, because the
\* thread that is about to count already armed the timer (or found a count
\* above zero) and the one that is about to delete it has just cleared.
TimerInv ==
  /\ TypeOK /\ MessageFits
  /\ \A u \in Units : \A i \in Index : count[u][i] > 0 => timer[u]
  /\ tpc = "post" => tmax # 0
  /\ tpc = "bump" => timer[tmsg.unit]
  /\ tpc = "untimer" => \A i \in Index : count[tmsg.unit][i] = 0

\* Every step keeps TimerInv when all counters are mapped and timers do not
\* fail.
LEMMA TimerStep ==
  ASSUME Unmapped = {}, ~TimerFaults
  PROVE  TimerInv /\ [Next]_vars => TimerInv'
<1> SUFFICES ASSUME TimerInv, [Next]_vars
             PROVE  TimerInv'
    OBVIOUS
<1> USE TriggerAssumption
<1>a. TypeOK' /\ MessageFits'
  BY TypeStep DEF TimerInv
<1>b. /\ count \in [Units -> [Index -> Nat]]
      /\ timer \in [Units -> BOOLEAN]
      /\ maxTriggers \in [Units -> MaxValues]
  BY DEF TimerInv, TypeOK
<1>1. CASE UNCHANGED <<tpc, tmsg, tmax, count, timer>>
  BY <1>1, <1>a DEF TimerInv
<1>2. CASE ReceiveTrigger
  <2>1. tpc' \notin {"post", "bump", "untimer"}
    BY <1>2 DEF ReceiveTrigger, Handler
  <2> QED
    BY <1>2, <1>a, <2>1 DEF ReceiveTrigger, TimerInv
<1>3. CASE CheckLimit
  <2>1. /\ tmsg.unit \in Units /\ Mapped(tmsg.counter)
        /\ IndexOf(tmsg.counter) \in Index
    BY <1>3, IndexOfType
    DEF CheckLimit, TimerInv, MessageFits, Collecting, TriggerCollect, Counters,
        Mapped
  <2>2. maxTriggers[tmsg.unit] \in Nat \ {0}
    BY <1>b, <2>1
  <2>3. count[tmsg.unit][IndexOf(tmsg.counter)] \in Nat
    BY <1>b, <2>1
  <2>4. /\ tmax' = maxTriggers[tmsg.unit]
        /\ tpc' \in {"bump", "post"}
        /\ tpc' = "bump" =>
             count[tmsg.unit][IndexOf(tmsg.counter)] >= maxTriggers[tmsg.unit]
        /\ UNCHANGED <<count, timer, tmsg>>
    BY <1>3, <2>1 DEF CheckLimit
  <2>5. tpc' = "bump" => count[tmsg.unit][IndexOf(tmsg.counter)] > 0
    BY <2>2, <2>3, <2>4
  <2> QED
    BY <1>a, <2>1, <2>2, <2>4, <2>5 DEF TimerInv
<1>4. CASE PostReport
  <2>1. tmsg.unit \in Units /\ IndexOf(tmsg.counter) \in Index
    BY <1>4, IndexOfType
    DEF PostReport, TimerInv, MessageFits, Collecting, TriggerCollect
  <2>2. count[tmsg.unit][IndexOf(tmsg.counter)] \in Nat
    BY <1>b, <2>1
  <2>3. /\ tpc' \in {"recv", "timer", "bump"}
        /\ tpc' = "bump" => count[tmsg.unit][IndexOf(tmsg.counter)] # 0
        /\ UNCHANGED <<count, timer, tmsg>>
    BY <1>4 DEF PostReport, TimerInv
  <2> QED
    BY <1>a, <2>1, <2>2, <2>3 DEF TimerInv
<1>5. CASE TimerAdd
  <2>1. tmsg.unit \in Units
    BY <1>5 DEF TimerAdd, TimerInv, MessageFits, Collecting
  <2> QED
    BY <1>5, <1>a, <1>b, <2>1 DEF TimerAdd, TimerInv
<1>6. CASE BumpCount
  <2>1. tmsg.unit \in Units /\ IndexOf(tmsg.counter) \in Index
    BY <1>6, IndexOfType
    DEF BumpCount, TimerInv, MessageFits, Collecting, TriggerCollect
  <2>2. \A v \in Units, j \in Index :
          v # tmsg.unit => count'[v][j] = count[v][j]
    BY <1>6, <1>b, <2>1 DEF BumpCount
  <2>3. timer[tmsg.unit] /\ UNCHANGED timer /\ tpc' = "recv"
    BY <1>6 DEF BumpCount, TimerInv
  <2> QED
    BY <1>a, <2>2, <2>3 DEF TimerInv
<1>7. CASE ClearCounts
  <2>1. tmsg.unit \in Units
    BY <1>7 DEF ClearCounts, TimerInv, MessageFits, Clearing, ClearCount
  <2>2. \A v \in Units, j \in Index :
          count'[v][j] = IF v = tmsg.unit THEN 0 ELSE count[v][j]
    BY <1>7, <1>b, <2>1 DEF ClearCounts
  <2>3. UNCHANGED <<timer, tmsg>> /\ tpc' \in {"untimer", "enable"}
    BY <1>7 DEF ClearCounts
  <2> QED
    BY <1>a, <2>1, <2>2, <2>3 DEF TimerInv
<1>8. CASE TimerDelete
  <2>1. tmsg.unit \in Units
    BY <1>8 DEF TimerDelete, TimerInv, MessageFits, Clearing, ClearCount
  <2>2. \A v \in Units : v # tmsg.unit => timer'[v] = timer[v]
    BY <1>8, <1>b, <2>1 DEF TimerDelete
  <2>3. tpc = "untimer" /\ tpc' = "enable" /\ UNCHANGED count
    BY <1>8 DEF TimerDelete
  <2> QED
    BY <1>a, <2>2, <2>3 DEF TimerInv
<1>9. CASE PostEnable
  BY <1>9, <1>a DEF PostEnable, TimerInv
<1> QED
  BY <1>1, <1>2, <1>3, <1>4, <1>5, <1>6, <1>7, <1>8, <1>9
  DEF Next, TriggerThread, TriggerCb, TimerExpires, TimerCb, SetMaxTriggers,
      NbRequest, BstReceive, ReceiveFails, vars

\* CountedHasTimer for every instance in which every counter is in
\* bst_realm_index_map and the system's timer calls succeed; without either
\* assumption it is false.
THEOREM CountedTimed ==
  ASSUME Unmapped = {}, ~TimerFaults
  PROVE  Spec => []CountedHasTimer
<1>1. Init => TimerInv
  <2>1. Init => tpc = "recv" /\ \A u \in Units : \A i \in Index : count[u][i] = 0
    BY DEF Init
  <2> QED
    BY <2>1, TypeInit DEF TimerInv
<1>2. TimerInv => CountedHasTimer
  BY DEF TimerInv, CountedHasTimer
<1>3. TimerInv /\ [Next]_vars => TimerInv'
  BY TimerStep
<1> QED
  BY <1>1, <1>2, <1>3, PTL DEF Spec
=============================================================================
