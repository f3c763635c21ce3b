----------------------------- MODULE BstTrigger -----------------------------
(***************************************************************************)
(* Threshold triggers of the BST application (bst_trigger.c and the        *)
(* trigger handlers of bst_main.c).                                        *)
(*                                                                         *)
(* The plugin thread calls bst_trigger_cb for every row the ASIC reports   *)
(* as triggered; the callback posts TRIGGER_COLLECT to the trigger queue.  *)
(* The trigger thread counts triggers per (realm, counter) index, posts a  *)
(* TRIGGER_REPORT to the bst queue while the count is below the rate       *)
(* limit, and runs a periodic timer whose callback posts                   *)
(* CLEAR_TRIGGER_COUNT.  Both queues are System V queues written with      *)
(* IPC_NOWAIT: a message for a full queue is lost.                         *)
(*                                                                         *)
(* A handler is split where it releases or takes the unit's rwlock, so     *)
(* the bst thread and the timer threads run between its steps.             *)
(***************************************************************************)
EXTENDS Naturals, Sequences, FiniteSets

CONSTANTS
  NumUnits,      \* what sbapi_system_num_units_get returns
  AsicUnits,     \* unit numbers the driver's rows carry, valid or not
  Index,         \* the (realm, counter) pairs of bst_realm_index_map
  Device,        \* BST_ID_DEVICE, index 0 of the count array
  Unmapped,      \* counters of bid_tab_params that the map does not list
  MaxValues,     \* values bstMaxTriggers is configured to
  TrigQLen,      \* capacity of the trigger queue
  BstQLen,       \* capacity of the bst queue
  MaxQueueFails, \* BVIEW_BST_MAX_QUEUE_SEND_FAILS
  CountBound,    \* the ASIC pauses once a count is this high (model bound)
  TimerFaults,   \* can system_timer_add and system_timer_delete fail?
  RecvFaults     \* can msgrcv fail?

Units == 0 .. NumUnits - 1

ASSUME TriggerAssumption ==
  /\ NumUnits \in Nat \ {0}
  /\ AsicUnits \subseteq Nat
  /\ Device \in Index
  /\ Index \cap Unmapped = {}
  \* REST accepts 1..30 and the plugin's cache never reports 0
  /\ MaxValues \subseteq Nat \ {0}
  /\ MaxValues # {}
  /\ TrigQLen \in Nat \ {0}
  /\ BstQLen \in Nat \ {0}
  /\ MaxQueueFails \in Nat
  /\ CountBound \in Nat
  /\ TimerFaults \in BOOLEAN
  /\ RecvFaults \in BOOLEAN

VARIABLES
  trigQ,        \* messages in recvTriggerMsgQid
  bstQ,         \* messages in recvMsgQid
  count,        \* bst_trigger_count of every unit
  timer,        \* bst_trigger_timer.in_use of every unit
  expired,      \* a timer callback thread has started and not yet posted
  maxTriggers,  \* config.bstMaxTriggers of every unit
  tpc,          \* where the trigger thread is
  tmsg,         \* the message it handles
  tmax,         \* its local copy of bstMaxTriggers
  rcvdErr,      \* consecutive msgrcv failures of the trigger thread
  sent          \* history: reports posted since the counts were last cleared

vars == <<trigQ, bstQ, count, timer, expired, maxTriggers, tpc, tmsg, tmax,
          rcvdErr, sent>>

Counters == Index \cup Unmapped

TriggerCollect == [type : {"TRIGGER_COLLECT"}, unit : AsicUnits, counter : Counters]
ClearCount     == [type : {"CLEAR_TRIGGER_COUNT"}, unit : Units]
TrigMessage    == TriggerCollect \cup ClearCount

BstMessage == [type : {"TRIGGER_REPORT"}, unit : Units, counter : Index]
                \cup [type : {"ENABLE_BST_ON_TRIGGER"}, unit : Units]
                \cup [type : {"NB_REQUEST"}]

Idle == [type |-> "NONE"]

\* msgsnd with IPC_NOWAIT: a full queue refuses the message
Full(q, cap) == Len(q) >= cap

\* bst_trigger_index_get: found is its result, and the index it leaves in
\* *val (0 from the caller when the pair is not in the map)
Mapped(c)  == c \in Index
IndexOf(c) == IF Mapped(c) THEN c ELSE Device

Init ==
  /\ trigQ = <<>>
  /\ bstQ = <<>>
  /\ count = [u \in Units |-> [i \in Index |-> 0]]
  /\ timer = [u \in Units |-> FALSE]
  /\ expired = [u \in Units |-> FALSE]
  /\ maxTriggers \in [Units -> MaxValues]
  /\ tpc = "recv"
  /\ tmsg = Idle
  /\ tmax = 0
  /\ rcvdErr = 0
  /\ sent = [u \in Units |-> [i \in Index |-> 0]]

-----------------------------------------------------------------------------
(* The threads around the trigger thread *)

\* mutant: the queue length is compared off by one
PostTriggerUnbounded(m) ==
  trigQ' = IF Len(trigQ) > TrigQLen THEN trigQ ELSE Append(trigQ, m)

\* bst_trigger_send_request
PostTrigger(m) ==
  trigQ' = IF Full(trigQ, TrigQLen) THEN trigQ ELSE Append(trigQ, m)

\* bst_trigger_cb, in the plugin's monitor thread
TriggerCb(u, c) ==
  /\ \A v \in Units, i \in Index : count[v][i] + Len(trigQ) < CountBound
  /\ PostTrigger([type |-> "TRIGGER_COLLECT", unit |-> u, counter |-> c])
  /\ UNCHANGED <<bstQ, count, timer, expired, maxTriggers, tpc, tmsg, tmax,
                 rcvdErr, sent>>

\* the periodic timer expires and starts a callback thread (SIGEV_THREAD)
TimerExpires(u) ==
  /\ timer[u]
  /\ ~expired[u]
  /\ expired' = [expired EXCEPT ![u] = TRUE]
  /\ UNCHANGED <<trigQ, bstQ, count, timer, maxTriggers, tpc, tmsg, tmax,
                 rcvdErr, sent>>

\* bst_trigger_timer_cb; the timer may have been deleted since it expired
TimerCb(u) ==
  /\ expired[u]
  /\ expired' = [expired EXCEPT ![u] = FALSE]
  /\ PostTrigger([type |-> "CLEAR_TRIGGER_COUNT", unit |-> u])
  /\ UNCHANGED <<bstQ, count, timer, maxTriggers, tpc, tmsg, tmax, rcvdErr, sent>>

\* the bst thread takes its next message
BstReceive ==
  /\ bstQ # <<>>
  /\ bstQ' = Tail(bstQ)
  /\ UNCHANGED <<trigQ, count, timer, expired, maxTriggers, tpc, tmsg, tmax,
                 rcvdErr, sent>>

\* the bst thread stores a new limit, SET_FEATURE or UPDATE_FEATURE, under
\* the write lock
SetMaxTriggers(u, n) ==
  /\ maxTriggers' = [maxTriggers EXCEPT ![u] = n]
  /\ UNCHANGED <<trigQ, bstQ, count, timer, expired, tpc, tmsg, tmax, rcvdErr, sent>>

\* every other producer of the bst queue: a REST handler, the collection
\* timer, a configuration notification
NbRequest ==
  /\ ~Full(bstQ, BstQLen)
  /\ bstQ' = Append(bstQ, [type |-> "NB_REQUEST"])
  /\ UNCHANGED <<trigQ, count, timer, expired, maxTriggers, tpc, tmsg, tmax,
                 rcvdErr, sent>>

-----------------------------------------------------------------------------
(* The trigger thread: bst_trigger_main *)

Handler(m) == IF m.type = "TRIGGER_COLLECT" THEN "check" ELSE "clear"

\* a message for a unit the system does not have is logged and dropped
ReceiveTrigger ==
  /\ tpc = "recv"
  /\ rcvdErr <= MaxQueueFails
  /\ trigQ # <<>>
  /\ trigQ' = Tail(trigQ)
  /\ LET m == Head(trigQ) IN
       \/ /\ m.unit >= NumUnits
          /\ UNCHANGED <<tpc, tmsg, rcvdErr>>
       \/ /\ m.unit < NumUnits
          /\ rcvdErr' = 0
          /\ tmsg' = m
          /\ tpc' = Handler(m)
  /\ UNCHANGED <<bstQ, count, timer, expired, maxTriggers, tmax, sent>>

\* msgrcv fails; more than MaxQueueFails failures in a row end the thread
ReceiveFails ==
  /\ RecvFaults
  /\ tpc = "recv"
  /\ rcvdErr <= MaxQueueFails
  /\ rcvdErr' = rcvdErr + 1
  /\ UNCHANGED <<trigQ, bstQ, count, timer, expired, maxTriggers, tpc, tmsg,
                 tmax, sent>>

\* mutant: the limit is passed, not reached
CheckLimitOffByOne ==
  /\ tpc = "check"
  /\ LET u == tmsg.unit
         i == IndexOf(tmsg.counter)
     IN /\ tmax' = IF Mapped(tmsg.counter) THEN maxTriggers[u] ELSE 0
        /\ tpc' = IF Mapped(tmsg.counter) /\ count[u][i] <= maxTriggers[u]
                    THEN "post" ELSE "bump"
  /\ UNCHANGED <<trigQ, bstQ, count, timer, expired, maxTriggers, tmsg,
                 rcvdErr, sent>>

\* bst_process_trigger up to the release of the read lock: a counter outside
\* the map is never reported and the limit is not read
CheckLimit ==
  /\ tpc = "check"
  /\ LET u == tmsg.unit
         i == IndexOf(tmsg.counter)
     IN \/ /\ Mapped(tmsg.counter)
           /\ tmax' = maxTriggers[u]
           /\ tpc' = IF count[u][i] >= maxTriggers[u] /\ maxTriggers[u] # 0
                       THEN "bump" ELSE "post"
        \/ /\ ~Mapped(tmsg.counter)
           /\ tmax' = 0
           /\ tpc' = "bump"
  /\ UNCHANGED <<trigQ, bstQ, count, timer, expired, maxTriggers, tmsg,
                 rcvdErr, sent>>

\* the report is posted; when the bst queue is full the handler returns and
\* the trigger is not counted
PostReport ==
  /\ tpc = "post"
  /\ LET u == tmsg.unit
         i == IndexOf(tmsg.counter)
     IN \/ /\ Full(bstQ, BstQLen)
           /\ tpc' = "recv"
           /\ UNCHANGED <<bstQ, sent>>
        \/ /\ ~Full(bstQ, BstQLen)
           /\ bstQ' = Append(bstQ, [type |-> "TRIGGER_REPORT", unit |-> u,
                                    counter |-> i])
           /\ sent' = [sent EXCEPT ![u][i] = @ + 1]
           /\ tpc' = IF count[u][i] = 0 /\ tmax # 0 THEN "timer" ELSE "bump"
  /\ UNCHANGED <<trigQ, count, timer, expired, maxTriggers, tmsg, tmax, rcvdErr>>

\* bst_trigger_timer_add, under the write lock; the handler ignores its result
TimerAdd ==
  /\ tpc = "timer"
  /\ \/ timer' = [timer EXCEPT ![tmsg.unit] = TRUE]
     \/ TimerFaults /\ UNCHANGED timer
  /\ tpc' = "bump"
  /\ UNCHANGED <<trigQ, bstQ, count, expired, maxTriggers, tmsg, tmax, rcvdErr, sent>>

\* the write-locked tail of bst_process_trigger, reached whether or not a
\* report was posted
BumpCount ==
  /\ tpc = "bump"
  /\ count' = [count EXCEPT ![tmsg.unit][IndexOf(tmsg.counter)] = @ + 1]
  /\ tpc' = "recv"
  /\ UNCHANGED <<trigQ, bstQ, timer, expired, maxTriggers, tmsg, tmax, rcvdErr, sent>>

\* mutant: the loop over the counts stops after its first index
ClearCountsFirstOnly ==
  /\ tpc = "clear"
  /\ LET u == tmsg.unit IN
       /\ tpc' = IF count[u][Device] = 0 THEN "untimer" ELSE "enable"
       /\ count' = [count EXCEPT ![u][Device] = 0]
       /\ sent' = [sent EXCEPT ![u] = [i \in Index |-> 0]]
  /\ UNCHANGED <<trigQ, bstQ, timer, expired, maxTriggers, tmsg, tmax, rcvdErr>>

\* mutant: the counts are looked at and never reset
ClearCountsNoReset ==
  /\ tpc = "clear"
  /\ tpc' = IF \A i \in Index : count[tmsg.unit][i] = 0 THEN "untimer" ELSE "enable"
  /\ UNCHANGED <<trigQ, bstQ, count, timer, expired, maxTriggers, tmsg, tmax,
                 rcvdErr, sent>>

\* bst_clear_trigger_count: the write-locked part
ClearCounts ==
  /\ tpc = "clear"
  /\ LET u == tmsg.unit IN
       /\ tpc' = IF \A i \in Index : count[u][i] = 0 THEN "untimer" ELSE "enable"
       /\ count' = [count EXCEPT ![u] = [i \in Index |-> 0]]
       /\ sent' = [sent EXCEPT ![u] = [i \in Index |-> 0]]
  /\ UNCHANGED <<trigQ, bstQ, timer, expired, maxTriggers, tmsg, tmax, rcvdErr>>

\* mutant: the timer is kept whatever the counts say
TimerDeleteSkipped ==
  /\ tpc = "untimer"
  /\ tpc' = "enable"
  /\ UNCHANGED <<trigQ, bstQ, count, timer, expired, maxTriggers, tmsg, tmax,
                 rcvdErr, sent>>

\* bst_trigger_timer_delete, when no index had counted a trigger
TimerDelete ==
  /\ tpc = "untimer"
  /\ \/ timer' = [timer EXCEPT ![tmsg.unit] = FALSE]
     \/ TimerFaults /\ UNCHANGED timer
  /\ tpc' = "enable"
  /\ UNCHANGED <<trigQ, bstQ, count, expired, maxTriggers, tmsg, tmax, rcvdErr, sent>>

\* the bst thread is asked to enable BST again; a full queue loses the request
PostEnable ==
  /\ tpc = "enable"
  /\ bstQ' = IF Full(bstQ, BstQLen) THEN bstQ
             ELSE Append(bstQ, [type |-> "ENABLE_BST_ON_TRIGGER", unit |-> tmsg.unit])
  /\ tpc' = "recv"
  /\ UNCHANGED <<trigQ, count, timer, expired, maxTriggers, tmsg, tmax, rcvdErr, sent>>

-----------------------------------------------------------------------------
TriggerThread ==
  \/ ReceiveTrigger
  \/ CheckLimit
  \/ PostReport
  \/ TimerAdd
  \/ BumpCount
  \/ ClearCounts
  \/ TimerDelete
  \/ PostEnable

Next ==
  \/ \E u \in AsicUnits, c \in Counters : TriggerCb(u, c)
  \/ \E u \in Units : TimerExpires(u)
  \/ \E u \in Units : TimerCb(u)
  \/ \E u \in Units, n \in MaxValues : SetMaxTriggers(u, n)
  \/ NbRequest
  \/ BstReceive
  \/ ReceiveFails
  \/ TriggerThread

Spec == Init /\ [][Next]_vars

\* The threads of the daemon are scheduled and an armed timer expires; the
\* ASIC, the operator and the REST clients owe nothing.
Fairness ==
  /\ WF_vars(TriggerThread)
  /\ WF_vars(BstReceive)
  /\ \A u \in Units : WF_vars(TimerExpires(u)) /\ WF_vars(TimerCb(u))

\* A callback that finds the trigger queue full loses its clear message, and
\* nothing in the code stops the ASIC from keeping the queue full.  The
\* environment assumption: not all of a unit's callbacks find it full.
NoOverload ==
  \A u \in Units :
    []<><<TimerCb(u)>>_vars => []<><<TimerCb(u) /\ ~Full(trigQ, TrigQLen)>>_vars

FairSpec == Spec /\ Fairness /\ NoOverload

-----------------------------------------------------------------------------
(* Properties *)

ThreadStates == {"recv", "check", "post", "timer", "bump", "clear", "untimer",
                 "enable"}

\* Every variable has its type and neither System V queue exceeds its capacity.
TypeOK ==
  /\ trigQ \in Seq(TrigMessage) /\ Len(trigQ) <= TrigQLen
  /\ bstQ \in Seq(BstMessage) /\ Len(bstQ) <= BstQLen
  /\ count \in [Units -> [Index -> Nat]]
  /\ timer \in [Units -> BOOLEAN]
  /\ expired \in [Units -> BOOLEAN]
  /\ maxTriggers \in [Units -> MaxValues]
  /\ tpc \in ThreadStates
  /\ tmsg \in TrigMessage \cup {Idle}
  /\ tmax \in MaxValues \cup {0}
  /\ rcvdErr \in 0 .. MaxQueueFails + 1
  /\ sent \in [Units -> [Index -> Nat]]

\* Between two clears of the counts bst_process_trigger never posts more
\* reports for one counter than some limit that was configured, although it
\* tests the count under one lock, posts without a lock and counts under
\* another, and the bst thread changes the limit in between.
RateLimit ==
  \A u \in Units, i \in Index : \E n \in MaxValues : sent[u][i] <= n

\* When the trigger thread waits for a message, a unit that has counted a
\* trigger has its timer armed: bst_process_trigger adds the timer before it
\* counts, and bst_clear_trigger_count deletes it only after it found all
\* counts zero.  Otherwise nothing would ever clear the counts.
CountedHasTimer ==
  tpc = "recv" => \A u \in Units, i \in Index : count[u][i] > 0 => timer[u]

\* A counter at its limit does not stay there: the timer's clear message
\* reaches the trigger thread and reports are sent again (bst_trigger_cb:
\* "the trigger is generated by the asic and bst application take a trigger
\* report and sends the same to collector").
SuppressionEnds ==
  \A u \in Units, i \in Index :
    count[u][i] >= maxTriggers[u] ~> count[u][i] < maxTriggers[u]

\* A unit whose counts stay at zero does not keep its timer running
\* (bst_clear_trigger_count: "If no triggers are there, the timer can be
\* cleared and restarted as and when required").
IdleTimerStops ==
  \A u \in Units :
    []<>(~timer[u] \/ \E i \in Index : count[u][i] > 0)
=============================================================================
