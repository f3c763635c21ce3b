----------------------------- MODULE BstReport ------------------------------
(***************************************************************************)
(* Collections and reports of one unit: the three statistics records that  *)
(* bst_get_report fills and bst_update_data rotates, the timer that asks   *)
(* for periodic collections, and what the encoder puts into a report.      *)
(*                                                                         *)
(* The bst thread handles one message at a time.  A collection copies the  *)
(* plugin's counters realm by realm, each realm under the cache's lock, so *)
(* the monitor thread updates counters in between.  A periodic report is   *)
(* the difference to the record collected before it; periodic and trigger  *)
(* reports go to the collector, the others to the client that asked.  The  *)
(* records rotate before the report is encoded and sent, and what becomes  *)
(* of it changes nothing: the agent does not send it again.                *)
(***************************************************************************)
EXTENDS Naturals, Sequences, SystemTimer

CONSTANTS
  NumRealms,      \* realms a snapshot has, in the order it reads them
  Values,         \* counter values, 0 among them
  Intervals,      \* collection intervals
  Confs,          \* configurations a client can send
  DefaultConf,    \* the one bst_app_config_init stores
  TrackSets,      \* sets of realms that can be tracked or asked for
  QLen,           \* capacity of the bst queue
  MaxFaults       \* failures of timer_create, _settime and _delete (model bound)

Realms == 1 .. NumRealms
Conf   == [async : BOOLEAN, incr : BOOLEAN, snap : BOOLEAN, interval : Intervals]

ASSUME ReportAssumption ==
  /\ NumRealms \in Nat \ {0}
  /\ 0 \in Values
  /\ Confs \subseteq Conf
  /\ DefaultConf \in Conf /\ ~DefaultConf.async
  /\ TrackSets # {} /\ TrackSets \subseteq SUBSET Realms
  /\ QLen \in Nat \ {0}
  /\ Intervals \subseteq Nat \ {0}
  /\ MaxFaults \in Nat

VARIABLES
  counters,  \* the statistics in the plugin's cache
  data,      \* what stats_active, _backup and _current_record_ptr point to
  conf,      \* the configuration a report depends on
  track,     \* the realms that are tracked
  timer,     \* bst_collection_timer, and the interval the kernel's timer runs at
  orphans,   \* running timers whose id was overwritten
  faults,    \* history: failures of the timer so far
  broken,    \* history: the last start or stop of the timer has failed
  bstQ,      \* messages in recvMsgQid
  pc,        \* where the bst thread is
  req,       \* the message it handles
  realm,     \* the realm the collection reads next
  rv,        \* the handler's result
  view,      \* history: what the collector knows of every counter
  synced     \* history: every report since a full one has arrived (CollectorSynced)

timerVars == <<timer, orphans, faults, broken>>

vars == <<counters, data, conf, track, timerVars, bstQ, pc, req, realm,
          rv, view, synced>>

\* the record a pointer names never matters, only what it holds
Records  == {"active", "backup", "current"}
Snapshot == [Realms -> Values]
Zero     == [r \in Realms |-> 0]

Message ==
  [type : {"SET_FEATURE"}, conf : Confs]
    \cup [type : {"SET_TRACK", "GET"}, realms : TrackSets]
    \cup [type : {"TRIGGER"}, realm : Realms]
    \cup [type : {"PERIODIC", "CLEAR_STATS"}]

Idle == [type |-> "NONE"]

\* bst_main clears the records and bst_app_config_init stores the defaults
Init ==
  /\ counters = Zero
  /\ data = [record \in Records |-> Zero]
  /\ conf = DefaultConf
  /\ track \in TrackSets
  /\ timer = [inUse |-> FALSE, runs |-> 0]
  /\ orphans = 0 /\ faults = 0 /\ broken = FALSE
  /\ bstQ = <<>>
  /\ pc = "recv"
  /\ req = Idle
  /\ realm = 1
  /\ rv = TRUE
  /\ view = Zero
  /\ synced = TRUE

-----------------------------------------------------------------------------
(* The other threads *)

\* mutant: a message more than the queue holds
PostUnbounded(m) == bstQ' = IF Len(bstQ) > QLen THEN bstQ ELSE Append(bstQ, m)

\* bst_send_request
Post(m) == bstQ' = IF Len(bstQ) >= QLen THEN bstQ ELSE Append(bstQ, m)

\* REST handlers and the trigger thread
Request ==
  /\ \E m \in Message : m.type # "PERIODIC" /\ Post(m)
  /\ UNCHANGED <<counters, data, conf, track, timerVars, pc, req,
                 realm, rv, view, synced>>

\* bst_periodic_collection_cb, for the unit's timer or for an orphan
TimerCb ==
  /\ timer.runs # 0 \/ orphans > 0
  /\ Post([type |-> "PERIODIC"])
  /\ UNCHANGED <<counters, data, conf, track, timerVars, pc, req,
                 realm, rv, view, synced>>

\* the monitor thread stores a counter the driver has updated
MonitorStat ==
  /\ \E r \in Realms, v \in Values :
       v # counters[r] /\ counters' = [counters EXCEPT ![r] = v]
  /\ UNCHANGED <<data, conf, track, timerVars, bstQ, pc, req, realm,
                 rv, view, synced>>

\* rest_agent_config_params_modify: reports go to another collector, which has
\* not seen any
CollectorMoves ==
  /\ view' = Zero
  /\ synced' = FALSE
  /\ UNCHANGED <<counters, data, conf, track, timerVars, bstQ, pc, req, realm, rv>>

-----------------------------------------------------------------------------
(* The bst thread: configuration *)

Take(type) ==
  /\ pc = "recv"
  /\ bstQ # <<>>
  /\ Head(bstQ).type = type
  /\ bstQ' = Tail(bstQ)

\* bst_periodic_collection_timer_delete
TimerDelete == Stops(timer)

\* mutant: the timer in use is replaced and not deleted
TimerAddKeepsOld(n) == Adds(Outcome(timer, 0, 0, TRUE), n)

\* bst_periodic_collection_timer_add deletes a timer in use.  When that fails
\* the id is overwritten all the same and the old timer runs on.
TimerAdd(n) == Starts(timer, n)

Becomes(o) ==
  /\ faults + o.faults <= MaxFaults
  /\ timer' = o.timer
  /\ orphans' = orphans + o.lost
  /\ faults' = faults + o.faults
  /\ broken' = ~o.ok

\* bst_config_feature_set: REST always sends interval and send-async-reports
SetFeature ==
  /\ Take("SET_FEATURE")
  /\ LET c == Head(bstQ).conf
         timerUpdateReqd == c.interval # conf.interval \/ ~conf.async
     IN /\ conf' = c
        /\ \/ c.async /\ timerUpdateReqd /\ \E o \in TimerAdd(c.interval) : Becomes(o)
           \/ c.async /\ ~timerUpdateReqd /\ UNCHANGED timerVars
           \/ ~c.async /\ \E o \in TimerDelete : Becomes(o)
  /\ UNCHANGED <<counters, data, track, pc, req, realm, rv, view, synced>>

\* bst_config_track_set, whose commit may fail
SetTrack ==
  /\ Take("SET_TRACK")
  /\ track' \in {Head(bstQ).realms, track}
  /\ synced' = (synced /\ track' \subseteq track)
  /\ UNCHANGED <<counters, data, conf, timerVars, pc, req, realm,
                 rv, view>>

\* bst_clear_stats_set; the driver clears its counters later
ClearStats ==
  /\ Take("CLEAR_STATS")
  /\ data' = [record \in Records |-> Zero]
  /\ synced' = (view = Zero)
  /\ UNCHANGED <<counters, conf, track, timerVars, pc, req, realm,
                 rv, view>>

-----------------------------------------------------------------------------
(* The bst thread: reports *)

ReportTypes == {"GET", "PERIODIC", "TRIGGER"}

\* bst_get_report wipes the current record
StartCollection ==
  /\ \E t \in ReportTypes : Take(t)
  /\ req' = Head(bstQ)
  /\ data' = [data EXCEPT !.current = Zero]
  /\ realm' = 1
  /\ rv' = TRUE
  /\ pc' = "collect"
  /\ UNCHANGED <<counters, conf, track, timerVars, view, synced>>

\* sbplugin_ovsdb_bst_snapshot_get: one realm after the other, giving up at
\* the first that fails
CollectRealm ==
  /\ pc = "collect"
  /\ realm \in Realms
  /\ \/ /\ data' = [data EXCEPT !.current[realm] = counters[realm]]
        /\ realm' = realm + 1
        /\ UNCHANGED rv
     \/ /\ realm' = NumRealms + 1
        /\ rv' = FALSE
        /\ UNCHANGED data
  /\ UNCHANGED <<counters, conf, track, timerVars, bstQ, pc, req,
                 view, synced>>

\* mutant: the old backup stays the backup
RotateKeepsBackup ==
  [active |-> data.current, backup |-> data.backup, current |-> data.active]

\* bst_update_data exchanges the pointers
Rotate ==
  [active |-> data.current, backup |-> data.active, current |-> data.backup]

\* the options bst_copy_reply_params gives the encoder: the realms to
\* include, whether there is a record to compare with, and whether the
\* encoder is asked to leave rows out
Included ==
  CASE req.type = "GET"      -> req.realms
    [] req.type = "PERIODIC" -> track
    [] OTHER                 -> IF conf.snap THEN track ELSE {req.realm}

Differential == req.type = "PERIODIC" /\ conf.incr
Incremental  == req.type = "PERIODIC" => conf.incr

\* the rows the encoders write: against a previous record those that differ,
\* without one all, or those that are not zero
Encoded(prev, cur) ==
  {r \in Included :
     IF Differential THEN cur[r] # prev[r] ELSE Incremental => cur[r] # 0}

\* On a trigger the result of the collection is replaced by the result of
\* bst_enable_on_trigger.
Result == IF req.type = "TRIGGER" THEN BOOLEAN ELSE {rv}

\* what the collector knows once it has the rows of a report
Told(rows, cur) == [r \in Realms |-> IF r \in rows THEN cur[r] ELSE view[r]]

\* bst_send_response.  A report reaches the collector, unless the encoder fails,
\* no buffer is left, the collector does not answer, or the send fails, which is
\* logged and no more.  An error is sent in place of a report.
SendResponse(ok, prev, cur) ==
  \/ /\ ok /\ req.type # "GET"
     /\ view' = Told(Encoded(prev, cur), cur)
     /\ synced' = (req.type = "PERIODIC" /\ (synced \/ ~conf.incr))
  \/ /\ UNCHANGED view
     /\ synced' = FALSE

\* bst_copy_reply_params, then bst_send_response: the records have rotated
\* whether or not the collection succeeded and the report arrives
Respond ==
  /\ pc = "collect"
  /\ realm = NumRealms + 1
  /\ data' = Rotate
  /\ \E ok \in Result : SendResponse(ok, Rotate.backup, Rotate.active)
  /\ pc' = "recv"
  /\ req' = Idle
  /\ realm' = 1
  /\ rv' = TRUE
  /\ UNCHANGED <<counters, conf, track, timerVars, bstQ>>

-----------------------------------------------------------------------------
BstThread ==
  \/ SetFeature
  \/ SetTrack
  \/ ClearStats
  \/ StartCollection
  \/ CollectRealm
  \/ Respond

Next == Request \/ TimerCb \/ MonitorStat \/ CollectorMoves \/ BstThread

Spec == Init /\ [][Next]_vars

-----------------------------------------------------------------------------
(* Properties *)

\* Every variable has its type and the queue stays within its capacity.
TypeOK ==
  /\ counters \in Snapshot
  /\ data \in [Records -> Snapshot]
  /\ conf \in Conf
  /\ track \in TrackSets
  /\ timer \in [inUse : BOOLEAN, runs : Intervals \cup {0}]
  /\ orphans \in 0 .. MaxFaults /\ faults \in 0 .. MaxFaults
  /\ broken \in BOOLEAN
  /\ bstQ \in Seq(Message) /\ Len(bstQ) <= QLen
  /\ pc \in {"recv", "collect"}
  /\ req \in Message \cup {Idle}
  /\ realm \in 1 .. NumRealms + 1
  /\ rv \in BOOLEAN
  /\ view \in Snapshot
  /\ synced \in BOOLEAN

\* Incremental reports add up.  As long as only periodic collections ran, all
\* of them successful and their reports delivered, since a full report or since
\* the start, the collector knows the counters of the tracked realms as they
\* were last collected: what bst_update_data leaves as backup is exactly what
\* the collector was told.
CollectorSynced ==
  synced /\ pc = "recv" => \A r \in track : view[r] = data.active[r]

\* Whatever sequence of requests and failures came before: unless the last
\* start or stop has failed, the unit's timer runs exactly when periodic reports
\* are configured, at the configured interval; and no timer runs without an
\* owner but those that bst_periodic_collection_timer_add could not delete.
TimerFollowsConfig ==
  /\ ~broken => /\ timer.inUse = conf.async
                /\ timer.runs = IF conf.async THEN conf.interval ELSE 0
  /\ orphans <= faults

\* A report is sent only for a collection that succeeded (bst_get_report:
\* "Since stats collection has failed.. no need to do the rest. report the
\* error to the calling function").
NoReportOnFailure ==
  [][pc = "collect" /\ pc' = "recv" /\ ~rv => view' = view]_vars
=============================================================================
