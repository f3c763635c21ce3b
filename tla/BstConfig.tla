----------------------------- MODULE BstConfig ------------------------------
(***************************************************************************)
(* One unit's BST configuration and its four copies: the application's     *)
(* (bst_info), the plugin's cache, the OVSDB tables, and what is on its way *)
(* between them.                                                           *)
(*                                                                         *)
(* The bst thread handles one message at a time.  A handler that programs  *)
(* the ASIC reads the cache, commits the System row, sends one tracking    *)
(* transaction per realm, stores the mask in the cache without its lock,   *)
(* and writes the other fields through.  The monitor thread applies        *)
(* ovsdb-server's update notifications to the cache and tells the bst      *)
(* thread with UPDATE_FEATURE and UPDATE_TRACK.  Notifications arrive in   *)
(* order and any time after the commit.                                    *)
(***************************************************************************)
EXTENDS Naturals, Sequences, FiniteSets, SequencesExt

CONSTANTS
  Limits,     \* values of bstMaxTriggers
  Keep,       \* a request without trigger-rate-limit, which is optional
  Realms,     \* BVIEW_BST_REALM_ID_t, the bits of a tracking mask
  TrackSets,  \* the masks that requests ask for
  QLen,       \* capacity of the bst queue
  Kinds,      \* the events of the environment that occur
  MaxEvents,  \* how many of them (model bound)
  CommitFaults, \* can a transaction or its connection fail?
  Stored      \* what the database may hold when the agent starts

EventKinds == {"feature", "track", "trigger", "expiry", "external", "stat"}

Config == [enable : BOOLEAN, max : Limits, track : SUBSET Realms]

ASSUME ConfigAssumption ==
  /\ Limits # {} /\ Keep \notin Limits
  /\ IsFiniteSet(Realms) /\ TrackSets \subseteq SUBSET Realms
  /\ QLen \in Nat \ {0}
  /\ Kinds \subseteq EventKinds
  /\ MaxEvents \in Nat
  /\ CommitFaults \in BOOLEAN
  /\ Stored \subseteq Config

VARIABLES
  db,        \* System.bufmon_config and the enabled column of bufmon
  inflight,  \* tracking transactions sent and not yet executed
  net,       \* update notifications the monitor has not handled
  cache,     \* bst_ovsdb_cache.config_data
  app,       \* bst_info.unit[u].config and .track
  bstQ,      \* messages in recvMsgQid
  bpc,       \* where the bst thread is
  req,       \* the message it handles
  mode,      \* its local bstMode
  mpc,       \* "locked" while the monitor holds the cache's write lock
  oldMask,   \* the mask when the monitor began to handle a notification
  mmask,     \* the mask it read to set a bit in
  wanted,    \* history: the limit of the last SET_FEATURE that was handled
  events,    \* events of the environment so far
  lost       \* history: has a message been dropped, has a commit failed, or has
             \* another client written the System row?

vars == <<db, inflight, net, cache, app, bstQ, bpc, req, mode, mpc, oldMask, mmask,
          wanted, events, lost>>

SetFeatureMsg == [type : {"SET_FEATURE"}, enable : BOOLEAN,
                  max : Limits \cup {Keep}]
SetTrackMsg   == [type : {"SET_TRACK"}, track : TrackSets]
OtherMsg      == [type : {"TRIGGER_REPORT", "ENABLE_BST_ON_TRIGGER",
                          "UPDATE_FEATURE", "UPDATE_TRACK"}]
BstMessage    == SetFeatureMsg \cup SetTrackMsg \cup OtherMsg

RowUpdate    == [table : {"bufmon"}, realm : Realms, enabled : BOOLEAN]
SystemUpdate == [table : {"System"}, enable : BOOLEAN, max : Limits]

\* what the handler's local variables hold between two messages
Idle   == [type |-> "NONE"]
NoMode == CHOOSE m \in Config : TRUE

\* bst_app_config_init has read the cache and committed what it read
Init ==
  /\ db \in Stored
  /\ cache = db
  /\ app = db
  /\ inflight = <<>>
  /\ net = <<>>
  /\ bstQ = <<>>
  /\ bpc = "recv"
  /\ req = Idle
  /\ mode = NoMode
  /\ mpc = "idle"
  /\ oldMask = {}
  /\ mmask = {}
  /\ wanted = db.max
  /\ events = 0
  /\ lost = FALSE

-----------------------------------------------------------------------------
(* The bst queue's producers *)

\* mutant: a message more than the queue holds
PostUnbounded(q, m) == IF Len(q) > QLen THEN q ELSE Append(q, m)

\* bst_send_request: msgsnd with IPC_NOWAIT, a full queue loses the message
Post(q, m) == IF Len(q) >= QLen THEN q ELSE Append(q, m)

\* a sender does not look at what msgsnd returns
Send(m) ==
  /\ bstQ' = Post(bstQ, m)
  /\ lost' = (lost \/ Len(bstQ) >= QLen)

Event(kind) ==
  /\ kind \in Kinds
  /\ events < MaxEvents
  /\ events' = events + 1

\* REST handlers, the trigger thread and the collector's timer.  REST requires
\* bst-enable in every configure-bst-feature request.
Request ==
  /\ \/ /\ Event("feature")
        /\ \E m \in SetFeatureMsg : Send(m)
     \/ /\ Event("track")
        /\ \E m \in SetTrackMsg : Send(m)
     \/ Event("trigger") /\ Send([type |-> "TRIGGER_REPORT"])
     \/ Event("expiry") /\ Send([type |-> "ENABLE_BST_ON_TRIGGER"])
  /\ UNCHANGED <<db, inflight, net, cache, app, bpc, req, mode, mpc, oldMask,
                 mmask, wanted>>

-----------------------------------------------------------------------------
(* The bst thread *)

Take(type) ==
  /\ bpc = "recv"
  /\ bstQ # <<>>
  /\ Head(bstQ).type = type
  /\ bstQ' = Tail(bstQ)

\* a handler that commits first reads the configuration
Begin == bpc' = "get" /\ req' = Head(bstQ)

Return == bpc' = "recv" /\ req' = Idle /\ mode' = NoMode

\* bst_config_feature_set up to its first unlock
SetFeature ==
  /\ Take("SET_FEATURE")
  /\ LET n == Head(bstQ).max IN
       /\ app' = IF n = Keep THEN app ELSE [app EXCEPT !.max = n]
       /\ wanted' = IF n = Keep THEN wanted ELSE n
  /\ Begin
  /\ UNCHANGED <<db, inflight, net, cache, mode, mpc, oldMask, mmask, events, lost>>

\* bst_config_track_set: a request for what is already tracked is answered
\* at once
SetTrack ==
  /\ Take("SET_TRACK")
  /\ IF Head(bstQ).track = app.track THEN UNCHANGED <<bpc, req>> ELSE Begin
  /\ UNCHANGED <<db, inflight, net, cache, app, mode, mpc, oldMask, mmask,
                 wanted, events, lost>>

\* bst_get_report on a trigger calls bst_enable_on_trigger whether or not BST
\* is enabled; bst_enable_on_trigger_timer_expiry asks the configuration first
EnableOnTrigger ==
  /\ \/ Take("TRIGGER_REPORT") /\ Begin
     \/ Take("ENABLE_BST_ON_TRIGGER") /\ app.enable /\ Begin
     \/ Take("ENABLE_BST_ON_TRIGGER") /\ ~app.enable /\ UNCHANGED <<bpc, req>>
  /\ UNCHANGED <<db, inflight, net, cache, app, mode, mpc, oldMask, mmask,
                 wanted, events, lost>>

\* mutant: the commit keeps the limit that the cache had
ModeFromCacheLimit(m) ==
  CASE req.type = "SET_FEATURE" -> [m EXCEPT !.enable = req.enable]
    [] req.type = "SET_TRACK" ->
         [enable |-> app.enable, max |-> app.max, track |-> req.track]
    [] OTHER -> [m EXCEPT !.enable = TRUE]

\* the bstMode a handler commits, given the m that sbapi_bst_config_get returned
ModeToCommit(m) ==
  CASE req.type = "SET_FEATURE" -> [m EXCEPT !.enable = req.enable, !.max = app.max]
    [] req.type = "SET_TRACK" ->
         [enable |-> app.enable, max |-> app.max, track |-> req.track]
    [] OTHER -> [m EXCEPT !.enable = TRUE]

\* sbapi_bst_config_get, under the cache's read lock, of a handler that commits
ReadToCommit ==
  /\ bpc = "get"
  /\ req.type \notin {"UPDATE_FEATURE", "UPDATE_TRACK"}
  /\ mpc # "locked"
  /\ mode' = ModeToCommit(cache)
  /\ bpc' = "commit"
  /\ UNCHANGED <<db, inflight, net, cache, app, bstQ, req, mpc, oldMask, mmask,
                 wanted, events, lost>>

\* bst_update_config_set takes the cache's copy over and commits nothing
Update ==
  /\ mpc # "locked"
  /\ \/ /\ Take("UPDATE_FEATURE")
        /\ app' = [app EXCEPT !.enable = cache.enable, !.max = cache.max]
     \/ /\ Take("UPDATE_TRACK")
        /\ app' = [app EXCEPT !.track = cache.track]
  /\ UNCHANGED <<db, inflight, net, cache, bpc, req, mode, mpc, oldMask, mmask,
                 wanted, events, lost>>

\* ovsdb-server reports a row that a transaction changed
SystemNews(old, new) ==
  IF old.enable = new.enable /\ old.max = new.max THEN <<>>
  ELSE <<[table |-> "System", enable |-> new.enable, max |-> new.max]>>

\* bst_ovsdb_bst_config_commit waits for the reply.  Without a connection the
\* handler fails; an error in the reply is only logged.
CommitSystem ==
  /\ bpc = "commit"
  /\ LET new == [db EXCEPT !.enable = mode.enable, !.max = mode.max] IN
       \/ /\ db' = new
          /\ net' = net \o SystemNews(db, new)
          /\ bpc' = "track"
          /\ UNCHANGED <<req, mode, lost>>
       \/ /\ CommitFaults
          /\ \/ Return
             \/ bpc' = "track" /\ UNCHANGED <<req, mode>>
          /\ lost' = TRUE
          /\ UNCHANGED <<db, net>>
  /\ UNCHANGED <<inflight, cache, app, bstQ, mpc, oldMask, mmask, wanted,
                 events>>

\* one transaction per realm, with its bit of the mask
TrackTransactions ==
  LET r == SetToSeq(Realms)
  IN [k \in DOMAIN r |-> [realm |-> r[k], enabled |-> r[k] \in mode.track]]

\* bst_ovsdb_bst_tracking_commit: the transactions are sent and not waited for
CommitTrack ==
  /\ bpc = "track"
  /\ \/ /\ inflight' = inflight \o TrackTransactions
        /\ bpc' = "mask"
        /\ UNCHANGED <<req, mode, lost>>
     \/ CommitFaults /\ Return /\ lost' = TRUE /\ UNCHANGED inflight
  /\ UNCHANGED <<db, net, cache, app, bstQ, mpc, oldMask, mmask, wanted,
                 events>>

\* bst_ovsdb_bst_config_set stores the mask, without the lock
StoreMask ==
  /\ bpc = "mask"
  /\ cache' = [cache EXCEPT !.track = mode.track]
  /\ bpc' = "store"
  /\ UNCHANGED <<db, inflight, net, app, bstQ, req, mode, mpc, oldMask, mmask,
                 wanted, events, lost>>

\* what a handler stores in the application once the plugin returned success
Programmed(a) ==
  CASE req.type = "SET_FEATURE" -> [a EXCEPT !.enable = req.enable]
    [] req.type = "SET_TRACK" -> [a EXCEPT !.track = req.track]
    [] OTHER -> a

\* bst_ovsdb_cache_bst_config_set and the end of the handler
StoreCache ==
  /\ bpc = "store"
  /\ mpc # "locked"
  /\ cache' = [cache EXCEPT !.enable = mode.enable, !.max = mode.max]
  /\ app' = Programmed(app)
  /\ Return
  /\ UNCHANGED <<db, inflight, net, bstQ, mpc, oldMask, mmask, wanted, events,
                 lost>>

-----------------------------------------------------------------------------
(* ovsdb-server and the other writers of the database *)

ApplyTrack ==
  /\ inflight # <<>>
  /\ inflight' = Tail(inflight)
  /\ LET t == Head(inflight) IN
       /\ db' = [db EXCEPT !.track = IF t.enabled THEN @ \cup {t.realm}
                                     ELSE @ \ {t.realm}]
       /\ net' = IF t.enabled = (t.realm \in db.track) THEN net
                 ELSE Append(net, [table |-> "bufmon", realm |-> t.realm,
                                   enabled |-> t.enabled])
  /\ UNCHANGED <<cache, app, bstQ, bpc, req, mode, mpc, oldMask, mmask, wanted,
                 events, lost>>

\* another client of the database writes the System row
External ==
  /\ Event("external")
  /\ \E e \in BOOLEAN, n \in Limits :
       LET new == [db EXCEPT !.enable = e, !.max = n] IN
         /\ db' = new
         /\ net' = net \o SystemNews(db, new)
  /\ lost' = TRUE
  /\ UNCHANGED <<inflight, cache, app, bstQ, bpc, req, mode, mpc, oldMask,
                 mmask, wanted>>

\* the driver updates a counter; the notification carries the whole row
StatUpdate ==
  /\ Event("stat")
  /\ \E r \in Realms :
       net' = Append(net, [table |-> "bufmon", realm |-> r, enabled |-> r \in db.track])
  /\ UNCHANGED <<db, inflight, cache, app, bstQ, bpc, req, mode, mpc, oldMask,
                 mmask, wanted, lost>>

-----------------------------------------------------------------------------
(* The monitor thread *)

\* bst_ovsdb_cache_update_table saves the mask "for later inspection"
MonitorStart ==
  /\ mpc = "idle"
  /\ net # <<>>
  /\ mpc' = "table"
  /\ oldMask' = cache.track
  /\ UNCHANGED <<db, inflight, net, cache, app, bstQ, bpc, req, mode, mmask,
                 wanted, events, lost>>

\* a System row and an enabled bufmon row take the write lock; the latter
\* reads the mask it is about to change.  A disabled row changes nothing.
MonitorLock ==
  /\ mpc = "table"
  /\ LET n == Head(net)
         disabled == n.table = "bufmon" /\ ~n.enabled
     IN mpc' = IF disabled THEN "notify" ELSE "locked"
  /\ mmask' = cache.track
  /\ UNCHANGED <<db, inflight, net, cache, app, bstQ, bpc, req, mode, oldMask,
                 wanted, events, lost>>

\* mutant: the notification waits for room in the queue, holding the lock
MonitorSystemBlocking ==
  /\ mpc = "locked"
  /\ Head(net).table = "System"
  /\ Len(bstQ) < QLen
  /\ cache' = [cache EXCEPT !.enable = @ \/ Head(net).enable, !.max = Head(net).max]
  /\ Send([type |-> "UPDATE_FEATURE"])
  /\ mpc' = "notify"
  /\ UNCHANGED <<db, inflight, net, app, bpc, req, mode, oldMask, mmask,
                 wanted, events>>

\* mutant: a change of the enabled key always stores false
MonitorSystemClears ==
  /\ mpc = "locked"
  /\ Head(net).table = "System"
  /\ cache' = [cache EXCEPT !.enable = @ /\ Head(net).enable, !.max = Head(net).max]
  /\ Send([type |-> "UPDATE_FEATURE"])
  /\ mpc' = "notify"
  /\ UNCHANGED <<db, inflight, net, app, bpc, req, mode, oldMask, mmask,
                 wanted, events>>

\* bst_system_bufmon_config_update: a changed enabled key stores true,
\* whatever its value; UPDATE_FEATURE is posted under the lock
MonitorSystem ==
  /\ mpc = "locked"
  /\ LET n == Head(net)
         updated == n.enable # cache.enable \/ n.max # cache.max
     IN /\ n.table = "System"
        /\ cache' = [cache EXCEPT
                       !.enable = IF n.enable # cache.enable THEN TRUE ELSE n.enable,
                       !.max = n.max]
        /\ IF updated THEN Send([type |-> "UPDATE_FEATURE"]) ELSE UNCHANGED <<bstQ, lost>>
  /\ mpc' = "notify"
  /\ UNCHANGED <<db, inflight, net, app, bpc, req, mode, oldMask, mmask,
                 wanted, events>>

\* mutant: the mask is assigned where a bit should be set
MonitorRowAssigns ==
  /\ mpc = "locked"
  /\ Head(net).table = "bufmon"
  /\ cache' = [cache EXCEPT !.track = {Head(net).realm}]
  /\ mpc' = "notify"
  /\ UNCHANGED <<db, inflight, net, app, bstQ, bpc, req, mode, oldMask, mmask,
                 wanted, events, lost>>

\* an enabled row sets its realm's bit in the mask it has read, which the bst
\* thread may have replaced since
MonitorRow ==
  /\ mpc = "locked"
  /\ Head(net).table = "bufmon"
  /\ cache' = [cache EXCEPT !.track = mmask \cup {Head(net).realm}]
  /\ mpc' = "notify"
  /\ UNCHANGED <<db, inflight, net, app, bstQ, bpc, req, mode, oldMask, mmask,
                 wanted, events, lost>>

\* the realms a notification has enabled
Seen(n) == IF n.table = "bufmon" /\ n.enabled THEN {n.realm} ELSE {}

\* the saved mask is compared with the realms of this notification alone
MonitorNotify ==
  /\ mpc = "notify"
  /\ IF oldMask = Seen(Head(net)) THEN UNCHANGED <<bstQ, lost>>
     ELSE Send([type |-> "UPDATE_TRACK"])
  /\ net' = Tail(net)
  /\ mpc' = "idle"
  /\ oldMask' = {} /\ mmask' = {}
  /\ UNCHANGED <<db, inflight, cache, app, bpc, req, mode, wanted, events>>

-----------------------------------------------------------------------------
BstThread ==
  \/ SetFeature
  \/ SetTrack
  \/ EnableOnTrigger
  \/ ReadToCommit
  \/ Update
  \/ CommitSystem
  \/ CommitTrack
  \/ StoreMask
  \/ StoreCache

Monitor ==
  \/ MonitorStart
  \/ MonitorLock
  \/ MonitorSystem
  \/ MonitorRow
  \/ MonitorNotify

Next == Request \/ External \/ StatUpdate \/ ApplyTrack \/ BstThread \/ Monitor

Spec == Init /\ [][Next]_vars

\* both threads are scheduled and ovsdb-server executes what it was sent
Fairness == WF_vars(BstThread) /\ WF_vars(Monitor) /\ WF_vars(ApplyTrack)

FairSpec == Spec /\ Fairness

-----------------------------------------------------------------------------
(* Properties *)

\* Every variable has its type and the bst queue stays within its capacity.
TypeOK ==
  /\ {db, cache, app, mode} \subseteq Config
  /\ inflight \in Seq([realm : Realms, enabled : BOOLEAN])
  /\ net \in Seq(RowUpdate \cup SystemUpdate)
  /\ bstQ \in Seq(BstMessage) /\ Len(bstQ) <= QLen
  /\ bpc \in {"recv", "get", "commit", "track", "mask", "store"}
  /\ req \in BstMessage \cup {Idle}
  /\ mpc \in {"idle", "table", "locked", "notify"}
  /\ mpc # "idle" => net # <<>>
  /\ oldMask \subseteq Realms /\ mmask \subseteq Realms
  /\ wanted \in Limits
  /\ events \in 0 .. MaxEvents
  /\ lost \in BOOLEAN

\* no message, transaction or notification is on its way
Quiescent ==
  /\ bstQ = <<>>
  /\ net = <<>>
  /\ inflight = <<>>
  /\ bpc = "recv"
  /\ mpc = "idle"

\* Once everything has been delivered, the rate limit that triggers are
\* checked against, the plugin's copy and the database agree, in whatever
\* order commits, write-throughs and late notifications happened.
LimitConverges == Quiescent /\ ~lost => app.max = db.max /\ cache.max = db.max

\* Once everything has been delivered, the plugin does not take BST for
\* disabled while the database says it is enabled.
EnableSeen == Quiescent /\ ~lost => (db.enable => cache.enable)

\* Once everything has been delivered, the plugin takes every realm for tracked
\* that the database tracks: a notification that comes late, and a mask that the
\* monitor has read before the bst thread stores another without the lock, may
\* leave a realm too many and never one too few.
TrackSeen == Quiescent /\ ~lost => db.track \subseteq cache.track

\* The exchange of commits and notifications ends: an UPDATE message causes no
\* commit, and the monitor never waits for the bst queue while the bst thread
\* waits for the cache.
Settles == <>[]Quiescent

\* get-bst-feature answers with the configured bst-enable: once everything has
\* been delivered the application and the database agree.
EnableConverges == Quiescent => app.enable = db.enable

\* The last rate limit a client configured is in force once everything has
\* been delivered.
LimitSticks == Quiescent => app.max = wanted
=============================================================================
