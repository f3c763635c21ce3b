------------------------------ MODULE BstTable ------------------------------
(***************************************************************************)
(* One unit's buffer counters and their thresholds: the rows of the bufmon *)
(* table of OVSDB, the arrays of the plugin's cache, and the requests that *)
(* set, clear and read them.                                               *)
(*                                                                         *)
(* A counter has three addresses.  REST names it by realm, port and a      *)
(* queue, group or pool counted from 0; the database by the name           *)
(* <realm>/<counter>/<index1>/<index2>, counted from 1; the cache by an     *)
(* array and an offset in it.  A threshold travels from the first to the   *)
(* second address in a transaction nobody waits for, and from the second   *)
(* to the third in a notification; a report reads the third by the first.  *)
(*                                                                         *)
(* Thresholds are sent on one connection that is opened once.  A clear     *)
(* opens a connection of its own and waits for the reply.                  *)
(***************************************************************************)
EXTENDS Naturals, Sequences, SequencesExt

CONSTANTS
  Realms,       \* the realms of the instance, of the eleven of Counters
  NumPorts,     \* ports of the switch, scalingParams.numPorts
  MaxPorts,     \* BVIEW_ASIC_MAX_PORTS, what the arrays have room for
  NumIndex,     \* priority groups, service pools or queues of a realm
  MaxLevel,     \* the largest threshold, which is also the default one
  MaxCount,     \* values of a counter are 0 .. MaxCount (model bound)
  MaxEvents,    \* requests and counter updates (model bound)
  Unset,        \* an empty trigger_threshold column
  Unknown,      \* nothing is promised about a threshold
  CommitFaults  \* can connections fail?

-----------------------------------------------------------------------------
(* bid_tab_params *)

RealmNames ==
  {"device", "ingress-port-priority-group", "ingress-port-service-pool",
   "ingress-service-pool", "egress-port-service-pool", "egress-service-pool",
   "egress-uc-queue", "egress-uc-queue-group", "egress-mc-queue",
   "egress-cpu-queue", "egress-rqe-queue"}

\* the counters of a realm that have a threshold, in the order they are set
Counters == [r \in RealmNames |->
  CASE r = "device" -> <<"data">>
    [] r = "ingress-port-priority-group" ->
         <<"um-share-buffer-count", "um-headroom-buffer-count">>
    [] r = "egress-port-service-pool" ->
         <<"uc-share-buffer-count", "um-share-buffer-count">>
    [] r = "egress-service-pool" -> <<"um-share-buffer-count", "mc-share-buffer-count">>
    [] r \in {"egress-uc-queue", "egress-uc-queue-group"} -> <<"uc-buffer-count">>
    [] r = "egress-mc-queue" -> <<"mc-buffer-count">>
    [] r = "egress-cpu-queue" -> <<"cpu-buffer-count">>
    [] r = "egress-rqe-queue" -> <<"rqe-buffer-count">>
    [] OTHER -> <<"um-share-buffer-count">>]

\* is_double_indexed, and not is_indexed
PortRealms == {"ingress-port-priority-group", "ingress-port-service-pool",
               "egress-port-service-pool"}
DeviceRealm == "device"

ASSUME TableAssumption ==
  /\ Realms \subseteq RealmNames /\ Realms # {}
  /\ NumPorts \in Nat \ {0} /\ MaxPorts \in Nat /\ NumPorts <= MaxPorts
  /\ NumIndex \in Nat \ {0}
  /\ MaxLevel \in Nat \ {0}
  /\ MaxCount \in Nat /\ MaxEvents \in Nat
  /\ {Unset, Unknown} \cap Nat = {}
  /\ CommitFaults \in BOOLEAN

\* counters as REST names them: those a report shows
Targets ==
  UNION {[realm : {r},
          counter : ToSet(Counters[r]),
          port : IF r \in PortRealms THEN 1 .. NumPorts ELSE {0},
          index : IF r = DeviceRealm THEN {0} ELSE 0 .. NumIndex - 1] : r \in Realms}

Size(r) ==
  CASE r = DeviceRealm -> 1
    [] r \in PortRealms -> MaxPorts * NumIndex
    [] OTHER -> NumIndex

\* places in the cache's arrays
Slots ==
  UNION {[realm : {r}, counter : ToSet(Counters[r]), at : 0 .. Size(r) - 1] :
           r \in Realms}

\* bst_ovsdb_resolve_index: from REST's address to the offset
Resolve(r, port, index) ==
  CASE r = DeviceRealm -> 0
    [] r \in PortRealms -> (port - 1) * NumIndex + index
    [] OTHER -> index

SlotOf(t) == [realm |-> t.realm, counter |-> t.counter,
              at |-> Resolve(t.realm, t.port, t.index)]

\* mutant: the index is not counted from 1 in the database
KeyFromZero(r, c, port, index) ==
  [realm |-> r, counter |-> c,
   index1 |-> IF r = DeviceRealm THEN 0 ELSE IF r \in PortRealms THEN port ELSE index,
   index2 |-> IF r \in PortRealms THEN index ELSE 0]

\* bst_bid_port_index_to_ovsdb_key of index + 1: from REST's address to the
\* name of the row.  0 stands for the word NONE, which is what atoi makes of it.
Key(r, c, port, index) ==
  [realm |-> r, counter |-> c,
   index1 |-> CASE r = DeviceRealm -> 0
                [] r \in PortRealms -> port
                [] OTHER -> index + 1,
   index2 |-> IF r \in PortRealms THEN index + 1 ELSE 0]

KeyOf(t) == Key(t.realm, t.counter, t.port, t.index)

\* the rows the driver has created
Rows ==
  UNION {[realm : {r},
          counter : ToSet(Counters[r]),
          index1 : CASE r = DeviceRealm -> {0}
                     [] r \in PortRealms -> 1 .. NumPorts
                     [] OTHER -> 1 .. NumIndex,
          index2 : IF r \in PortRealms THEN 1 .. NumIndex ELSE {0}] : r \in Realms}

\* mutant: the offset is not counted from 0
CacheSlotFromOne(k) ==
  [realm |-> k.realm, counter |-> k.counter,
   at |-> CASE k.realm = DeviceRealm -> 0
            [] k.realm \in PortRealms -> (k.index1 - 1) * NumIndex + k.index2
            [] OTHER -> k.index1 - 1]

\* bst_ovsdb_row_info_get, then bst_ovsdb_cache_row_get: from the name of a
\* row to its place in the cache
CacheSlot(k) ==
  [realm |-> k.realm, counter |-> k.counter,
   at |-> CASE k.realm = DeviceRealm -> 0
            [] k.realm \in PortRealms -> (k.index1 - 1) * NumIndex + (k.index2 - 1)
            [] OTHER -> k.index1 - 1]

\* bst_ovsdb_default_threshold_get for an empty column
Effective(level) == IF level = Unset THEN MaxLevel ELSE level

-----------------------------------------------------------------------------
VARIABLES
  db,       \* the bufmon table
  rpc,      \* the connection for thresholds: "none", "open" or "dead"
  sent,     \* transactions on it that ovsdb-server has not executed
  net,      \* notifications for the monitor, each the new rows by key
  applied,  \* keys of the first notification that the monitor has applied
  cache,    \* bst_ovsdb_cache.cache[unit]
  bpc,      \* where the bst thread is
  req,      \* the request it handles
  left,     \* what it has still to send or to read of it
  record,   \* what it has read: threshold_record_ptr or the active record
  wanted,   \* history: the threshold last asked for
  had,      \* history: the contents a row has had
  events    \* requests and counter updates so far

vars == <<db, rpc, sent, net, applied, cache, bpc, req, left, record, wanted,
          had, events>>

Levels == 1 .. MaxLevel
Counts == 0 .. MaxCount
Row    == [stat : Counts, threshold : Levels \cup {Unset}]
Idle   == [type |-> "NONE"]
Zeroed == [t \in Targets |-> 0]

\* the monitor has applied the initial contents of the table
Init ==
  /\ db = [k \in Rows |-> [stat |-> 0, threshold |-> Unset]]
  /\ cache = [s \in Slots |->
                [stat |-> 0,
                 threshold |-> IF \E k \in Rows : CacheSlot(k) = s THEN MaxLevel ELSE 0]]
  /\ rpc = "none"
  /\ sent = <<>>
  /\ net = <<>>
  /\ applied = {}
  /\ bpc = "recv"
  /\ req = Idle
  /\ left = <<>>
  /\ record = Zeroed
  /\ wanted = [t \in Targets |-> MaxLevel]
  /\ had = [k \in Rows |-> {db[k]}]
  /\ events = 0

Event == events < MaxEvents /\ events' = events + 1

-----------------------------------------------------------------------------
(* REST requests, which the bst thread handles one after the other *)

\* configure-bst-thresholds; the fields a realm does not use are not copied
SetRequests ==
  UNION {[type : {"SET_THRESHOLD"}, realm : {r},
          port : IF r \in PortRealms THEN 0 .. MaxPorts + 1 ELSE {0},
          index : IF r = DeviceRealm THEN {0} ELSE 0 .. NumIndex,
          levels : [DOMAIN Counters[r] -> 0 .. MaxLevel + 1]] : r \in Realms}

\* _BST_INPUT_PARAMS_CHECK, and port 0 refused.  The port of a priority group
\* is not compared with the ports of the switch.
ValidAddress(r) ==
  /\ r.realm \in PortRealms => r.port # 0
  /\ r.realm \in PortRealms \ {"ingress-port-priority-group"} => r.port <= NumPorts
  /\ r.realm # DeviceRealm => r.index < NumIndex

\* mutant: a threshold of zero passes
ValidLevelsWithZero(r) == \A n \in DOMAIN r.levels : r.levels[n] <= MaxLevel + 1

\* bstjson_configure_bst_thresholds_impl, which lets larger thresholds of the
\* unicast queues through than the plugin takes
ValidLevels(r) ==
  LET unicast == {"egress-uc-queue", "egress-uc-queue-group"}
      max == IF r.realm \in unicast THEN MaxLevel + 1 ELSE MaxLevel
  IN \A n \in DOMAIN r.levels : r.levels[n] \in 1 .. max

\* the plugin's own check, before anything is sent
PluginAccepts(r) == \A n \in DOMAIN r.levels : r.levels[n] <= MaxLevel

\* bst_config_threshold_set: the plugin sends one transaction per counter
SetThreshold ==
  /\ Event
  /\ bpc = "recv"
  /\ \E r \in SetRequests :
       /\ ValidAddress(r) /\ ValidLevels(r) /\ PluginAccepts(r)
       /\ req' = r
  /\ left' = Counters[req'.realm]
  /\ bpc' = "send"
  /\ UNCHANGED <<db, rpc, sent, net, applied, cache, record, wanted, had>>

\* a promise about the counter, if a report shows it at all
Promise(c, level) ==
  [t \in Targets |->
     IF /\ t.realm = req.realm /\ t.counter = c
        /\ t.port = req.port /\ t.index = req.index
     THEN level ELSE wanted[t]]

\* which of the request's thresholds is the next counter's
NextLevel == req.levels[1 + Len(Counters[req.realm]) - Len(left)]

\* bst_ovsdb_threshold_commit: no reply is waited for, an error of jsonrpc_send
\* is logged and called a success
Transmit(key, level) ==
  IF rpc = "dead" THEN UNCHANGED <<sent, rpc>>
  ELSE /\ rpc' = "open"
       /\ sent' = Append(sent, [key |-> key, level |-> level])

\* sbplugin_ovsdb_bst_*_threshold_set: an offset outside the array or a failure
\* to connect ends the request
SendThreshold ==
  /\ bpc = "send"
  /\ LET c == Head(left)
         fits == Resolve(req.realm, req.port, req.index) < Size(req.realm)
     IN \/ /\ fits
           /\ Transmit(Key(req.realm, c, req.port, req.index), NextLevel)
           /\ wanted' = Promise(c, IF rpc = "dead" THEN Unknown ELSE NextLevel)
           /\ bpc' = IF Len(left) = 1 THEN "recv" ELSE "send"
        \/ /\ ~fits \/ (CommitFaults /\ rpc = "none")
           /\ bpc' = "recv"
           /\ UNCHANGED <<sent, rpc, wanted>>
  /\ left' = Tail(left)
  /\ UNCHANGED <<db, net, applied, cache, req, record, had, events>>

-----------------------------------------------------------------------------
(* ovsdb-server *)

\* a transaction that makes the table new, and its notification
Commit(new) ==
  LET changed == {k \in Rows : new[k] # db[k]} IN
    /\ db' = new
    /\ net' = IF changed = {} THEN net ELSE Append(net, [k \in changed |-> new[k]])
    /\ had' = [k \in Rows |-> had[k] \cup {new[k]}]

\* where name == key: a name that no row has updates nothing
Execute ==
  /\ sent # <<>>
  /\ LET m == Head(sent) IN
       Commit([k \in Rows |-> IF k = m.key THEN [db[k] EXCEPT !.threshold = m.level]
                              ELSE db[k]])
  /\ sent' = Tail(sent)
  /\ UNCHANGED <<rpc, applied, cache, bpc, req, left, record, wanted, events>>

\* the driver counts buffers
Count ==
  /\ Event
  /\ \E k \in Rows, n \in Counts : Commit([db EXCEPT ![k].stat = n])
  /\ UNCHANGED <<rpc, sent, applied, cache, bpc, req, left, record, wanted>>

\* the connection breaks and what was not executed is lost; it is not reopened
Disconnect ==
  /\ CommitFaults
  /\ rpc = "open"
  /\ rpc' = "dead"
  /\ sent' = <<>>
  /\ wanted' = [t \in Targets |->
                  IF \E m \in ToSet(sent) : m.key = KeyOf(t) THEN Unknown ELSE wanted[t]]
  /\ UNCHANGED <<db, net, applied, cache, bpc, req, left, record, had, events>>

-----------------------------------------------------------------------------
(* Clearing: a connection of its own, and the reply is waited for *)

\* bst_clear_threshold_set, which also wipes the record.  A threshold still on
\* its way may be executed after the clear, so nothing is promised about it.
ClearThresholds ==
  /\ Event
  /\ bpc = "recv"
  /\ \/ /\ Commit([k \in Rows |-> [db[k] EXCEPT !.threshold = Unset]])
        /\ wanted' = [t \in Targets |->
                        IF \E m \in ToSet(sent) : m.key = KeyOf(t) THEN Unknown
                        ELSE MaxLevel]
     \/ CommitFaults /\ UNCHANGED <<db, net, had, wanted>>
  /\ UNCHANGED <<rpc, sent, applied, cache, bpc, req, left, record>>

\* bst_clear_stats
ClearStats ==
  /\ Event
  /\ bpc = "recv"
  /\ \/ Commit([k \in Rows |-> [db[k] EXCEPT !.stat = 0]])
     \/ CommitFaults /\ UNCHANGED <<db, net, had>>
  /\ UNCHANGED <<rpc, sent, applied, cache, bpc, req, left, record, wanted>>

-----------------------------------------------------------------------------
(* Reading *)

Get(type, order) ==
  /\ Event
  /\ bpc = "recv"
  /\ req' = [type |-> type]
  /\ left' = order
  /\ bpc' = "read"

\* mutant: the last index of a realm is not read
RealmOrderShort(r, port) ==
  LET c == Counters[r]
      size == IF r = DeviceRealm THEN 1 ELSE NumIndex - 1
  IN IF r \notin Realms THEN <<>>
     ELSE [n \in 1 .. size * Len(c) |->
             [realm |-> r, counter |-> c[1 + ((n - 1) % Len(c))],
              port |-> port, index |-> (n - 1) \div Len(c)]]

\* the counters of a realm on a port: by index, the counters of one index together
RealmOrder(r, port) ==
  LET c == Counters[r]
      size == IF r = DeviceRealm THEN 1 ELSE NumIndex
  IN IF r \notin Realms THEN <<>>
     ELSE [n \in 1 .. size * Len(c) |->
             [realm |-> r, counter |-> c[1 + ((n - 1) % Len(c))],
              port |-> port, index |-> (n - 1) \div Len(c)]]

\* the order of sbplugin_ovsdb_bst_threshold_get
ThresholdOrder ==
  RealmOrder("device", 0) \o
  FlattenSeq([p \in 1 .. NumPorts |->
                RealmOrder("ingress-port-priority-group", p) \o
                RealmOrder("ingress-port-service-pool", p) \o
                RealmOrder("egress-port-service-pool", p)]) \o
  RealmOrder("egress-mc-queue", 0) \o
  RealmOrder("egress-uc-queue", 0) \o
  RealmOrder("egress-service-pool", 0) \o
  RealmOrder("ingress-service-pool", 0) \o
  RealmOrder("egress-cpu-queue", 0) \o
  RealmOrder("egress-rqe-queue", 0) \o
  RealmOrder("egress-uc-queue-group", 0)

\* a realm, if it is one of the instance's
Listed(r) == IF r \in Realms THEN <<r>> ELSE <<>>

\* the order of sbplugin_ovsdb_bst_snapshot_get
SnapshotOrder ==
  Listed("device") \o
  Listed("ingress-port-priority-group") \o Listed("ingress-port-service-pool") \o
  Listed("ingress-service-pool") \o Listed("egress-port-service-pool") \o
  Listed("egress-service-pool") \o Listed("egress-uc-queue") \o
  Listed("egress-uc-queue-group") \o Listed("egress-mc-queue") \o
  Listed("egress-cpu-queue") \o Listed("egress-rqe-queue")

\* bst_get_report of GET_THRESHOLD
GetThresholds ==
  /\ Get("GET_THRESHOLD", ThresholdOrder)
  /\ UNCHANGED <<db, rpc, sent, net, applied, cache, record, wanted, had>>

\* sbplugin_ovsdb_bst_threshold_get: each row under the read lock
ReadThreshold ==
  /\ bpc = "read"
  /\ req.type = "GET_THRESHOLD"
  /\ LET t == Head(left) IN record' = [record EXCEPT ![t] = cache[SlotOf(t)].threshold]
  /\ left' = Tail(left)
  /\ bpc' = IF Len(left) = 1 THEN "answer" ELSE "read"
  /\ UNCHANGED <<db, rpc, sent, net, applied, cache, req, wanted, had, events>>

\* sbplugin_ovsdb_bst_snapshot_get
GetStats ==
  /\ Get("GET_REPORT", SnapshotOrder)
  /\ UNCHANGED <<db, rpc, sent, net, applied, cache, record, wanted, had>>

\* sbplugin_ovsdb_bst_*_data_get
Sample(t) == cache[SlotOf(t)].stat

\* each realm under the read lock
ReadRealm ==
  /\ bpc = "read"
  /\ req.type = "GET_REPORT"
  /\ record' = [t \in Targets |-> IF t.realm = Head(left) THEN Sample(t) ELSE record[t]]
  /\ left' = Tail(left)
  /\ bpc' = IF Len(left) = 1 THEN "answer" ELSE "read"
  /\ UNCHANGED <<db, rpc, sent, net, applied, cache, req, wanted, had, events>>

\* bst_send_response; the next request that reads wipes the record first
Answer ==
  /\ bpc = "answer"
  /\ record' = Zeroed
  /\ bpc' = "recv"
  /\ req' = Idle
  /\ UNCHANGED <<db, rpc, sent, net, applied, cache, left, wanted, had, events>>

-----------------------------------------------------------------------------
(* The monitor thread *)

\* bst_ovsdb_cache_update_table takes the rows of a notification in no
\* particular order; bst_ovsdb_row_update stores each under the write lock
MonitorRow ==
  /\ net # <<>>
  /\ \E k \in DOMAIN Head(net) \ applied :
       LET new == Head(net)[k]
           s == CacheSlot(k)
           last == applied \cup {k} = DOMAIN Head(net)
       IN /\ cache' = IF s.at >= Size(s.realm) THEN cache
                      ELSE [cache EXCEPT ![s] = [stat |-> new.stat,
                                                 threshold |-> Effective(new.threshold)]]
          /\ applied' = IF last THEN {} ELSE applied \cup {k}
          /\ net' = IF last THEN Tail(net) ELSE net
  /\ UNCHANGED <<db, rpc, sent, bpc, req, left, record, wanted, had, events>>

-----------------------------------------------------------------------------
BstThread ==
  \/ SetThreshold
  \/ SendThreshold
  \/ ClearThresholds
  \/ ClearStats
  \/ GetThresholds
  \/ ReadThreshold
  \/ GetStats
  \/ ReadRealm
  \/ Answer

Next == BstThread \/ MonitorRow \/ Execute \/ Count \/ Disconnect

Spec == Init /\ [][Next]_vars

\* the threads are scheduled and ovsdb-server executes what it has received;
\* no request has to come
Fairness ==
  /\ WF_vars(SendThreshold \/ ReadThreshold \/ ReadRealm \/ Answer)
  /\ WF_vars(MonitorRow)
  /\ WF_vars(Execute)

FairSpec == Spec /\ Fairness

-----------------------------------------------------------------------------
(* Properties *)

\* Every variable has its type; no row has a threshold that REST refuses.
TypeOK ==
  /\ db \in [Rows -> Row]
  /\ rpc \in {"none", "open", "dead"}
  /\ \A m \in ToSet(sent) : m.level \in Levels
  /\ \A n \in ToSet(net) : DOMAIN n \subseteq Rows /\ \A k \in DOMAIN n : n[k] \in Row
  /\ applied # {} => net # <<>> /\ applied \subseteq DOMAIN Head(net)
  /\ cache \in [Slots -> [stat : Counts, threshold : Levels \cup {0}]]
  /\ bpc \in {"recv", "send", "read", "answer"}
  /\ bpc \in {"send", "read"} => left # <<>>
  /\ record \in [Targets -> Levels \cup Counts]
  /\ wanted \in [Targets -> Levels \cup {Unknown}]
  /\ events \in 0 .. MaxEvents

\* When every notification has been applied, REST's address of a counter
\* leads to what the database has under its name, whichever of the requests,
\* the driver and lost connections got in between.
CacheFollows ==
  net = <<>> => \A t \in Targets :
                  /\ cache[SlotOf(t)].stat = db[KeyOf(t)].stat
                  /\ cache[SlotOf(t)].threshold = Effective(db[KeyOf(t)].threshold)

\* An answer shows of every counter a value that its own row has had, though it
\* was read row by row, or realm by realm, while the monitor went on writing.
ReportHonest ==
  bpc = "answer" =>
    \A t \in Targets :
      IF req.type = "GET_REPORT"
      THEN \E r \in had[KeyOf(t)] : record[t] = r.stat
      ELSE \E r \in had[KeyOf(t)] : record[t] = Effective(r.threshold)

\* A threshold that was sent, and not lost with the connection nor overtaken by
\* a clear, is at last the one that reports show, and stays it.
ThresholdArrives ==
  <>[](\A t \in Targets : wanted[t] # Unknown => cache[SlotOf(t)].threshold = wanted[t])
=============================================================================
