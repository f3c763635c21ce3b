# A TLA+ model of the BroadView daemon (ops-broadview)

The daemon monitors the packet buffers of a switch (BST, buffer statistics
tracking) for OpenSwitch. Collectors configure it over REST, and it sends them
reports on request, periodically, and when a counter crosses a threshold. It
reaches the switch through OVSDB tables that the switch driver shares.

This directory models its concurrent core: the threads, queues, timers, locks
and caches between a REST request or a change of the configuration database and
a report. JSON and HTTP syntax, log lines and the layout of the records are
abstracted away.

## The system

| Part | State it keeps | Operations | Module |
|---|---|---|---|
| Trigger thread (`bst_trigger.c`, handlers in `bst_main.c`) | trigger queue, count per counter, timer flag per unit | `bst_trigger_cb`, `bst_process_trigger`, `bst_clear_trigger_count`, timer callback | `BstTrigger` |
| BST configuration (`bst.c`) and the plugin (`ovsdb_bst_ctl.c`, `sbplugin_bst_*.c`) | the application's copy, the plugin's cache, the database | set feature, set tracking, enable on trigger, update; monitor thread | `BstConfig` |
| Collection and reports (`bst.c`, `bst_main.c`, `sbplugin_bst.c`) | three statistics records, the collection timer | collect, rotate, report, clear | `BstReport` |
| Web server and sessions (`nb_plugin/rest`), the answer path of the applications, JSON buffers (`bst_json_memory.c`) | session table, sockets, queues, buffer pools | accept, parse, dispatch, encode, reply, close, release | `RestSession`, `RestApi` |
| Counter table and thresholds (`bst.c`, `sbplugin_bst.c`, `sbplugin_bst_ovsdb.c`, `sbplugin_bst_cache.c`) | the bufmon rows, the cache's arrays, the threshold connection | set, clear, get of thresholds; clear and get of statistics; row update | `BstTable` |
| System utilities (`system_utils_main.c`, `reg_hb`), module manager | second application thread, heartbeat timer, table of REST handlers | register, look up, configure, answer, heartbeat | `Heartbeat`, `SystemTimer` |
| South-bound redirector (`sbplugin_redirect_*.c`) | table of plugins, read-write lock | functions `sbapi_*`, two look-ups, registration | `Redirector`, `SbOps`, `SbApi` |
| Agent (`agent.c`, `system.c`), its part of the command line, the REST component's start | the map in the database, three copies of it, the listening socket | vtysh commands, database loop, update of collector and port, server restart | `Agent` |
| System plugin | none of its own | its operations, as functions that may fail | `SbOps` |
| Logging, cJSON, example collector | no protocol | | not modelled |

Interaction. The web thread parses a request and posts a message with its
session as cookie to an application's System V queue; it finds the
application's handlers in the module manager's table. Each application's thread
takes one message at a time; a handler calls the redirector, which calls the
plugin that suits the unit's silicon, which commits to ovsdb-server and writes
its cache. ovsdb-server notifies the plugin's monitor thread, which updates the
cache, posts `UPDATE_*` messages to the bst queue and calls `bst_trigger_cb`.
That posts to the trigger queue, whose thread posts `TRIGGER_REPORT` to the bst
queue. POSIX timers run their callbacks in threads of their own, which post to
one of the queues. Every post uses `IPC_NOWAIT`: a full queue loses the
message. The agent's main thread has a database connection of its own; it
writes the collector's address and the agent's port, which the other threads
read, and shuts the listening socket down to make the web thread take a new
port.

What is hard: handlers that drop a lock and use what they read before; copies
of one value in four places, updated in different orders; queues that lose
messages; timers that expire after they were deleted, or cannot be deleted;
sessions handed between threads without a lock; locks that are taken again by
their holder; threads that start in an order nobody waits for; encoders,
commits and timers that fail half way. The list with source lines is under
`hazards` in `PROJECT.json`.

## The modules

Every module `M` declares its parameters as `CONSTANTS` with a named `ASSUME`;
`MCM` defines the instances for TLC and the `.cfg` files choose them. In a
module, operators marked `mutant` are altered copies of a definition, used only
to confirm that a property notices the alteration.

### BstTrigger

`count`, `timer` and `maxTriggers` are the unit's `bst_trigger_count`,
`bst_trigger_timer.in_use` and `config.bstMaxTriggers`; `tpc` is where the
trigger thread is. `bst_process_trigger` is split at its locks: `CheckLimit`
(read lock), `PostReport` (no lock), `TimerAdd`, `BumpCount` (write lock).
`bst_clear_trigger_count` is `ClearCounts`, `TimerDelete`, `PostEnable`.
`TimerExpires` starts a callback thread and `TimerCb` posts, so a callback can
run after its timer was deleted. `TimerFaults` and `RecvFaults` let the timer
calls and `msgrcv` fail. `Unmapped` holds counters the driver reports that
`bst_realm_index_map` does not list; like the code, the model counts them at
index 0.

### BstConfig

One unit's configuration: `app`, `cache`, `db`, and what is on its way (`bstQ`,
`inflight`, `net`). A handler of the bst thread is `SetFeature`, `SetTrack` or
`EnableOnTrigger`, then `ReadToCommit` (`sbapi_bst_config_get`),
`CommitSystem`, `CommitTrack` (one of `TrackTransactions` per realm),
`StoreMask` (the store without the lock) and `StoreCache`. `Update` is
`bst_update_config_set`. The monitor thread saves the mask (`MonitorStart`),
takes the lock (`MonitorLock`), applies the row (`MonitorSystem`, `MonitorRow`)
and compares the masks (`MonitorNotify`). Of the configuration fields only
bst-enable, the trigger rate limit (which a request may leave out, `Keep`) and
the tracking mask are kept; the others travel the same way. `Init` is the state
after `bst_app_config_init`, with whatever configuration an earlier run of the
daemon has `Stored` in the database. `lost` is history: a message found the
queue full, a commit has failed or another client has written the row. A commit
fails before anything of it is executed; a connection that breaks between two
of its tracking transactions is left out. Each commit opens a connection of its
own and the tracking transactions are not waited for; they are executed in the
order they were sent, also across connections, because the next handler sends
its own only after ovsdb-server has answered its System transaction.
ovsdb-server, its other clients and the switch driver are external.

### BstReport

`data` is what the unit's three record pointers point to; `bst_update_data`
exchanges the pointers, which is a rotation of the contents. `StartCollection`
wipes the current record, `CollectRealm` copies one realm under the cache's
lock or fails, and `Respond` rotates and then encodes and sends
(`SendResponse`). One value per realm stands for its counters. `Encoded` is the
inclusion rule that all encoders share: against a backup record the rows that
differ, without one all rows or the rows that are not zero. Any report may be
lost after the rotation, because the encoder or the send has failed or no
collector answers: `bst_send_response` logs it, at most, and nothing is rotated
back or sent again. `CollectorMoves` is a change of the collector's address,
after which the reports go to one that has seen none. Both are history, since
the agent does not notice: `view` is what the collector has really been told,
and `synced` whether the differences must add up. `SetFeature` keeps only what
concerns reports and the timer; REST always sends the interval and
send-async-reports. The timer is a `SystemTimer`.

### SystemTimer

The periodic timers of `system_time.c` and the code that starts and stops them,
which is alike in the heartbeat and in the collections. A timer is a flag
`inUse` and the interval at which the kernel runs it. `Stops` and `Starts` are
sets of `Outcome`s: `timer_delete`, `timer_create` and `timer_settime` may fail
one by one, a start goes on after a failed delete, and `timer_create`
overwrites the id of a timer that is still there, which then is one of the
`orphans`.

### BstTable

One unit's counters. `db` is the bufmon table, `cache` the plugin's arrays,
`rpc` and `sent` the connection on which thresholds travel, `net` the
notifications. A counter is named three times: by REST (`Targets`: realm, port,
index from 0), by the database (`Key`: indices from 1) and by an array and an
offset (`Resolve` from the first, `CacheSlot` from the second). These are the
conversions of the source, each in one operator. A request to set thresholds is
`SetThreshold` (parameter checks of the handler and of the plugin) and one
`SendThreshold` per counter of the realm; nobody waits for the reply, and
ovsdb-server executes it later (`Execute`). A broken connection is never opened
again (`Disconnect`, `rpc = "dead"`): what is sent afterwards is lost although
the request succeeds. `ClearThresholds` and `ClearStats` use a connection of
their own and wait. `ReadThreshold` reads a row and `ReadRealm` a realm under
the cache's lock; `MonitorRow` writes a row of a notification under it.
`wanted` and `had` are history: what the last request asked for, unless the
connection lost it or a clear was acknowledged while it was still on its way
(`Unknown`), and the contents every row has had. All realms have the same
number of indices and all counters the same default here, there is at least one
realm, and the tracking bit of a row is in `BstConfig`.

### RestApi, RestSession

`RestApi` is the server as its clients see it, without sessions, sockets and
messages: the client the web thread is `talking` to, the `answers` that went
out to each client, the `line` in front of each application, whom it is
`serving`. A client connects, is refused, is left alone or is accepted into a
line; the application takes the requests in their order (`Take`), answers the
client (`Respond`) and closes its connection. Nobody who was accepted stays
without an answer except by `Fail`, and nobody is left alone (`Abandon`) unless
a request keeps a session (`Backlog`) or an encoder has failed before.

In `RestSession`, the code, `sess` is the session table, `conn` says whose
connection a socket is and how many answers it has carried, `web` is the web
thread, `pc`, `msg`, `held` the application threads. A request is `Accept`,
`AllocateSession`, `ReadRequest`, `ParseRequest`, `Dispatch`; then `Receive`,
`Encode`, `Reply`, `Close`, `Release`, `FreeBuffer` in the application.
`Reply`, `Close`, `Release` are the three statements that `rest_response_send`,
`rest_response_send_ok` and `rest_send_json_error` have in common; each is
mapped to one of them. What the web thread refuses it answers and closes itself
(`Refuse`, `EndSession`). `PostInternal` is a timer's or the monitor's message
without a cookie. Both applications have the same kinds of requests and pools
here, which allows more than system_utils does. `failed` is history: how many
encoders have failed. The socket an asynchronous report opens for itself is not
counted, and a failed `send` is a client that has gone.

### Heartbeat

The thread of system_utils from its registration with the module manager to its
end, with the timer that makes it send the switch properties. `Register` comes
before anything that can fail: `GetPropertiesFails` and `ReceiveFails` end the
thread and leave its entry in `modules`, so that `Ask` goes on accepting
requests. `Expire` is the kernel, `TimerCallback` the thread it starts, which
may post after its timer was deleted. The thread is `Receive`, `ReadPort` (the
port is read again for every message), then `SetFeature`, or `Encode` with a
buffer of the pool and `Send`. `reg_hb_config_feature_set` restarts the timer
only when something changes (`Restarts`) and always reports success. `broken`
is history: the last start or stop of the timer has failed. `OtherRegisters` is
the bst thread, which competes for the table. Every message names unit 0, which
the plugins know: `num_units_get` fails when there is none.

### SbOps, SbApi, Redirector

`SbOps` has the functions `sbapi_*` of `sbplugin_redirect_bst.c`, `_system.c`
and `_packet_trace.c` as records of what tells them apart: the feature, whether
they name a unit and so look up its silicon, whether they call back or copy a
capability, and what they answer to a null callback. `SbApi` is the abstract
specification: one client's call is served in one step, by the `Best` plugin
among those registered. `Redirector` is the code: `Call`, `Lock`, `GetType`
(`sbapi_system_unit_to_asic_type` under a lock of its own, then released),
`Lock` again, `GetHandle` and `Answer` with nested read locks (`depth`),
`Unlock`, `Return`; a registration is `Validate`, `WriteLock`, `Place`,
`WriteUnlock`. `Lookup` is `sb_redirect_feature_handle_get` with its loop: the
first slot for all silicon is remembered, an exact match ends it. The lock has
default attributes, which lets readers in while a writer waits: nested read
locks are safe, a registration may starve, and no property claims that it ends.
The assumption `OneForAll` is needed: the code takes a second plugin for all
silicon as an exact match, since the mask of the first contains its bits.
`PluginAssumption` says of a plugin what the registration does not check and the
plugins in the tree do: its masks and the silicon of its units are values of
`BVIEW_ASIC_TYPE`. The rest of it keeps the null pointer apart from the other
values.

### Agent

`db` is the `broadview_config` map, `edit` the copies that vtysh sessions
clone, change and write back whole (`BeginCommand`, `SetAgentPort`,
`SetClient`). The daemon's main thread (`mpc`) waits for the lock and the
system's configuration, then passes changes on: `InfoSet` (validation and
`system_agent_cfg`), `ParamsModify` (the REST component's copy), `PortSet`,
`ShutDown`. The thread that becomes the web server (`wpc`) posts the semaphore
that releases the main thread (`PostSem`) before it clears and reads its own
configuration (`RestClear`, `RestReadsPort`, `RestReadsAddress`), and then
serves: `SocketCreate`, `ReadPort`, `Bind`, `Listen`, `AcceptFails`. History
variables mark the excuses: `overlap` (two sessions in a command at once),
`raced` (an update between the two reads at the start) and `missed` (a shutdown
before `listen`). File descriptors are not numbered.

## The runs

| Run | Shows | Bounds | States |
|---|---|---|---|
| `trigger_faults` | `TypeOK`, `RateLimit` with every fault | 1 unit and an unknown one, 2 indices and an unmapped counter, limits 1 and 2, queues of 2, counts to 3 | 2.2 M |
| `trigger_timer` | `CountedHasTimer`, `SuppressionEnds`, `IdleTimerStops` | as above, no faults, no unmapped counter | 0.16 M |
| `config` | `TypeOK`, `LimitConverges`, `EnableSeen`, `TrackSeen`, `Settles` | 2 realms, 2 limits, queue of 2, 3 events of any kind, failing commits, BST stored as on or off | 2.2 M |
| `config_enable` | violation of `EnableConverges` | 2 events | |
| `config_limit` | violation of `LimitSticks` | 3 events | |
| `report_synced` | `TypeOK`, `CollectorSynced`, `TimerFollowsConfig` | 2 realms, 2 values, 3 configurations, queue of 1, 1 failure of the timer | 5.0 M |
| `report_trigger` | violation of `NoReportOnFailure` | as above, no failures of the timer | |
| `rest` | `TypeOK`, `CookieValid`, `NoSliceLost`, `NoSessionLost`, `AnsweredOnce`, `SessionReleased` with failing encoders, and that `RestSession` implements `RestApi` | 3 clients and sockets, 2 sessions, 1 application, queue of 2 and pool of 1, 1 failing encoder | 0.76 M |
| `table_follows` | `TypeOK`, `CacheFollows`, `ReportHonest`, `ThresholdArrives` | a realm indexed by port and one by queue, 1 port and room for 2, 2 indices, 2 levels, 2 counts, 3 events, failing connections | 0.68 M |
| `redirector` | `TypeOK`, `LockDiscipline`, `CallsReturn`, and that `Redirector` implements `SbApi` | 2 clients, 4 plugins for 2 slots, 2 kinds of silicon, 2 unit numbers, 3 operations of different kinds, failing locks | 0.28 M |
| `heartbeat` | `TypeOK`, `TimerFollows`, `RequestsAnswered`, `HeartbeatsGoOut`, `HeartbeatsShowPort` | 1 session, 2 intervals, 2 ports, queue and pool of 2, 2 failures of the timer, 1 late callback | 0.98 M |
| `agent` | `TypeOK`, `SettingsKept`, `CollectorWhole`, `CollectorFollows`, `AgentPortFollows` | 2 shells, 2 addresses, 2 ports and an invalid one of each, 2 writes | 0.46 M |

Why the bounds suffice: two limits, two realms, two values, two ports or two
sessions are the fewest that tell a stale one from a current one; queues of one
or two are full in many states; in `config` a second request and a trigger
overlap the late notifications of the first. In `rest` two messages in a queue
have an order, and the third client finds both sessions taken. In
`table_follows` a second port exists in the arrays but not in the switch, two
indices tell an address from its neighbour's, and three events are a set, a
clear and a read, or two sets of one counter. In `redirector` a plugin for one
silicon, one for all and one that finds the table full register in any order
around two calls, and the operations are one with a unit, one without and a
capability. In `heartbeat` two failures are a delete and the start that follows
it. In `agent` two writes are a command and a command that overtakes it, or an
invalid and a valid setting.

Deadlock checking is off in `config*`, `table_follows`, `redirector`,
`heartbeat` and `agent`: there the environment is bounded, or the web server or
a thread may end, and the daemon then rests. The other runs check it.
`CountBound` pauses the ASIC and `MaxFaults`, `MaxDue`, `MaxWrites` bound the
environment; none cuts off a step of the daemon's threads.

### Fairness

All of it is weak fairness of the daemon's threads, of armed timers and their
callbacks, and of ovsdb-server for what it was sent: threads block only in
`msgrcv`, on locks that are held for a few statements, or in bounded `select`s
and polls. Clients, shells, the ASIC, operators and failures owe nothing.

- `BstTrigger!FairSpec` also assumes `NoOverload`: not every clear message of a
  unit finds the trigger queue full. Without it the code does not guarantee
  that suppression ends, since an ASIC that triggers fast enough keeps the
  queue full.
- `Redirector!Fairness` lets each thread go on when it can, and a plugin return
  from its callbacks. A reader is never kept out by a waiting writer, so weak
  fairness is enough for `CallsReturn`.
- `Heartbeat!FairSpec` needs no such assumption although clients may fill the
  queue: the thread empties it, and while it is full the queue's other messages
  are answered.
- `Agent!FairSpec` is fair to the main thread and to the web thread; `accept`
  is left with an error only after a shutdown, or at any time by `AcceptFails`,
  which is not fair.

### Where the code departs from what it says

Three runs show a disagreement between the code and its comments or test plan
(`findings` in `PROJECT.json`):

- The monitor stores `true` for bst-enable whenever the key changed, so a
  disable seen late ends up as enabled (`config_enable`).
- `bst_enable_on_trigger` writes back a rate limit it read from a stale cache
  (`config_limit`).
- A failed collection is reported when a trigger asked for it
  (`report_trigger`).

The passing properties hold within limits that the same reading gave. Each is
written into the property, most as a history variable, so that it covers
everything else:

- A trigger of an unmapped counter is counted at index 0 with no timer, and
  then suppresses the device's triggers: `trigger_timer` has no unmapped
  counter.
- A session whose encoder fails is never answered or released, and an encoder
  that fails after it took its buffer leaks the slice
  (`bst_json_encoder.c:442`): `failed` in `SessionReleased`, `NoSessionLost` and
  `NoSliceLost`, `Fail` in `RestApi`. A connection that finds no free session is
  neither answered nor closed: `Abandon`.
- An `UPDATE` message that finds the bst queue full, or a commit that fails,
  leaves the application's copy different from the database until the next
  change: `lost` in `LimitConverges` and `EnableSeen`. The tracking masks need
  not agree at rest, because a row notification can set a realm's bit and never
  clear it: `TrackSeen` claims one direction, and `EnableSeen` likewise.
- Differences do not add up after a get, a trigger or a failed collection,
  because those rotate the records too, nor after a clear, of which the
  collector is not told. Nor do they after a report that is not delivered: the
  records have rotated (`bst_main.c:808`) when the encoder fails
  (`bst_main.c:704`), the send fails and is logged (`bst_main.c:687`), or the
  default collector is not reachable, which `rest_send_async_report` even
  reports as success (`rest_http_client.c:235`). What changed since the report
  before is then missing at the collector until the counter changes again or a
  full report arrives. So it is for a new collector: `synced` in
  `CollectorSynced`.
- A threshold sent on a broken connection, or still on its way when a clear is
  acknowledged, may never be shown: `Unknown` in `ThresholdArrives`.
- A timer whose last start or stop failed stays as it is until a request
  changes something, although the request was answered with success: `broken`
  in `TimerFollows`, `TimerFollowsConfig` and `HeartbeatsGoOut`.
- Requests to system_utils whose thread has ended are never answered: `pc =
  "exited"` in `RequestsAnswered`.
- Two shells in a command at once lose one of the changes: `overlap` in
  `SettingsKept`. An update between the two reads of `rest_config_init` leaves
  a mixture until the next one: `raced` in `CollectorWhole`. A shutdown that
  comes before `listen` leaves the server at the old port: `missed` in
  `AgentPortFollows`. A port that cannot be bound ends the server for good.

## The proofs

Every component's module `M` has its theorems and their proofs in `MProofs`.
They hold for every value of the constants that satisfies the named assumptions
of `M` (`TriggerAssumption`, `ConfigAssumption` and so on), which TLC evaluates
on the instances. All type invariants and all safety invariants that the runs
check are proved, with one action property and two refinements.

The argument is the same everywhere: the property is not inductive, so an
invariant `...Inv` is stated that is, a lemma `...Init` shows that the start has
it and `...Step` that every step keeps it, action by action, and the theorems
follow. TLC checked each of these invariants on its run before it was proved.
What they add to the properties is the reason why the code is right:

- `BstTriggerProofs`. `TypeCorrect`: `TypeOK` with `MessageFits` (the message
  the trigger thread holds is of the type its program counter needs).
  `RateLimited`: the limit is read under one lock, the report posted without
  one and counted under another; `RateInv` adds `SentCounted` (reports sent
  since the last clear are counted, but for the one being handled) and
  `PostBelowLimit` (a thread about to post holds a limit above the count).
  `CountedTimed`, when every counter is mapped and timer calls do not fail:
  `TimerInv` says at each program counter which units may have a count without
  a timer.
- `BstConfigProofs`. `ConfigInv`: what was committed and a copy does not have
  yet is on its way to it. `SystemFits`: the last notification about the System
  row that the monitor has not applied is what the database has, and when there
  is none the cache has it. `AppFits`: the application has the cache's limit, or
  a handler is going to store its own there, or an `UPDATE_FEATURE` is queued.
  `TrackFits`: a realm that is missing from the cache's mask, or from the one
  the monitor has read, is disabled by a transaction in flight or set again by
  a notification; the mask is stored without the lock, and `MaskFits` says why
  that is no harm: its transactions are the last in flight by then. From these
  and `Quiescent` follow `LimitsConverge`, `EnableIsSeen`, `TrackingIsSeen`.
- `RestSessionProofs`. `RestInv` numbers the jobs of an application (what is
  queued and what is handled) and says that no two jobs have one session or one
  open socket, and none the web thread's. `CookiesAreValid`, `SlicesAreFreed`
  and the action property `ConnectionsAnsweredOnce` follow. `NoSessionLost` is
  inductive with `RestInv` (`SessionsAreKnown`): an application thread keeps
  its sessions, takes the next message's over, or gives its message's back
  (`KeptStep`). `RestImplementsApi`: under `ApiInv`, which adds `PeersApart`
  (no client is on two sockets), every step is a step of `RestApi` or a
  stutter. `RepliesStep` says that what happens on a socket concerns its own
  client only, `CallersAppend` and `CallersTail` that a message and its client
  change the queue and the line alike, and `FullBacklog` that somebody keeps a
  session when none is free, by `NoSessionLost`.
- `BstReportProofs`. `CollectorSynced` is about the bst thread at rest;
  `ViewFits` keeps it during the next collection, since only the current record
  is written (`IncrementalReportsAddUp`). `Respond` splits on whether the report
  arrives: a lost one ends the promise, and a full one that arrives renews it,
  because it has every tracked realm. For the timer, `StopsFit` and
  `StartsFit` say what the failures of `SystemTimer` can leave, and `TimerFits`
  that only a failed stop leaves a timer without an owner
  (`ReportTimerFollows`).
- `HeartbeatProofs`. The same two lemmas with the heartbeat's timer
  (`HeartbeatTimerFollows`); `FreeFits` and `ErrorsFit` tie the pool and the
  error count to where the thread is.
- `BstTableProofs`. First the three addresses: `AddressesAgree`, `RowsApart` and
  `RowSlot` show that REST's way to an entry of an array and the database's
  lead to the same one, that no two counters share it, and that it is inside
  the array.
  `NewsFollow` (the last news of a row are what the database has, a row without
  news has been applied) gives `CacheFollowsDatabase`; `HadAll` and `ReadFits`
  (what has been read so far is a value the row has had) give
  `ReportsAreHonest`, which also needs that the order of reading leaves no
  counter out (`SnapshotOrderFits`, `ThresholdOrderFits`).
- `RedirectorProofs`. `LockInv`: a client's depth is what its place in the call
  says, and a registration holds the lock alone (`LockDisciplined`).
  `RedirectorImplementsApi`: under `RefineInv` every step is a step of `SbApi`
  or a stutter. `AsicFits` and `HandleFits` say that what a call has looked up
  stays right until it is used although the lock was released in between:
  plugins are only added, and by `OneForAll` a later one does not take the place
  of the one found.
- `AgentProofs`. `EditFits` (a copy that no other writer has overtaken is the
  map), `ReplicaFits` and `BeforeFits` (the main thread passes on what it has
  tested) and `PortRead` (between the two reads of `rest_config_init`, the port
  is the one in force) give `SettingsAreKept` and `CollectorIsWhole`.

Induction over a sequence, for the loop in `Lookup` and the concatenations in
the order of reading, uses a least counterexample
(`WFMin` and `NatLessThanWellFounded` of `WellFoundedInduction`).

Only model-checked: liveness (`SuppressionEnds`, `IdleTimerStops`, `Settles`,
`SessionReleased`, `ThresholdArrives`, `CallsReturn`, `RequestsAnswered`,
`HeartbeatsGoOut`, `HeartbeatsShowPort`, `CollectorFollows`,
`AgentPortFollows`), which rests on fairness and is out of the prover's reach.
`SystemTimer` and `SbOps` have no behaviour of their own; the lemmas about them
are in the modules that use them.

## Not modelled

Logging, the vendored JSON library and the example collector keep no state that
another part depends on. Of the command line only the commands that write the
agent's settings are modelled; the others print. Of the system plugin only the
interface is: its tables of default buffer sizes and its notations of ports are
data. JSON and HTTP parsing, formatting, the guard words of buffers and the
conversion of units and percentages are abstracted to their outcome. Nobody
reads the replies on the threshold connection; that ovsdb-server may stop
reading from it when they fill the socket is not modelled, nor are file
descriptor numbers (the main thread may shut down a number that was given to a
client meanwhile). `msgrcv` failures and the end of a thread are modelled for
the trigger thread and for system_utils. `bview_system_deinit` frees the
applications' data under their running threads when the web server ends; the
models stop the web server there and let the others run. A crash of the daemon
loses all of its state; what the next one starts from is `Stored` in
`BstConfig` and `Default` in `Agent`.

## Plan

1. Proofs: that `Redirector`'s `Lookup` returns the first exact match or else
   the plugin for all silicon, without `OneForAll`; `IdleTimerStops` and
   `SuppressionEnds` of `BstTrigger` reduced to safety lemmas that say which
   message or timer brings the end.
2. Row inclusion of flat and two-level realms and `bst_json_convert_data` as
   pure operators against a reference definition, with the lemma that a row is
   left out exactly when none of its counters differ.
3. Liveness in `RestApi` (an accepted request is answered or `faulty`), with
   the fairness of `RestSession` shown to imply its own.
