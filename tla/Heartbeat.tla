------------------------------ MODULE Heartbeat ------------------------------
(***************************************************************************)
(* The system utilities (system_utils_main.c and reg_hb/): one thread that *)
(* answers the system feature's REST requests and sends the collector a    *)
(* heartbeat, the switch properties, whenever its timer has posted a       *)
(* message.                                                                *)
(*                                                                         *)
(* The thread registers its REST handlers before anything that can fail,   *)
(* so that a client may wait for a thread that has gone.  The web server   *)
(* writes messages, the timer's callbacks run in threads of their own, and *)
(* the agent changes the port that a heartbeat announces.                  *)
(***************************************************************************)
EXTENDS Naturals, Sequences, FiniteSets, SystemTimer

CONSTANTS
  Sessions,    \* web sessions: each waits for the answer to one request
  Intervals,   \* intervals a client can ask for
  Default,     \* BVIEW_REG_HB_DEFAULT_HEARTBEAT_INTERVAL
  Ports,       \* values of the agent's port
  QLen,        \* capacity of the system utilities' queue
  NumSlices,   \* buffers in system_utils_jsonMemoryPool
  MaxErrors,   \* BVIEW_SYSTEM_UTILS_MAX_QUEUE_SEND_FAILS
  MaxFaults,   \* failures of timer_create, _settime and _delete (model bound)
  MaxDue,      \* callbacks that have not posted yet (model bound)
  MaxModules,  \* BVIEW_MAX_MODULES
  Others,      \* the other features that register
  None         \* no feature; no heartbeat yet

System   == "SYSTEM"
Features == Others \cup {System}

ASSUME HeartbeatAssumption ==
  /\ Intervals \subseteq Nat \ {0} /\ Default \in Intervals
  /\ QLen \in Nat \ {0} /\ NumSlices \in Nat \ {0}
  /\ MaxErrors \in Nat /\ MaxFaults \in Nat /\ MaxDue \in Nat \ {0}
  /\ Ports # {} /\ None \notin Ports
  /\ MaxModules \in Nat /\ {None, System} \cap Others = {} /\ None # System

VARIABLES
  pc,          \* where the thread is
  modules,     \* moduleData: the feature whose handlers an entry holds
  config,      \* system_utils_info.data->config
  timer,       \* heart_beat_timer, and the interval the kernel's timer runs at
  orphans,     \* running timers whose id was overwritten
  due,         \* expirations whose callback has not posted yet
  queue,       \* recvMsgQid
  request,     \* msg_data
  errors,      \* rcvd_err
  free,        \* buffers left in the pool
  waiting,     \* sessions that wait for an answer
  agentPort,   \* the agent's configuration
  props,       \* switchProperties->agent_port
  beat,        \* the port in the last heartbeat
  faults,      \* history: failures of the timer so far
  broken       \* history: the last start or stop of the timer has failed

vars == <<pc, modules, config, timer, orphans, due, queue, request,
          errors, free, waiting, agentPort, props, beat, faults, broken>>

Beat == [kind |-> "beat"]
Setting == [enable : BOOLEAN, interval : Intervals]
Gets == [kind : {"get"}, from : Sessions]
PropertyGets == [kind : {"properties"}, from : Sessions]
Sets == [kind : {"set"}, from : Sessions, config : Setting]
Requests == Gets \cup PropertyGets \cup Sets

\* system_utils_main, up to the thread's creation
Init ==
  /\ pc = "register" /\ modules = [m \in 1 .. MaxModules |-> None]
  /\ config = [enable |-> TRUE, interval |-> Default]
  /\ timer = [inUse |-> FALSE, runs |-> 0]
  /\ orphans = 0 /\ due = 0
  /\ queue = <<>> /\ request = Beat /\ errors = 0
  /\ free = NumSlices /\ waiting = {}
  /\ agentPort \in Ports /\ props \in Ports /\ beat = None
  /\ faults = 0 /\ broken = FALSE

-----------------------------------------------------------------------------
(* The timer *)

Becomes(o) ==
  /\ faults + o.faults <= MaxFaults
  /\ timer' = o.timer
  /\ orphans' = orphans + o.lost
  /\ faults' = faults + o.faults
  /\ broken' = ~o.ok

Running == timer.runs # 0 \/ orphans > 0

\* the kernel starts a thread for the callback
Expire ==
  /\ Running /\ due < MaxDue
  /\ due' = due + 1
  /\ UNCHANGED <<pc, modules, config, timer, orphans, queue, request,
                 errors, free, waiting, agentPort, props, beat, faults, broken>>

\* mutant: a message more than the queue takes
HasRoomForOneMore == Len(queue) <= QLen

\* system_utils_send_request, with IPC_NOWAIT
HasRoom == Len(queue) < QLen

\* reg_hb_timer_cb: with a full queue there is no heartbeat
TimerCallback ==
  /\ due > 0
  /\ due' = due - 1
  /\ queue' = IF HasRoom THEN Append(queue, Beat) ELSE queue
  /\ UNCHANGED <<pc, modules, config, timer, orphans, request,
                 errors, free, waiting, agentPort, props, beat, faults, broken>>

-----------------------------------------------------------------------------
(* The module manager *)

\* modulemgr_rest_api_handler_get finds a handler of feature f
Found(f) == \E m \in DOMAIN modules : modules[m] = f

Unused == {m \in DOMAIN modules : modules[m] = None}

\* modulemgr_register: TABLE_FULL and DUPLICATE are failures, and the first
\* entry that is free is taken
Accepts(f) == Unused # {} /\ ~Found(f)
Enter(f) == modules' = [modules EXCEPT ![CHOOSE m \in Unused : \A n \in Unused : m <= n] = f]

\* the bst thread registers whenever it gets there
OtherRegisters ==
  /\ \E f \in Others : Accepts(f) /\ Enter(f)
  /\ UNCHANGED <<pc, config, timer, orphans, due, queue, request, errors,
                 free, waiting, agentPort, props, beat, faults, broken>>

-----------------------------------------------------------------------------
(* The web server and the agent *)

\* a REST handler has parsed the request; the server answers the ones it
\* refuses, or that the queue has no room for, itself
Ask ==
  /\ Found(System) /\ HasRoom
  /\ \E r \in Requests :
       /\ r.from \notin waiting
       /\ queue' = Append(queue, r)
       /\ waiting' = waiting \cup {r.from}
  /\ UNCHANGED <<pc, modules, config, timer, orphans, due, request,
                 errors, free, agentPort, props, beat, faults, broken>>

\* update_broadview_config
SetAgentPort ==
  /\ agentPort' \in Ports \ {agentPort}
  /\ UNCHANGED <<pc, modules, config, timer, orphans, due, queue, request,
                 errors, free, waiting, props, beat, faults, broken>>

-----------------------------------------------------------------------------
(* system_utils_app_main *)

\* system_utils_module_register; a failure, of the lock too, ends the thread
Register ==
  /\ pc = "register"
  /\ \/ Accepts(System) /\ Enter(System) /\ pc' = "properties"
     \/ UNCHANGED modules /\ pc' = "exited"
  /\ UNCHANGED <<config, timer, orphans, due, queue, request, errors,
                 free, waiting, agentPort, props, beat, faults, broken>>

\* the switch properties, from the plugins; a failure of the start is logged
GetProperties ==
  /\ pc = "properties"
  /\ props' = agentPort
  /\ UNCHANGED config
  /\ \E o \in Starts(timer, config.interval) : Becomes(o)
  /\ pc' = "receive"
  /\ UNCHANGED <<modules, due, queue, request, errors, free, waiting,
                 agentPort, beat>>

\* an sbapi_system function fails: the thread ends and its handlers stay
GetPropertiesFails ==
  /\ pc = "properties"
  /\ pc' = "exited"
  /\ UNCHANGED <<modules, config, timer, orphans, due, queue, request,
                 errors, free, waiting, agentPort, props, beat, faults, broken>>

\* rest_response_send_error, _send_ok or _send: who waits after an answer to r
Answer(r) == IF r.kind = "beat" THEN waiting ELSE waiting \ {r.from}

\* every message names unit 0, and the plugins know it: num_units_get fails
\* when there is none
Receive ==
  /\ pc = "receive" /\ queue # <<>>
  /\ request' = Head(queue) /\ queue' = Tail(queue)
  /\ pc' = "port" /\ errors' = 0
  /\ UNCHANGED <<modules, config, timer, orphans, due, free, waiting,
                 agentPort, props, beat, faults, broken>>

\* msgrcv fails
ReceiveFails ==
  /\ pc = "receive"
  /\ errors' = errors + 1
  /\ pc' = IF MaxErrors < errors' THEN "exited" ELSE "receive"
  /\ UNCHANGED <<modules, config, timer, orphans, due, queue, request,
                 free, waiting, agentPort, props, beat, faults, broken>>

\* mutant: the port is read once, when the thread starts
KeepPort ==
  /\ pc = "port"
  /\ pc' = "handle"
  /\ UNCHANGED <<modules, config, timer, orphans, due, queue, request,
                 errors, free, waiting, agentPort, props, beat, faults, broken>>

\* system_agent_port_get, with every message
ReadPort ==
  /\ pc = "port"
  /\ props' = agentPort
  /\ pc' = "handle"
  /\ UNCHANGED <<modules, config, timer, orphans, due, queue, request,
                 errors, free, waiting, agentPort, beat, faults, broken>>

\* mutant: a new interval leaves the timer alone
RestartsOnEnable(new) == config.enable # new.enable

\* modifyTimer: a request that changes nothing does not restart the timer
Restarts(new) == config.enable # new.enable \/ config.interval # new.interval

\* reg_hb_config_feature_set; its result is always a success
SetFeature ==
  /\ pc = "handle" /\ request.kind = "set"
  /\ config' = request.config
  /\ IF ~config'.enable THEN \E o \in Stops(timer) : Becomes(o)
     ELSE IF Restarts(config') THEN \E o \in Starts(timer, config'.interval) : Becomes(o)
     ELSE UNCHANGED <<timer, orphans, faults, broken>>
  /\ waiting' = Answer(request)
  /\ pc' = "receive"
  /\ UNCHANGED <<modules, due, queue, request, errors, free,
                 agentPort, props, beat>>

\* system_utils_json_memory_allocate and _free
TakeBuffer == free > 0 /\ free' = free - 1
FreeBuffer == free' = free + 1

\* the other handlers only read; the encoder takes a buffer.  With none left
\* nothing is sent
Encode ==
  /\ pc = "handle" /\ request.kind # "set"
  /\ \/ TakeBuffer /\ pc' = "send"
     \/ free = 0 /\ pc' = "receive" /\ UNCHANGED free
  /\ UNCHANGED <<modules, config, timer, orphans, due, queue, request,
                 errors, waiting, agentPort, props, beat, faults, broken>>

\* mutant: the buffer is not given back
SendKeepsBuffer ==
  /\ pc = "send"
  /\ waiting' = Answer(request)
  /\ beat' = IF request.kind = "beat" THEN props ELSE beat
  /\ pc' = "receive"
  /\ UNCHANGED <<modules, config, timer, orphans, due, queue, request,
                 errors, free, agentPort, props, faults, broken>>

\* rest_response_send: to the session, or to the collector for a heartbeat;
\* the buffer is given back whatever comes of it
Send ==
  /\ pc = "send"
  /\ waiting' = Answer(request)
  /\ beat' = IF request.kind = "beat" THEN props ELSE beat
  /\ FreeBuffer
  /\ pc' = "receive"
  /\ UNCHANGED <<modules, config, timer, orphans, due, queue, request,
                 errors, agentPort, props, faults, broken>>

-----------------------------------------------------------------------------
App ==
  \/ Register
  \/ GetProperties
  \/ Receive
  \/ ReadPort
  \/ SetFeature
  \/ Encode
  \/ Send

Next ==
  \/ App
  \/ GetPropertiesFails
  \/ ReceiveFails
  \/ Expire
  \/ TimerCallback
  \/ OtherRegisters
  \/ Ask
  \/ SetAgentPort

Spec == Init /\ [][Next]_vars

\* the thread runs, its timers expire and their callbacks run; clients and the
\* agent do as they like, and so do the failures
FairSpec == Spec /\ WF_vars(App) /\ WF_vars(Expire) /\ WF_vars(TimerCallback)

-----------------------------------------------------------------------------
(* Properties *)

\* Every variable has its type.
TypeOK ==
  /\ pc \in {"register", "properties", "receive", "port", "handle", "send", "exited"}
  /\ modules \in [1 .. MaxModules -> Features \cup {None}]
  /\ config \in Setting
  /\ timer \in [inUse : BOOLEAN, runs : Intervals \cup {0}]
  /\ orphans \in 0 .. MaxFaults
  /\ due \in 0 .. MaxDue
  /\ queue \in Seq(Requests \cup {Beat}) /\ Len(queue) <= QLen
  /\ request \in Requests \cup {Beat}
  /\ errors \in 0 .. MaxErrors + 1
  /\ free \in 0 .. NumSlices
  /\ waiting \subseteq Sessions
  /\ agentPort \in Ports /\ props \in Ports /\ beat \in Ports \cup {None}
  /\ faults \in 0 .. MaxFaults
  /\ broken \in BOOLEAN

\* Whatever sequence of requests and failures came before: unless the last
\* start or stop has failed, the timer runs exactly when the feature is
\* enabled, at the configured interval.
TimerFollows ==
  pc \in {"receive", "port", "handle", "send"} /\ ~broken =>
    /\ timer.inUse = config.enable
    /\ timer.runs = IF config.enable THEN config.interval ELSE 0

\* A client's request is answered, unless the thread has gone and left its
\* handlers with the module manager.
RequestsAnswered ==
  \A s \in Sessions : s \in waiting ~> s \notin waiting \/ pc = "exited"

\* While the feature stays enabled and its timer works, heartbeats go out again
\* and again, whatever the clients ask.
HeartbeatsGoOut ==
  <>[](pc \notin {"register", "properties", "exited"} /\ config.enable /\ ~broken)
    => []<><<Send /\ request.kind = "beat">>_vars

\* Once the agent's port has its last value, only a heartbeat that was under
\* way announces an old one.
HeartbeatsShowPort ==
  \A p \in Ports :
    <>[](agentPort = p)
      => <>[][Send /\ request.kind = "beat" => beat' = p]_vars
=============================================================================
