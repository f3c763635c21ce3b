-------------------------------- MODULE Agent --------------------------------
(***************************************************************************)
(* The agent's own configuration, from the command line to the sockets:    *)
(* vtysh sessions write the System row's broadview_config map, the         *)
(* daemon's main thread (agent.c) reads its replica and passes the         *)
(* collector's address and the agent's port on to system.c and to the REST *)
(* component, whose server is restarted by shutting its socket down.       *)
(*                                                                         *)
(* The main thread starts when the components are there, which is before   *)
(* the REST component has read its configuration.                          *)
(***************************************************************************)
EXTENDS Naturals

CONSTANTS
  Shells,      \* vtysh sessions
  Addresses,   \* collector addresses that inet_pton accepts
  Ports,       \* ports between SYSTEM_TCP_MIN_PORT and SYSTEM_TCP_MAX_PORT
  BadAddress, BadPort,  \* values that the daemon does not accept
  Default,     \* the values of settings that are not in the map
  OtherMaps,   \* what other writers put there
  MaxWrites    \* transactions on the map (model bound)

Settings == [ip : Addresses \cup {BadAddress}, port : Ports \cup {BadPort},
             agent : Ports \cup {BadPort}]
Valid    == [ip : Addresses, port : Ports, agent : Ports]

ASSUME AgentAssumption ==
  /\ BadAddress \notin Addresses /\ BadPort \notin Ports
  /\ Default \in Valid /\ OtherMaps \subseteq Settings
  /\ MaxWrites \in Nat

VARIABLES
  db,          \* the map, with defaults for the settings it lacks
  writes,      \* transactions so far
  edit,        \* smap_broadview_config: each shell's copy of the map
  editing,     \* shells inside a command
  replica,     \* the row in the daemon's IDL
  changed,     \* does the IDL's sequence number differ from idl_seqno?
  hasLock,     \* has the daemon the ops_broadview lock of the server?
  curCfg,      \* is cur_cfg of the row above zero?
  configured,  \* system_configured
  mpc,         \* where the main thread is
  cfg,         \* system_agent_cfg
  wpc,         \* where the thread is that becomes the web server
  rest,        \* rest.config
  shut,        \* was the listening socket shut down?
  want,        \* history: the settings as the writers meant them
  stale,       \* history: shells whose copy another writer has overtaken
  overlap,     \* history: has one of them written its copy?
  before,      \* history: the collector in cfg before the update under way
  raced,       \* history: see RestReadsAddress
  missed       \* history: see ShutDown

dbVars   == <<db, writes, edit, editing, want, stale, overlap>>
envVars  == <<hasLock, curCfg>>
mainVars == <<replica, changed, configured, mpc, cfg, before>>
webVars  == <<wpc, rest, shut, raced, missed>>
vars     == <<dbVars, envVars, mainVars, webVars>>

\* what memset leaves in rest.config
Cleared == [ip |-> BadAddress, port |-> BadPort, agent |-> BadPort]

\* system_agent_config_init comes first in bview_system_init_ph2
Init ==
  /\ db = Default /\ writes = 0
  /\ edit = [v \in Shells |-> Default] /\ editing = {}
  /\ replica = Default /\ changed = FALSE
  /\ hasLock \in BOOLEAN /\ curCfg \in BOOLEAN
  /\ configured = FALSE
  /\ mpc = "wait" /\ cfg = Default
  /\ wpc = "components" /\ rest = Cleared /\ shut = FALSE
  /\ want = Default /\ stale = {} /\ overlap = FALSE
  /\ before = <<Default.ip, Default.port>>
  /\ raced = FALSE /\ missed = FALSE

-----------------------------------------------------------------------------
(* The command line, and other writers *)

Store(m) ==
  /\ writes < MaxWrites
  /\ writes' = writes + 1
  /\ db' = m

\* mutant: the command starts from an empty map
EmptyMap == Default

\* smap_clone of the row in the shell's IDL
CloneMap == db

BeginCommand(v) ==
  /\ v \notin editing
  /\ edit' = [edit EXCEPT ![v] = CloneMap]
  /\ editing' = editing \cup {v}
  /\ UNCHANGED <<db, writes, want, stale, overlap, envVars, mainVars, webVars>>

\* the whole map is written, whatever the row holds by now
Commit(v, m, wanted) ==
  /\ v \in editing
  /\ Store(m)
  /\ editing' = editing \ {v}
  /\ edit' = [edit EXCEPT ![v] = Default]
  /\ stale' = (stale \cup editing) \ {v}
  /\ overlap' = (overlap \/ v \in stale)
  /\ want' = IF overlap' THEN Default ELSE wanted
  /\ UNCHANGED <<envVars, mainVars, webVars>>

\* vtysh_ovsdb_broadview_agent_port_set: a default value is removed
SetAgentPort(v) ==
  \E p \in Ports : Commit(v, [edit[v] EXCEPT !.agent = p], [want EXCEPT !.agent = p])

\* vtysh_ovsdb_broadview_client_set
SetClient(v) ==
  \E a \in Addresses, p \in Ports :
    Commit(v, [edit[v] EXCEPT !.ip = a, !.port = p], [want EXCEPT !.ip = a, !.port = p])

\* the transaction fails
AbortCommand(v) ==
  /\ v \in editing
  /\ editing' = editing \ {v}
  /\ edit' = [edit EXCEPT ![v] = Default]
  /\ stale' = stale \ {v}
  /\ UNCHANGED <<db, writes, want, overlap, envVars, mainVars, webVars>>

\* a writer that does not check what it writes
OtherWriter ==
  /\ \E m \in OtherMaps : Store(m) /\ want' = IF overlap THEN Default ELSE m
  /\ stale' = stale \cup editing
  /\ UNCHANGED <<edit, editing, overlap, envVars, mainVars, webVars>>

\* the lock goes to another daemon or comes back, the system is configured
Environment ==
  /\ \/ hasLock' = ~hasLock /\ UNCHANGED curCfg
     \/ ~curCfg /\ curCfg' = TRUE /\ UNCHANGED hasLock
  /\ UNCHANGED <<dbVars, mainVars, webVars>>

-----------------------------------------------------------------------------
(* The main thread *)

ClientChanged(m) ==
  \/ m.ip \in Addresses /\ m.ip # cfg.ip
  \/ m.port \in Ports /\ m.port # cfg.port

\* mutant: the range is not tested
AgentChangedUnchecked(m) == m.agent # cfg.agent

AgentChanged(m) == m.agent \in Ports /\ m.agent # cfg.agent

\* sem_wait of bview_init_sem
Start ==
  /\ mpc = "wait" /\ wpc # "components"
  /\ mpc' = "run"
  /\ UNCHANGED <<dbVars, envVars, before, replica, changed, configured, cfg, webVars>>

Idle == ~hasLock \/ ~(configured \/ curCfg)

\* broadview_run, up to the tests of update_broadview_config: the replica is
\* brought up to date, and read with the lock once the system is configured
Run ==
  /\ mpc = "run"
  /\ replica' = db
  /\ LET news == changed \/ db # replica IN
       IF Idle \/ ~(news \/ ~configured)
       THEN changed' = news /\ UNCHANGED <<configured, mpc>>
       ELSE /\ configured' = TRUE /\ changed' = FALSE
            /\ mpc' = IF ClientChanged(db) THEN "client"
                      ELSE IF AgentChanged(db) THEN "agent" ELSE "run"
  /\ UNCHANGED <<dbVars, envVars, before, cfg, webVars>>

\* system_agent_client_info_set: both values, the one that was not accepted
\* included
InfoSet ==
  /\ mpc = "client"
  /\ cfg' = [cfg EXCEPT !.ip = replica.ip, !.port = replica.port]
  /\ before' = <<cfg.ip, cfg.port>>
  /\ raced' = (raced \/ wpc = "restAddress")
  /\ mpc' = "rest"
  /\ UNCHANGED <<dbVars, envVars, replica, changed, configured, wpc, rest, shut, missed>>

\* mutant: the address and the port are written one after the other
ModifyUnlocked ==
  /\ mpc = "rest"
  /\ IF rest.ip # replica.ip
     THEN rest' = [rest EXCEPT !.ip = replica.ip] /\ UNCHANGED <<mpc, before>>
     ELSE /\ rest' = [rest EXCEPT !.port = replica.port]
          /\ before' = <<cfg.ip, cfg.port>>
          /\ mpc' = IF AgentChanged(replica) THEN "agent" ELSE "run"
  /\ raced' = FALSE
  /\ UNCHANGED <<dbVars, envVars, replica, changed, configured, cfg, wpc, shut, missed>>

\* rest_agent_config_params_modify, under config_mutex
ParamsModify ==
  /\ mpc = "rest"
  /\ rest' = [rest EXCEPT !.ip = replica.ip, !.port = replica.port]
  /\ before' = <<cfg.ip, cfg.port>>
  /\ raced' = FALSE
  /\ mpc' = IF AgentChanged(replica) THEN "agent" ELSE "run"
  /\ UNCHANGED <<dbVars, envVars, replica, changed, configured, cfg, wpc, shut, missed>>

\* rest_server_port_dynamic_update: system_agent_port_set
PortSet ==
  /\ mpc = "agent"
  /\ cfg' = [cfg EXCEPT !.agent = replica.agent]
  /\ mpc' = "shutdown"
  /\ UNCHANGED <<dbVars, envVars, before, replica, changed, configured, webVars>>

\* shutdown of the server's socket, which wakes accept; a socket that does not
\* listen yet takes no notice, and the new port is missed if the server has
\* read the old one
ShutDown ==
  /\ mpc = "shutdown"
  /\ shut' = (shut \/ wpc = "accept")
  /\ missed' = (missed \/ wpc \in {"bind", "listen"})
  /\ mpc' = "run"
  /\ UNCHANGED <<dbVars, envVars, before, replica, changed, configured, cfg, wpc, rest, raced>>

-----------------------------------------------------------------------------
(* bview_system_init_ph2 and rest_init *)

\* the components are started and bview_init_sem is posted; a component's
\* failure is logged
PostSem ==
  /\ wpc = "components"
  /\ wpc' = "restClear"
  /\ UNCHANGED <<dbVars, envVars, mainVars, rest, shut, raced, missed>>

\* rest_init
RestClear ==
  /\ wpc = "restClear"
  /\ rest' = Cleared
  /\ wpc' = "restPort"
  /\ UNCHANGED <<dbVars, envVars, mainVars, shut, raced, missed>>

\* rest_config_init reads the collector's port and its address one by one,
\* without config_mutex
RestReadsPort ==
  /\ wpc = "restPort"
  /\ rest' = [rest EXCEPT !.port = cfg.port]
  /\ wpc' = "restAddress"
  /\ UNCHANGED <<dbVars, envVars, mainVars, shut, raced, missed>>

\* mutant: the address is the default one
RestTakesDefault ==
  /\ wpc = "restAddress"
  /\ rest' = [rest EXCEPT !.ip = Default.ip]
  /\ wpc' = "socket"
  /\ UNCHANGED <<dbVars, envVars, mainVars, shut, raced, missed>>

\* if the main thread stores new ones in between, rest.config names a
\* collector nobody asked for (raced), until the main thread goes on
RestReadsAddress ==
  /\ wpc = "restAddress"
  /\ rest' = [rest EXCEPT !.ip = cfg.ip]
  /\ wpc' = "socket"
  /\ UNCHANGED <<dbVars, envVars, mainVars, shut, raced, missed>>

\* rest_server_socket_create
SocketCreate ==
  /\ wpc = "socket"
  /\ shut' = FALSE
  /\ wpc' = "port"
  /\ UNCHANGED <<dbVars, envVars, mainVars, rest, raced, missed>>

\* mutant: the server keeps the port it has started with
KeepPort ==
  /\ wpc = "port"
  /\ rest' = IF rest.agent = BadPort THEN [rest EXCEPT !.agent = cfg.agent] ELSE rest
  /\ wpc' = "bind"
  /\ missed' = FALSE
  /\ UNCHANGED <<dbVars, envVars, mainVars, shut, raced>>

\* system_agent_port_get
ReadPort ==
  /\ wpc = "port"
  /\ rest' = [rest EXCEPT !.agent = cfg.agent]
  /\ wpc' = "bind"
  /\ missed' = FALSE
  /\ UNCHANGED <<dbVars, envVars, mainVars, shut, raced>>

Bind ==
  /\ wpc = "bind"
  /\ wpc' = "listen"
  /\ UNCHANGED <<dbVars, envVars, mainVars, rest, shut, raced, missed>>

Listen ==
  /\ wpc = "listen"
  /\ wpc' = "accept"
  /\ UNCHANGED <<dbVars, envVars, mainVars, rest, shut, raced, missed>>

\* socket, bind (a port in use) or listen fails: rest_init returns,
\* bview_system_deinit follows and there is no server any more
ServerFails ==
  /\ wpc \in {"socket", "bind", "listen"}
  /\ wpc' = "dead"
  /\ UNCHANGED <<dbVars, envVars, mainVars, rest, shut, raced, missed>>

\* accept returns an error: the socket is closed
AcceptFails ==
  /\ wpc = "accept"
  /\ wpc' = "socket"
  /\ UNCHANGED <<dbVars, envVars, mainVars, rest, shut, raced, missed>>

-----------------------------------------------------------------------------
Main ==
  \/ Start
  \/ Run
  \/ InfoSet
  \/ ParamsModify
  \/ PortSet
  \/ ShutDown

Web ==
  \/ PostSem
  \/ RestClear
  \/ RestReadsPort
  \/ RestReadsAddress
  \/ SocketCreate
  \/ ReadPort
  \/ Bind
  \/ Listen
  \/ shut /\ AcceptFails

Next ==
  \/ Main
  \/ Web
  \/ AcceptFails
  \/ ServerFails
  \/ \E v \in Shells : BeginCommand(v) \/ SetAgentPort(v) \/ SetClient(v) \/ AbortCommand(v)
  \/ OtherWriter
  \/ Environment

Spec == Init /\ [][Next]_vars

\* both threads run on, and the main thread's poll times out; writers, the lock
\* and failures are not scheduled
FairSpec == Spec /\ WF_vars(Main) /\ WF_vars(Web)

-----------------------------------------------------------------------------
(* Properties *)

\* Every variable has its type.
TypeOK ==
  /\ db \in Settings /\ replica \in Settings /\ want \in Settings
  /\ writes \in 0 .. MaxWrites
  /\ edit \in [Shells -> Settings] /\ editing \subseteq Shells /\ stale \subseteq editing
  /\ {changed, hasLock, curCfg, configured, shut, overlap, raced, missed} \subseteq BOOLEAN
  /\ mpc \in {"wait", "run", "client", "rest", "agent", "shutdown"}
  /\ cfg \in [ip : Addresses \cup {BadAddress}, port : Ports \cup {BadPort}, agent : Ports]
  /\ wpc \in {"components", "restClear", "restPort", "restAddress", "socket", "port",
              "bind", "listen", "accept", "dead"}
  /\ rest \in Settings
  /\ before \in (Addresses \cup {BadAddress}) \X (Ports \cup {BadPort})

\* As long as no two shells overlap, a command leaves the settings alone that
\* it is not about.
SettingsKept == ~overlap => db = want

\* Once the REST component is configured, reports go to an address and a port
\* that belong together, the ones in force or the ones that an update is
\* replacing, unless an update has split rest_config_init's reads.
CollectorWhole ==
  wpc \notin {"components", "restClear", "restPort", "restAddress"} /\ ~raced
    => <<rest.ip, rest.port>> \in {<<cfg.ip, cfg.port>>, before}

InForce == hasLock /\ curCfg

\* A collector that stays in the map gets the reports, although the update may
\* come before, during or after the REST component's start, and whatever
\* invalid settings and lost locks came before it.
CollectorFollows ==
  \A a \in Addresses, p \in Ports :
    <>[](db.ip = a /\ db.port = p /\ InForce) => <>[](rest.ip = a /\ rest.port = p)

\* A port that stays in the map becomes the server's, unless its thread has
\* ended or the shutdown came between its reading the port and listening.
AgentPortFollows ==
  \A p \in Ports :
    <>[](db.agent = p /\ InForce) => <>[](rest.agent = p \/ missed \/ wpc = "dead")
=============================================================================
