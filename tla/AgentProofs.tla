----------------------------- MODULE AgentProofs -----------------------------
(***************************************************************************)
(* What holds of Agent for every number of shells, every set of addresses  *)
(* and ports and every number of writes.                                   *)
(***************************************************************************)
EXTENDS Agent, TLAPS

\* A copy that no other writer has overtaken is the map.
EditFits == \A v \in editing \ stale : edit[v] = db

\* The main thread passes on what it has tested.
ReplicaFits ==
  /\ mpc = "agent" => replica.agent \in Ports
  /\ mpc = "rest" => cfg.ip = replica.ip /\ cfg.port = replica.port

\* Between updates there is one collector.
BeforeFits == mpc # "rest" => before = <<cfg.ip, cfg.port>>

\* The REST component has read the port in force, and not the address.
PortRead == wpc = "restAddress" /\ ~raced => rest.port = cfg.port

AgentInv ==
  TypeOK /\ EditFits /\ SettingsKept /\ ReplicaFits /\ BeforeFits /\ PortRead
    /\ CollectorWhole

-----------------------------------------------------------------------------
\* The variables of the writers, of the environment and of the two threads.
DbType ==
  /\ db \in Settings /\ want \in Settings /\ writes \in 0 .. MaxWrites
  /\ edit \in [Shells -> Settings] /\ editing \subseteq Shells /\ stale \subseteq editing
  /\ overlap \in BOOLEAN

\* AgentInv holds at the start.
LEMMA AgentInit == Init => AgentInv
<1> SUFFICES ASSUME Init PROVE AgentInv
    OBVIOUS
<1> USE AgentAssumption DEF Init
<1>1. Default \in Settings /\ Cleared \in Settings
  BY DEF Valid, Settings, Cleared
<1>2. before \in (Addresses \cup {BadAddress}) \X (Ports \cup {BadPort})
  BY DEF Valid
<1>3. cfg \in [ip : Addresses \cup {BadAddress}, port : Ports \cup {BadPort}, agent : Ports]
  BY DEF Valid
<1>4. {changed, hasLock, curCfg, configured, shut, overlap, raced, missed} \subseteq BOOLEAN
  BY Zenon
<1>5. db \in Settings /\ replica \in Settings /\ want \in Settings /\ rest \in Settings
  BY <1>1
<1>6. /\ writes \in 0 .. MaxWrites
      /\ edit \in [Shells -> Settings] /\ editing \subseteq Shells /\ stale \subseteq editing
  BY <1>1
<1>7. TypeOK
  BY <1>2, <1>3, <1>4, <1>5, <1>6 DEF TypeOK
<1> QED
  BY <1>7
  DEF AgentInv, EditFits, SettingsKept, ReplicaFits, BeforeFits, PortRead, CollectorWhole

\* A command writes its copy with one setting changed: if nobody wrote the map
\* since the copy was made, the others keep their values.
LEMMA CommitStep ==
  ASSUME TypeOK, EditFits, SettingsKept, NEW v \in Shells,
         NEW m \in Settings, NEW w \in Settings, Commit(v, m, w),
         edit[v] = want => m = w
  PROVE  /\ DbType' /\ EditFits' /\ SettingsKept'
         /\ UNCHANGED <<envVars, mainVars, webVars>>
<1>1. /\ v \in editing /\ db' = m /\ writes' = writes + 1 /\ writes < MaxWrites
      /\ editing' = editing \ {v}
      /\ edit' = [edit EXCEPT ![v] = Default]
      /\ stale' = (stale \cup editing) \ {v}
      /\ overlap' = (overlap \/ v \in stale)
      /\ want' = IF overlap' THEN Default ELSE w
      /\ UNCHANGED <<envVars, mainVars, webVars>>
  BY Zenon DEF Commit, Store
<1>2. Default \in Settings
  BY AgentAssumption DEF Valid, Settings
<1>3. DbType'
  BY <1>1, <1>2, AgentAssumption DEF TypeOK, DbType
<1>4. EditFits'
  BY <1>1 DEF EditFits
<1>5. ~overlap' => db' = want'
  BY <1>1 DEF EditFits, SettingsKept
<1> QED
  BY <1>1, <1>3, <1>4, <1>5 DEF SettingsKept

\* A command that changes the agent's port writes its own copy back.
LEMMA SetAgentPortStep ==
  ASSUME TypeOK, EditFits, SettingsKept, NEW v \in Shells, SetAgentPort(v)
  PROVE  /\ DbType' /\ EditFits' /\ SettingsKept'
         /\ UNCHANGED <<envVars, mainVars, webVars>>
<1>1. PICK p \in Ports :
        Commit(v, [edit[v] EXCEPT !.agent = p], [want EXCEPT !.agent = p])
  BY DEF SetAgentPort
<1>2. [edit[v] EXCEPT !.agent = p] \in Settings /\ [want EXCEPT !.agent = p] \in Settings
  BY DEF TypeOK, Settings
<1> QED
  BY <1>1, <1>2, CommitStep

\* So does a command that changes the collector.
LEMMA SetClientStep ==
  ASSUME TypeOK, EditFits, SettingsKept, NEW v \in Shells, SetClient(v)
  PROVE  /\ DbType' /\ EditFits' /\ SettingsKept'
         /\ UNCHANGED <<envVars, mainVars, webVars>>
<1>1. PICK a \in Addresses, p \in Ports :
        Commit(v, [edit[v] EXCEPT !.ip = a, !.port = p], [want EXCEPT !.ip = a, !.port = p])
  BY DEF SetClient
<1>2. /\ [edit[v] EXCEPT !.ip = a, !.port = p] \in Settings
      /\ [want EXCEPT !.ip = a, !.port = p] \in Settings
  BY DEF TypeOK, Settings
<1> QED
  BY <1>1, <1>2, CommitStep

-----------------------------------------------------------------------------
\* What the writers of the map do.
Writers ==
  \/ \E v \in Shells : BeginCommand(v) \/ SetAgentPort(v) \/ SetClient(v) \/ AbortCommand(v)
  \/ OtherWriter

\* The writers of the map keep its part of the invariant and nothing else.
LEMMA WritersStep ==
  ASSUME TypeOK, EditFits, SettingsKept, Writers
  PROVE  /\ DbType' /\ EditFits' /\ SettingsKept'
         /\ UNCHANGED <<envVars, mainVars, webVars>>
<1>1. ASSUME NEW v \in Shells, BeginCommand(v)
      PROVE  /\ DbType' /\ EditFits' /\ SettingsKept'
             /\ UNCHANGED <<envVars, mainVars, webVars>>
  BY <1>1 DEF BeginCommand, CloneMap, DbType, EditFits, SettingsKept, TypeOK
<1>2. ASSUME NEW v \in Shells, AbortCommand(v)
      PROVE  /\ DbType' /\ EditFits' /\ SettingsKept'
             /\ UNCHANGED <<envVars, mainVars, webVars>>
  <2>1. Default \in Settings
    BY AgentAssumption DEF Valid, Settings
  <2> QED
    BY <1>2, <2>1 DEF AbortCommand, DbType, EditFits, SettingsKept, TypeOK
<1>3. CASE OtherWriter
  <2>1. PICK m \in OtherMaps :
          /\ writes < MaxWrites /\ writes' = writes + 1 /\ db' = m
          /\ want' = IF overlap THEN Default ELSE m
    BY <1>3 DEF OtherWriter, Store
  <2>2. m \in Settings /\ Default \in Settings
    BY AgentAssumption DEF Valid, Settings
  <2> QED
    BY <1>3, <2>1, <2>2, AgentAssumption
    DEF OtherWriter, DbType, EditFits, SettingsKept, TypeOK
<1> QED
  BY <1>1, <1>2, <1>3, SetAgentPortStep, SetClientStep DEF Writers

-----------------------------------------------------------------------------
MainType ==
  /\ replica \in Settings /\ changed \in BOOLEAN /\ configured \in BOOLEAN
  /\ mpc \in {"wait", "run", "client", "rest", "agent", "shutdown"}
  /\ cfg \in [ip : Addresses \cup {BadAddress}, port : Ports \cup {BadPort}, agent : Ports]
  /\ before \in (Addresses \cup {BadAddress}) \X (Ports \cup {BadPort})

WebType ==
  /\ wpc \in {"components", "restClear", "restPort", "restAddress", "socket", "port",
              "bind", "listen", "accept", "dead"}
  /\ rest \in Settings
  /\ shut \in BOOLEAN /\ raced \in BOOLEAN /\ missed \in BOOLEAN

EnvType == hasLock \in BOOLEAN /\ curCfg \in BOOLEAN

\* The types, by who writes the variables.
LEMMA Types == TypeOK <=> DbType /\ MainType /\ WebType /\ EnvType
  BY Zenon DEF TypeOK, DbType, MainType, WebType, EnvType

\* What relates the two threads.
ThreadsFit == ReplicaFits /\ BeforeFits /\ PortRead /\ CollectorWhole

\* The main thread leaves the map alone. Between its two writes, to
\* system_agent_cfg and to rest.config, the REST component may have either
\* collector; the second write repairs what the first one has split.
LEMMA MainStep ==
  ASSUME DbType, MainType, WebType, ThreadsFit, Main
  PROVE  MainType' /\ WebType' /\ ThreadsFit' /\ UNCHANGED <<dbVars, envVars>>
<1> USE DEF DbType, MainType, WebType, ThreadsFit, ReplicaFits, BeforeFits, PortRead,
            CollectorWhole
<1>1. CASE Start
  BY <1>1 DEF Start, webVars
<1>2. CASE Run
  <2>1. /\ mpc = "run" /\ replica' = db
        /\ UNCHANGED <<before, cfg, wpc, rest, shut, raced, missed>>
        /\ UNCHANGED <<dbVars, envVars>>
    BY <1>2 DEF Run, webVars
  <2>2. /\ mpc' \in {"run", "client", "agent"}
        /\ mpc' = "agent" => db.agent \in Ports
    BY <1>2 DEF Run, AgentChanged
  <2>3. changed' \in BOOLEAN /\ configured' \in BOOLEAN
    <3>1. CASE Idle \/ ~((changed \/ db # replica) \/ ~configured)
      <4>1. changed' = (changed \/ db # replica) /\ configured' = configured
        BY <1>2, <3>1 DEF Run
      <4> QED
        BY <4>1
    <3>2. CASE ~(Idle \/ ~((changed \/ db # replica) \/ ~configured))
      <4>1. changed' = FALSE /\ configured' = TRUE
        BY <1>2, <3>2 DEF Run
      <4> QED
        BY <4>1
    <3> QED
      BY <3>1, <3>2
  <2> QED
    BY <2>1, <2>2, <2>3
<1>3. CASE InfoSet
  <2>1. /\ mpc = "client" /\ mpc' = "rest"
        /\ cfg' = [cfg EXCEPT !.ip = replica.ip, !.port = replica.port]
        /\ before' = <<cfg.ip, cfg.port>>
        /\ raced' = (raced \/ wpc = "restAddress")
        /\ UNCHANGED <<replica, changed, configured, wpc, rest, shut, missed>>
        /\ UNCHANGED <<dbVars, envVars>>
    BY <1>3 DEF InfoSet
  <2>2. replica.ip \in Addresses \cup {BadAddress} /\ replica.port \in Ports \cup {BadPort}
    BY DEF Settings
  <2>3. MainType'
    BY <2>1, <2>2
  <2>4. cfg'.ip = replica.ip /\ cfg'.port = replica.port
    BY <2>1
  <2>5. WebType'
    BY <2>1
  <2>6. PortRead' /\ (wpc = "restAddress" => raced')
    BY <2>1
  <2>7. CollectorWhole'
    BY <2>1
  <2> QED
    BY <2>1, <2>3, <2>4, <2>5, <2>6, <2>7
<1>4. CASE ParamsModify
  <2>1. /\ mpc = "rest" /\ mpc' \in {"agent", "run"}
        /\ mpc' = "agent" => replica.agent \in Ports
        /\ rest' = [rest EXCEPT !.ip = replica.ip, !.port = replica.port]
        /\ before' = <<cfg.ip, cfg.port>>
        /\ raced' = FALSE
        /\ UNCHANGED <<replica, changed, configured, cfg, wpc, shut, missed>>
        /\ UNCHANGED <<dbVars, envVars>>
    BY <1>4 DEF ParamsModify, AgentChanged
  <2>2. replica.ip \in Addresses \cup {BadAddress} /\ replica.port \in Ports \cup {BadPort}
    BY DEF Settings
  <2>3. rest' \in Settings /\ rest'.ip = cfg.ip /\ rest'.port = cfg.port
    BY <2>1, <2>2 DEF Settings
  <2>4. MainType'
    BY <2>1
  <2>5. WebType'
    BY <2>1, <2>3
  <2>6. ReplicaFits' /\ BeforeFits'
    BY <2>1
  <2>7. PortRead' /\ CollectorWhole'
    BY <2>1, <2>3
  <2> QED
    BY <2>1, <2>4, <2>5, <2>6, <2>7
<1>5. CASE PortSet
  BY <1>5 DEF PortSet, webVars
<1>6. CASE ShutDown
  BY <1>6 DEF ShutDown
<1> QED
  BY <1>1, <1>2, <1>3, <1>4, <1>5, <1>6 DEF Main

\* The web server's thread keeps its part.
LEMMA WebStep ==
  ASSUME MainType, WebType, ThreadsFit, Web \/ AcceptFails \/ ServerFails
  PROVE  WebType' /\ ThreadsFit' /\ UNCHANGED <<dbVars, envVars, mainVars>>
<1> USE DEF MainType, WebType, ThreadsFit, ReplicaFits, BeforeFits, PortRead,
            CollectorWhole, mainVars
<1>1. CASE PostSem
  BY <1>1 DEF PostSem
<1>2. CASE RestClear
  BY <1>2 DEF RestClear, Cleared, Settings
<1>3. CASE RestReadsPort
  BY <1>3 DEF RestReadsPort, Settings
<1>4. CASE RestReadsAddress
  BY <1>4 DEF RestReadsAddress, Settings
<1>5. CASE SocketCreate
  BY <1>5 DEF SocketCreate
<1>6. CASE ReadPort
  BY <1>6 DEF ReadPort, Settings
<1>7. CASE Bind
  BY <1>7 DEF Bind
<1>8. CASE Listen
  BY <1>8 DEF Listen
<1>9. CASE AcceptFails
  BY <1>9 DEF AcceptFails
<1>10. CASE ServerFails
  BY <1>10 DEF ServerFails
<1> QED
  BY <1>1, <1>2, <1>3, <1>4, <1>5, <1>6, <1>7, <1>8, <1>9, <1>10 DEF Web

-----------------------------------------------------------------------------
\* Every step preserves AgentInv.
LEMMA AgentStep == AgentInv /\ [Next]_vars => AgentInv'
<1> SUFFICES ASSUME AgentInv, [Next]_vars PROVE AgentInv'
    OBVIOUS
<1>1. /\ TypeOK /\ DbType /\ MainType /\ WebType /\ EnvType
      /\ EditFits /\ SettingsKept /\ ThreadsFit
  BY Types DEF AgentInv, ThreadsFit
<1>2. UNCHANGED dbVars => DbType' /\ EditFits' /\ SettingsKept'
  BY <1>1 DEF dbVars, DbType, EditFits, SettingsKept
<1>3. UNCHANGED envVars => EnvType'
  BY <1>1 DEF envVars, EnvType
<1>4. UNCHANGED mainVars => MainType'
  BY <1>1 DEF mainVars, MainType
<1>5. UNCHANGED <<mainVars, webVars>> => MainType' /\ WebType' /\ ThreadsFit'
  BY <1>1
  DEF mainVars, webVars, MainType, WebType, ThreadsFit, ReplicaFits, BeforeFits,
      PortRead, CollectorWhole
<1>6. /\ DbType' /\ MainType' /\ WebType' /\ EnvType'
      /\ EditFits' /\ SettingsKept' /\ ThreadsFit'
  <2>1. CASE Main
    BY <1>1, <1>2, <1>3, <2>1, MainStep
  <2>2. CASE Web \/ AcceptFails \/ ServerFails
    BY <1>1, <1>2, <1>3, <1>4, <2>2, WebStep
  <2>3. CASE Writers
    BY <1>1, <1>3, <1>5, <2>3, WritersStep
  <2>4. CASE Environment
    <3>1. EnvType'
      BY <1>1, <2>4 DEF Environment, EnvType
    <3>2. UNCHANGED <<dbVars, mainVars, webVars>>
      BY <2>4 DEF Environment
    <3> QED
      BY <1>2, <1>5, <3>1, <3>2
  <2>5. CASE UNCHANGED vars
    BY <1>2, <1>3, <1>5, <2>5 DEF vars
  <2> QED
    BY <2>1, <2>2, <2>3, <2>4, <2>5 DEF Next, Writers
<1>7. TypeOK'
  BY <1>6 DEF TypeOK, DbType, MainType, WebType, EnvType
<1> QED
  BY <1>6, <1>7 DEF AgentInv, ThreadsFit

\* AgentInv holds of every reachable state of every instance.
THEOREM AgentInvariant == Spec => []AgentInv
  BY AgentInit, AgentStep, PTL DEF Spec

\* Every variable of the agent has its type, the ports and the addresses that
\* the daemon does not accept included.
THEOREM AgentTypeCorrect == Spec => []TypeOK
  BY AgentInvariant, PTL DEF AgentInv

\* A vtysh command leaves the settings alone that it is not about, as long as
\* no two commands overlap.
THEOREM SettingsAreKept == Spec => []SettingsKept
  BY AgentInvariant, PTL DEF AgentInv

\* Reports go to an address and a port that belong together, although
\* rest_config_init reads the two without config_mutex while the main thread
\* may be writing them.
THEOREM CollectorIsWhole == Spec => []CollectorWhole
  BY AgentInvariant, PTL DEF AgentInv
=============================================================================
