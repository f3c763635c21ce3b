-------------------------------- MODULE SbOps --------------------------------
(***************************************************************************)
(* The operations of the south-bound API and the plugins that carry them   *)
(* out: what Redirector and its abstract specification SbApi have in       *)
(* common.  Each function sbapi_* of the source is one operation, a record *)
(* of what tells the functions apart.                                      *)
(***************************************************************************)
EXTENDS FiniteSets

CONSTANTS
  AsicTypes,  \* the silicon the agent knows: BVIEW_ASIC_TYPE_TD2 and _TH
  OtherAsic,  \* the bits of an asic mask that stand for no silicon yet
  Units,      \* unit numbers, also some that the switch does not have
  Plugins,    \* the plugins that register
  Features,   \* what each plugin has for a feature
  Silicon,    \* the silicon of each unit in a plugin's SYSTEM entry
  Clients,    \* the threads that call the API
  None        \* a null pointer, no unit, no answer yet

\* BVIEW_ASIC_TYPE_ALL has all bits set
AllAsics == AsicTypes \cup {OtherAsic}

FeatureIds == {"SYSTEM", "BST", "PACKET_TRACE"}

Status == {"SUCCESS", "FAILURE", "UNSUPPORTED"}

-----------------------------------------------------------------------------
(* The functions that call back into a plugin on behalf of a unit: they look *)
(* up the unit's silicon first, and answer UNSUPPORTED to a null callback.   *)

UnitOps(f, names) ==
  {[cb |-> n, feature |-> f, byUnit |-> TRUE, kind |-> "callback",
    absent |-> "UNSUPPORTED"] : n \in names}

BstConfigOps == UnitOps("BST", {"config_get", "config_set"})
BstSnapshotOps == UnitOps("BST", {"snapshot_get", "device_data_get"})
BstIngressPortOps == UnitOps("BST", {"ippg_data_get", "ipsp_data_get"})
BstPoolOps == UnitOps("BST", {"isp_data_get", "epsp_data_get"})
BstEgressOps == UnitOps("BST", {"esp_data_get", "eucq_data_get"})
BstQueueOps == UnitOps("BST", {"eucqg_data_get", "emcq_data_get"})
BstCpuOps == UnitOps("BST", {"cpuq_data_get", "rqeq_data_get"})
BstClearStatsOps == UnitOps("BST", {"clear_stats", "device_threshold_set"})
BstIngressPortThresholdOps == UnitOps("BST", {"ippg_threshold_set", "ipsp_threshold_set"})
BstPoolThresholdOps == UnitOps("BST", {"isp_threshold_set", "epsp_threshold_set"})
BstEgressThresholdOps == UnitOps("BST", {"esp_threshold_set", "eucq_threshold_set"})
BstQueueThresholdOps == UnitOps("BST", {"eucqg_threshold_set", "emcq_threshold_set"})
BstCpuThresholdOps == UnitOps("BST", {"cpuq_threshold_set", "rqeq_threshold_set"})
BstThresholdsOps == UnitOps("BST", {"threshold_get", "clear_thresholds"})
BstTriggerOps == UnitOps("BST", {"register_trigger"})

PtConfigOps == UnitOps("PACKET_TRACE",
                 {"drop_reason_config_get", "drop_reason_config_set"})
PtReasonOps == UnitOps("PACKET_TRACE",
                 {"supported_drop_reason_get", "trace_profile_get"})
PtCounterOps == UnitOps("PACKET_TRACE", {"drop_counter_get", "clear_drop_reason"})
PtTriggerOps == UnitOps("PACKET_TRACE", {"register_trigger"})

MaxBufOps == UnitOps("SYSTEM", {"max_buf_snapshot_get"})

-----------------------------------------------------------------------------
(* The functions of the SYSTEM feature that no unit is named to: they ask   *)
(* the plugin that serves all silicon.                                      *)

SystemOps(names) ==
  {[cb |-> n, feature |-> "SYSTEM", byUnit |-> FALSE, kind |-> "callback",
    absent |-> "UNSUPPORTED"] : n \in names}

NameOps == SystemOps({"name_get", "mac_get"})
AddressOps == SystemOps({"ip4_get", "asic_translate_from_notation"})
NotationOps == SystemOps({"asic_translate_to_notation", "port_translate_from_notation"})
PortNotationOps == SystemOps({"port_translate_to_notation"})
TimeOps == SystemOps({"uid_get", "time_get"})
LagNotationOps == SystemOps({"lag_translate_to_notation"})

\* network_os_get alone answers FAILURE to a null callback
NetworkOsOps ==
  {[op EXCEPT !.absent = "FAILURE"] : op \in SystemOps({"network_os_get"})}

\* no callback: the answer is in the plugin's SYSTEM entry
TableOps(names) ==
  {[op EXCEPT !.kind = "table"] : op \in SystemOps(names)}

NumUnitsOps == TableOps({"num_units"})
FeatureMaskOps == TableOps({"feature_mask"})

-----------------------------------------------------------------------------
(* The functions that read one of a silicon's capabilities *)

CapabilityOps(names) ==
  {[op EXCEPT !.kind = "capability"] : op \in UnitOps("SYSTEM", names)}

CapabilitiesOps == CapabilityOps({"capabilities", "num_ports"})
UnicastOps == CapabilityOps({"num_ucq", "num_ucqg"})
PoolCountOps == CapabilityOps({"num_mcq", "num_sp"})
CpuCountOps == CapabilityOps({"num_cp", "num_cpuq"})
RqeCountOps == CapabilityOps({"num_rqeq", "num_rqeqp"})
PriorityGroupOps == CapabilityOps({"num_pg", "support_1588"})

-----------------------------------------------------------------------------
BstOps == UNION {
  BstConfigOps, BstSnapshotOps, BstIngressPortOps, BstPoolOps, BstEgressOps,
  BstQueueOps, BstCpuOps, BstClearStatsOps, BstIngressPortThresholdOps,
  BstPoolThresholdOps, BstEgressThresholdOps, BstQueueThresholdOps,
  BstCpuThresholdOps, BstThresholdsOps, BstTriggerOps}

PtOps == UNION {PtConfigOps, PtReasonOps, PtCounterOps, PtTriggerOps}

AllOps == UNION {
  BstOps, PtOps, MaxBufOps, NameOps, AddressOps, NotationOps, PortNotationOps,
  TimeOps, LagNotationOps, NetworkOsOps, NumUnitsOps, FeatureMaskOps,
  CapabilitiesOps, UnicastOps, PoolCountOps, CpuCountOps, RqeCountOps,
  PriorityGroupOps}

\* the callbacks that the OVSDB plugin's init functions set
OvsdbBst == {op.cb : op \in BstOps}
OvsdbSystem == {op.cb : op \in UNION {MaxBufOps, NameOps, AddressOps, NotationOps,
                                      PortNotationOps, TimeOps, LagNotationOps,
                                      NetworkOsOps}}

-----------------------------------------------------------------------------
(* Plugins: Features[p][f] is None or a feature's asic mask and the         *)
(* callbacks that are not null; Silicon[p][u] is None or the unit's silicon, *)
(* from the asic list of the SYSTEM feature.                                 *)

Has(p, f) == Features[p][f] # None
UnitsOf(p) == {u \in Units : Silicon[p][u] # None}

ForAll(p, f) == Has(p, f) /\ Features[p][f].mask = AllAsics
ForAsic(p, asic, f) == Has(p, f) /\ ~ForAll(p, f) /\ asic \subseteq Features[p][f].mask

\* what plugin p may answer to an operation for silicon asic
Answers(op, asic, p) ==
  CASE op.kind = "table" -> {IF UnitsOf(p) = {} THEN "FAILURE" ELSE "SUCCESS"}
    [] op.kind = "capability" ->
         {IF \E u \in UnitsOf(p) : {Silicon[p][u]} = asic THEN "SUCCESS" ELSE "FAILURE"}
    [] op.kind = "callback" ->
         IF op.cb \in Features[p][op.feature].callbacks THEN {"SUCCESS", "FAILURE"}
         ELSE {op.absent}
=============================================================================
