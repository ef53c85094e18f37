------------------------------- MODULE Services -------------------------------
(***************************************************************************)
(* The services that share no state: none reads what another one writes.   *)
(* Whatever the interleaving, each behaves in company as it does alone, so *)
(* a behaviour moves one component, chosen at the start, and the others    *)
(* stand still: the states of this specification are the sum of theirs,    *)
(* not the product.                                                        *)
(***************************************************************************)
EXTENDS Enrollment, Presence, SelfUpdate, SyntheticChecks, PassiveInventory, Discovery,
        MerakiInventory, MerakiHealth, HostProcesses, HostTelemetry, HostPeers, Notices,
        Compliance, Retention, Accounts, Receivers, Topology

CONSTANT Component  \* those a run looks at

servicesVars ==
  <<focus, calm, online, enrollmentVars, presenceVars, updateVars, checksVars, passiveVars,
    discoveryVars, inventoryVars, healthVars, processVars, telemetryVars, peersVars,
    noticeVars, complianceVars, retentionVars, accountVars, receiverVars,
    topologyVars>>

ServicesTypeOK ==
  /\ EnrollmentTypeOK /\ PresenceTypeOK /\ UpdateTypeOK /\ ChecksTypeOK
  /\ PassiveTypeOK /\ DiscoveryTypeOK /\ InventoryTypeOK /\ HealthTypeOK
  /\ ProcessesTypeOK /\ TelemetryTypeOK /\ PeersTypeOK /\ NoticesTypeOK
  /\ ComplianceTypeOK /\ RetentionTypeOK /\ AccountsTypeOK /\ ReceiversTypeOK
  /\ TopologyTypeOK

\* Enrollment, the accounts and the graph have no step that needs the faults to end.
ServicesInit ==
  /\ focus \in Component
  /\ calm = (focus \in {"enrollment", "accounts", "topology"})
  /\ EnrollmentInit /\ PresenceInit /\ ChecksInit /\ PassiveInit /\ DiscoveryInit
  /\ InventoryInit /\ HealthInit /\ ProcessesInit /\ TelemetryInit /\ PeersInit
  /\ NoticesInit /\ ComplianceInit /\ RetentionInit /\ AccountsInit /\ ReceiversInit
  /\ TopologyInit
  /\ UpdateInit /\ (focus # "update" => platform = "unix")

\* All components but this one stand still.
OthersStill(component) ==
  /\ component # "enrollment" => UNCHANGED enrollmentVars
  /\ component # "presence" => UNCHANGED presenceVars
  /\ component # "update" => UNCHANGED updateVars
  /\ component # "checks" => UNCHANGED checksVars
  /\ component # "passive" => UNCHANGED passiveVars
  /\ component # "discovery" => UNCHANGED discoveryVars
  /\ component # "inventory" => UNCHANGED inventoryVars
  /\ component # "health" => UNCHANGED healthVars
  /\ component # "processes" => UNCHANGED processVars
  /\ component # "telemetry" => UNCHANGED telemetryVars
  /\ component # "peers" => UNCHANGED peersVars
  /\ component # "notices" => UNCHANGED noticeVars
  /\ component # "compliance" => UNCHANGED complianceVars
  /\ component # "retention" => UNCHANGED retentionVars
  /\ component # "accounts" => UNCHANGED accountVars
  /\ component # "receivers" => UNCHANGED receiverVars
  /\ component # "topology" => UNCHANGED topologyVars
  /\ component \notin {"processes", "telemetry"} => UNCHANGED online

FaultsEnd == ~calm /\ calm' = TRUE /\ UNCHANGED focus /\ OthersStill("nobody")

ServicesNext ==
  \/ FaultsEnd
  \/ Moves("enrollment") /\ EnrollmentNext /\ OthersStill("enrollment")
  \/ Moves("presence") /\ PresenceNext /\ OthersStill("presence")
  \/ Moves("update") /\ UpdateNext /\ OthersStill("update")
  \/ Moves("checks") /\ ChecksNext /\ OthersStill("checks")
  \/ Moves("passive") /\ PassiveNext /\ OthersStill("passive")
  \/ Moves("discovery") /\ DiscoveryNext /\ OthersStill("discovery")
  \/ Moves("inventory") /\ InventoryNext /\ OthersStill("inventory")
  \/ Moves("health") /\ HealthNext /\ OthersStill("health")
  \/ Moves("processes") /\ ProcessesNext /\ OthersStill("processes")
  \/ Moves("telemetry") /\ TelemetryNext /\ OthersStill("telemetry")
  \/ Moves("peers") /\ PeersNext /\ OthersStill("peers")
  \/ Moves("notices") /\ NoticesNext /\ OthersStill("notices")
  \/ Moves("compliance") /\ ComplianceNext /\ OthersStill("compliance")
  \/ Moves("retention") /\ RetentionNext /\ OthersStill("retention")
  \/ Moves("accounts") /\ AccountsNext /\ OthersStill("accounts")
  \/ Moves("receivers") /\ ReceiversNext /\ OthersStill("receivers")
  \/ Moves("topology") /\ TopologyNext /\ OthersStill("topology")

ServicesMove == ServicesInit /\ [][ServicesNext]_servicesVars /\ WF_servicesVars(FaultsEnd)

FleetFairness ==
  /\ PresenceFairness /\ UpdateFairness /\ ChecksFairness /\ ComplianceFairness

SiteFairness ==
  /\ PassiveFairness /\ DiscoveryFairness /\ InventoryFairness /\ HealthFairness
  /\ ProcessesFairness /\ TelemetryFairness /\ PeersFairness /\ NoticesFairness
  /\ RetentionFairness /\ ReceiversFairness

\* Of the components of a run; of those that stand still nothing is asked.
FleetSpec == ServicesMove /\ FleetFairness
SiteSpec == ServicesMove /\ SiteFairness
=============================================================================
