------------------------------- MODULE Discovery -------------------------------
(***************************************************************************)
(* Discovery sweeps: the settings of a site and the list of jobs           *)
(* (internal/api/handlers_site_discovery.go, handlers_collectors.go), the  *)
(* sweep of a collector (internal/collector/discovery_poller.go and        *)
(* collector/discovery) and its results                                    *)
(* (internal/api/handlers_collector_discovery.go).                         *)
(*                                                                         *)
(* Hosts are numbered in the order a sweep takes them: subnet by subnet,   *)
(* and in each at most 512.  What a device turns out to be is left out,    *)
(* and with it the credentials of the vault, which a sweep does without if *)
(* they are not to be had - a collector that is not in service gets none:  *)
(* they tell what a device is, not whether it is found.                    *)
(***************************************************************************)
EXTENDS Shared, Naturals, FiniteSets

CONSTANTS
  Scanner,     \* collectors of the site
  HostCount,   \* hosts in the site's subnets; a bound
  DeviceLimit  \* devices a sweep stops at: 200

ASSUME DiscoveryAssumption == HostCount \in Nat /\ DeviceLimit \in Nat \ {0}

VARIABLES
  inService,  \* the collectors with is_active
  subnets,    \* the site's settings name any
  scanDue,    \* last_discovery_dispatched_at is NULL, or an interval ago
  answering,  \* the hosts that accept a connection
  discovered, \* the hosts that discovered_devices has a row of
  scanner     \* what a collector's discovery poller is at

discoveryVars == <<inService, subnets, scanDue, answering, discovered, scanner>>

Address == 1..HostCount

\* job: the answer to come holds a discovery_scan.  devices: found, not yet stored.
ScannerState ==
  [at : {"idle", "jobs", "sweep", "post", "store"}, job : BOOLEAN, devices : SUBSET Address]

Idle == [at |-> "idle", job |-> FALSE, devices |-> {}]

DiscoveryTypeOK ==
  /\ inService \subseteq Scanner
  /\ subnets \in BOOLEAN /\ scanDue \in BOOLEAN
  /\ answering \in SUBSET Address
  /\ discovered \in SUBSET Address
  /\ scanner \in [Scanner -> ScannerState]

-----------------------------------------------------------------------------
(* The collectors, the settings and the hosts. *)

\* A PATCH of the operator's, or for an inactive one also a new enrollment.
ServiceChanges(k) ==
  /\ inService' = IF k \in inService THEN inService \ {k} ELSE inService \cup {k}
  /\ UNCHANGED <<subnets, scanDue, answering, discovered, scanner>>

\* PUT: all settings at once, and no word of the last dispatch.
PutSettings ==
  /\ subnets' = ~subnets
  /\ UNCHANGED <<inService, scanDue, answering, discovered, scanner>>

HostComesOrGoes(h) ==
  /\ answering' = IF h \in answering THEN answering \ {h} ELSE answering \cup {h}
  /\ UNCHANGED <<inService, subnets, scanDue, discovered, scanner>>

\* scan_interval_seconds have passed.
IntervalPasses ==
  /\ ~scanDue /\ scanDue' = TRUE
  /\ UNCHANGED <<inService, subnets, answering, discovered, scanner>>

-----------------------------------------------------------------------------
(* The jobs. *)

\* A dispatch that is recorded at every request.
ReadJobs_StampsFirst(k) ==
  /\ scanner[k].at = "idle"
  /\ scanDue' = FALSE
  /\ scanner' = [scanner EXCEPT ![k].at = "jobs", ![k].job = FALSE]
  /\ UNCHANGED <<inService, subnets, answering, discovered>>

\* Every 60 s, of any collector.  handleCollectorJobs reads the settings and the time of
\* the last dispatch ...
ReadJobs(k) ==
  /\ scanner[k].at = "idle"
  /\ scanner' = [scanner EXCEPT ![k].at = "jobs", ![k].job = subnets /\ scanDue]
  /\ UNCHANGED <<inService, subnets, scanDue, answering, discovered>>

\* ... and records the dispatch, if that succeeds; another collector may have read in
\* between.  An answer that is lost is not repeated.
AnswerJobs(k) ==
  /\ scanner[k].at = "jobs"
  /\ IF scanner[k].job
     THEN /\ scanDue' \in IF Fault THEN {FALSE, scanDue} ELSE {FALSE}
          /\ \/ scanner' = [scanner EXCEPT ![k].at = "sweep"]
             \/ Fault /\ scanner' = [scanner EXCEPT ![k] = Idle]
     ELSE scanner' = [scanner EXCEPT ![k] = Idle] /\ UNCHANGED scanDue
  /\ UNCHANGED <<inService, subnets, answering, discovered>>

-----------------------------------------------------------------------------
(* The sweep. *)

\* IPv4Hosts and ProbeReachability: the first DeviceLimit hosts that answer.
Reached == {h \in answering : Cardinality({g \in answering : g < h}) < DeviceLimit}

SweepHosts(k) ==
  /\ scanner[k].at = "sweep"
  /\ scanner' = [scanner EXCEPT ![k] =
       IF Reached = {} THEN Idle ELSE [@ EXCEPT !.at = "post", !.devices = Reached]]
  /\ UNCHANGED <<inService, subnets, scanDue, answering, discovered>>

\* handleCollectorDiscoveryResults: a collector that is not in service is refused, and its
\* devices are gone ...
PostResults(k) ==
  /\ scanner[k].at = "post"
  /\ scanner' = [scanner EXCEPT ![k] =
       IF k \in inService THEN [@ EXCEPT !.at = "store"] ELSE Idle]
  /\ UNCHANGED <<inService, subnets, scanDue, answering, discovered>>

\* ... those of another are stored one by one, in their order.
StoreDevice(k) ==
  /\ scanner[k].at = "store"
  /\ \E d \in scanner[k].devices :
       /\ \A e \in scanner[k].devices : d <= e
       /\ discovered' = discovered \cup {d}
       /\ scanner' = [scanner EXCEPT ![k] =
            IF scanner[k].devices = {d} THEN Idle
            ELSE [scanner[k] EXCEPT !.devices = scanner[k].devices \ {d}]]
  /\ UNCHANGED <<inService, subnets, scanDue, answering>>

\* The request fails, at once or after some devices; or the collector restarts.
ScanFails(k) ==
  /\ Fault /\ scanner[k] # Idle
  /\ scanner' = [scanner EXCEPT ![k] = Idle]
  /\ UNCHANGED <<inService, subnets, scanDue, answering, discovered>>

-----------------------------------------------------------------------------
DiscoveryInit ==
  /\ inService = Scanner
  /\ subnets = FALSE /\ scanDue = TRUE
  /\ answering = {}
  /\ discovered = {}
  /\ scanner = [k \in Scanner |-> Idle]

ScannerStep(k) ==
  \/ ReadJobs(k) \/ AnswerJobs(k) \/ SweepHosts(k)
  \/ PostResults(k) \/ StoreDevice(k) \/ ScanFails(k)

DiscoveryNext ==
  \/ PutSettings \/ IntervalPasses
  \/ \E h \in Address : HostComesOrGoes(h)
  \/ \E k \in Scanner : ServiceChanges(k) \/ ScannerStep(k)

\* Time passes, and a collector polls on.
DiscoveryFairness ==
  /\ WF_discoveryVars(focus = "discovery" /\ IntervalPasses)
  /\ \A k \in Scanner : WF_discoveryVars(focus = "discovery" /\ ScannerStep(k))

-----------------------------------------------------------------------------
(* Properties. *)

\* A host that keeps answering is found, though dispatches are lost and recorded
\* twice, unless DeviceLimit hosts before it answer too (handlers_collectors.go:733).
\* All collectors of the site have to be in service: any other takes its dispatches.
AnsweringIsFound ==
  \A h \in Address :
    <>[](subnets /\ h \in Reached /\ inService = Scanner) => <>[](h \in discovered)
=============================================================================
