--------------------------- MODULE MerakiInventory ----------------------------
(***************************************************************************)
(* The devices of a Meraki Dashboard as appliances of a site: the sync by  *)
(* sonar-poller's loop (internal/poller/meraki_sync.go) and by an          *)
(* operator's request (internal/api/handlers_site_meraki.go).              *)
(*                                                                         *)
(* One site, whose key is in the vault: the loop takes the sites one after *)
(* the other, a sync lasts 3 minutes at most, and the error of a site does *)
(* not stop the loop.  Its organisations answer or fail together.  An      *)
(* operator's own appliances, and deletions, are left out; MerakiHealth    *)
(* has the telemetry, which writes nothing that a sync reads.              *)
(***************************************************************************)
EXTENDS Shared, FiniteSets

CONSTANTS
  Serial,     \* devices of the organisations
  DeviceName

VARIABLES
  syncEnabled, \* meraki_sync_enabled
  syncDue,     \* meraki_last_sync_at is NULL, or an interval ago
  dashboard,   \* the name of each device, None if there is none
  merakiRow,   \* the site's Meraki appliances, by name
  syncing      \* a sync: what it was told, whom it has still to store

inventoryVars == <<syncEnabled, syncDue, dashboard, merakiRow, syncing>>

-----------------------------------------------------------------------------
Syncer == {"loop", "now"}
MerakiRow == [serial : Serial, active : BOOLEAN]
Sync == [told : [Serial -> DeviceName \cup {None}], todo : SUBSET Serial]

InventoryTypeOK ==
  /\ syncEnabled \in BOOLEAN /\ syncDue \in BOOLEAN
  /\ dashboard \in [Serial -> DeviceName \cup {None}]
  /\ merakiRow \in [DeviceName -> MerakiRow \cup {None}]
  /\ syncing \in [Syncer -> Sync \cup {None}]

-----------------------------------------------------------------------------
(* Around the syncs. *)

PutMerakiSync ==
  /\ syncEnabled' = ~syncEnabled
  /\ UNCHANGED <<syncDue, dashboard, merakiRow, syncing>>

\* A device is claimed, removed or renamed.
DashboardChanges(d) ==
  /\ \E name \in DeviceName \cup {None} : dashboard' = [dashboard EXCEPT ![d] = name]
  /\ UNCHANGED <<syncEnabled, syncDue, merakiRow, syncing>>

\* PATCH of an appliance.
DeactivateMeraki(n) ==
  /\ merakiRow[n] # None /\ merakiRow[n].active
  /\ merakiRow' = [merakiRow EXCEPT ![n].active = FALSE]
  /\ UNCHANGED <<syncEnabled, syncDue, dashboard, syncing>>

SyncIntervalPasses ==
  /\ ~syncDue /\ syncDue' = TRUE
  /\ UNCHANGED <<syncEnabled, dashboard, merakiRow, syncing>>

-----------------------------------------------------------------------------
(* SyncSiteMeraki. *)

\* The loop looks every minute for sites enabled and due; an operator's request, and a
\* PUT that saves a key, ask for the key only.
ListDevices(s) ==
  /\ syncing[s] = None
  /\ s = "loop" => syncEnabled /\ syncDue
  /\ syncing' = [syncing EXCEPT ![s] =
       [told |-> dashboard, todo |-> {d \in Serial : dashboard[d] # None}]]
  /\ UNCHANGED <<syncEnabled, syncDue, dashboard, merakiRow>>

\* A conflict that leaves is_active alone.
Synced_Inactive(row, d) ==
  [serial |-> d, active |-> IF row = None THEN TRUE ELSE row.active]

\* INSERT ... ON CONFLICT (site_id, name) DO UPDATE: a row that an operator deactivated
\* is active again, and one of another device passes to this one.
Synced(row, d) == [serial |-> d, active |-> TRUE]

\* A statement that fails is passed over.
UpsertAppliance(s) ==
  /\ syncing[s] # None
  /\ \E d \in syncing[s].todo :
       /\ syncing' = [syncing EXCEPT ![s].todo = @ \ {d}]
       /\ \/ merakiRow' = [merakiRow EXCEPT ![syncing[s].told[d]] = Synced(@, d)]
          \/ Fault /\ UNCHANGED merakiRow
  /\ UNCHANGED <<syncEnabled, syncDue, dashboard>>

\* RecordMerakiSyncStatus, with the error if a request failed.  A sync that ran out of
\* time records nothing: its context is gone.  So with a request whose client went away.
RecordSync(s) ==
  /\ syncing[s] # None /\ (syncing[s].todo = {} \/ Fault)
  /\ syncing' = [syncing EXCEPT ![s] = None]
  /\ syncDue' \in IF Fault THEN {FALSE, syncDue} ELSE {FALSE}
  /\ UNCHANGED <<syncEnabled, dashboard, merakiRow>>

-----------------------------------------------------------------------------
InventoryInit ==
  /\ syncEnabled = FALSE /\ syncDue = TRUE
  /\ dashboard = [d \in Serial |-> None]
  /\ merakiRow = [n \in DeviceName |-> None]
  /\ syncing = [s \in Syncer |-> None]

SyncStep(s) == ListDevices(s) \/ UpsertAppliance(s) \/ RecordSync(s)

InventoryNext ==
  \/ PutMerakiSync \/ SyncIntervalPasses
  \/ \E d \in Serial : DashboardChanges(d)
  \/ \E n \in DeviceName : DeactivateMeraki(n)
  \/ \E s \in Syncer : SyncStep(s)

\* Time passes, the loop ticks, and a request runs to its end; nobody has to make one.
InventoryFairness ==
  /\ WF_inventoryVars(focus = "inventory" /\ SyncIntervalPasses)
  /\ WF_inventoryVars(focus = "inventory" /\ SyncStep("loop"))
  /\ WF_inventoryVars(focus = "inventory" /\ (UpsertAppliance("now") \/ RecordSync("now")))

-----------------------------------------------------------------------------
(* Properties. *)

\* A device that has its name to itself is an active appliance under that name again
\* and again, whoever deactivates it and however stale the lists of overlapping syncs
\* are (meraki_sync.go:75).
DeviceShowsUp ==
  \A d \in Serial, n \in DeviceName :
    <>[](syncEnabled /\ \A e \in Serial : dashboard[e] = n <=> e = d)
      => []<>(merakiRow[n] = [serial |-> d, active |-> TRUE])
=============================================================================
