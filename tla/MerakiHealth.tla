----------------------------- MODULE MerakiHealth -----------------------------
(***************************************************************************)
(* The telemetry loop of a Meraki site                                     *)
(* (internal/poller/meraki_telemetry.go, internal/vendors/meraki): the     *)
(* appliances by serial, the statuses and extras of the organisation, a    *)
(* transaction per appliance.                                              *)
(*                                                                         *)
(* One site, as in MerakiInventory, of which only the effect is here: at   *)
(* any time an appliance may become, or cease to be, an active one of any  *)
(* serial.  Of what Dashboard says the status stands for the rest, and the *)
(* ports of a switch for the extras: a snapshot is replaced as a whole,    *)
(* with those extras that were to be had.                                  *)
(***************************************************************************)
EXTENDS Shared

CONSTANTS
  Device,         \* serials of the organisations
  MerakiAppliance \* rows of appliances, by id

VARIABLES
  healthOn,  \* meraki_sync_enabled, and a key in the vault
  healthDue, \* meraki_last_telemetry_at is NULL, or an interval ago
  condition, \* Dashboard's status of each device, None if there is none
  serialOf,  \* the serial of each active appliance
  shown,     \* last_snapshot: the status it shows, and whether it shows ports
  reading    \* the pass: the appliance of each serial, what Dashboard said of the
             \* devices and of their ports

healthVars == <<healthOn, healthDue, condition, serialOf, shown, reading>>

-----------------------------------------------------------------------------
Health == {"online", "offline"}
Reading == [row : [Device -> MerakiAppliance \cup {None}],
            told : {None} \cup [Device -> Health \cup {None}],
            extras : BOOLEAN, todo : SUBSET Device]

HealthTypeOK ==
  /\ healthOn \in BOOLEAN /\ healthDue \in BOOLEAN
  /\ condition \in [Device -> Health \cup {None}]
  /\ serialOf \in [MerakiAppliance -> Device \cup {None}]
  /\ shown \in [MerakiAppliance -> [status : Health, ports : BOOLEAN] \cup {None}]
  /\ reading # None => reading \in Reading

-----------------------------------------------------------------------------
(* Around the loop. *)

SwitchHealth ==
  /\ healthOn' = ~healthOn
  /\ UNCHANGED <<healthDue, condition, serialOf, shown, reading>>

HealthIntervalPasses ==
  /\ ~healthDue /\ healthDue' = TRUE
  /\ UNCHANGED <<healthOn, condition, serialOf, shown, reading>>

ConditionChanges(d) ==
  /\ \E h \in Health \cup {None} : condition' = [condition EXCEPT ![d] = h]
  /\ UNCHANGED <<healthOn, healthDue, serialOf, shown, reading>>

\* A sync, or an operator.
ApplianceChanges(a) ==
  /\ \E d \in Device \cup {None} : serialOf' = [serialOf EXCEPT ![a] = d]
  /\ UNCHANGED <<healthOn, healthDue, condition, shown, reading>>

-----------------------------------------------------------------------------
(* syncMerakiTelemetryDue and SyncSiteMerakiTelemetry. *)

RowsOf(d) == {a \in MerakiAppliance : serialOf[a] = d}

\* Of two rows with one serial the last read is taken.  Without any row the pass is over.
LoadAppliances ==
  /\ reading = None /\ healthOn /\ healthDue
  /\ IF \A d \in Device : RowsOf(d) = {} THEN healthDue' = FALSE /\ UNCHANGED reading
     ELSE /\ \E row \in [Device -> MerakiAppliance \cup {None}] :
               /\ \A d \in Device : IF RowsOf(d) = {} THEN row[d] = None
                                    ELSE row[d] \in RowsOf(d)
               /\ reading' = [row |-> row, told |-> None, extras |-> FALSE, todo |-> {}]
          /\ UNCHANGED healthDue
  /\ UNCHANGED <<healthOn, condition, serialOf, shown>>

\* What a request for an extra comes to.
Answered == IF Fault THEN BOOLEAN ELSE {TRUE}

\* loadMerakiOrgExtras: a request that fails is logged, and takes nothing from the others.
ListStatuses ==
  /\ reading # None /\ reading.told = None
  /\ \E extras \in Answered :
       reading' = [reading EXCEPT !.told = condition, !.extras = extras,
         !.todo = {d \in Device : reading.row[d] # None /\ condition[d] # None}]
  /\ UNCHANGED <<healthOn, healthDue, condition, serialOf, shown>>

\* A status that, as the counts do, keeps what it has.
Written_Kept(d) ==
  LET old == shown[reading.row[d]] IN
  [status |-> IF old = None THEN reading.told[d] ELSE old.status, ports |-> reading.extras]

\* buildMerakiTelemetry.
Written(d) == [status |-> reading.told[d], ports |-> reading.extras]

\* A sample that the database refuses takes the snapshot with it: one transaction.
SamplesRefused == Fault

\* PersistMerakiTelemetry goes by the id of the row, which may have passed to another
\* device by now, or be inactive.
PersistHealth ==
  /\ reading # None
  /\ \E d \in reading.todo :
       /\ reading' = [reading EXCEPT !.todo = @ \ {d}]
       /\ \/ shown' = [shown EXCEPT ![reading.row[d]] = Written(d)]
          \/ SamplesRefused /\ UNCHANGED shown
  /\ UNCHANGED <<healthOn, healthDue, condition, serialOf>>

\* recordMerakiTelemetryStatus: a pass that failed counts as one, its error is kept
\* nowhere; a pass that ran out of time does not count.
RecordHealth ==
  /\ reading # None
  /\ Fault \/ (reading.told # None /\ reading.todo = {})
  /\ reading' = None
  /\ healthDue' \in IF Fault THEN {FALSE, healthDue} ELSE {FALSE}
  /\ UNCHANGED <<healthOn, condition, serialOf, shown>>

-----------------------------------------------------------------------------
HealthInit ==
  /\ healthOn = FALSE /\ healthDue = TRUE
  /\ condition = [d \in Device |-> None]
  /\ serialOf = [a \in MerakiAppliance |-> None]
  /\ shown = [a \in MerakiAppliance |-> None]
  /\ reading = None

HealthStep == LoadAppliances \/ ListStatuses \/ PersistHealth \/ RecordHealth

HealthNext ==
  \/ SwitchHealth \/ HealthIntervalPasses
  \/ \E d \in Device : ConditionChanges(d)
  \/ \E a \in MerakiAppliance : ApplianceChanges(a)
  \/ HealthStep

\* Time passes, and the loop ticks.
HealthFairness ==
  /\ WF_healthVars(focus = "health" /\ HealthIntervalPasses)
  /\ WF_healthVars(focus = "health" /\ HealthStep)

-----------------------------------------------------------------------------
(* Properties. *)

\* The appliance that alone has the serial of a device shows the device's status and its
\* ports in the end, though a pass finds its rows and its answers out of date or the
\* extras missing (meraki_telemetry.go:360).
HealthArrives ==
  \A d \in Device, a \in MerakiAppliance, h \in Health :
    <>[](healthOn /\ condition[d] = h /\ RowsOf(d) = {a}) =>
    <>[](shown[a] = [status |-> h, ports |-> TRUE])
=============================================================================
