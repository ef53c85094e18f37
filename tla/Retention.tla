------------------------------- MODULE Retention ------------------------------
(***************************************************************************)
(* How long data is kept (internal/retention/settings.go,                  *)
(* internal/api/handlers_retention.go): one row of settings, which the     *)
(* handler of a PUT applies at once and the runner again every hour.       *)
(* Applying is to replace the policies of the tables, then to prune the    *)
(* cleared alarms and the audit log, a batch of each.                      *)
(*                                                                         *)
(* Here one number of days stands for the seven, one policy for those of   *)
(* the tables, and the cleared alarms for the audit log as well.           *)
(***************************************************************************)
EXTENDS Shared, Naturals, FiniteSets

CONSTANTS
  MaxDays,     \* 1825: more is out of range, and so is 0
  DefaultDays, \* 365
  PruneBatch,  \* 5000
  AlarmRow     \* rows of alarms

ASSUME RetentionAssumption ==
  MaxDays \in Nat /\ DefaultDays \in 1..MaxDays /\ PruneBatch \in Nat \ {0}

VARIABLES
  keepDays, \* platform_retention_settings
  policy,   \* what the policies of the tables say
  alarmRow, \* each alarm: what has become of it, and the days since it was cleared
  applying  \* the runner and the handler of a PUT at work

retentionVars == <<keepDays, policy, alarmRow, applying>>

-----------------------------------------------------------------------------
Days == 1..MaxDays
Applier == {"runner", "handler"}
OldestAge == MaxDays + 1  \* days are counted no further

\* days: what it goes by; least: the shortest setting there was since it began.
Applying == [stage : {"policies", "prune"}, days : Days, least : Days]

RetentionTypeOK ==
  /\ keepDays \in Days /\ policy \in Days
  /\ alarmRow \in
       [AlarmRow -> [status : {"absent", "open", "cleared", "pruned"}, age : 0..OldestAge]]
  /\ applying \in [Applier -> Applying \cup {None}]

\* Clamp: not the nearest bound.
Clamp(days) == IF days \in Days THEN days ELSE DefaultDays

-----------------------------------------------------------------------------
(* Alarms. *)

RaiseOrClear(r) ==
  /\ \/ alarmRow[r].status = "absent" /\ alarmRow' = [alarmRow EXCEPT ![r].status = "open"]
     \/ alarmRow[r].status = "open" /\ alarmRow' = [alarmRow EXCEPT ![r].status = "cleared"]
  /\ UNCHANGED <<keepDays, policy, applying>>

ADayPasses ==
  /\ alarmRow' = [r \in AlarmRow |->
       IF alarmRow[r].status = "cleared" /\ alarmRow[r].age < OldestAge
       THEN [alarmRow[r] EXCEPT !.age = @ + 1] ELSE alarmRow[r]]
  /\ UNCHANGED <<keepDays, policy, applying>>

-----------------------------------------------------------------------------
(* The handler and the runner. *)

Begin(days, least) == [stage |-> "policies", days |-> days, least |-> least]

\* Save, and what it returns is applied.
PutRetention ==
  /\ applying["handler"] = None
  /\ \E asked \in 0..MaxDays + 1 :
       LET days == Clamp(asked) IN
       /\ keepDays' = days
       /\ applying' = [a \in Applier |->
            IF a = "handler" THEN Begin(days, days)
            ELSE IF applying[a] # None /\ days < applying[a].least
                 THEN [applying[a] EXCEPT !.least = days] ELSE applying[a]]
  /\ UNCHANGED <<policy, alarmRow>>

\* A runner that loads the settings before its loop.
Loaded_AtStart == DefaultDays

Loaded == keepDays

\* When the settings cannot be read the runner goes by the defaults.
RunnerTick ==
  /\ applying["runner"] = None
  /\ \E days \in {Loaded} \cup (IF Fault THEN {DefaultDays} ELSE {}) :
       applying' = [applying EXCEPT !["runner"] = Begin(days, keepDays)]
  /\ UNCHANGED <<keepDays, policy, alarmRow>>

\* A policy that cannot be replaced stays; the pruning is tried all the same.  Only a
\* failure of the first query, for the extension, is an end of it.
ApplyPolicies(a) ==
  /\ applying[a] # None /\ applying[a].stage = "policies"
  /\ \/ /\ policy' \in {applying[a].days} \cup (IF Fault THEN {policy} ELSE {})
        /\ applying' = [applying EXCEPT ![a].stage = "prune"]
     \/ Fault /\ applying' = [applying EXCEPT ![a] = None] /\ UNCHANGED policy
  /\ UNCHANGED <<keepDays, alarmRow>>

Due(days) == {r \in AlarmRow : alarmRow[r].status = "cleared" /\ alarmRow[r].age > days}

\* The batch that has been cleared the longest.
Batches(due) ==
  {b \in SUBSET due :
     /\ Cardinality(b) <= PruneBatch /\ (b = due \/ Cardinality(b) = PruneBatch)
     /\ \A r \in b, s \in due \ b : alarmRow[r].age >= alarmRow[s].age}

Prune(a) ==
  /\ applying[a] # None /\ applying[a].stage = "prune"
  /\ \E b \in Batches(Due(applying[a].days)) \cup (IF Fault THEN {{}} ELSE {}) :
       alarmRow' = [r \in AlarmRow |->
         IF r \in b THEN [alarmRow[r] EXCEPT !.status = "pruned"] ELSE alarmRow[r]]
  /\ applying' = [applying EXCEPT ![a] = None]
  /\ UNCHANGED <<keepDays, policy>>

RetentionRestarts ==
  /\ Fault /\ applying' = [a \in Applier |-> None]
  /\ UNCHANGED <<keepDays, policy, alarmRow>>

-----------------------------------------------------------------------------
\* The migration writes the defaults into the row and the policies.
RetentionInit ==
  /\ keepDays = DefaultDays /\ policy = DefaultDays
  /\ alarmRow = [r \in AlarmRow |-> [status |-> "absent", age |-> 0]]
  /\ applying = [a \in Applier |-> None]

ApplierStep(a) == ApplyPolicies(a) \/ Prune(a)

RetentionNext ==
  \/ \E r \in AlarmRow : RaiseOrClear(r)
  \/ ADayPasses \/ PutRetention \/ RunnerTick \/ RetentionRestarts
  \/ \E a \in Applier : ApplierStep(a)

RetentionFairness ==
  /\ WF_retentionVars(focus = "retention" /\ RunnerTick)
  /\ \A a \in Applier : WF_retentionVars(focus = "retention" /\ ApplierStep(a))

-----------------------------------------------------------------------------
(* Properties. *)

\* A setting takes hold, though the runner may apply an older one after the handler
\* (settings.go:271): the policies become the setting, and an alarm that was cleared
\* longer ago is not there for ever.
SettingTakesHold ==
  \A days \in Days :
    <>[](keepDays = days) =>
    /\ <>[](policy = days)
    /\ \A r \in AlarmRow : []<>(r \notin Due(days))

\* A cleared alarm remains for as long as the settings say: it is deleted only when a
\* setting of the time is exceeded (docs/src/data-retention.md:37).
KeptAsLongAsSet ==
  [][\A r \in AlarmRow :
       alarmRow[r].status = "cleared" /\ alarmRow'[r].status = "pruned" =>
         \E a \in Applier : applying[a] # None /\ alarmRow[r].age > applying[a].least]_retentionVars
=============================================================================
