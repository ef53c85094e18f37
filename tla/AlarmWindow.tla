----------------------------- MODULE AlarmWindow -----------------------------
(***************************************************************************)
(* AlarmEngine with a history per key, kept beside the program: for how    *)
(* long the verdicts have all been truthy, or all falsy.  The history      *)
(* looks at the metrics the rule was evaluated on; with AllMetrics it      *)
(* looks at every metric of the target, also those that came while the     *)
(* rule was disabled or not yet refreshed into the engine.  A verdict of   *)
(* error is no evidence.                                                   *)
(***************************************************************************)
EXTENDS AlarmEngine

CONSTANT AllMetrics

ASSUME AllMetricsAssumption == AllMetrics \in BOOLEAN

VARIABLE seen

allVars == <<vars, seen>>

NoEvidence == [t |-> None, f |-> None]

Lasted(age) == IF age = None THEN 0 ELSE age

Evidence(h, v) ==
  CASE v = "truthy" -> [t |-> Lasted(h.t), f |-> None]
    [] v = "falsy"  -> [t |-> None, f |-> Lasted(h.f)]
    [] OTHER        -> h

WatchedMetric(t, vd) ==
  /\ Metric(t, vd)
  /\ seen' = [k \in Key |->
       IF k \in Applies /\ k[2] = t /\ (AllMetrics \/ rules[k[1]] # None)
       THEN Evidence(seen[k], vd[k[1]]) ELSE seen[k]]

WatchedTick ==
  /\ Tick
  /\ seen' = [k \in Key |-> [t |-> Older(seen[k].t), f |-> Older(seen[k].f)]]

WatchedStep ==
  /\ \/ \E r \in Rule : EditRule(r)
     \/ \E id \in AlarmId : AckAlarm(id) \/ ClearAlarm(id) \/ PruneAlarm(id)
     \/ RefreshRules
     \/ \E kd \in Kind : Handle(kd)
     \/ Restart
  /\ UNCHANGED seen

WatchedNext ==
  \/ \E t \in Target, vd \in [Rule -> Verdict] : WatchedMetric(t, vd)
  \/ WatchedTick
  \/ WatchedStep

WatchedSpec == Init /\ seen = [k \in Key |-> NoEvidence] /\ [][WatchedNext]_allVars

-----------------------------------------------------------------------------
(* Properties. *)

Opens(id) == alarm[id] = None /\ alarm'[id] # None
AutoClears(id) == /\ IsOpen(id) /\ alarm'[id] # None
                  /\ alarm'[id].state = "auto"

\* The hysteresis of evaluate: an alarm opens only if every verdict the engine
\* reached during the last for_seconds was truthy, and is auto-cleared only if
\* every one during the last clear_for_seconds was falsy, with the windows of
\* the copy of the rules the callback worked on.
WindowRespected ==
  [][\A id \in AlarmId :
       /\ Opens(id) => LET k == alarm'[id].key IN
            seen[k].t # None /\ seen[k].t >= WindowOf(k).for
       /\ AutoClears(id) => LET k == alarm[id].key IN
            seen[k].f # None /\ seen[k].f >= WindowOf(k).clear]_allVars

\* 0015_alarm_lifecycle.up.sql:5-6: "Alarms only open once a rule has been
\* continuously truthy for this long".  No metric of the target for which the
\* rule was falsy arrived during the last for_seconds.
ContinuouslyTruthy ==
  [][\A id \in AlarmId : Opens(id) =>
       LET k == alarm'[id].key IN
         seen[k].t # None /\ seen[k].t >= WindowOf(k).for]_allVars
==============================================================================
