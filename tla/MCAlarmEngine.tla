--------------------------- MODULE MCAlarmEngine ---------------------------
(* AlarmEngine on small sets of rules and targets. *)
EXTENDS AlarmEngine, TLC

CONSTANTS r1, r2, t1, t2

MCKindOf == [t \in Target |-> IF t = t1 THEN "appliance" ELSE "agent"]
MCEverything == Rule \X Target
=============================================================================
