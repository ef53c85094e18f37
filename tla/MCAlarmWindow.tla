--------------------------- MODULE MCAlarmWindow ---------------------------
(* AlarmWindow on the sets of MCAlarmEngine. *)
EXTENDS AlarmWindow, MCAlarmEngine
=============================================================================
