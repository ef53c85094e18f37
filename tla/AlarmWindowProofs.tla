-------------------------- MODULE AlarmWindowProofs --------------------------
(***************************************************************************)
(* A proof that the engine respects its windows, for any rules, targets,   *)
(* kinds and windows, with the history of the metrics each rule was        *)
(* evaluated on.                                                           *)
(***************************************************************************)
EXTENDS AlarmWindow, AlarmEngineProofs

\* An age in the engine's memory is backed by the history: what the engine
\* counts as its window, the verdicts have really lasted.  The reverse does not
\* hold: a restart forgets and the history does not.
Backed(mine, real) == mine # None => real # None /\ real >= mine

SeenInv ==
  /\ seen \in [Key -> Pending]
  /\ \A k \in Key : /\ Backed(pend[k].t, seen[k].t)
                    /\ Backed(pend[k].f, seen[k].f)

WatchInv == Inv /\ SeenInv

-----------------------------------------------------------------------------
(* Ages. *)

LEMMA AgeNat == \A age \in Age : age # None => age \in Nat
BY WindowAssumption DEF Age

LEMMA OlderBacked ==
  ASSUME NEW mine \in Age, NEW real \in Age, Backed(mine, real)
  PROVE  Backed(Older(mine), Older(real)) /\ Older(real) \in Age
<1>1. Older(real) \in Age
  BY OlderFacts
<1>2. CASE mine = None
  BY <1>2, OlderFacts DEF Backed
<1>3. CASE mine # None
  <2>1. mine \in 0..Horizon /\ real \in 0..Horizon /\ real >= mine /\ real # None
    BY <1>3 DEF Backed, Age
  <2>2. Older(mine) = IF mine = Horizon THEN mine ELSE mine + 1
    BY <1>3 DEF Older
  <2>3. Older(real) = IF real = Horizon THEN real ELSE real + 1
    BY <2>1 DEF Older
  <2>4. Older(real) >= Older(mine)
    BY <2>1, <2>2, <2>3, WindowAssumption
  <2>5. Older(real) # None
    BY <2>1, OlderFacts
  <2> QED BY <1>1, <2>4, <2>5 DEF Backed
<1> QED BY <1>1, <1>2, <1>3

\* A verdict moves the engine's windows and the history alike.
LEMMA JudgeBacked ==
  ASSUME NEW p \in Pending, NEW h \in Pending, NEW v,
         Backed(p.t, h.t), Backed(p.f, h.f)
  PROVE  /\ Backed(Judge(p, v).t, Evidence(h, v).t)
         /\ Backed(Judge(p, v).f, Evidence(h, v).f)
         /\ Evidence(h, v) \in Pending
<1>1. p.t \in Age /\ p.f \in Age /\ h.t \in Age /\ h.f \in Age /\ None \in Age
  BY DEF Pending, Age
<1>2. ASSUME NEW mine \in Age, NEW real \in Age, Backed(mine, real)
      PROVE  Backed(Since(mine), Lasted(real)) /\ Lasted(real) \in Age
  <2>1. 0 \in Age /\ 0 # None
    BY WindowAssumption, NoneAssumption DEF Age
  <2>2. CASE real = None
    BY <1>2, <2>1, <2>2 DEF Backed, Since, Lasted
  <2>3. CASE real # None
    BY <1>2, <2>1, <2>3, AgeNat DEF Backed, Since, Lasted
  <2> QED BY <2>2, <2>3
<1>3. Backed(None, None)
  BY DEF Backed
<1>4. CASE v = "truthy"
  BY <1>1, <1>2, <1>3, <1>4 DEF Judge, Evidence, Pending
<1>5. CASE v = "falsy"
  BY <1>1, <1>2, <1>3, <1>5 DEF Judge, Evidence, Pending
<1>6. CASE v # "truthy" /\ v # "falsy"
  BY <1>6 DEF Judge, Evidence
<1> QED BY <1>4, <1>5, <1>6

-----------------------------------------------------------------------------
(* The history backs the engine's memory. *)

LEMMA WatchedIsNext == [WatchedNext]_allVars => [Next]_vars
BY DEF WatchedNext, WatchedMetric, WatchedTick, WatchedStep, SomeMetric, Next,
       allVars, vars

LEMMA WatchedTickInv ==
  ASSUME WatchInv, WatchedTick
  PROVE  SeenInv'
<1>1. ASSUME NEW k \in Key
      PROVE  /\ seen'[k] \in Pending
             /\ Backed(pend'[k].t, seen'[k].t)
             /\ Backed(pend'[k].f, seen'[k].f)
  <2> DEFINE p == pend[k]
             h == seen[k]
  <2>1. p \in Pending /\ h \in Pending /\ Backed(p.t, h.t) /\ Backed(p.f, h.f)
    BY DEF WatchInv, Inv, TypeOK, SeenInv
  <2>2. p.t \in Age /\ p.f \in Age /\ h.t \in Age /\ h.f \in Age
    BY <2>1 DEF Pending
  <2>3. /\ Backed(Older(p.t), Older(h.t)) /\ Older(h.t) \in Age
        /\ Backed(Older(p.f), Older(h.f)) /\ Older(h.f) \in Age
    BY ONLY <2>1, <2>2, OlderBacked
  <2>4. /\ pend'[k] = [t |-> Older(p.t), f |-> Older(p.f)]
        /\ seen'[k] = [t |-> Older(h.t), f |-> Older(h.f)]
    BY DEF WatchedTick, Tick
  <2> QED BY <2>3, <2>4 DEF Pending
<1>2. seen' = [k \in Key |-> seen'[k]]
  BY DEF WatchedTick
<1> QED BY <1>1, <1>2 DEF SeenInv

LEMMA WatchedMetricInv ==
  ASSUME ~AllMetrics, WatchInv,
         NEW t \in Target, NEW vd \in [Rule -> Verdict], WatchedMetric(t, vd)
  PROVE  SeenInv'
<1> DEFINE judges(k) == k \in Applies /\ k[2] = t /\ rules[k[1]] # None
<1>1. ASSUME NEW k \in Key
      PROVE  /\ pend'[k] = IF judges(k) THEN Judge(pend[k], vd[k[1]]) ELSE pend[k]
             /\ seen'[k] = IF judges(k) THEN Evidence(seen[k], vd[k[1]]) ELSE seen[k]
  <2>1. k[1] \in Rule /\ k = <<k[1], k[2]>>
    BY DEF Key
  <2>2. k[2] = t => (<<k[1], t>> \in Applies <=> k \in Applies)
    BY <2>1
  <2> QED BY <2>1, <2>2 DEF WatchedMetric, Metric
<1>2. ASSUME NEW k \in Key
      PROVE  /\ seen'[k] \in Pending
             /\ Backed(pend'[k].t, seen'[k].t)
             /\ Backed(pend'[k].f, seen'[k].f)
  <2> DEFINE p == pend[k]
             h == seen[k]
             v == vd[k[1]]
  <2>1. p \in Pending /\ h \in Pending /\ Backed(p.t, h.t) /\ Backed(p.f, h.f)
    BY DEF WatchInv, Inv, TypeOK, SeenInv
  <2>2. /\ Backed(Judge(p, v).t, Evidence(h, v).t)
        /\ Backed(Judge(p, v).f, Evidence(h, v).f)
        /\ Evidence(h, v) \in Pending
    BY ONLY <2>1, JudgeBacked
  <2> QED BY <1>1, <2>1, <2>2
<1>3. seen' = [k \in Key |-> seen'[k]]
  BY DEF WatchedMetric
<1> QED BY <1>2, <1>3 DEF SeenInv

LEMMA WatchedStepInv ==
  ASSUME WatchInv, WatchedStep \/ UNCHANGED allVars
  PROVE  SeenInv'
<1>1. UNCHANGED seen
  BY DEF WatchedStep, allVars
<1>2. CASE UNCHANGED pend
  BY <1>1, <1>2 DEF WatchInv, SeenInv
<1>3. CASE Restart
  BY <1>1, <1>3 DEF WatchInv, SeenInv, Restart, Forgotten, Backed
<1>4. UNCHANGED pend \/ Restart
  BY DEF WatchedStep, allVars, vars, EditRule, CreateRule, UpdateRule, DeleteRule,
         AckAlarm, ClearAlarm, PruneAlarm, RefreshRules, Handle, CountOpen,
         InsertAlarm, AutoClear
<1> QED BY <1>2, <1>3, <1>4

LEMMA WatchStep ==
  ASSUME ~AllMetrics, WatchInv, [WatchedNext]_allVars
  PROVE  WatchInv'
<1>1. Inv'
  BY WatchedIsNext, StepInv DEF WatchInv
<1>2. SeenInv'
  BY WatchedTickInv, WatchedMetricInv, WatchedStepInv DEF WatchedNext
<1> QED BY <1>1, <1>2 DEF WatchInv

-----------------------------------------------------------------------------
(* Alarms open and resolve on windows the history confirms. *)

\* Which action can open an alarm, and which can auto-clear one.
LEMMA WhoWrites ==
  ASSUME Inv, [WatchedNext]_allVars, NEW id \in AlarmId
  PROVE  /\ Opens(id) => \E kd \in Kind :
              InsertAlarm(kd) /\ alarm'[id].key = <<sub[kd].insert, sub[kd].target>>
         /\ AutoClears(id) => \E kd \in Kind, r \in Rule :
              AutoClear(kd, r) /\ alarm[id].key = <<r, sub[kd].target>>
<1>1. alarm \in [AlarmId -> Alarm \cup {None}]
  BY DEF Inv, TypeOK
<1>2. CASE UNCHANGED alarm
  BY <1>1, <1>2, NoneAssumption DEF Opens, AutoClears, IsOpen
<1>3. ASSUME NEW o \in AlarmId, AckAlarm(o) \/ ClearAlarm(o) \/ PruneAlarm(o)
      PROVE  ~Opens(id) /\ ~AutoClears(id)
  <2>1. CASE AckAlarm(o)
    BY <1>1, <2>1, NoneAssumption DEF Opens, AutoClears, IsOpen, AckAlarm, Alarm
  <2>2. CASE ClearAlarm(o)
    BY <1>1, <2>2, NoneAssumption DEF Opens, AutoClears, IsOpen, ClearAlarm, Alarm
  <2>3. CASE PruneAlarm(o)
    BY <1>1, <2>3, NoneAssumption DEF Opens, AutoClears, IsOpen, PruneAlarm, Alarm
  <2> QED BY <1>3, <2>1, <2>2, <2>3
<1>4. ASSUME NEW kd \in Kind, InsertAlarm(kd)
      PROVE  /\ ~AutoClears(id)
             /\ Opens(id) => alarm'[id].key = <<sub[kd].insert, sub[kd].target>>
  <2> DEFINE new == [key |-> <<sub[kd].insert, sub[kd].target>>, state |-> "open"]
  <2>1. CASE UNCHANGED alarm
    BY <1>1, <2>1, NoneAssumption DEF Opens, AutoClears, IsOpen
  <2>2. ASSUME NEW o \in AlarmId, alarm[o] = None, alarm' = [alarm EXCEPT ![o] = new]
        PROVE  /\ ~AutoClears(id)
               /\ Opens(id) => alarm'[id] = new
    <3>1. alarm'[id] = IF id = o THEN new ELSE alarm[id]
      BY <1>1, <2>2
    <3> QED BY <1>1, <2>2, <3>1 DEF Opens, AutoClears, IsOpen, Alarm
  <2>3. \/ UNCHANGED alarm
        \/ \E o \in AlarmId : alarm[o] = None /\ alarm' = [alarm EXCEPT ![o] = new]
    BY <1>4 DEF InsertAlarm
  <2>4. new.key = <<sub[kd].insert, sub[kd].target>>
    OBVIOUS
  <2> HIDE DEF new
  <2>5. CASE \E o \in AlarmId : alarm[o] = None /\ alarm' = [alarm EXCEPT ![o] = new]
    BY <2>2, <2>4, <2>5
  <2>6. CASE UNCHANGED alarm
    BY <1>1, <2>6, NoneAssumption DEF Opens, AutoClears, IsOpen
  <2> QED BY <2>3, <2>5, <2>6
<1>5. ASSUME NEW kd \in Kind, NEW r \in Rule, AutoClear(kd, r)
      PROVE  /\ ~Opens(id)
             /\ AutoClears(id) => alarm[id].key = <<r, sub[kd].target>>
  <2> DEFINE hit == OpenOf(<<r, sub[kd].target>>)
  <2>1. id \notin hit => alarm'[id] = alarm[id]
    BY <1>5 DEF AutoClear
  <2>2. id \in hit => IsOpen(id) /\ alarm[id].key = <<r, sub[kd].target>>
    BY DEF OpenOf
  <2>3. CASE id \in hit
    BY <2>2, <2>3 DEF Opens, IsOpen
  <2>4. CASE id \notin hit
    BY <2>1, <2>4 DEF Opens, AutoClears, IsOpen
  <2> QED BY <2>3, <2>4
<1>6. \/ UNCHANGED alarm
      \/ \E o \in AlarmId : AckAlarm(o) \/ ClearAlarm(o) \/ PruneAlarm(o)
      \/ \E kd \in Kind : InsertAlarm(kd)
      \/ \E kd \in Kind, r \in Rule : AutoClear(kd, r)
  BY DEF WatchedNext, WatchedMetric, WatchedTick, WatchedStep, Metric, Tick,
         RefreshRules, Restart, EditRule, CreateRule, UpdateRule, DeleteRule,
         Handle, CountOpen, allVars, vars
<1>7. UNCHANGED alarm => ~Opens(id) /\ ~AutoClears(id)
  BY <1>1, NoneAssumption DEF Opens, AutoClears, IsOpen
<1> QED BY <1>3, <1>4, <1>5, <1>6, <1>7

\* A due window is one the history confirms, with the callback's own copy of the
\* rules.
LEMMA DueIsSeen ==
  ASSUME WatchInv, NEW kd \in Kind, Busy(kd), NEW r \in Rule,
         NEW key, key = <<r, sub[kd].target>>
  PROVE  /\ OpenDue(kd, r) => seen[key].t # None /\ seen[key].t >= WindowOf(key).for
         /\ ClearDue(kd, r) => seen[key].f # None /\ seen[key].f >= WindowOf(key).clear
<1>1. key \in Key /\ KindOf[key[2]] = kd /\ key[1] = r /\ key[2] = sub[kd].target
  BY KeyOfWork DEF WatchInv
<1>2. WindowOf(key) = sub[kd].copy[r]
  BY <1>1 DEF WindowOf
<1>3. /\ pend[key].t \in Age /\ pend[key].f \in Age
      /\ seen[key].t \in Age /\ seen[key].f \in Age
      /\ Backed(pend[key].t, seen[key].t) /\ Backed(pend[key].f, seen[key].f)
  BY <1>1 DEF WatchInv, Inv, TypeOK, SeenInv, Pending
<1>4. sub[kd].copy[r] # None => sub[kd].copy[r].for \in Nat /\ sub[kd].copy[r].clear \in Nat
  <2>1. sub[kd].copy[r] \in Window \cup {None}
    BY DEF WatchInv, Inv, TypeOK, Work, Copy
  <2> QED BY <2>1, WindowNat
<1>5. OpenDue(kd, r) => seen[key].t # None /\ seen[key].t >= WindowOf(key).for
  BY <1>2, <1>3, <1>4, AgeNat DEF OpenDue, Backed
<1>6. ClearDue(kd, r) => seen[key].f # None /\ seen[key].f >= WindowOf(key).clear
  BY <1>2, <1>3, <1>4, AgeNat DEF ClearDue, Backed
<1> QED BY <1>5, <1>6

\* The hysteresis of evaluate, over the verdicts themselves: an alarm opens only
\* after every verdict of the last for_seconds was truthy and is auto-cleared
\* only after every one of the last clear_for_seconds was falsy, whatever edits,
\* refreshes, operators and restarts come between the verdict and the write.
THEOREM WindowsAreRespected ==
  ASSUME ~AllMetrics
  PROVE  WatchedSpec => WindowRespected
<1> DEFINE Step ==
      \A id \in AlarmId :
        /\ Opens(id) => LET k == alarm'[id].key IN
             seen[k].t # None /\ seen[k].t >= WindowOf(k).for
        /\ AutoClears(id) => LET k == alarm[id].key IN
             seen[k].f # None /\ seen[k].f >= WindowOf(k).clear
<1>1. Init /\ seen = [k \in Key |-> NoEvidence] => WatchInv
  <2> SUFFICES ASSUME Init, seen = [k \in Key |-> NoEvidence] PROVE WatchInv
    OBVIOUS
  <2>1. Inv
    BY InitInv DEF UniqueInv
  <2>2. SeenInv
    BY DEF Init, SeenInv, NoEvidence, Forgotten, Backed, Pending, Age
  <2> QED BY <2>1, <2>2 DEF WatchInv
<1>2. WatchInv /\ [WatchedNext]_allVars => WatchInv'
  <2> SUFFICES ASSUME WatchInv, [WatchedNext]_allVars PROVE WatchInv'
    OBVIOUS
  <2> QED BY WatchStep
<1>3. WatchInv /\ [WatchedNext]_allVars => [Step]_allVars
  <2> SUFFICES ASSUME WatchInv, [WatchedNext]_allVars, NEW id \in AlarmId
               PROVE  /\ Opens(id) => LET k == alarm'[id].key IN
                           seen[k].t # None /\ seen[k].t >= WindowOf(k).for
                      /\ AutoClears(id) => LET k == alarm[id].key IN
                           seen[k].f # None /\ seen[k].f >= WindowOf(k).clear
    OBVIOUS
  <2>1. ASSUME Opens(id)
        PROVE  LET k == alarm'[id].key IN
                 seen[k].t # None /\ seen[k].t >= WindowOf(k).for
    <3>1. PICK kd \in Kind :
            InsertAlarm(kd) /\ alarm'[id].key = <<sub[kd].insert, sub[kd].target>>
      BY <2>1, WhoWrites DEF WatchInv
    <3>2. Busy(kd) /\ sub[kd].insert \in Rule /\ OpenDue(kd, sub[kd].insert)
      BY <3>1 DEF WatchInv, Inv, TypeOK, Work, WorkInv, WorkOf, InsertAlarm, Busy
    <3> QED BY <3>1, <3>2, DueIsSeen
  <2>2. ASSUME AutoClears(id)
        PROVE  LET k == alarm[id].key IN
                 seen[k].f # None /\ seen[k].f >= WindowOf(k).clear
    <3>1. PICK kd \in Kind, r \in Rule :
            AutoClear(kd, r) /\ alarm[id].key = <<r, sub[kd].target>>
      BY <2>2, WhoWrites DEF WatchInv
    <3>2. Busy(kd) /\ ClearDue(kd, r)
      BY <3>1 DEF WatchInv, Inv, WorkInv, WorkOf, AutoClear, Busy
    <3> QED BY <3>1, <3>2, DueIsSeen
  <2> QED BY <2>1, <2>2
<1> QED BY <1>1, <1>2, <1>3, PTL DEF WatchedSpec, WindowRespected
==============================================================================
