-------------------------- MODULE AlarmEngineProofs --------------------------
(***************************************************************************)
(* Proofs about AlarmEngine for any rules, targets, kinds and windows.     *)
(***************************************************************************)
EXTENDS AlarmEngine, FiniteSetTheorems, TLAPS

\* What the callback still has to do was due when it evaluated the metric, and
\* nothing that happens meanwhile can take that back: only this callback
\* writes the pending entries of its target, and they only grow older.
OpenDue(kd, r) ==
  LET w == sub[kd]
      p == pend[<<r, w.target>>]
  IN  w.copy[r] # None /\ p.t # None /\ p.t >= w.copy[r].for
ClearDue(kd, r) ==
  LET w == sub[kd]
      p == pend[<<r, w.target>>]
  IN  w.copy[r] # None /\ p.t = None /\ p.f # None /\ p.f >= w.copy[r].clear

Busy(kd) == sub[kd].opening # {} \/ sub[kd].clearing # {} \/ sub[kd].insert # None

WorkOf(kd) ==
  /\ Busy(kd) => sub[kd].target \in Target
  /\ sub[kd].target \in Target => KindOf[sub[kd].target] = kd
  /\ \A r \in sub[kd].opening : OpenDue(kd, r)
  /\ sub[kd].insert # None => OpenDue(kd, sub[kd].insert)
  /\ \A r \in sub[kd].clearing : ClearDue(kd, r)

WorkInv == \A kd \in Kind : WorkOf(kd)

\* The COUNT of zero still holds when the INSERT is sent.
InsertFree ==
  \A kd \in Kind :
    sub[kd].insert # None => OpenOf(<<sub[kd].insert, sub[kd].target>>) = {}

Single == \A k \in Key : \A i, j \in OpenOf(k) : i = j

Inv == TypeOK /\ WorkInv
UniqueInv == Inv /\ InsertFree /\ Single

-----------------------------------------------------------------------------
(* Operators. *)

\* A time stamp that is set stays set and its age does not shrink.
LEMMA OlderFacts ==
  ASSUME NEW age \in Age
  PROVE  /\ Older(age) \in Age
         /\ age = None => Older(age) = None
         /\ age # None => Older(age) # None /\ Older(age) >= age
BY WindowAssumption, NoneAssumption DEF Age, Older

\* A verdict keeps one of the two windows open at most, the one it speaks for.
LEMMA JudgeFacts ==
  ASSUME NEW p \in Pending, NEW v
  PROVE  /\ Judge(p, v) \in Pending
         /\ v = "falsy" => Judge(p, v).t = None
<1>1. \A age \in Age : Since(age) \in Age
  BY WindowAssumption, NoneAssumption DEF Age, Since
<1>2. p.t \in Age /\ p.f \in Age
  BY DEF Pending
<1>3. None \in Age
  BY DEF Age
<1>4. CASE v = "truthy"
  BY <1>1, <1>2, <1>3, <1>4 DEF Judge, Pending
<1>5. CASE v = "falsy"
  BY <1>1, <1>2, <1>3, <1>5 DEF Judge, Pending
<1>6. CASE v # "truthy" /\ v # "falsy"
  BY <1>6 DEF Judge
<1> QED BY <1>4, <1>5, <1>6

LEMMA WindowNat == \A w \in Window : w.for \in Nat /\ w.clear \in Nat
<1>1. ForSeconds \subseteq Nat /\ ClearSeconds \subseteq Nat
  BY WindowAssumption
<1> QED BY <1>1 DEF Window

LEMMA IdleType == Idle \in Work
BY DEF Idle, Work, NoCopy, Copy

\* Ending the callback drops nothing that was left to do.
LEMMA RestFacts ==
  ASSUME NEW w \in Work
  PROVE  /\ Rest(w) \in Work
         /\ Rest(w).opening = w.opening
         /\ Rest(w).clearing = w.clearing
         /\ Rest(w).insert = w.insert
         /\ Rest(w) = w \/ Rest(w) = Idle
         /\ w.opening # {} \/ w.clearing # {} \/ w.insert # None => Rest(w) = w
<1>1. CASE w.opening = {} /\ w.clearing = {} /\ w.insert = None
  BY <1>1, IdleType DEF Rest, Idle
<1>2. CASE ~(w.opening = {} /\ w.clearing = {} /\ w.insert = None)
  BY <1>2 DEF Rest
<1> QED BY <1>1, <1>2

LEMMA EnabledType ==
  ASSUME ruleRow \in [Rule -> RuleRow]
  PROVE  Enabled \in Copy /\ NoCopy \in Copy
BY DEF Enabled, NoCopy, Copy, RuleRow

-----------------------------------------------------------------------------
(* The invariant holds at the start and after each action. *)

LEMMA InitInv == Init => UniqueInv
<1> SUFFICES ASSUME Init PROVE UniqueInv
  OBVIOUS
<1>1. Enabled \in Copy /\ NoCopy \in Copy /\ ruleRow \in [Rule -> RuleRow]
  <2>1. ruleRow \in [Rule -> RuleRow]
    BY DEF Init, RuleRow
  <2> QED BY <2>1, EnabledType
<1>2. TypeOK
  BY <1>1, IdleType, LimitAssumption DEF Init, TypeOK, Pending, Forgotten, Age
<1>3. sub = [kd \in Kind |-> Idle] /\ None \notin Target
  BY NoneAssumption DEF Init
<1>4. WorkInv /\ InsertFree
  BY <1>3 DEF WorkInv, WorkOf, InsertFree, Idle, Busy
<1>5. Single
  BY DEF Init, Single, OpenOf, IsOpen
<1> QED BY <1>2, <1>4, <1>5 DEF UniqueInv, Inv

\* Actions that leave the callbacks and the pending windows alone.
LEMMA FrameInv ==
  ASSUME Inv, TypeOK', UNCHANGED <<pend, sub>>
  PROVE  Inv'
BY DEF Inv, WorkInv, WorkOf, Busy, OpenDue, ClearDue

LEMMA EditInv ==
  ASSUME Inv, NEW r \in Rule, EditRule(r)
  PROVE  Inv'
<1>1. CASE CreateRule(r)
  <2>1. PICK st \in {"enabled", "disabled"}, w \in Window :
          ruleRow' = [ruleRow EXCEPT ![r] = [state |-> st, win |-> w]]
    BY <1>1 DEF CreateRule
  <2>2. ruleRow' \in [Rule -> RuleRow]
    BY <2>1 DEF Inv, TypeOK, RuleRow
  <2> QED BY <1>1, <2>2, LimitAssumption, FrameInv DEF Inv, TypeOK, CreateRule
<1>2. CASE UpdateRule(r)
  <2>1. PICK st \in {"enabled", "disabled"}, w \in Window :
          ruleRow' = [ruleRow EXCEPT ![r] = [state |-> st, win |-> w]]
    BY <1>2 DEF UpdateRule
  <2>2. ruleRow' \in [Rule -> RuleRow]
    BY <2>1 DEF Inv, TypeOK, RuleRow
  <2> QED BY <1>2, <2>2, LimitAssumption, FrameInv DEF Inv, TypeOK, UpdateRule
<1>3. CASE DeleteRule(r)
  <2>1. ruleRow' \in [Rule -> RuleRow]
    BY <1>3 DEF Inv, TypeOK, RuleRow, DeleteRule
  <2> QED BY <1>3, <2>1, LimitAssumption, FrameInv DEF Inv, TypeOK, DeleteRule
<1> QED BY <1>1, <1>2, <1>3 DEF EditRule

LEMMA AlarmInv ==
  ASSUME Inv, NEW id \in AlarmId, AckAlarm(id) \/ ClearAlarm(id) \/ PruneAlarm(id)
  PROVE  Inv'
<1>1. alarm' \in [AlarmId -> Alarm \cup {None}]
  BY DEF Inv, TypeOK, AckAlarm, ClearAlarm, PruneAlarm, IsOpen, Alarm
<1>2. TypeOK'
  BY <1>1 DEF Inv, TypeOK, AckAlarm, ClearAlarm, PruneAlarm
<1> QED BY <1>2, FrameInv DEF AckAlarm, ClearAlarm, PruneAlarm

LEMMA RefreshInv ==
  ASSUME Inv, RefreshRules
  PROVE  Inv'
<1>1. TypeOK'
  BY EnabledType DEF Inv, TypeOK, RefreshRules
<1> QED BY <1>1, FrameInv DEF RefreshRules

LEMMA TickInv ==
  ASSUME Inv, Tick
  PROVE  Inv'
<1>1. \A k \in Key :
        /\ pend'[k] = [t |-> Older(pend[k].t), f |-> Older(pend[k].f)]
        /\ pend[k].t \in Age /\ pend[k].f \in Age
  BY DEF Inv, TypeOK, Tick, Pending
<1>2. ASSUME NEW k \in Key
      PROVE  /\ pend'[k] \in Pending
             /\ pend[k].t = None => pend'[k].t = None
             /\ pend[k].t # None => pend'[k].t # None /\ pend'[k].t >= pend[k].t
             /\ pend[k].f # None => pend'[k].f # None /\ pend'[k].f >= pend[k].f
  <2> DEFINE t == pend[k].t
             f == pend[k].f
  <2>1. t \in Age /\ f \in Age
    BY <1>1
  <2>2. /\ Older(t) \in Age
        /\ t = None => Older(t) = None
        /\ t # None => Older(t) # None /\ Older(t) >= t
    BY ONLY <2>1, OlderFacts
  <2>3. /\ Older(f) \in Age
        /\ f # None => Older(f) # None /\ Older(f) >= f
    BY ONLY <2>1, OlderFacts
  <2>4. pend'[k] = [t |-> Older(t), f |-> Older(f)]
    BY <1>1
  <2> QED BY <2>2, <2>3, <2>4 DEF Pending
<1>3. pend' \in [Key -> Pending]
  BY <1>2 DEF Tick
<1>4. TypeOK'
  BY <1>3 DEF Inv, TypeOK, Tick
<1>8. ASSUME NEW kd \in Kind, NEW r \in Rule, sub[kd].target \in Target
      PROVE  /\ OpenDue(kd, r) => OpenDue(kd, r)'
             /\ ClearDue(kd, r) => ClearDue(kd, r)'
  <2> DEFINE k == <<r, sub[kd].target>>
             c == sub[kd].copy[r]
  <2>1. k \in Key /\ sub' = sub
    BY <1>8 DEF Key, Tick
  <2>2. c \in Window \cup {None}
    BY DEF Inv, TypeOK, Work, Copy
  <2>3. c # None => c.for \in Nat /\ c.clear \in Nat
    BY <2>2, WindowNat
  <2>4. /\ pend[k].t \in Age /\ pend[k].f \in Age
        /\ pend'[k].t \in Age /\ pend'[k].f \in Age
    BY <1>1, <1>2, <2>1 DEF Pending
  <2>5. \A a \in Age : a # None => a \in Nat
    BY WindowAssumption DEF Age
  <2>6. OpenDue(kd, r) => OpenDue(kd, r)'
    BY <1>2, <2>1, <2>3, <2>4, <2>5 DEF OpenDue
  <2>7. ClearDue(kd, r) => ClearDue(kd, r)'
    BY <1>2, <2>1, <2>3, <2>4, <2>5 DEF ClearDue
  <2> QED BY <2>6, <2>7
<1>9. \A kd \in Kind : /\ sub[kd].opening \subseteq Rule
                        /\ sub[kd].clearing \subseteq Rule
                        /\ sub[kd].insert \in Rule \cup {None}
  BY DEF Inv, TypeOK, Work
<1>10. WorkInv'
  BY <1>8, <1>9 DEF Inv, WorkInv, WorkOf, Busy, Tick
<1> QED BY <1>4, <1>10 DEF Inv

LEMMA RestartInv ==
  ASSUME Inv, Restart
  PROVE  Inv'
<1>1. TypeOK'
  BY EnabledType, IdleType, LimitAssumption
     DEF Inv, TypeOK, Restart, Pending, Forgotten, Age
<1>2. WorkInv'
  BY NoneAssumption DEF WorkInv, WorkOf, Restart, Idle, Busy
<1> QED BY <1>1, <1>2 DEF Inv

\* A callback that begins with w has work that is due.
LEMMA BeginWork ==
  ASSUME NEW kd \in Kind, NEW w \in Work, sub'[kd] = Rest(w),
         w.target \in Target, KindOf[w.target] = kd, w.insert = None,
         \A r \in w.opening :
           LET p == pend'[<<r, w.target>>]
           IN  w.copy[r] # None /\ p.t # None /\ p.t >= w.copy[r].for,
         \A r \in w.clearing :
           LET p == pend'[<<r, w.target>>]
           IN  w.copy[r] # None /\ p.t = None /\ p.f # None /\ p.f >= w.copy[r].clear
  PROVE  WorkOf(kd)'
<1>1. CASE Rest(w) = Idle
  BY <1>1, NoneAssumption DEF WorkOf, Busy, Idle
<1>2. CASE Rest(w) = w
  BY <1>2 DEF WorkOf, Busy, OpenDue, ClearDue
<1> QED BY <1>1, <1>2, RestFacts

LEMMA MetricInv ==
  ASSUME Inv, NEW t \in Target, NEW vd \in [Rule -> Verdict], Metric(t, vd)
  PROVE  Inv'
<1> DEFINE scope == {r \in Rule : rules[r] # None /\ <<r, t>> \in Applies}
           judged == [k \in Key |-> IF k[2] = t /\ k[1] \in scope
                                    THEN Judge(pend[k], vd[k[1]]) ELSE pend[k]]
           opening == {r \in scope : /\ vd[r] = "truthy"
                                     /\ RipeToOpen(rules[r], judged[<<r, t>>])}
           clearing == {r \in scope : /\ vd[r] = "falsy"
                                      /\ RipeToClear(rules[r], judged[<<r, t>>])}
           w == [target |-> t, copy |-> rules, insert |-> None,
                 opening |-> opening, clearing |-> clearing]
           kind == KindOf[t]
<1>1. judged \in [Key -> Pending] /\ pend' = judged
  <2>1. \A k \in Key : pend[k] \in Pending
    BY DEF Inv, TypeOK
  <2>2. \A k \in Key : judged[k] \in Pending
    BY <2>1, JudgeFacts
  <2> QED BY <2>2 DEF Metric
<1>2. /\ kind \in Kind
      /\ sub' = [sub EXCEPT ![kind] = Rest(w)]
      /\ UNCHANGED <<ruleRow, alarm, up, rules, edits, restarts>>
  BY KindAssumption DEF Metric
<1>3. w \in Work
  BY DEF Inv, TypeOK, Work
<1>4. Rest(w) \in Work
  BY <1>3, RestFacts
<1>5. TypeOK'
  <2>1. sub' \in [Kind -> Work]
    BY <1>2, <1>4 DEF Inv, TypeOK
  <2> QED BY <1>1, <1>2, <2>1 DEF Inv, TypeOK
<1>6. ASSUME NEW kd \in Kind, kd # kind
      PROVE  /\ sub'[kd] = sub[kd]
             /\ sub[kd].target \in Target =>
                  \A r \in Rule : pend'[<<r, sub[kd].target>>] = pend[<<r, sub[kd].target>>]
  <2>1. sub'[kd] = sub[kd]
    BY <1>2, <1>6 DEF Inv, TypeOK
  <2>2. sub[kd].target \in Target => sub[kd].target # t
    BY <1>6 DEF Inv, WorkInv, WorkOf
  <2> QED BY <1>1, <2>1, <2>2 DEF Key
<1>7. ASSUME NEW kd \in Kind, kd # kind
      PROVE  WorkOf(kd)'
  <2>1. WorkOf(kd)
    BY DEF Inv, WorkInv
  <2>2. \A r \in sub[kd].opening \cup sub[kd].clearing : r \in Rule
    BY DEF Inv, TypeOK, Work
  <2>3. sub[kd].insert # None => sub[kd].insert \in Rule
    BY DEF Inv, TypeOK, Work
  <2> QED BY <1>6, <1>7, <2>1, <2>2, <2>3 DEF WorkOf, Busy, OpenDue, ClearDue
<1>8. WorkOf(kind)'
  <2>1. sub'[kind] = Rest(w)
    BY <1>2 DEF Inv, TypeOK
  <2>2. \A r \in opening : /\ rules[r] # None
                           /\ judged[<<r, t>>].t # None
                           /\ judged[<<r, t>>].t >= rules[r].for
    BY DEF RipeToOpen
  <2>3. ASSUME NEW r \in clearing
        PROVE  /\ rules[r] # None
               /\ judged[<<r, t>>].t = None
               /\ judged[<<r, t>>].f # None
               /\ judged[<<r, t>>].f >= rules[r].clear
    <3>1. <<r, t>> \in Key /\ pend[<<r, t>>] \in Pending
      BY DEF Inv, TypeOK, Key
    <3>2. judged[<<r, t>>] = Judge(pend[<<r, t>>], vd[r]) /\ vd[r] = "falsy"
      BY <3>1
    <3>3. judged[<<r, t>>].t = None
      BY <3>1, <3>2, JudgeFacts
    <3> QED BY <3>3 DEF RipeToClear
  <2>4. /\ w.target = t /\ w.copy = rules /\ w.insert = None
        /\ w.opening = opening /\ w.clearing = clearing
    OBVIOUS
  <2> HIDE DEF w, opening, clearing, judged
  <2> QED BY <1>1, <1>2, <1>3, <2>1, <2>2, <2>3, <2>4, BeginWork
<1> QED BY <1>5, <1>7, <1>8 DEF Inv, WorkInv

\* A callback that goes on with its work, or comes to its end.
LEMMA HandleInv ==
  ASSUME Inv, TypeOK', UNCHANGED pend,
         NEW kd \in Kind, Busy(kd),
         NEW w \in Work, sub' = [sub EXCEPT ![kd] = Rest(w)],
         w.target = sub[kd].target, w.copy = sub[kd].copy,
         w.opening \subseteq sub[kd].opening,
         w.clearing \subseteq sub[kd].clearing,
         w.insert = None \/ w.insert \in sub[kd].opening
  PROVE  Inv'
<1>1. WorkOf(kd) /\ sub[kd].target \in Target /\ KindOf[sub[kd].target] = kd
  BY DEF Inv, WorkInv, WorkOf
<1>2. sub'[kd] = Rest(w) /\ \A o \in Kind : o # kd => sub'[o] = sub[o]
  BY DEF Inv, TypeOK
<1>3. ASSUME NEW o \in Kind, o # kd PROVE WorkOf(o)'
  BY <1>2, <1>3 DEF Inv, WorkInv, WorkOf, Busy, OpenDue, ClearDue
<1>4. WorkOf(kd)'
  <2>1. CASE Rest(w) = Idle
    BY <1>2, <2>1, NoneAssumption DEF WorkOf, Busy, Idle
  <2>2. CASE Rest(w) = w
    BY <1>1, <1>2, <2>2 DEF WorkOf, Busy, OpenDue, ClearDue
  <2> QED BY <2>1, <2>2, RestFacts
<1> QED BY <1>3, <1>4 DEF Inv, WorkInv

LEMMA CountInv ==
  ASSUME Inv, NEW kd \in Kind, NEW r \in Rule, CountOpen(kd, r)
  PROVE  Inv'
<1> DEFINE w == sub[kd]
           left == [w EXCEPT !.opening = @ \ {r}]
           next == [w EXCEPT !.opening = @ \ {r}, !.insert = r]
<1>1. w \in Work /\ r \in w.opening /\ w.insert = None
  BY DEF Inv, TypeOK, CountOpen
<1>2. left \in Work /\ next \in Work
  BY <1>1 DEF Work
<1>3. Rest(next) = next
  BY <1>1, NoneAssumption DEF Rest, Work
<1>4. /\ sub' = [sub EXCEPT ![kd] = Rest(left)] \/ sub' = [sub EXCEPT ![kd] = Rest(next)]
      /\ UNCHANGED <<ruleRow, alarm, up, rules, pend, edits, restarts>>
  BY <1>3 DEF CountOpen
<1>5. TypeOK'
  <2>1. sub' \in [Kind -> Work]
    BY <1>2, <1>4, RestFacts DEF Inv, TypeOK
  <2> QED BY <1>4, <2>1 DEF Inv, TypeOK
<1>6. Busy(kd) /\ UNCHANGED pend
  BY <1>1, <1>4 DEF Busy
<1>7. CASE sub' = [sub EXCEPT ![kd] = Rest(left)]
  <2>1. /\ left.target = w.target /\ left.copy = w.copy /\ left.insert = None
        /\ left.opening \subseteq w.opening /\ left.clearing \subseteq w.clearing
    BY <1>1 DEF Work
  <2> QED BY <1>2, <1>5, <1>6, <1>7, <2>1, HandleInv
<1>8. CASE sub' = [sub EXCEPT ![kd] = Rest(next)]
  <2>1. /\ next.target = w.target /\ next.copy = w.copy /\ next.insert \in w.opening
        /\ next.opening \subseteq w.opening /\ next.clearing \subseteq w.clearing
    BY <1>1 DEF Work
  <2> QED BY <1>2, <1>5, <1>6, <1>8, <2>1, HandleInv
<1> QED BY <1>4, <1>7, <1>8

LEMMA InsertInv ==
  ASSUME Inv, NEW kd \in Kind, InsertAlarm(kd)
  PROVE  Inv'
<1> DEFINE w == sub[kd]
           next == [w EXCEPT !.insert = None]
<1>1. w \in Work /\ w.insert # None /\ Busy(kd)
  BY DEF Inv, TypeOK, InsertAlarm, Busy
<1>2. w.insert \in Rule /\ w.target \in Target
  BY <1>1 DEF Inv, WorkInv, WorkOf, Work
<1>3. next \in Work
  BY <1>1 DEF Work
<1>4. /\ sub' = [sub EXCEPT ![kd] = Rest(next)]
      /\ UNCHANGED <<ruleRow, up, rules, pend, edits, restarts>>
  BY DEF InsertAlarm
<1>5. alarm' \in [AlarmId -> Alarm \cup {None}]
  <2>1. [key |-> <<w.insert, w.target>>, state |-> "open"] \in Alarm
    BY <1>2 DEF Alarm, Key
  <2> QED BY <2>1 DEF Inv, TypeOK, InsertAlarm
<1>6. TypeOK'
  <2>1. sub' \in [Kind -> Work]
    BY <1>3, <1>4, RestFacts DEF Inv, TypeOK
  <2> QED BY <1>4, <1>5, <2>1 DEF Inv, TypeOK
<1>7. /\ next.target = w.target /\ next.copy = w.copy /\ next.insert = None
      /\ next.opening \subseteq w.opening /\ next.clearing \subseteq w.clearing
  BY <1>1 DEF Work
<1> QED BY <1>1, <1>3, <1>4, <1>6, <1>7, HandleInv

LEMMA AutoClearInv ==
  ASSUME Inv, NEW kd \in Kind, NEW r \in Rule, AutoClear(kd, r)
  PROVE  Inv'
<1> DEFINE w == sub[kd]
           next == [w EXCEPT !.clearing = @ \ {r}]
<1>1. w \in Work /\ w.insert = None /\ Busy(kd)
  BY DEF Inv, TypeOK, AutoClear, Busy
<1>2. next \in Work
  BY <1>1 DEF Work
<1>3. /\ sub' = [sub EXCEPT ![kd] = Rest(next)]
      /\ UNCHANGED <<ruleRow, up, rules, pend, edits, restarts>>
  BY DEF AutoClear
<1>4. alarm' \in [AlarmId -> Alarm \cup {None}]
  <2>1. \A id \in OpenOf(<<r, w.target>>) :
          alarm[id] \in Alarm /\ [alarm[id] EXCEPT !.state = "auto"] \in Alarm
    BY DEF Inv, TypeOK, OpenOf, IsOpen, Alarm
  <2> QED BY <2>1 DEF Inv, TypeOK, AutoClear
<1>5. TypeOK'
  <2>1. sub' \in [Kind -> Work]
    BY <1>2, <1>3, RestFacts DEF Inv, TypeOK
  <2> QED BY <1>3, <1>4, <2>1 DEF Inv, TypeOK
<1>6. /\ next.target = w.target /\ next.copy = w.copy /\ next.insert = None
      /\ next.opening \subseteq w.opening /\ next.clearing \subseteq w.clearing
  BY <1>1 DEF Work
<1> QED BY <1>1, <1>2, <1>3, <1>5, <1>6, HandleInv

LEMMA StepInv == Inv /\ [Next]_vars => Inv'
<1> SUFFICES ASSUME Inv, [Next]_vars PROVE Inv'
  OBVIOUS
<1>1. ASSUME NEW r \in Rule, EditRule(r) PROVE Inv'
  BY <1>1, EditInv
<1>2. ASSUME NEW id \in AlarmId, AckAlarm(id) \/ ClearAlarm(id) \/ PruneAlarm(id)
      PROVE  Inv'
  BY <1>2, AlarmInv
<1>3. CASE RefreshRules
  BY <1>3, RefreshInv
<1>4. CASE Tick
  BY <1>4, TickInv
<1>5. ASSUME NEW t \in Target, SomeMetric(t) PROVE Inv'
  BY <1>5, MetricInv DEF SomeMetric
<1>6. ASSUME NEW kd \in Kind, Handle(kd) PROVE Inv'
  BY <1>6, CountInv, AutoClearInv, InsertInv DEF Handle
<1>7. CASE Restart
  BY <1>7, RestartInv
<1>8. CASE UNCHANGED vars
  <2>1. TypeOK'
    BY <1>8 DEF Inv, TypeOK, vars
  <2> QED BY <1>8, <2>1, FrameInv DEF vars
<1> QED BY <1>1, <1>2, <1>3, <1>4, <1>5, <1>6, <1>7, <1>8 DEF Next

LEMMA Invariance == Spec => []Inv
<1>1. Init => Inv
  BY InitInv DEF UniqueInv
<1> QED BY <1>1, StepInv, PTL DEF Spec

\* The variables of the engine keep their types, and what a callback has in hand
\* stays a rule and a target it was given.
THEOREM TypeCorrect == Spec => []TypeOK
<1>1. Inv => TypeOK
  BY DEF Inv
<1> QED BY <1>1, Invariance, PTL

-----------------------------------------------------------------------------
(* How the actions change the open alarms of a key. *)

LEMMA OperatorOpen ==
  ASSUME NEW id \in AlarmId, AckAlarm(id) \/ ClearAlarm(id) \/ PruneAlarm(id), TypeOK
  PROVE  /\ \A k \in Key : OpenOf(k)' = OpenOf(k) \/ OpenOf(k)' = OpenOf(k) \ {id}
         /\ \A k \in Key : alarm[id] # None /\ alarm[id].key # k
                             => OpenOf(k)' = OpenOf(k)
         /\ alarm[id] \in Alarm
<1>1. alarm[id] \in Alarm /\ alarm \in [AlarmId -> Alarm \cup {None}]
  BY DEF TypeOK, AckAlarm, ClearAlarm, PruneAlarm, IsOpen
<1>2. CASE AckAlarm(id)
  BY <1>1, <1>2, NoneAssumption DEF AckAlarm, OpenOf, IsOpen, Alarm
<1>3. CASE ClearAlarm(id)
  BY <1>1, <1>3, NoneAssumption DEF ClearAlarm, OpenOf, IsOpen, Alarm
<1>4. CASE PruneAlarm(id)
  BY <1>1, <1>4, NoneAssumption DEF PruneAlarm, OpenOf, IsOpen, Alarm
<1> QED BY <1>1, <1>2, <1>3, <1>4

LEMMA InsertOpen ==
  ASSUME Inv, NEW kd \in Kind, InsertAlarm(kd),
         NEW key \in Key, key = <<sub[kd].insert, sub[kd].target>>
  PROVE  /\ \A k \in Key : k # key => OpenOf(k)' = OpenOf(k)
         /\ \/ OpenOf(key)' = OpenOf(key)
            \/ \E id \in AlarmId : OpenOf(key)' = OpenOf(key) \cup {id}
<1> DEFINE new == [key |-> key, state |-> "open"]
<1>1. alarm \in [AlarmId -> Alarm \cup {None}] /\ new \in Alarm /\ new # None
  BY NoneAssumption DEF Inv, TypeOK, Alarm
<1>2. CASE UNCHANGED alarm
  BY <1>2 DEF OpenOf, IsOpen
<1>3. ASSUME NEW id \in AlarmId, alarm[id] = None, alarm' = [alarm EXCEPT ![id] = new]
      PROVE  /\ \A k \in Key : k # key => OpenOf(k)' = OpenOf(k)
             /\ OpenOf(key)' = OpenOf(key) \cup {id}
  <2>1. \A i \in AlarmId : alarm'[i] = IF i = id THEN new ELSE alarm[i]
    BY <1>1, <1>3
  <2>2. new.key = key /\ new.state = "open"
    OBVIOUS
  <2> HIDE DEF new
  <2> QED BY <1>1, <1>3, <2>1, <2>2 DEF OpenOf, IsOpen
<1>4. \/ UNCHANGED alarm
      \/ \E id \in AlarmId : alarm[id] = None /\ alarm' = [alarm EXCEPT ![id] = new]
  BY DEF InsertAlarm
<1> QED BY <1>2, <1>3, <1>4

LEMMA AutoClearOpen ==
  ASSUME Inv, NEW kd \in Kind, NEW r \in Rule, AutoClear(kd, r),
         NEW key \in Key, key = <<r, sub[kd].target>>
  PROVE  /\ \A k \in Key : k # key => OpenOf(k)' = OpenOf(k)
         /\ OpenOf(key)' = {}
<1>1. \A id \in OpenOf(key) : alarm[id] \in Alarm
  BY DEF Inv, TypeOK, OpenOf, IsOpen
<1>2. \A id \in AlarmId : alarm'[id] = IF id \in OpenOf(key)
                                      THEN [alarm[id] EXCEPT !.state = "auto"]
                                      ELSE alarm[id]
  BY DEF AutoClear
<1>3. \A id \in OpenOf(key) : alarm'[id].state = "auto" /\ alarm'[id].key = alarm[id].key
  BY <1>1, <1>2 DEF Alarm, OpenOf
<1>4. \A id \in AlarmId : id \notin OpenOf(key) => alarm'[id] = alarm[id]
  BY <1>2
<1>5. OpenOf(key)' = {}
  BY <1>3, <1>4 DEF OpenOf, IsOpen
<1>6. \A k \in Key : k # key => OpenOf(k)' = OpenOf(k)
  BY <1>3, <1>4 DEF OpenOf, IsOpen
<1> QED BY <1>5, <1>6

\* The key a callback opens or clears is one of its own target.
LEMMA KeyOfWork ==
  ASSUME Inv, NEW kd \in Kind, Busy(kd)
  PROVE  /\ sub[kd].target \in Target /\ KindOf[sub[kd].target] = kd
         /\ \A r \in Rule : <<r, sub[kd].target>> \in Key
         /\ sub[kd] \in Work
BY DEF Inv, TypeOK, WorkInv, WorkOf, Key

LEMMA SameOpen ==
  ASSUME UNCHANGED alarm
  PROVE  \A k \in Key : OpenOf(k)' = OpenOf(k)
BY DEF OpenOf, IsOpen

-----------------------------------------------------------------------------
(* One open alarm per key. *)

\* Actions that write no alarm and give no callback a row to insert.
LEMMA QuietUnique ==
  ASSUME UniqueInv, UNCHANGED alarm,
         \A kd \in Kind : sub'[kd] = sub[kd] \/ sub'[kd].insert = None
  PROVE  (InsertFree /\ Single)'
<1>1. ASSUME NEW kd \in Kind, sub'[kd].insert # None
      PROVE  OpenOf(<<sub[kd].insert, sub[kd].target>>)' = {}
  <2>1. sub'[kd] = sub[kd] /\ OpenOf(<<sub[kd].insert, sub[kd].target>>) = {}
    BY <1>1 DEF UniqueInv, InsertFree
  <2> QED BY <2>1 DEF OpenOf, IsOpen
<1>2. InsertFree'
  BY <1>1 DEF InsertFree
<1>3. Single'
  BY SameOpen DEF UniqueInv, Single
<1> QED BY <1>2, <1>3

LEMMA OperatorUnique ==
  ASSUME UniqueInv, NEW id \in AlarmId,
         AckAlarm(id) \/ ClearAlarm(id) \/ PruneAlarm(id)
  PROVE  (InsertFree /\ Single)'
<1>1. \A k \in Key : OpenOf(k)' \subseteq OpenOf(k)
  BY OperatorOpen DEF UniqueInv, Inv
<1>2. UNCHANGED sub
  BY DEF AckAlarm, ClearAlarm, PruneAlarm
<1>3. \A kd \in Kind : sub[kd].insert # None => <<sub[kd].insert, sub[kd].target>> \in Key
  BY KeyOfWork DEF UniqueInv, Busy, Work
<1>4. InsertFree'
  BY <1>1, <1>2, <1>3 DEF UniqueInv, InsertFree
<1>5. Single'
  BY <1>1 DEF UniqueInv, Single
<1> QED BY <1>4, <1>5

LEMMA CountUnique ==
  ASSUME ~CountMayFail, UniqueInv, NEW kd \in Kind, NEW r \in Rule, CountOpen(kd, r)
  PROVE  (InsertFree /\ Single)'
<1> DEFINE w == sub[kd]
           left == [w EXCEPT !.opening = @ \ {r}]
           next == [w EXCEPT !.opening = @ \ {r}, !.insert = r]
<1>1. w \in Work /\ w.insert = None /\ sub \in [Kind -> Work]
  BY DEF UniqueInv, Inv, TypeOK, CountOpen
<1>2. UNCHANGED alarm
  BY DEF CountOpen
<1>3. CASE sub' = [sub EXCEPT ![kd] = Rest(left)]
  <2>1. left \in Work /\ left.insert = None
    BY <1>1 DEF Work
  <2>2. Rest(left).insert = None
    BY <2>1, RestFacts
  <2>3. \A o \in Kind : sub'[o] = sub[o] \/ sub'[o].insert = None
    BY <1>1, <1>3, <2>2
  <2> QED BY <1>2, <2>3, QuietUnique
<1>4. CASE sub' = [sub EXCEPT ![kd] = next] /\ OpenOf(<<r, w.target>>) = {}
  <2>1. sub'[kd].insert = r /\ sub'[kd].target = w.target
    BY <1>1, <1>4 DEF Work
  <2>2. \A o \in Kind : o # kd => sub'[o] = sub[o]
    BY <1>1, <1>4
  <2>3. \A o \in Kind : sub'[o].insert # None =>
          OpenOf(<<sub'[o].insert, sub'[o].target>>) = {}
    BY <1>4, <2>1, <2>2 DEF UniqueInv, InsertFree
  <2>4. InsertFree'
    BY <1>2, <2>3 DEF InsertFree, OpenOf, IsOpen
  <2>5. Single'
    BY <1>2, SameOpen DEF UniqueInv, Single
  <2> QED BY <2>4, <2>5
<1>5. \/ sub' = [sub EXCEPT ![kd] = Rest(left)]
      \/ sub' = [sub EXCEPT ![kd] = next] /\ OpenOf(<<r, w.target>>) = {}
  BY DEF CountOpen
<1> QED BY <1>3, <1>4, <1>5

\* Two callbacks never work on the same key: each serves targets of its kind.
LEMMA OtherKey ==
  ASSUME UniqueInv, NEW kd \in Kind, Busy(kd), NEW r \in Rule,
         NEW key \in Key, key = <<r, sub[kd].target>>,
         NEW o \in Kind, o # kd, sub'[o] = sub[o], sub[o].insert # None,
         \A k \in Key : k # key => OpenOf(k)' = OpenOf(k)
  PROVE  OpenOf(<<sub[o].insert, sub[o].target>>)' = {}
<1>1. PICK k \in Key : k = <<sub[o].insert, sub[o].target>>
  BY KeyOfWork DEF UniqueInv, Busy, Work
<1>2. k # key
  BY <1>1, KeyOfWork DEF UniqueInv, Busy
<1>3. OpenOf(k) = {}
  BY <1>1 DEF UniqueInv, InsertFree
<1>4. OpenOf(k)' = {}
  BY <1>2, <1>3
<1> QED BY <1>1, <1>4

LEMMA InsertUnique ==
  ASSUME UniqueInv, NEW kd \in Kind, InsertAlarm(kd)
  PROVE  (InsertFree /\ Single)'
<1>1. Inv /\ Busy(kd) /\ sub \in [Kind -> Work] /\ sub[kd].insert # None
  BY DEF UniqueInv, Inv, TypeOK, InsertAlarm, Busy
<1>2. PICK key \in Key : key = <<sub[kd].insert, sub[kd].target>>
  BY <1>1, KeyOfWork DEF Work
<1>3. /\ \A k \in Key : k # key => OpenOf(k)' = OpenOf(k)
      /\ OpenOf(key)' = OpenOf(key) \/ \E id \in AlarmId : OpenOf(key)' = OpenOf(key) \cup {id}
  BY <1>1, <1>2, InsertOpen
<1>4. OpenOf(key) = {}
  BY <1>1, <1>2 DEF UniqueInv, InsertFree
<1>5. Single'
  <2>1. \A i, j \in OpenOf(key)' : i = j
    BY <1>3, <1>4
  <2>2. ASSUME NEW k \in Key PROVE \A i, j \in OpenOf(k)' : i = j
    BY <1>3, <2>1 DEF UniqueInv, Single
  <2> QED BY <2>2 DEF Single
<1>6. sub'[kd].insert = None /\ \A o \in Kind : o # kd => sub'[o] = sub[o]
  <2>1. [sub[kd] EXCEPT !.insert = None] \in Work
    BY <1>1 DEF Work
  <2>2. Rest([sub[kd] EXCEPT !.insert = None]).insert = None
    BY <1>1, <2>1, RestFacts DEF Work
  <2> QED BY <1>1, <2>2 DEF InsertAlarm
<1>7. InsertFree'
  <2>1. ASSUME NEW o \in Kind, sub'[o].insert # None
        PROVE  OpenOf(<<sub[o].insert, sub[o].target>>)' = {}
    BY <1>1, <1>2, <1>3, <1>6, <2>1, OtherKey, KeyOfWork DEF Work
  <2> QED BY <2>1 DEF InsertFree
<1> QED BY <1>5, <1>7

LEMMA AutoClearUnique ==
  ASSUME UniqueInv, NEW kd \in Kind, NEW r \in Rule, AutoClear(kd, r)
  PROVE  (InsertFree /\ Single)'
<1>1. Inv /\ Busy(kd) /\ sub \in [Kind -> Work] /\ sub[kd].insert = None
  BY DEF UniqueInv, Inv, TypeOK, AutoClear, Busy
<1>2. PICK key \in Key : key = <<r, sub[kd].target>>
  BY <1>1, KeyOfWork
<1>3. /\ \A k \in Key : k # key => OpenOf(k)' = OpenOf(k)
      /\ OpenOf(key)' = {}
  BY <1>1, <1>2, AutoClearOpen
<1>4. Single'
  BY <1>3 DEF UniqueInv, Single
<1>5. sub'[kd].insert = None /\ \A o \in Kind : o # kd => sub'[o] = sub[o]
  <2>1. [sub[kd] EXCEPT !.clearing = @ \ {r}] \in Work
    BY <1>1 DEF Work
  <2>2. Rest([sub[kd] EXCEPT !.clearing = @ \ {r}]).insert = None
    BY <1>1, <2>1, RestFacts DEF Work
  <2> QED BY <1>1, <2>2 DEF AutoClear
<1>6. InsertFree'
  <2>1. ASSUME NEW o \in Kind, sub'[o].insert # None
        PROVE  OpenOf(<<sub[o].insert, sub[o].target>>)' = {}
    BY <1>1, <1>2, <1>3, <1>5, <2>1, OtherKey
  <2> QED BY <2>1 DEF InsertFree
<1> QED BY <1>4, <1>6

LEMMA MetricUnique ==
  ASSUME UniqueInv, NEW t \in Target, NEW vd \in [Rule -> Verdict], Metric(t, vd)
  PROVE  (InsertFree /\ Single)'
<1> DEFINE scope == {r \in Rule : rules[r] # None /\ <<r, t>> \in Applies}
           judged == [k \in Key |-> IF k[2] = t /\ k[1] \in scope
                                    THEN Judge(pend[k], vd[k[1]]) ELSE pend[k]]
           w == [target   |-> t, copy |-> rules, insert |-> None,
                 opening  |-> {r \in scope : /\ vd[r] = "truthy"
                                             /\ RipeToOpen(rules[r], judged[<<r, t>>])},
                 clearing |-> {r \in scope : /\ vd[r] = "falsy"
                                             /\ RipeToClear(rules[r], judged[<<r, t>>])}]
<1>1. sub' = [sub EXCEPT ![KindOf[t]] = Rest(w)] /\ UNCHANGED alarm
  BY DEF Metric
<1>2. w \in Work /\ w.insert = None
  BY DEF UniqueInv, Inv, TypeOK, Work
<1>3. Rest(w).insert = None
  BY <1>2, RestFacts
<1>4. \A kd \in Kind : sub'[kd] = sub[kd] \/ sub'[kd].insert = None
  <2> HIDE DEF w
  <2> QED BY <1>1, <1>3 DEF UniqueInv, Inv, TypeOK
<1> QED BY <1>1, <1>4, QuietUnique

LEMMA UniqueStep ==
  ASSUME ~CountMayFail, UniqueInv, [Next]_vars
  PROVE  UniqueInv'
<1>1. Inv'
  BY StepInv DEF UniqueInv
<1>2. ASSUME NEW r \in Rule, EditRule(r) PROVE (InsertFree /\ Single)'
  BY <1>2, QuietUnique DEF EditRule, CreateRule, UpdateRule, DeleteRule
<1>3. ASSUME NEW id \in AlarmId, AckAlarm(id) \/ ClearAlarm(id) \/ PruneAlarm(id)
      PROVE  (InsertFree /\ Single)'
  BY <1>3, OperatorUnique
<1>4. ASSUME RefreshRules \/ Tick \/ UNCHANGED vars PROVE (InsertFree /\ Single)'
  BY <1>4, QuietUnique DEF RefreshRules, Tick, vars
<1>5. ASSUME NEW t \in Target, SomeMetric(t) PROVE (InsertFree /\ Single)'
  BY <1>5, MetricUnique DEF SomeMetric
<1>6. ASSUME NEW kd \in Kind, Handle(kd) PROVE (InsertFree /\ Single)'
  BY <1>6, CountUnique, AutoClearUnique, InsertUnique DEF Handle
<1>7. ASSUME Restart PROVE (InsertFree /\ Single)'
  <2>1. \A kd \in Kind : sub'[kd].insert = None
    BY <1>7 DEF Restart, Idle
  <2> QED BY <1>7, <2>1, QuietUnique DEF Restart
<1>8. (InsertFree /\ Single)'
  BY <1>2, <1>3, <1>4, <1>5, <1>6, <1>7 DEF Next
<1> QED BY <1>1, <1>8 DEF UniqueInv

\* maybeOpen's COUNT and INSERT are two statements and no index backs them, but
\* no step in between can open an alarm of the same key, so a rule never has two
\* open alarms on a target, as long as the COUNT itself does not fail.
THEOREM OneOpenAlarmPerKey ==
  ASSUME ~CountMayFail
  PROVE  Spec => []OneOpenPerKey
<1>1. UniqueInv /\ [Next]_vars => UniqueInv'
  <2> SUFFICES ASSUME UniqueInv, [Next]_vars PROVE UniqueInv'
    OBVIOUS
  <2> QED BY UniqueStep
<1>2. UniqueInv => OneOpenPerKey
  <2> SUFFICES ASSUME UniqueInv, NEW k \in Key PROVE Cardinality(OpenOf(k)) <= 1
    BY DEF OneOpenPerKey
  <2>1. CASE OpenOf(k) = {}
    BY <2>1, FS_EmptySet
  <2>2. ASSUME NEW i \in OpenOf(k) PROVE Cardinality(OpenOf(k)) <= 1
    <3>1. OpenOf(k) = {i}
      BY DEF UniqueInv, Single
    <3>2. Cardinality({i}) = 1
      BY FS_Singleton
    <3> QED BY <3>1, <3>2
  <2> QED BY <2>1, <2>2
<1> QED BY <1>1, <1>2, InitInv, PTL DEF Spec

-----------------------------------------------------------------------------
(* The engine implements AlarmLifecycle. *)

Firing == {k \in Key : OpenOf(k) # {}}
RipeKeys == [k \in Key |-> Ripe(k)]

\* The row a callback writes is one the metrics it saw allow it to write.
LEMMA DueIsRipe ==
  ASSUME Inv, NEW kd \in Kind, Busy(kd), NEW r \in Rule,
         NEW key \in Key, key = <<r, sub[kd].target>>
  PROVE  /\ OpenDue(kd, r) => Ripe(key) = "open"
         /\ ClearDue(kd, r) => Ripe(key) = "resolve"
<1>1. KindOf[key[2]] = kd /\ key[1] = r /\ key[2] = sub[kd].target
  BY KeyOfWork
<1>2. WindowOf(key) = sub[kd].copy[r]
  BY <1>1 DEF WindowOf
<1>3. OpenDue(kd, r) => Ripe(key) = "open"
  BY <1>2 DEF OpenDue, Ripe, MayOpen
<1>4. ClearDue(kd, r) => Ripe(key) = "resolve"
  BY <1>2 DEF ClearDue, Ripe, MayOpen, MayResolve
<1> QED BY <1>3, <1>4

\* What a step does to the keys with an open alarm, and why it may.
Opened(k) == Ripe(k) = "open" /\ k \notin Firing /\ Firing' = Firing \cup {k}
Resolved(k) == Ripe(k) = "resolve" /\ k \in Firing /\ Firing' = Firing \ {k}
Cleared(k) == k \in Firing /\ Firing' = Firing \ {k}
Moves == UNCHANGED Firing \/ \E k \in Key : Opened(k) \/ Resolved(k) \/ Cleared(k)

LEMMA QuietMoves ==
  ASSUME UNCHANGED alarm
  PROVE  Moves
BY SameOpen DEF Moves, Firing

LEMMA OperatorMoves ==
  ASSUME Inv, NEW id \in AlarmId, AckAlarm(id) \/ ClearAlarm(id) \/ PruneAlarm(id)
  PROVE  Moves
<1> DEFINE key == alarm[id].key
<1>1. /\ \A k \in Key : OpenOf(k)' \subseteq OpenOf(k)
      /\ \A k \in Key : k # key => OpenOf(k)' = OpenOf(k)
      /\ key \in Key
  BY OperatorOpen, NoneAssumption DEF Inv, Alarm
<1>2. PICK k \in Key : k = key
  BY <1>1
<1>3. \A o \in Key : o # k => OpenOf(o)' = OpenOf(o)
  BY <1>1, <1>2
<1>4. CASE OpenOf(k) # {} /\ OpenOf(k)' = {}
  BY <1>3, <1>4 DEF Moves, Cleared, Firing
<1>5. CASE OpenOf(k) = {} \/ OpenOf(k)' # {}
  BY <1>1, <1>3, <1>5 DEF Moves, Firing
<1> QED BY <1>4, <1>5

LEMMA InsertMoves ==
  ASSUME Inv, NEW kd \in Kind, InsertAlarm(kd)
  PROVE  Moves
<1>1. Busy(kd) /\ sub[kd].insert \in Rule /\ OpenDue(kd, sub[kd].insert)
  BY DEF Inv, TypeOK, Work, WorkInv, WorkOf, InsertAlarm, Busy
<1>2. PICK k \in Key : k = <<sub[kd].insert, sub[kd].target>>
  BY <1>1, KeyOfWork
<1>3. Ripe(k) = "open"
  BY <1>1, <1>2, DueIsRipe
<1>4. /\ \A o \in Key : o # k => OpenOf(o)' = OpenOf(o)
      /\ OpenOf(k)' = OpenOf(k) \/ \E id \in AlarmId : OpenOf(k)' = OpenOf(k) \cup {id}
  BY <1>2, InsertOpen
<1>5. CASE OpenOf(k) = {} /\ OpenOf(k)' # {}
  BY <1>3, <1>4, <1>5 DEF Moves, Opened, Firing
<1>6. CASE OpenOf(k) # {} \/ OpenOf(k)' = {}
  BY <1>4, <1>6 DEF Moves, Firing
<1> QED BY <1>5, <1>6

LEMMA AutoClearMoves ==
  ASSUME Inv, NEW kd \in Kind, NEW r \in Rule, AutoClear(kd, r)
  PROVE  Moves
<1>1. Busy(kd) /\ ClearDue(kd, r)
  BY DEF Inv, WorkInv, WorkOf, AutoClear, Busy
<1>2. PICK k \in Key : k = <<r, sub[kd].target>>
  BY <1>1, KeyOfWork
<1>3. Ripe(k) = "resolve"
  BY <1>1, <1>2, DueIsRipe
<1>4. /\ \A o \in Key : o # k => OpenOf(o)' = OpenOf(o)
      /\ OpenOf(k)' = {}
  BY <1>2, AutoClearOpen
<1>5. CASE OpenOf(k) # {}
  BY <1>3, <1>4, <1>5 DEF Moves, Resolved, Firing
<1>6. CASE OpenOf(k) = {}
  BY <1>4, <1>6 DEF Moves, Firing
<1> QED BY <1>5, <1>6

LEMMA StepMoves ==
  ASSUME Inv, [Next]_vars
  PROVE  Moves
<1>1. ASSUME NEW r \in Rule, EditRule(r) PROVE Moves
  BY <1>1, QuietMoves DEF EditRule, CreateRule, UpdateRule, DeleteRule
<1>2. ASSUME NEW id \in AlarmId, AckAlarm(id) \/ ClearAlarm(id) \/ PruneAlarm(id)
      PROVE  Moves
  BY <1>2, OperatorMoves
<1>3. ASSUME RefreshRules \/ Tick \/ Restart \/ UNCHANGED vars PROVE Moves
  BY <1>3, QuietMoves DEF RefreshRules, Tick, Restart, vars
<1>4. ASSUME NEW t \in Target, SomeMetric(t) PROVE Moves
  BY <1>4, QuietMoves DEF SomeMetric, Metric
<1>5. ASSUME NEW kd \in Kind, NEW r \in Rule, CountOpen(kd, r) PROVE Moves
  BY <1>5, QuietMoves DEF CountOpen
<1>6. ASSUME NEW kd \in Kind, Handle(kd) PROVE Moves
  BY <1>5, <1>6, AutoClearMoves, InsertMoves DEF Handle
<1> QED BY <1>1, <1>2, <1>3, <1>4, <1>6 DEF Next

\* The engine implements AlarmLifecycle: an alarm that opens has been due since
\* the metric that caused it was evaluated, an alarm that resolves likewise, and
\* every other way an alarm ends is an operator's.
THEOREM EngineImplementsLifecycle == Spec => ImplementsLifecycle
<1>1. Init => Lifecycle!LifecycleInit
  <2> SUFFICES ASSUME Init PROVE Lifecycle!LifecycleInit
    OBVIOUS
  <2>1. \A k \in Key : OpenOf(k) = {}
    BY DEF Init, OpenOf, IsOpen
  <2>2. \A k \in Key : Ripe(k) = "nothing"
    BY DEF Init, Ripe, MayOpen, MayResolve, Forgotten
  <2> QED BY <2>1, <2>2 DEF Lifecycle!LifecycleInit
<1>2. Inv /\ [Next]_vars => [Lifecycle!LifecycleNext]_(Lifecycle!lifecycleVars)
  <2> SUFFICES ASSUME Inv, [Next]_vars PROVE Lifecycle!LifecycleNext
    OBVIOUS
  <2>1. RipeKeys' \in [Key -> {"nothing", "open", "resolve"}]
    BY DEF RipeKeys, Ripe
  <2>2. Moves
    BY StepMoves
  <2>3. \A k \in Key : RipeKeys[k] = Ripe(k)
    BY DEF RipeKeys
  <2> QED BY <2>1, <2>2, <2>3
     DEF Moves, Opened, Resolved, Cleared, Firing, RipeKeys,
         Lifecycle!LifecycleNext, Lifecycle!Open, Lifecycle!Resolve,
         Lifecycle!OperatorClear
<1> QED BY <1>1, <1>2, Invariance, PTL DEF Spec, ImplementsLifecycle, Lifecycle!LifecycleSpec
==============================================================================
