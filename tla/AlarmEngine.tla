---------------------------- MODULE AlarmEngine ----------------------------
(***************************************************************************)
(* The alarm engine of sonar-api (internal/alarms/engine.go).  It          *)
(* subscribes to the metric subjects on NATS, one serial callback per      *)
(* subject and so per kind of target; for every metric it evaluates the    *)
(* enabled rules against a copy of the rule table re-read every 30 s,      *)
(* keeps per (rule, target) since when the rule has been truthy or falsy,  *)
(* and opens or auto-clears rows of the alarms table.  Operators edit the  *)
(* rules and acknowledge and clear alarms concurrently.                    *)
(*                                                                         *)
(* An expression is represented by its verdict on a metric, chosen freely; *)
(* a time stamp by its age in ticks, counted up to the window it is        *)
(* compared with.  A callback's reads and writes of its own pending        *)
(* entries, which no other goroutine touches, are one step.                *)
(***************************************************************************)
EXTENDS Integers, FiniteSets

CONSTANTS
  Rule,          \* alarm_rules ids
  Target,        \* appliances, agents and checks that send metrics
  Kind,          \* target kinds, each with its own subject
  KindOf,        \* the kind of a target
  Applies,       \* pairs <<rule, target>> within the rule's site and target_kind
  ForSeconds,    \* values of for_seconds, in ticks
  ClearSeconds,  \* values of clear_for_seconds, in ticks
  Horizon,       \* bound: ages are counted up to here
  Verdict,       \* what EvalMini can return here
  CountMayFail,  \* whether the COUNT query can fail when the INSERT succeeds
  AlarmId,       \* ids of alarms rows, reused after pruning (bound)
  MaxEdits,      \* bound: edits of the rule table in a behaviour
  MaxRestarts,   \* bound: restarts of sonar-api in a behaviour
  None

Key == Rule \X Target

ASSUME KindAssumption == KindOf \in [Target -> Kind]
ASSUME ScopeAssumption == Applies \subseteq Key
ASSUME WindowAssumption ==
  Horizon \in Nat /\ ForSeconds \subseteq 0..Horizon /\ ClearSeconds \subseteq 0..Horizon
ASSUME VerdictAssumption == Verdict \subseteq {"truthy", "falsy", "error"}
ASSUME FlagAssumption == CountMayFail \in BOOLEAN
ASSUME LimitAssumption == MaxEdits \in Nat /\ MaxRestarts \in Nat

VARIABLES
  ruleRow,   \* alarm_rules: the rows
  alarm,     \* alarms: the rows
  up,        \* Run found NATS connected and subscribed
  rules,     \* e.rules, with the windows of each rule
  pend,      \* e.pending
  sub,       \* the callback of each kind
  edits, restarts

vars == <<ruleRow, alarm, up, rules, pend, sub, edits, restarts>>

-----------------------------------------------------------------------------
(* State. *)

Window == [for : ForSeconds, clear : ClearSeconds]
RuleRow == [state : {"absent", "enabled", "disabled", "deleted"}, win : Window]
Copy == [Rule -> Window \cup {None}]
NoCopy == [r \in Rule |-> None]
Alarm == [key : Key, state : {"open", "acked", "cleared", "auto"}]

ASSUME NoneAssumption ==
  None \notin Alarm /\ None \notin Nat /\ None \notin Rule
  /\ None \notin Window /\ None \notin Target

\* Ages of truthySince and falsySince; None is the zero time.
Age == 0..Horizon \cup {None}
Pending == [t : Age, f : Age]
Forgotten == [t |-> None, f |-> None]

\* A callback: the metric's target, its copy of e.rules, the rules past their
\* window that are still to be handled, and the rule whose COUNT said zero.
Work == [target : Target \cup {None}, copy : Copy, opening : SUBSET Rule,
         clearing : SUBSET Rule, insert : Rule \cup {None}]
Idle == [target |-> None, copy |-> NoCopy, opening |-> {}, clearing |-> {},
         insert |-> None]

TypeOK ==
  /\ ruleRow \in [Rule -> RuleRow]
  /\ alarm \in [AlarmId -> Alarm \cup {None}]
  /\ up \in BOOLEAN
  /\ rules \in Copy
  /\ pend \in [Key -> Pending]
  /\ sub \in [Kind -> Work]
  /\ edits \in 0..MaxEdits
  /\ restarts \in 0..MaxRestarts

IsOpen(id) == alarm[id] # None /\ alarm[id].state \in {"open", "acked"}
OpenOf(k) == {id \in AlarmId : IsOpen(id) /\ alarm[id].key = k}

Enabled == [r \in Rule |-> IF ruleRow[r].state = "enabled" THEN ruleRow[r].win
                                                         ELSE None]

\* A callback returns when nothing is left for the metric.
Rest(w) ==
  IF w.opening = {} /\ w.clearing = {} /\ w.insert = None THEN Idle ELSE w

-----------------------------------------------------------------------------
(* Operators: the rule editor, ack and clear, and retention. *)

CreateRule(r) ==
  /\ edits < MaxEdits /\ ruleRow[r].state = "absent"
  /\ \E st \in {"enabled", "disabled"}, w \in Window :
       ruleRow' = [ruleRow EXCEPT ![r] = [state |-> st, win |-> w]]
  /\ edits' = edits + 1
  /\ UNCHANGED <<alarm, up, rules, pend, sub, restarts>>

\* A sparse PATCH: the enabled flag and the windows change together.
UpdateRule(r) ==
  /\ edits < MaxEdits /\ ruleRow[r].state \in {"enabled", "disabled"}
  /\ \E st \in {"enabled", "disabled"}, w \in Window :
       /\ ruleRow' = [ruleRow EXCEPT ![r] = [state |-> st, win |-> w]]
       /\ ruleRow' # ruleRow
  /\ edits' = edits + 1
  /\ UNCHANGED <<alarm, up, rules, pend, sub, restarts>>

\* The rule's alarms stay, their rule_id set to NULL.
DeleteRule(r) ==
  /\ edits < MaxEdits /\ ruleRow[r].state \in {"enabled", "disabled"}
  /\ ruleRow' = [ruleRow EXCEPT ![r].state = "deleted"]
  /\ edits' = edits + 1
  /\ UNCHANGED <<alarm, up, rules, pend, sub, restarts>>

AckAlarm(id) ==
  /\ IsOpen(id)
  /\ alarm' = [alarm EXCEPT ![id].state = "acked"]
  /\ UNCHANGED <<ruleRow, up, rules, pend, sub, edits, restarts>>

ClearAlarm(id) ==
  /\ IsOpen(id)
  /\ alarm' = [alarm EXCEPT ![id].state = "cleared"]
  /\ UNCHANGED <<ruleRow, up, rules, pend, sub, edits, restarts>>

\* retention.Prune removes alarms that were cleared long enough ago.
PruneAlarm(id) ==
  /\ alarm[id] # None /\ ~IsOpen(id)
  /\ alarm' = [alarm EXCEPT ![id] = None]
  /\ UNCHANGED <<ruleRow, up, rules, pend, sub, edits, restarts>>

-----------------------------------------------------------------------------
(* The engine. *)

RefreshRules ==
  /\ up
  /\ rules' = Enabled
  /\ UNCHANGED <<ruleRow, alarm, up, pend, sub, edits, restarts>>

Older(age) == IF age = None \/ age = Horizon THEN age ELSE age + 1

Tick ==
  /\ pend' = [k \in Key |-> [t |-> Older(pend[k].t), f |-> Older(pend[k].f)]]
  /\ UNCHANGED <<ruleRow, alarm, up, rules, sub, edits, restarts>>

\* An age that counts samples instead of time.
Since_PerSample(age) == IF age = None THEN 0 ELSE age + 1

\* now, unless the window has begun already.
Since(age) == IF age = None THEN 0 ELSE age

\* The pending entry is not reset when the verdict changes.
Judge_NoReset(p, v) ==
  CASE v = "truthy" -> [t |-> Since(p.t), f |-> p.f]
    [] v = "falsy"  -> [t |-> p.t, f |-> Since(p.f)]
    [] OTHER        -> p

\* Every verdict begins its window anew.
Judge_Anew(p, v) ==
  CASE v = "truthy" -> [t |-> 0, f |-> None]
    [] v = "falsy"  -> [t |-> None, f |-> 0]
    [] OTHER        -> p

\* A truthy verdict starts or continues the for-window and ends the clear
\* window; a falsy one the reverse; an evaluation error leaves both.
Judge(p, v) ==
  CASE v = "truthy" -> [t |-> Since(p.t), f |-> None]
    [] v = "falsy"  -> [t |-> None, f |-> Since(p.f)]
    [] OTHER        -> p

\* A window that is due as soon as it begins.
RipeToOpen_AtOnce(win, p) == p.t # None

RipeToOpen(win, p) == p.t # None /\ p.t >= win.for
RipeToClear(win, p) == p.f # None /\ p.f >= win.clear

\* A metric of target t, on which rule r has verdict vd[r]: evaluate's loop up
\* to its database calls.
Metric(t, vd) ==
  LET scope == {r \in Rule : rules[r] # None /\ <<r, t>> \in Applies}
      judged == [k \in Key |-> IF k[2] = t /\ k[1] \in scope
                               THEN Judge(pend[k], vd[k[1]]) ELSE pend[k]]
  IN  /\ up
      /\ sub[KindOf[t]] = Idle
      /\ pend' = judged
      /\ sub' = [sub EXCEPT ![KindOf[t]] = Rest(
           [target |-> t, copy |-> rules, insert |-> None,
            opening  |-> {r \in scope : /\ vd[r] = "truthy"
                                        /\ RipeToOpen(rules[r], judged[<<r, t>>])},
            clearing |-> {r \in scope : /\ vd[r] = "falsy"
                                        /\ RipeToClear(rules[r], judged[<<r, t>>])}])]
      /\ UNCHANGED <<ruleRow, alarm, up, rules, edits, restarts>>

\* An INSERT without the COUNT before it.
CountOpen_Skip(kd, r) ==
  /\ sub[kd].insert = None /\ r \in sub[kd].opening
  /\ sub' = [sub EXCEPT ![kd] = [sub[kd] EXCEPT !.opening = @ \ {r}, !.insert = r]]
  /\ UNCHANGED <<ruleRow, alarm, up, rules, pend, edits, restarts>>

\* maybeOpen's COUNT, whose error is ignored and reads as zero.
CountOpen(kd, r) ==
  LET w == sub[kd]
      seen == OpenOf(<<r, w.target>>)
  IN  /\ w.insert = None /\ r \in w.opening
      /\ \/ /\ seen # {}
            /\ sub' = [sub EXCEPT ![kd] = Rest([w EXCEPT !.opening = @ \ {r}])]
         \/ /\ seen = {} \/ CountMayFail
            /\ sub' = [sub EXCEPT ![kd] =
                         [w EXCEPT !.opening = @ \ {r}, !.insert = r]]
      /\ UNCHANGED <<ruleRow, alarm, up, rules, pend, edits, restarts>>

\* maybeOpen's INSERT; it fails when the rule was deleted meanwhile.
InsertAlarm(kd) ==
  LET w == sub[kd]
  IN  /\ w.insert # None
      /\ \/ /\ ruleRow[w.insert].state # "deleted"
            /\ \E id \in AlarmId :
                 /\ alarm[id] = None
                 /\ alarm' = [alarm EXCEPT ![id] =
                      [key |-> <<w.insert, w.target>>, state |-> "open"]]
         \/ ruleRow[w.insert].state = "deleted" /\ UNCHANGED alarm
      /\ sub' = [sub EXCEPT ![kd] = Rest([w EXCEPT !.insert = None])]
      /\ UNCHANGED <<ruleRow, up, rules, pend, edits, restarts>>

\* An auto-clear that passes over acknowledged alarms.
AutoClear_Unacked(kd, r) ==
  LET hit == {id \in OpenOf(<<r, sub[kd].target>>) : alarm[id].state = "open"}
  IN  /\ sub[kd].insert = None /\ r \in sub[kd].clearing
      /\ alarm' = [id \in AlarmId |-> IF id \in hit
                                      THEN [alarm[id] EXCEPT !.state = "auto"]
                                      ELSE alarm[id]]
      /\ sub' = [sub EXCEPT ![kd] = Rest([sub[kd] EXCEPT !.clearing = @ \ {r}])]
      /\ UNCHANGED <<ruleRow, up, rules, pend, edits, restarts>>

\* maybeAutoClear's UPDATE of every open row of the key.
AutoClear(kd, r) ==
  LET w == sub[kd]
      hit == OpenOf(<<r, w.target>>)
  IN  /\ w.insert = None /\ r \in w.clearing
      /\ alarm' = [id \in AlarmId |-> IF id \in hit
                                      THEN [alarm[id] EXCEPT !.state = "auto"]
                                      ELSE alarm[id]]
      /\ sub' = [sub EXCEPT ![kd] = Rest([w EXCEPT !.clearing = @ \ {r}])]
      /\ UNCHANGED <<ruleRow, up, rules, pend, edits, restarts>>

\* sonar-api restarts: pending windows and metrics in hand are lost, the rules
\* are read again.  Run gives up when NATS is not connected yet.
Restart ==
  /\ restarts < MaxRestarts
  /\ restarts' = restarts + 1
  /\ up' \in BOOLEAN
  /\ rules' = IF up' THEN Enabled ELSE NoCopy
  /\ pend' = [k \in Key |-> Forgotten]
  /\ sub' = [kd \in Kind |-> Idle]
  /\ UNCHANGED <<ruleRow, alarm, edits>>

-----------------------------------------------------------------------------
Init ==
  /\ ruleRow \in [Rule -> [state : {"absent", "enabled", "disabled"}, win : Window]]
  /\ alarm = [id \in AlarmId |-> None]
  /\ up \in BOOLEAN
  /\ rules = IF up THEN Enabled ELSE NoCopy
  /\ pend = [k \in Key |-> Forgotten]
  /\ sub = [kd \in Kind |-> Idle]
  /\ edits = 0
  /\ restarts = 0

EditRule(r) == CreateRule(r) \/ UpdateRule(r) \/ DeleteRule(r)

Handle(kd) ==
  \/ \E r \in Rule : CountOpen(kd, r) \/ AutoClear(kd, r)
  \/ InsertAlarm(kd)

SomeMetric(t) == \E vd \in [Rule -> Verdict] : Metric(t, vd)

Next ==
  \/ \E r \in Rule : EditRule(r)
  \/ \E id \in AlarmId : AckAlarm(id) \/ ClearAlarm(id) \/ PruneAlarm(id)
  \/ RefreshRules
  \/ Tick
  \/ \E t \in Target : SomeMetric(t)
  \/ \E kd \in Kind : Handle(kd)
  \/ Restart

Spec == Init /\ [][Next]_vars

\* Time passes, the refresh ticker fires, every target goes on sending metrics
\* the expressions can be evaluated on, callbacks run, and retention prunes.
Fairness ==
  /\ WF_vars(Tick)
  /\ WF_vars(RefreshRules)
  /\ \A t \in Target : SF_vars(SomeMetric(t))
  /\ \A kd \in Kind : WF_vars(Handle(kd))
  /\ \A id \in AlarmId : WF_vars(PruneAlarm(id))

FairSpec == Spec /\ Fairness

-----------------------------------------------------------------------------
(* Properties. *)

\* A rule on a target has at most one open alarm, although COUNT and INSERT are
\* separate statements and no index forbids a second row.
OneOpenPerKey == \A k \in Key : Cardinality(OpenOf(k)) <= 1

\* Seen from outside the engine keeps AlarmLifecycle: an alarm opens and
\* resolves on its windows only, whatever edits, acks, clears, prunings and
\* restarts come between the evaluation, the COUNT and the write.  The windows
\* are those of the copy of the rules the callback took.
WindowOf(k) == LET w == sub[KindOf[k[2]]]
               IN  IF w.target = k[2] THEN w.copy[k[1]] ELSE rules[k[1]]
MayOpen(k) == /\ WindowOf(k) # None
              /\ pend[k].t # None /\ pend[k].t >= WindowOf(k).for
MayResolve(k) == /\ WindowOf(k) # None
                 /\ pend[k].f # None /\ pend[k].f >= WindowOf(k).clear
Ripe(k) == IF MayOpen(k) THEN "open"
           ELSE IF MayResolve(k) THEN "resolve" ELSE "nothing"
Lifecycle == INSTANCE AlarmLifecycle WITH
  firing <- {k \in Key : OpenOf(k) # {}},
  ripe <- [k \in Key |-> Ripe(k)]
ImplementsLifecycle == Lifecycle!LifecycleSpec

\* An enabled rule that stays truthy on a target that keeps reporting has an
\* open alarm again and again, however often an operator clears it.
Watched(k) == up /\ k \in Applies /\ ruleRow[k[1]].state = "enabled"
TruthyOpens ==
  \A k \in Key :
    <>[](Watched(k) /\ pend[k].t # None) => []<>(OpenOf(k) # {})

\* An enabled rule that stays falsy ends with its alarm cleared.
FalsyClears ==
  \A k \in Key :
    <>[](Watched(k) /\ pend[k].f # None) => <>[](OpenOf(k) = {})
=============================================================================
