--------------------------- MODULE AlarmLifecycle ---------------------------
(***************************************************************************)
(* What the alarm engine promises of an alarm key, a rule on one target:   *)
(* the alarm of the key opens only after the rule has been seen to hold    *)
(* for its window, resolves by itself only after the rule has been seen    *)
(* not to hold for its clear window, and is open or not: it never opens    *)
(* while it is open.  An operator may clear it at any time.                *)
(***************************************************************************)
CONSTANTS Key

VARIABLES
  firing,  \* keys with an open alarm
  ripe     \* what the metrics seen so far allow the key to do

lifecycleVars == <<firing, ripe>>

LifecycleTypeOK ==
  /\ firing \subseteq Key
  /\ ripe \in [Key -> {"nothing", "open", "resolve"}]

LifecycleInit ==
  /\ firing = {}
  /\ ripe = [k \in Key |-> "nothing"]

Open(k) ==
  /\ ripe[k] = "open" /\ k \notin firing
  /\ firing' = firing \cup {k}

Resolve(k) ==
  /\ ripe[k] = "resolve" /\ k \in firing
  /\ firing' = firing \ {k}

OperatorClear(k) ==
  /\ k \in firing
  /\ firing' = firing \ {k}

\* Metrics arrive, time passes, rules are edited and a restart forgets what was
\* seen: what the keys may do next changes at any step.
LifecycleNext ==
  /\ ripe' \in [Key -> {"nothing", "open", "resolve"}]
  /\ \/ UNCHANGED firing
     \/ \E k \in Key : Open(k) \/ Resolve(k) \/ OperatorClear(k)

LifecycleSpec == LifecycleInit /\ [][LifecycleNext]_lifecycleVars
=============================================================================
