----------------------------- MODULE TokenBudget ------------------------------
(***************************************************************************)
(* What an enrollment token promises to the operator who issued it: it     *)
(* admits no more than the agreed number of hosts, and none once it has    *)
(* been revoked.  Enrollment implements this specification.                *)
(***************************************************************************)
EXTENDS Naturals

CONSTANT Token

VARIABLES
  issued, \* the tokens that have been issued, each once
  left,   \* admissions a token still has; 0 before it is issued
  shut    \* the tokens that have been revoked

budget == <<issued, left, shut>>

Issue(t) ==
  /\ t \notin issued
  /\ issued' = issued \cup {t}
  /\ left'[t] \in Nat \ {0}
  /\ left' = [left EXCEPT ![t] = left'[t]]
  /\ UNCHANGED shut

Admit(t) ==
  /\ left[t] > 0 /\ t \notin shut
  /\ left' = [left EXCEPT ![t] = @ - 1]
  /\ UNCHANGED <<issued, shut>>

Shut(t) ==
  /\ t \in issued
  /\ shut' = shut \cup {t}
  /\ UNCHANGED <<issued, left>>

BudgetInit == issued = {} /\ left = [t \in Token |-> 0] /\ shut = {}

BudgetNext == \E t \in Token : Issue(t) \/ Admit(t) \/ Shut(t)

Budget == BudgetInit /\ [][BudgetNext]_budget
=============================================================================
