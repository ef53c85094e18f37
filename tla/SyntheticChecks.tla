---------------------------- MODULE SyntheticChecks ----------------------------
(***************************************************************************)
(* Synthetic checks: the editor's rows (internal/api/handlers_checks.go),  *)
(* the choice of who runs a check (internal/checks/select.go), the central *)
(* loop of sonar-poller (internal/poller/checks.go) and the pull of the    *)
(* probes (internal/probe/checks.go).                                      *)
(*                                                                         *)
(* A type is plain (icmp, tcp, http, dns, tls) or needs a credential from  *)
(* the site's vault (sql_query, smtp, imap, ldap_bind).  A credential      *)
(* suits or does not: its site, its kind, and whether it opens are one.    *)
(* What a check finds is arbitrary; its samples stand for one verdict.     *)
(***************************************************************************)
EXTENDS Shared, FiniteSets

CONSTANTS
  Check,
  Credential,
  CheckAgent,  \* agents with is_active
  LocalAgent   \* those at the site of the checks

ASSUME ChecksAssumption == LocalAgent \subseteq CheckAgent

VARIABLES
  check,   \* the table checks
  vault,   \* site_credentials: absent, suited to a check that names it, or not
  near,    \* agents seen less than two minutes ago
  tick,    \* the central loop: what tickChecks has read
  running  \* the check executeCheck is at

checksVars == <<check, vault, near, tick, running>>

-----------------------------------------------------------------------------
Preference == {"auto", "agent", "collector", "central"}

\* named: credential_id, or credentialId among the params.  due: last_run_at is an
\* interval ago, or NULL.  ok: last_ok.
CheckRow == [secret : BOOLEAN, enabled : BOOLEAN, prefers : Preference,
             assigned : CheckAgent \cup {None}, named : Credential \cup {None},
             due : BOOLEAN, ok : {None, "yes", "no"}]

Round == [near : SUBSET CheckAgent, listed : BOOLEAN, rows : SUBSET (Check \X CheckRow)]

Exists(c) == check[c] # None

ChecksTypeOK ==
  /\ check \in [Check -> CheckRow \cup {None}]
  /\ vault \in [Credential -> {"absent", "suited", "unsuited"}]
  /\ near \in SUBSET CheckAgent
  /\ tick # None => tick \in Round
  /\ running # None => running \in [check : Check, ok : {"yes", "no"}]

-----------------------------------------------------------------------------
(* The editor. *)

\* validateCheckCredential: a check that needs a credential names one that suits it;
\* for any other the column stays NULL.
Valid(secret, cred) == IF secret THEN cred # None /\ vault[cred] = "suited"
                       ELSE cred = None

\* Types with a credential are always central and assigned to nobody.
CreateCheck(c) ==
  /\ ~Exists(c)
  /\ \E row \in CheckRow :
       /\ row.due /\ row.ok = None
       /\ Valid(row.secret, row.named)
       /\ row.secret => row.prefers = "central" /\ row.assigned = None
       /\ check' = [check EXCEPT ![c] = row]
  /\ UNCHANGED <<vault, near, tick, running>>

\* One UPDATE per column the request names; a credential that does not suit is
\* refused after the other columns have been written.
PatchCheck(c) ==
  /\ Exists(c)
  /\ \E enabled \in BOOLEAN,
        prefers \in IF check[c].secret THEN {"central"} ELSE Preference,
        cred \in {check[c].named} \cup {k \in Credential : check[c].secret /\ Valid(TRUE, k)} :
       check' = [check EXCEPT ![c].enabled = enabled, ![c].prefers = prefers, ![c].named = cred]
  /\ UNCHANGED <<vault, near, tick, running>>

DeleteCheck(c) ==
  /\ Exists(c)
  /\ check' = [check EXCEPT ![c] = None]
  /\ UNCHANGED <<vault, near, tick, running>>

\* The vault's own editor: create, change the secret, delete.  A deleted credential
\* is cleared from the column, not from the params.
EditVault(cred) ==
  /\ \E state \in {"absent", "suited", "unsuited"} \ {vault[cred]} :
       vault' = [vault EXCEPT ![cred] = state]
  /\ UNCHANGED <<check, near, tick, running>>

-----------------------------------------------------------------------------
(* Who runs a check. *)

\* SelectRunner: the assigned agent, or else any at the site, if one is online; a
\* check that prefers a collector is nobody's but the central loop's.
SelectRunner(row, online) ==
  IF row.secret \/ row.prefers = "central" THEN "central"
  ELSE IF row.prefers = "collector" THEN "collector"
  ELSE IF row.assigned \in online \/ online \cap LocalAgent # {} THEN "agent"
  ELSE "central"

\* An agent is heard of by its websocket, or goes silent for two minutes.
AgentNearby(a) ==
  /\ near' = IF a \in near THEN near \ {a} ELSE near \cup {a}
  /\ UNCHANGED <<check, vault, tick, running>>

\* GET /agent/checks, every 30 s.  It touches the agent's row; its query then has two
\* parameters and is given one, so that every pull ends in an error and no agent is
\* ever handed a check.
AgentListChecks(a) ==
  /\ near' = near \cup {a}
  /\ UNCHANGED <<check, vault, tick, running>>

-----------------------------------------------------------------------------
(* The central loop. *)

\* tickChecks reads the agents first ...
TickReadsAgents ==
  /\ tick = None
  /\ tick' = [near |-> near, listed |-> FALSE, rows |-> {}]
  /\ UNCHANGED <<check, vault, near, running>>

\* ... then the enabled checks; the rows are worked off as they were then.
TickReadsChecks ==
  /\ tick # None /\ ~tick.listed
  /\ tick' = [tick EXCEPT !.listed = TRUE,
                !.rows = {<<c, check[c]>> : c \in {d \in Check : Exists(d) /\ check[d].enabled}}]
  /\ UNCHANGED <<check, vault, near, running>>

\* A loop that leaves to others whatever does not prefer it.
Central_Strict(row, online) == row.due /\ SelectRunner(row, online) = "central"

\* Due, and not an agent's.
Central(row, online) == row.due /\ SelectRunner(row, online) # "agent"

SkipCheck(c) ==
  /\ tick # None /\ running = None
  /\ \E row \in CheckRow :
       /\ <<c, row>> \in tick.rows /\ ~Central(row, tick.near)
       /\ tick' = [tick EXCEPT !.rows = @ \ {<<c, row>>}]
  /\ UNCHANGED <<check, vault, near, running>>

Unusable(row) == row.secret /\ (row.named = None \/ vault[row.named] # "suited")

\* Run: whatever it meets, a time-out too, is a result of the check.
Ran(row) == IF Unusable(row) THEN {"no"} ELSE {"yes", "no"}

\* A credential that cannot be used ends the run without a result.
ExecuteCheck_Silent(c) ==
  /\ tick # None /\ running = None
  /\ \E r \in tick.rows :
       /\ r[1] = c /\ Central(r[2], tick.near)
       /\ \E ok \in Ran(r[2]) :
            running' = IF Unusable(r[2]) THEN None ELSE [check |-> c, ok |-> ok]
       /\ tick' = [tick EXCEPT !.rows = @ \ {r}]
  /\ UNCHANGED <<check, vault, near>>

\* executeCheck: the credential is looked up and opened anew; one that cannot be used
\* makes the check fail.
ExecuteCheck(c) ==
  /\ tick # None /\ running = None
  /\ \E r \in tick.rows :
       /\ r[1] = c /\ Central(r[2], tick.near)
       /\ \E ok \in Ran(r[2]) : running' = [check |-> c, ok |-> ok]
       /\ tick' = [tick EXCEPT !.rows = @ \ {r}]
  /\ UNCHANGED <<check, vault, near>>

\* PersistCheckResult: the samples, the row, the message to the alarm engine.  The
\* check may have been deleted since the tick read it.
PersistCheckResult ==
  /\ running # None
  /\ check' = IF Exists(running.check)
              THEN [check EXCEPT ![running.check].due = FALSE,
                                 ![running.check].ok = running.ok]
              ELSE check
  /\ running' = None
  /\ UNCHANGED <<vault, near, tick>>

\* A statement fails: samples may be left, the row stays as it was.
PersistFails ==
  /\ Fault /\ running # None
  /\ running' = None
  /\ UNCHANGED <<check, vault, near, tick>>

\* The rows are worked off, the query failed, or the process restarted.
TickEnds ==
  /\ tick # None /\ running = None
  /\ Fault \/ (tick.listed /\ tick.rows = {})
  /\ tick' = None
  /\ UNCHANGED <<check, vault, near, running>>

\* interval_seconds, 15 at least, have passed.
Elapse(c) ==
  /\ Exists(c) /\ ~check[c].due
  /\ check' = [check EXCEPT ![c].due = TRUE]
  /\ UNCHANGED <<vault, near, tick, running>>

-----------------------------------------------------------------------------
ChecksInit ==
  /\ check = [c \in Check |-> None]
  /\ vault = [cred \in Credential |-> "suited"]
  /\ near = {}
  /\ tick = None /\ running = None

EditorStep(c) == CreateCheck(c) \/ PatchCheck(c) \/ DeleteCheck(c)

\* runChecks and tickChecks: one after the other.
LoopStep ==
  \/ TickReadsAgents \/ TickReadsChecks \/ TickEnds
  \/ \E c \in Check : SkipCheck(c) \/ ExecuteCheck(c)
  \/ PersistCheckResult \/ PersistFails

ChecksNext ==
  \/ \E c \in Check : EditorStep(c) \/ Elapse(c)
  \/ \E cred \in Credential : EditVault(cred)
  \/ \E a \in CheckAgent : AgentNearby(a) \/ AgentListChecks(a)
  \/ LoopStep

\* Time passes; the ticker runs, and Run has a deadline.
ChecksFairness ==
  /\ WF_checksVars(focus = "checks" /\ LoopStep)
  /\ \A c \in Check : WF_checksVars(focus = "checks" /\ Elapse(c))

-----------------------------------------------------------------------------
(* Properties. *)

Enabled(c) == Exists(c) /\ check[c].enabled

\* A check that no agent may take is run again and again, though single runs are lost
\* to failing statements, restarts and stale lists.
CentralChecksRun ==
  \A c \in Check :
    \/ <>[](Enabled(c) /\ near = {})
    \/ <>[](Enabled(c) /\ (check[c].secret \/ check[c].prefers \in {"central", "collector"}))
    => []<>(Enabled(c) => ~check[c].due)

\* A check whose credential was deleted, exchanged for another kind or can no longer
\* be opened is shown as failing, and stays so (checks.go:123).
LostCredentialShows ==
  \A c \in Check :
    <>[](Enabled(c) /\ check[c].secret /\ vault[check[c].named] # "suited")
      => <>[](Enabled(c) => check[c].ok = "no")
=============================================================================
