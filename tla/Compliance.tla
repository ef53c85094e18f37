------------------------------ MODULE Compliance ------------------------------
(***************************************************************************)
(* From the snapshot of a host to its open issues                          *)
(* (internal/api/handlers_agent_telemetry.go, handlers_agent_dex_ingest.go,*)
(* internal/compliance/evaluator.go): the frame is stored in one           *)
(* transaction; its history is written and the alarm engine told of it; it *)
(* is evaluated and compared in a second transaction with the issues that  *)
(* are open, which are read without a lock.                                *)
(*                                                                         *)
(* One agent.  After a lost connection the server may still be at work on  *)
(* a frame of the old one while the new one brings the next.  Of the rules *)
(* of Evaluate there are two: one adds an issue or none, as most do, the   *)
(* other one for each patch and each app that a CVE is linked to, all with *)
(* the code of that CVE.  agent_vulnerabilities is compared and written as *)
(* the issues are.                                                         *)
(* The rows of the history are left out, nothing here reads them; of the   *)
(* fields of a message to the engine there is one.                         *)
(***************************************************************************)
EXTENDS Shared, Naturals, FiniteSets

CONSTANTS
  Uplink,    \* connections of the agent to the API
  LinkLimit  \* patches and apps linked to the one CVE, if there are any

ASSUME ComplianceAssumption == LinkLimit \in Nat

VARIABLES
  posture,     \* what the host would report now
  attached,    \* the connection the probe uses, None before the first
  frame,       \* of each connection: the frame the server is at work on
  rebootHeard, \* pendingReboot in the last message the alarm engine had of the agent
  openIssues,  \* codes of the rows of agent_compliance_issues with cleared_at NULL
  issuesCount  \* agents.compliance_issues_count

complianceVars == <<posture, attached, frame, rebootHeard, openIssues, issuesCount>>

-----------------------------------------------------------------------------
Code == {"pending_reboot", "cve"}

\* linked: the missing patches and installed apps that the CVE is linked to.
Posture == [reboot : BOOLEAN, linked : {0, LinkLimit}]

\* opens: codes that were not open when the transaction read them; clears: codes it is to
\* clear, by the id of the row, that no other one has cleared since.
Evaluation == [stage : {"sent", "compared"}, snapshot : Posture,
               opens : SUBSET Code, clears : SUBSET Code]

ComplianceTypeOK ==
  /\ posture \in Posture /\ attached \in Uplink \cup {None}
  /\ frame \in [Uplink -> Evaluation \cup {None}]
  /\ rebootHeard \in BOOLEAN /\ openIssues \in SUBSET Code
  /\ issuesCount \in Nat

\* Evaluate: the list of issues, as how many of each code it holds.
Evaluate(snapshot) ==
  [c \in Code |-> IF c = "cve" THEN snapshot.linked ELSE IF snapshot.reboot THEN 1 ELSE 0]

\* wantCodes, a map: it holds a code once.
WantCodes(issues) == {c \in Code : issues[c] > 0}

Length(issues) == issues["pending_reboot"] + issues["cve"]

-----------------------------------------------------------------------------
(* The host and its connection. *)

PostureChanges ==
  /\ \E p \in Posture : posture' = p
  /\ UNCHANGED <<attached, frame, rebootHeard, openIssues, issuesCount>>

\* A new connection, while the server may still be at work on a frame of an older one.
Reattach ==
  /\ Fault \/ attached = None
  /\ \E u \in Uplink : frame[u] = None /\ attached' = u
  /\ UNCHANGED <<posture, frame, rebootHeard, openIssues, issuesCount>>

\* A connection's frames are handled one after the other.
SendFrame ==
  /\ attached # None /\ frame[attached] = None
  /\ frame' = [frame EXCEPT ![attached] =
       [stage |-> "sent", snapshot |-> posture, opens |-> {}, clears |-> {}]]
  /\ UNCHANGED <<posture, attached, rebootHeard, openIssues, issuesCount>>

-----------------------------------------------------------------------------
(* The server. *)

FrameAt(u, stage) == frame[u] # None /\ frame[u].stage = stage

DropUpload(u) == frame' = [frame EXCEPT ![u] = None]

\* writeDEXHistory: rows of the frame's date, each of which may fail for itself; then the
\* message to the engine, that is skipped without a connection to NATS.
WriteHistory(u) ==
  \/ rebootHeard' = frame[u].snapshot.reboot
  \/ Fault /\ rebootHeard' = rebootHeard

\* ingestMetrics: the agent's row takes the frame whatever its date.  If a statement of the
\* transaction fails, the frame is lost, for all that follows too.
LoseFrame(u) ==
  /\ Fault /\ FrameAt(u, "sent")
  /\ DropUpload(u)
  /\ UNCHANGED <<posture, attached, rebootHeard, openIssues, issuesCount>>

\* An upsert, that never clears.
Resolved_Never(codes) == {}

\* The codes that are open and are no issues now.
Resolved(codes) == openIssues \ codes

\* The frame is stored, its history written, and the open issues are read: nothing that
\* other goroutines see comes between.
StoreFrame(u) ==
  /\ FrameAt(u, "sent")
  /\ WriteHistory(u)
  /\ \/ LET codes == WantCodes(Evaluate(frame[u].snapshot)) IN
        frame' = [frame EXCEPT ![u].stage = "compared", ![u].opens = codes \ openIssues,
                               ![u].clears = Resolved(codes)]
     \/ Fault /\ DropUpload(u)
  /\ UNCHANGED <<posture, attached, openIssues, issuesCount>>

\* Persist.  The count is the length of the list.  Rows are cleared by id.  A code that
\* another evaluation has opened meanwhile is refused by the unique index, and with it the
\* whole transaction.
PersistIssues(u) ==
  LET e == frame[u] IN
  /\ FrameAt(u, "compared")
  /\ \/ /\ e.opens \cap openIssues = {}
        /\ openIssues' = (openIssues \ e.clears) \cup e.opens
        /\ issuesCount' = Length(Evaluate(e.snapshot))
        /\ frame' = [v \in Uplink |->
             IF v = u \/ frame[v] = None THEN None
             ELSE [frame[v] EXCEPT !.clears = @ \ e.clears]]
     \/ /\ e.opens \cap openIssues # {} \/ Fault
        /\ DropUpload(u) /\ UNCHANGED <<openIssues, issuesCount>>
  /\ UNCHANGED <<posture, attached, rebootHeard>>

-----------------------------------------------------------------------------
ComplianceInit ==
  /\ posture = [reboot |-> FALSE, linked |-> 0] /\ attached = None
  /\ frame = [u \in Uplink |-> None]
  /\ rebootHeard = FALSE /\ openIssues = {} /\ issuesCount = 0

FrameStep(u) ==
  StoreFrame(u) \/ LoseFrame(u) \/ PersistIssues(u)

ComplianceNext ==
  \/ PostureChanges \/ Reattach \/ SendFrame
  \/ \E u \in Uplink : FrameStep(u)

\* A snapshot a minute, and goroutines that go on.
ComplianceFairness ==
  /\ WF_complianceVars(focus = "compliance" /\ attached = None /\ Reattach)
  /\ WF_complianceVars(focus = "compliance" /\ SendFrame)
  /\ \A u \in Uplink : WF_complianceVars(focus = "compliance" /\ FrameStep(u))

-----------------------------------------------------------------------------
(* Properties. *)

\* The open issues, the length of the list they are of and what the alarm engine last
\* heard are those of the host in the end, whatever a late evaluation of an older frame
\* opened, cleared or made fail (evaluator.go:304).
PostureFollows ==
  \A p \in Posture :
    <>[](focus = "compliance" /\ posture = p) =>
    <>[](/\ openIssues = WantCodes(Evaluate(p)) /\ issuesCount = Length(Evaluate(p))
         /\ rebootHeard = p.reboot)
=============================================================================
