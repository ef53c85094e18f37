------------------------------ MODULE ProbeProofs ------------------------------
(***************************************************************************)
(* Proofs about the two parts of a probe: its connection to sonar-api      *)
(* (Presence), for any number of agents and connections and any size of    *)
(* the buffers, and the exchange of its binary (SelfUpdate), for any       *)
(* number of versions.                                                     *)
(***************************************************************************)
EXTENDS Presence, SelfUpdate, SequenceTheorems, TLAPS

-----------------------------------------------------------------------------
(* Presence. *)

\* Of the rows a sweep has read, none has been told of since.
DueIsUntold == \A a \in due : ~told[a]

PresenceInv == PresenceTypeOK /\ DueIsUntold

LEMMA PresenceInitInv == PresenceInit => PresenceInv
BY DEF PresenceInit, PresenceInv, PresenceTypeOK, DueIsUntold

\* A connection in bounds.
Fits(k) == /\ k \in LinkState
           /\ Len(k.outbox) <= WriterBuffer /\ Len(k.wire) <= WireRoom

LEMMA LinkFits ==
  ASSUME PresenceInv, NEW l \in Link, link[l] # None
  PROVE  Fits(link[l])
BY DEF PresenceInv, PresenceTypeOK, Fits

\* A step that gives one connection a new state, or ends it.
LEMMA LinkSetInv ==
  ASSUME PresenceInv, NEW l \in Link, NEW k, Fits(k) \/ k = None,
         link' = [link EXCEPT ![l] = k],
         UNCHANGED <<enabled, due>>,
         seen' \in [Agent -> {"never", "fresh", "stale"}],
         told' \in [Agent -> BOOLEAN],
         timeline' \in [Agent -> {"none", "online", "offline"}],
         \A a \in Agent : told'[a] => told[a]
  PROVE  PresenceInv'
<1>1. /\ link' \in [Link -> LinkState \cup {None}]
      /\ \A m \in Link : link'[m] = IF m = l THEN k ELSE link[m]
  BY DEF PresenceInv, PresenceTypeOK, Fits
<1>2. PresenceTypeOK'
  BY <1>1 DEF PresenceInv, PresenceTypeOK, Fits
<1>3. DueIsUntold'
  BY DEF PresenceInv, PresenceTypeOK, DueIsUntold
<1> QED BY <1>2, <1>3 DEF PresenceInv

\* Touching a row takes its date past every event.
LEMMA TouchEffect ==
  ASSUME PresenceInv, NEW a \in Agent, Touch(a)
  PROVE  /\ seen' \in [Agent -> {"never", "fresh", "stale"}]
         /\ told' \in [Agent -> BOOLEAN]
         /\ \A b \in Agent : told'[b] => told[b]
BY DEF Touch, PresenceInv, PresenceTypeOK

\* Sequences of frames.
LEMMA TailFits ==
  ASSUME NEW s \in Seq(Frame), s # <<>>
  PROVE  Tail(s) \in Seq(Frame) /\ Len(Tail(s)) = Len(s) - 1 /\ Head(s) \in Frame
         /\ Len(s) \in Nat /\ Len(s) > 0
BY HeadTailProperties, EmptySeq, LenProperties

LEMMA AppendFits ==
  ASSUME NEW s \in Seq(Frame), NEW f \in Frame
  PROVE  Append(s, f) \in Seq(Frame) /\ Len(Append(s, f)) = Len(s) + 1
         /\ Len(s) \in Nat
BY AppendProperties, LenProperties

-----------------------------------------------------------------------------
(* The client. *)

LEMMA DialInv ==
  ASSUME PresenceInv, NEW l \in Link, NEW a \in Agent, Dial(l, a)
  PROVE  PresenceInv'
<1> DEFINE k == [agent |-> a, client |-> TRUE, server |-> TRUE, outbox |-> <<"beat">>,
                 wire |-> <<>>, pump |-> "running", beating |-> TRUE, stored |-> None]
<1>1. link' = [link EXCEPT ![l] = k] /\ UNCHANGED <<enabled, timeline, due>>
  BY DEF Dial
<1>2. Fits(k)
  BY PresenceAssumption DEF Fits, LinkState, Frame
<1>3. /\ seen' \in [Agent -> {"never", "fresh", "stale"}]
      /\ told' \in [Agent -> BOOLEAN]
      /\ \A b \in Agent : told'[b] => told[b]
  BY TouchEffect DEF Dial, PresenceInv, PresenceTypeOK
<1>4. timeline' \in [Agent -> {"none", "online", "offline"}]
  BY <1>1 DEF PresenceInv, PresenceTypeOK
<1> HIDE DEF k
<1> QED BY <1>1, <1>2, <1>3, <1>4, LinkSetInv

\* Steps of a connection that leave the rows alone.
LEMMA LinkOnlyInv ==
  ASSUME PresenceInv, NEW l \in Link, NEW k, Fits(k) \/ k = None,
         link' = [link EXCEPT ![l] = k],
         UNCHANGED <<enabled, seen, told, timeline, due>>
  PROVE  PresenceInv'
<1>1. /\ seen' \in [Agent -> {"never", "fresh", "stale"}]
      /\ told' \in [Agent -> BOOLEAN]
      /\ timeline' \in [Agent -> {"none", "online", "offline"}]
      /\ \A a \in Agent : told'[a] => told[a]
  BY DEF PresenceInv, PresenceTypeOK
<1> QED BY <1>1, LinkSetInv

LEMMA SendHeartbeatInv ==
  ASSUME PresenceInv, NEW l \in Link, SendHeartbeat(l)
  PROVE  PresenceInv'
<1> DEFINE k == link[l]
<1>1. Fits(k) /\ k \in LinkState
  BY LinkFits DEF SendHeartbeat, Fits
<1>2. CASE Accepts(l)
  <2> DEFINE sent == [k EXCEPT !.outbox = Append(@, "beat")]
  <2>1. link' = [link EXCEPT ![l] = sent]
    BY <1>2 DEF SendHeartbeat
  <2>2. /\ Append(k.outbox, "beat") \in Seq(Frame)
        /\ Len(Append(k.outbox, "beat")) <= WriterBuffer
    BY <1>1, <1>2, AppendFits, PresenceAssumption DEF Accepts, LinkState, Frame
  <2>3. Fits(sent)
    BY <1>1, <2>2 DEF Fits, LinkState
  <2> HIDE DEF sent
  <2> QED BY <2>1, <2>3, LinkOnlyInv DEF SendHeartbeat
<1>3. CASE ~Accepts(l)
  <2> DEFINE silent == [k EXCEPT !.beating = FALSE]
  <2>1. link' = [link EXCEPT ![l] = silent]
    BY <1>3 DEF SendHeartbeat
  <2>2. Fits(silent)
    BY <1>1 DEF Fits, LinkState
  <2> HIDE DEF silent
  <2> QED BY <2>1, <2>2, LinkOnlyInv DEF SendHeartbeat
<1> QED BY <1>2, <1>3

LEMMA SendSnapshotInv ==
  ASSUME PresenceInv, NEW l \in Link, SendSnapshot(l)
  PROVE  PresenceInv'
<1> DEFINE k == link[l]
           sent == [k EXCEPT !.outbox = Append(@, "metrics")]
<1>1. Fits(k) /\ k \in LinkState
  BY LinkFits DEF SendSnapshot, Fits
<1>2. link' = [link EXCEPT ![l] = sent]
  BY DEF SendSnapshot
<1>3. /\ Append(k.outbox, "metrics") \in Seq(Frame)
      /\ Len(Append(k.outbox, "metrics")) <= WriterBuffer
  BY <1>1, AppendFits, PresenceAssumption DEF SendSnapshot, Accepts, LinkState, Frame
<1>4. Fits(sent)
  BY <1>1, <1>3 DEF Fits, LinkState
<1> HIDE DEF sent
<1> QED BY <1>2, <1>4, LinkOnlyInv DEF SendSnapshot

LEMMA PumpWritesInv ==
  ASSUME PresenceInv, NEW l \in Link, PumpWrites(l)
  PROVE  PresenceInv'
<1> DEFINE k == link[l]
           sent == [k EXCEPT !.outbox = Tail(@), !.wire = Append(@, Head(k.outbox))]
<1>1. Fits(k) /\ k \in LinkState
  BY LinkFits DEF PumpWrites, Fits
<1>2. link' = [link EXCEPT ![l] = sent]
  BY DEF PumpWrites
<1>3. /\ k.outbox \in Seq(Frame) /\ k.outbox # <<>> /\ k.wire \in Seq(Frame)
      /\ Len(k.wire) < WireRoom
  BY <1>1 DEF PumpWrites, LinkState
<1>4. /\ Tail(k.outbox) \in Seq(Frame) /\ Head(k.outbox) \in Frame
      /\ Len(Tail(k.outbox)) <= WriterBuffer
  BY <1>1, <1>3, TailFits, PresenceAssumption DEF Fits
<1>5. /\ Append(k.wire, Head(k.outbox)) \in Seq(Frame)
      /\ Len(Append(k.wire, Head(k.outbox))) <= WireRoom
  BY <1>3, <1>4, AppendFits, PresenceAssumption
<1>6. Fits(sent)
  BY <1>1, <1>4, <1>5 DEF Fits, LinkState
<1> HIDE DEF sent
<1> QED BY <1>2, <1>6, LinkOnlyInv DEF PumpWrites

LEMMA PumpFailsInv ==
  ASSUME PresenceInv, NEW l \in Link, PumpFails(l)
  PROVE  PresenceInv'
<1> DEFINE k == link[l]
           failed == [k EXCEPT !.pump = "failed", !.outbox = Tail(@)]
<1>1. Fits(k) /\ k \in LinkState
  BY LinkFits DEF PumpFails, Fits
<1>2. link' = [link EXCEPT ![l] = failed]
  BY DEF PumpFails
<1>3. k.outbox \in Seq(Frame) /\ k.outbox # <<>>
  BY <1>1 DEF PumpFails, LinkState
<1>4. Tail(k.outbox) \in Seq(Frame) /\ Len(Tail(k.outbox)) <= WriterBuffer
  BY <1>1, <1>3, TailFits, PresenceAssumption DEF Fits
<1>5. Fits(failed)
  BY <1>1, <1>4 DEF Fits, LinkState
<1> HIDE DEF failed
<1> QED BY <1>2, <1>5, LinkOnlyInv DEF PumpFails

LEMMA ClientEndsInv ==
  ASSUME PresenceInv, NEW l \in Link, ClientEnds(l)
  PROVE  PresenceInv'
<1> DEFINE k == link[l]
           half == [k EXCEPT !.client = FALSE, !.outbox = <<>>, !.beating = FALSE]
           after == IF k.server THEN half ELSE None
<1>1. Fits(k) /\ k \in LinkState
  BY LinkFits DEF ClientEnds, Fits
<1>2. link' = [link EXCEPT ![l] = after]
  BY DEF ClientEnds
<1>3. <<>> \in Seq(Frame) /\ Len(<<>>) = 0
  BY EmptySeq
<1>4. half \in LinkState
  BY <1>1, <1>3 DEF LinkState
<1>5. Fits(half)
  BY <1>1, <1>3, <1>4, PresenceAssumption DEF Fits, LinkState
<1>6. Fits(after) \/ after = None
  BY <1>5
<1> HIDE DEF after
<1> QED BY <1>2, <1>6, LinkOnlyInv DEF ClientEnds

-----------------------------------------------------------------------------
(* The server. *)

LEMMA HeartbeatTouchInv ==
  ASSUME PresenceInv, NEW l \in Link, HeartbeatTouch(l)
  PROVE  PresenceInv'
<1>1. link[l].agent \in Agent
  BY LinkFits DEF HeartbeatTouch, Fits, LinkState
<1>2. /\ seen' \in [Agent -> {"never", "fresh", "stale"}]
      /\ told' \in [Agent -> BOOLEAN]
      /\ \A b \in Agent : told'[b] => told[b]
  BY <1>1, TouchEffect DEF HeartbeatTouch
<1> QED
  BY <1>2 DEF HeartbeatTouch, PresenceInv, PresenceTypeOK, DueIsUntold

LEMMA DropFrameInv ==
  ASSUME PresenceInv, NEW l \in Link, DropFrame(l)
  PROVE  PresenceInv'
<1> DEFINE k == link[l]
           after == [k EXCEPT !.wire = Tail(@)]
<1>1. Fits(k) /\ k \in LinkState
  BY LinkFits DEF DropFrame, Fits
<1>2. link' = [link EXCEPT ![l] = after]
  BY DEF DropFrame
<1>3. k.wire \in Seq(Frame) /\ k.wire # <<>>
  BY <1>1 DEF DropFrame, LinkState
<1>4. Tail(k.wire) \in Seq(Frame) /\ Len(Tail(k.wire)) <= WireRoom
  BY <1>1, <1>3, TailFits, PresenceAssumption DEF Fits
<1>5. Fits(after)
  BY <1>1, <1>4 DEF Fits, LinkState
<1> HIDE DEF after
<1> QED BY <1>2, <1>5, LinkOnlyInv DEF DropFrame

LEMMA IngestMetricsInv ==
  ASSUME PresenceInv, NEW l \in Link, IngestMetrics(l)
  PROVE  PresenceInv'
<1> DEFINE k == link[l]
           mark == IF seen[k.agent] = "fresh" THEN "on" ELSE "back"
           after == [k EXCEPT !.wire = Tail(@), !.stored = mark]
<1>1. Fits(k) /\ k \in LinkState /\ k.agent \in Agent
  BY LinkFits DEF IngestMetrics, Fits, LinkState
<1>2. link' = [link EXCEPT ![l] = after] /\ UNCHANGED <<enabled, timeline, due>>
  BY DEF IngestMetrics
<1>3. k.wire \in Seq(Frame) /\ k.wire # <<>>
  BY <1>1 DEF IngestMetrics, LinkState
<1>4. Tail(k.wire) \in Seq(Frame) /\ Len(Tail(k.wire)) <= WireRoom
  BY <1>1, <1>3, TailFits, PresenceAssumption DEF Fits
<1>5. Fits(after)
  BY <1>1, <1>4 DEF Fits, LinkState
<1>6. /\ seen' \in [Agent -> {"never", "fresh", "stale"}]
      /\ told' \in [Agent -> BOOLEAN]
      /\ \A b \in Agent : told'[b] => told[b]
  BY <1>1, TouchEffect DEF IngestMetrics
<1>7. timeline' \in [Agent -> {"none", "online", "offline"}]
  BY <1>2 DEF PresenceInv, PresenceTypeOK
<1> HIDE DEF after
<1> QED BY <1>2, <1>5, <1>6, <1>7, LinkSetInv

LEMMA EnrichAfterMetricsIngestInv ==
  ASSUME PresenceInv, NEW l \in Link, EnrichAfterMetricsIngest(l)
  PROVE  PresenceInv'
<1> DEFINE k == link[l]
           after == [k EXCEPT !.stored = None]
<1>1. Fits(k) /\ k \in LinkState /\ k.agent \in Agent
  BY LinkFits DEF EnrichAfterMetricsIngest, Fits, LinkState
<1>2. link' = [link EXCEPT ![l] = after] /\ UNCHANGED <<enabled, seen, told, due>>
  BY DEF EnrichAfterMetricsIngest
<1>3. Fits(after)
  BY <1>1 DEF Fits, LinkState
<1>4. timeline' \in [Agent -> {"none", "online", "offline"}]
  BY <1>1 DEF EnrichAfterMetricsIngest, PresenceInv, PresenceTypeOK
<1>5. /\ seen' \in [Agent -> {"never", "fresh", "stale"}]
      /\ told' \in [Agent -> BOOLEAN]
      /\ \A b \in Agent : told'[b] => told[b]
  BY <1>2 DEF PresenceInv, PresenceTypeOK
<1> HIDE DEF after
<1> QED BY <1>2, <1>3, <1>4, <1>5, LinkSetInv

LEMMA ServerEndsInv ==
  ASSUME PresenceInv, NEW l \in Link, ServerEnds(l)
  PROVE  PresenceInv'
<1> DEFINE k == link[l]
           half == [k EXCEPT !.server = FALSE, !.wire = <<>>]
           after == IF k.client THEN half ELSE None
<1>1. Fits(k) /\ k \in LinkState
  BY LinkFits DEF ServerEnds, Fits
<1>2. link' = [link EXCEPT ![l] = after]
  BY DEF ServerEnds
<1>3. <<>> \in Seq(Frame) /\ Len(<<>>) = 0
  BY EmptySeq
<1>4. half \in LinkState
  BY <1>1, <1>3 DEF LinkState
<1>5. Fits(half)
  BY <1>1, <1>3, <1>4, PresenceAssumption DEF Fits, LinkState
<1>6. Fits(after) \/ after = None
  BY <1>5
<1> HIDE DEF after
<1> QED BY <1>2, <1>6, LinkOnlyInv DEF ServerEnds

-----------------------------------------------------------------------------
(* The offline watcher. *)

LEMMA AgentStepInv ==
  ASSUME PresenceInv, NEW a \in Agent, AgentStep(a)
  PROVE  PresenceInv'
<1> USE DEF PresenceInv, PresenceTypeOK, DueIsUntold
<1>1. CASE Silence(a)
  BY <1>1 DEF Silence
<1>2. CASE EmitOffline(a)
  BY <1>2 DEF EmitOffline
<1>3. CASE EmitOfflineFails(a)
  BY <1>3 DEF EmitOfflineFails
<1>4. CASE ToggleAgent(a)
  BY <1>4 DEF ToggleAgent
<1> QED BY <1>1, <1>2, <1>3, <1>4 DEF AgentStep

LEMMA SweepInv ==
  ASSUME PresenceInv, EmitStaleAgentOffline
  PROVE  PresenceInv'
<1>1. due' \subseteq {a \in enabled : seen[a] = "stale" /\ ~told[a]}
  BY DEF EmitStaleAgentOffline, Sweep
<1>2. UNCHANGED <<enabled, seen, told, timeline, link>>
  BY DEF EmitStaleAgentOffline, Sweep
<1> QED BY <1>1, <1>2 DEF PresenceInv, PresenceTypeOK, DueIsUntold

-----------------------------------------------------------------------------
(* Theorems about Presence alone: ServicesProofs states them of the whole. *)

LEMMA PresenceStepInv ==
  PresenceInv /\ [PresenceNext]_presenceVars => PresenceInv'
<1> SUFFICES ASSUME PresenceInv, [PresenceNext]_presenceVars
             PROVE  PresenceInv'
  OBVIOUS
<1>1. ASSUME NEW l \in Link, LinkStep(l)
      PROVE  PresenceInv'
  BY <1>1, DialInv, SendHeartbeatInv, SendSnapshotInv, PumpWritesInv, PumpFailsInv,
     ClientEndsInv, HeartbeatTouchInv, DropFrameInv, IngestMetricsInv,
     EnrichAfterMetricsIngestInv, ServerEndsInv
  DEF LinkStep
<1>2. CASE UNCHANGED presenceVars
  BY <1>2 DEF presenceVars, PresenceInv, PresenceTypeOK, DueIsUntold
<1> QED BY <1>1, <1>2, AgentStepInv, SweepInv DEF PresenceNext

\* A row leaves the sweep told of only if it was not told of before.
LEMMA PresenceStepOnce ==
  PresenceInv /\ [PresenceNext]_presenceVars
  => [\A a \in Agent : a \in due \ due' /\ told'[a] => ~told[a]]_presenceVars
BY DEF PresenceInv, DueIsUntold

PresenceAlone == PresenceInit /\ [][PresenceNext]_presenceVars

\* Types, the bounds of the client's buffer and of the wire among them.
THEOREM PresenceIsInvariant == PresenceAlone => []PresenceInv
<1>1. PresenceInit => PresenceInv
  BY PresenceInitInv
<1>2. PresenceInv /\ [PresenceNext]_presenceVars => PresenceInv'
  BY PresenceStepInv
<1> QED BY <1>1, <1>2, PTL DEF PresenceAlone

\* One offline event for a silence, whatever touches fall between a sweep's query and
\* its events (agent_presence.go:36).
THEOREM OfflineIsOncePerSilence == PresenceAlone => OfflineOncePerSilence
<1>1. PresenceInv /\ [PresenceNext]_presenceVars
      => [\A a \in Agent : a \in due \ due' /\ told'[a] => ~told[a]]_presenceVars
  BY PresenceStepOnce
<1> QED
  BY <1>1, PresenceIsInvariant, PTL DEF PresenceAlone, OfflineOncePerSilence

-----------------------------------------------------------------------------
(* SelfUpdate. *)

\* An attempt has a process and a version, and no script runs beside it.
AttemptIsAlone ==
  probe.pc # "idle" => probe.up /\ probe.want \in Version /\ helper = None

\* What will be moved to the probe's path is whole: staged by a process that has
\* not given up, or left to the script.
StagedIsWhole ==
  probe.pc \in {"staged", "aside"} \/ helper = "waiting" => staging \in Version

\* What will be moved back is whole.
AsideIsWhole == probe.pc = "aside" => exe = None /\ bak \in Version

UpdateInv ==
  /\ UpdateTypeOK /\ RunnableAtPath
  /\ AttemptIsAlone /\ StagedIsWhole /\ AsideIsWhole

LEMMA VersionIsWhole ==
  /\ None \notin Version \cup {Torn} /\ Torn \notin Version /\ 1 \in Version
  /\ None # "waiting" /\ None # "restarting"
BY SelfUpdateAssumption DEF Version

LEMMA UpdateInitInv == UpdateInit => UpdateInv
<1> SUFFICES ASSUME UpdateInit PROVE UpdateInv
  OBVIOUS
<1>1. /\ probe \in ProbeProcess /\ probe.pc = "idle"
  BY VersionIsWhole DEF UpdateInit, ProbeProcess
<1>2. UpdateTypeOK
  BY <1>1, VersionIsWhole DEF UpdateInit, UpdateTypeOK, File
<1> QED
  BY <1>1, <1>2, VersionIsWhole
  DEF UpdateInit, UpdateInv, RunnableAtPath, AttemptIsAlone, StagedIsWhole,
      AsideIsWhole, In

\* The ways the process changes.
LEMMA GiveUpEffect ==
  ASSUME probe \in ProbeProcess, GiveUp
  PROVE  probe' \in ProbeProcess /\ probe'.pc = "idle" /\ probe'.up = probe.up
BY DEF GiveUp, ProbeProcess

LEMMA ExitEffect ==
  ASSUME probe \in ProbeProcess, Exit
  PROVE  probe' \in ProbeProcess /\ probe'.pc = "idle" /\ ~probe'.up
BY DEF Exit, ProbeProcess

LEMMA StartEffect ==
  ASSUME probe \in ProbeProcess, Start
  PROVE  probe' \in ProbeProcess /\ probe'.pc \in {"idle", probe.pc}
BY DEF Start, ProbeProcess

LEMMA GoesOnEffect ==
  ASSUME probe \in ProbeProcess,
         NEW pc \in {"idle", "manifest", "fetched", "staged", "aside"},
         probe' = [probe EXCEPT !.pc = pc]
  PROVE  /\ probe' \in ProbeProcess /\ probe'.pc = pc
         /\ probe'.up = probe.up /\ probe'.want = probe.want
BY DEF ProbeProcess

LEMMA DeployInv ==
  ASSUME UpdateInv, Deploy
  PROVE  UpdateInv'
BY DEF Deploy, UpdateInv, UpdateTypeOK, RunnableAtPath, AttemptIsAlone, StagedIsWhole,
       AsideIsWhole, In

\* The steps of the probe.
LEMMA ProbeStepInv ==
  ASSUME UpdateInv, ProbeStep
  PROVE  UpdateInv'
<1> USE VersionIsWhole
    DEF UpdateInv, UpdateTypeOK, RunnableAtPath, AttemptIsAlone, StagedIsWhole,
        AsideIsWhole, In, File
<1>1. CASE CheckForUpdate
  <2>1. /\ probe' \in ProbeProcess /\ probe'.pc = "manifest" /\ probe'.up
        /\ probe'.want \in Version
    BY <1>1 DEF CheckForUpdate, ProbeProcess
  <2> QED BY <1>1, <2>1 DEF CheckForUpdate
<1>2. CASE Download
  <2>1. CASE probe' = [probe EXCEPT !.pc = "fetched"]
    BY <1>2, <2>1, GoesOnEffect DEF Download
  <2>2. CASE GiveUp
    BY <1>2, <2>2, GiveUpEffect DEF Download
  <2> QED BY <1>2, <2>1, <2>2 DEF Download
<1>3. CASE WriteStaging
  <2>1. CASE exe # None /\ staging' = Fetched /\ probe' = [probe EXCEPT !.pc = "staged"]
    BY <1>3, <2>1, GoesOnEffect DEF WriteStaging, Fetched
  <2>2. CASE GiveUp /\ staging' \in File
    BY <1>3, <2>2, GiveUpEffect DEF WriteStaging
  <2> QED BY <1>3, <2>1, <2>2 DEF WriteStaging
<1>4. CASE MoveAside
  BY <1>4, GoesOnEffect DEF MoveAside
<1>5. CASE MoveIntoPlace
  BY <1>5, ExitEffect DEF MoveIntoPlace
<1>6. CASE SpawnUpdater
  BY <1>6, ExitEffect DEF SpawnUpdater
<1>7. CASE MoveIntoPlaceFails
  BY <1>7, GiveUpEffect DEF MoveIntoPlaceFails
<1>8. CASE SpawnUpdaterFails
  BY <1>8, GiveUpEffect DEF SpawnUpdaterFails
<1> QED
  BY <1>1, <1>2, <1>3, <1>4, <1>5, <1>6, <1>7, <1>8 DEF ProbeStep

\* The steps of the script, and its end.
LEMMA HelperStepInv ==
  ASSUME UpdateInv, HelperStep \/ HelperKilled
  PROVE  UpdateInv'
<1> USE VersionIsWhole
    DEF UpdateInv, UpdateTypeOK, RunnableAtPath, AttemptIsAlone, StagedIsWhole,
        AsideIsWhole, In, File
<1>1. CASE HelperMoves
  BY <1>1 DEF HelperMoves
<1>2. CASE HelperStopsService
  BY <1>2, ExitEffect DEF HelperStopsService
<1>3. CASE HelperGivesUp
  BY <1>3 DEF HelperGivesUp
<1>4. CASE HelperRestarts
  BY <1>4, StartEffect DEF HelperRestarts
<1>5. CASE HelperKilled
  BY <1>5 DEF HelperKilled
<1> QED
  BY <1>1, <1>2, <1>3, <1>4, <1>5 DEF HelperStep

\* A start takes up whatever stands at the path; a crash keeps it there.
LEMMA SupervisorInv ==
  ASSUME UpdateInv, Supervise \/ Crash
  PROVE  UpdateInv'
<1> USE VersionIsWhole
    DEF UpdateInv, UpdateTypeOK, RunnableAtPath, AttemptIsAlone, StagedIsWhole,
        AsideIsWhole, In, File
<1>1. CASE Supervise
  <2>1. probe' \in ProbeProcess /\ probe'.pc = "idle"
    BY <1>1 DEF Supervise, Start, ProbeProcess
  <2> QED BY <1>1, <2>1 DEF Supervise
<1>2. CASE Crash
  BY <1>2, ExitEffect DEF Crash
<1> QED BY <1>1, <1>2

LEMMA UpdateStepInv ==
  UpdateInv /\ [UpdateNext]_updateVars => UpdateInv'
<1> SUFFICES ASSUME UpdateInv, [UpdateNext]_updateVars
             PROVE  UpdateInv'
  OBVIOUS
<1>1. CASE UNCHANGED updateVars
  BY <1>1
  DEF updateVars, UpdateInv, UpdateTypeOK, RunnableAtPath, AttemptIsAlone,
      StagedIsWhole, AsideIsWhole, In
<1> QED
  BY <1>1, DeployInv, ProbeStepInv, HelperStepInv, SupervisorInv DEF UpdateNext

UpdateAlone == UpdateInit /\ [][UpdateNext]_updateVars

\* What stands at the probe's path is a whole build, unless a fault fell between the
\* two renames (update_unix.go:16); with it the types, and what that rests on.
THEOREM UpdateIsInvariant == UpdateAlone => []UpdateInv
<1>1. UpdateInit => UpdateInv
  BY UpdateInitInv
<1>2. UpdateInv /\ [UpdateNext]_updateVars => UpdateInv'
  BY UpdateStepInv
<1> QED BY <1>1, <1>2, PTL DEF UpdateAlone
=============================================================================
