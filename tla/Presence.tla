------------------------------- MODULE Presence --------------------------------
(***************************************************************************)
(* The websocket between a probe and sonar-api, and what is concluded from *)
(* it about the host: agents.last_seen_at, and the agent.online and        *)
(* agent.offline events of its timeline (internal/probe/run.go,            *)
(* internal/api/handlers_agents.go, handlers_agent_telemetry.go,           *)
(* handlers_agent_dex_ingest.go, agent_presence.go).                       *)
(*                                                                         *)
(* A link has two ends.  The client's end queues frames for a goroutine    *)
(* that writes them; the server's end reads and stores them one at a time, *)
(* beside a goroutine that touches last_seen_at each minute.  Either end   *)
(* may go first.  Dates are kept as far as they are compared: last_seen_at *)
(* is younger than five minutes or not, the last offline event is later    *)
(* than last_seen_at or not.                                               *)
(***************************************************************************)
EXTENDS Shared, Naturals, FiniteSets, Sequences

CONSTANTS
  Agent,
  Link,          \* connections at one time; a bound
  WriterBuffer,  \* room of the channel to the writer: 8
  WireRoom,      \* frames the socket takes before a write blocks; a bound
  SweepLimit     \* LIMIT of the offline sweep: 200

ASSUME PresenceAssumption ==
  WriterBuffer \in Nat \ {0} /\ WireRoom \in Nat \ {0} /\ SweepLimit \in Nat \ {0}

VARIABLES
  enabled,   \* the agents whose row is_active
  seen,      \* last_seen_at: NULL, younger than 5 min, or older
  told,      \* an offline event is later than last_seen_at
  timeline,  \* the newest of the agent's online and offline events
  due,       \* rows the sweep has read and not come to yet
  link

presenceVars == <<enabled, seen, told, timeline, due, link>>

-----------------------------------------------------------------------------
\* Of a hello and a heartbeat nothing is stored: both are a beat.
Frame == {"beat", "metrics"}

\* beating: heartbeatLoop runs.  stored: the frame being enriched was the first
\* after a silence ("back") or not ("on").
LinkState == [agent : Agent, client : BOOLEAN, server : BOOLEAN,
              outbox : Seq(Frame), wire : Seq(Frame), pump : {"running", "failed"},
              beating : BOOLEAN, stored : {None, "on", "back"}]

ASSUME PresenceNoneAssumption == None \notin LinkState \cup {"on", "back"}

PresenceTypeOK ==
  /\ enabled \in SUBSET Agent
  /\ seen \in [Agent -> {"never", "fresh", "stale"}]
  /\ told \in [Agent -> BOOLEAN]
  /\ timeline \in [Agent -> {"none", "online", "offline"}]
  /\ due \in SUBSET Agent
  /\ link \in [Link -> LinkState \cup {None}]
  /\ \A l \in Link : link[l] # None =>
       Len(link[l].outbox) <= WriterBuffer /\ Len(link[l].wire) <= WireRoom

HasClient(a) == \E l \in Link : link[l] # None /\ link[l].agent = a /\ link[l].client
HasServer(a) == \E l \in Link : link[l] # None /\ link[l].agent = a /\ link[l].server

\* UPDATE agents SET last_seen_at = NOW().
Touch(a) ==
  /\ seen' = [seen EXCEPT ![a] = "fresh"]
  /\ told' = [told EXCEPT ![a] = FALSE]

-----------------------------------------------------------------------------
(* The client. *)

\* Run and dialAndPump dial again, after a back-off, when the last connection has
\* ended.  handleAgentWS touches the row before it accepts; an error of that UPDATE
\* is only logged.
Dial(l, a) ==
  /\ link[l] = None /\ ~HasClient(a)
  /\ Touch(a) \/ UNCHANGED <<seen, told>>
  /\ link' = [link EXCEPT ![l] =
       [agent |-> a, client |-> TRUE, server |-> TRUE, outbox |-> <<"beat">>,
        wire |-> <<>>, pump |-> "running", beating |-> TRUE, stored |-> None]]
  /\ UNCHANGED <<enabled, timeline, due>>

\* A send that queues whatever the room.
Accepts_Always(l) == link[l].pump = "running"

\* wsWriter.send refuses a frame after a failed write or when the buffer is full.
Accepts(l) == link[l].pump = "running" /\ Len(link[l].outbox) < WriterBuffer

\* The heartbeat loop ends at the first refusal.
SendHeartbeat(l) ==
  /\ link[l] # None /\ link[l].client /\ link[l].beating
  /\ link' = IF Accepts(l)
             THEN [link EXCEPT ![l].outbox = Append(@, "beat")]
             ELSE [link EXCEPT ![l].beating = FALSE]
  /\ UNCHANGED <<enabled, seen, told, timeline, due>>

\* The snapshot loop goes on; a refused snapshot is dropped.
SendSnapshot(l) ==
  /\ link[l] # None /\ link[l].client /\ Accepts(l)
  /\ link' = [link EXCEPT ![l].outbox = Append(@, "metrics")]
  /\ UNCHANGED <<enabled, seen, told, timeline, due>>

PumpWrites(l) ==
  /\ link[l] # None /\ link[l].client /\ link[l].pump = "running"
  /\ link[l].outbox # <<>> /\ Len(link[l].wire) < WireRoom
  /\ link' = [link EXCEPT ![l].outbox = Tail(@),
                          ![l].wire = Append(@, Head(link[l].outbox))]
  /\ UNCHANGED <<enabled, seen, told, timeline, due>>

\* The network fails, or a write takes longer than 10 s.
PumpFails(l) ==
  /\ link[l] # None /\ link[l].client /\ link[l].pump = "running"
  /\ link[l].outbox # <<>>
  /\ link' = [link EXCEPT ![l].pump = "failed", ![l].outbox = Tail(@)]
  /\ UNCHANGED <<enabled, seen, told, timeline, due>>

\* Read returns an error, or the host goes down: the loops are cancelled, what is in
\* the buffer is never sent.
ClientEnds(l) ==
  /\ link[l] # None /\ link[l].client
  /\ link' = [link EXCEPT ![l] =
       IF @.server THEN [@ EXCEPT !.client = FALSE, !.outbox = <<>>, !.beating = FALSE]
       ELSE None]
  /\ UNCHANGED <<enabled, seen, told, timeline, due>>

-----------------------------------------------------------------------------
(* The server. *)

\* runAgentHeartbeatTouch, every 60 s.
HeartbeatTouch(l) ==
  /\ link[l] # None /\ link[l].server
  /\ Touch(link[l].agent)
  /\ UNCHANGED <<enabled, timeline, due, link>>

\* A frame that is not stored: a beat, an unreadable frame, one for which the
\* transaction failed.
DropFrame(l) ==
  /\ link[l] # None /\ link[l].server /\ link[l].stored = None
  /\ link[l].wire # <<>>
  /\ link' = [link EXCEPT ![l].wire = Tail(@)]
  /\ UNCHANGED <<enabled, seen, told, timeline, due>>

\* ingestMetrics: one transaction that reads the last_seen_at it overwrites.
IngestMetrics(l) ==
  /\ link[l] # None /\ link[l].server /\ link[l].stored = None
  /\ link[l].wire # <<>> /\ Head(link[l].wire) = "metrics"
  /\ Touch(link[l].agent)
  /\ link' = [link EXCEPT ![l].wire = Tail(@),
       ![l].stored = IF seen[link[l].agent] = "fresh" THEN "on" ELSE "back"]
  /\ UNCHANGED <<enabled, timeline, due>>

\* enrichAfterMetricsIngest, before the next frame is read.  Everything it writes is
\* best effort: it may fail, and an event is then not tried again.
EnrichAfterMetricsIngest(l) ==
  /\ link[l] # None /\ link[l].stored # None
  /\ \/ /\ link[l].stored = "back"
        /\ timeline' = [timeline EXCEPT ![link[l].agent] = "online"]
     \/ UNCHANGED timeline
  /\ link' = [link EXCEPT ![l].stored = None]
  /\ UNCHANGED <<enabled, seen, told, due>>

\* The read fails: the client has gone, or the connection broke in between.
ServerEnds(l) ==
  /\ link[l] # None /\ link[l].server /\ link[l].stored = None
  /\ link' = [link EXCEPT ![l] =
       IF @.client THEN [@ EXCEPT !.server = FALSE, !.wire = <<>>] ELSE None]
  /\ UNCHANGED <<enabled, seen, told, timeline, due>>

-----------------------------------------------------------------------------
(* The offline watcher. *)

\* Five minutes pass without a touch.
Silence(a) ==
  /\ seen[a] = "fresh" /\ ~HasServer(a)
  /\ seen' = [seen EXCEPT ![a] = "stale"]
  /\ UNCHANGED <<enabled, told, timeline, due, link>>

Sweep(matching) ==
  /\ due = {}
  /\ \E S \in SUBSET matching :
       /\ Cardinality(S) <= SweepLimit
       /\ Cardinality(S) = SweepLimit \/ S = matching
       /\ due' = S
  /\ UNCHANGED <<enabled, seen, told, timeline, link>>

\* The sweep without the NOT EXISTS.
EmitStaleAgentOffline_Again == Sweep({a \in enabled : seen[a] = "stale"})

\* The sweep that passes over agents whose last event says offline already.
EmitStaleAgentOffline_Once ==
  Sweep({a \in enabled : seen[a] = "stale" /\ timeline[a] # "offline"})

\* The query of emitStaleAgentOffline; the loop over its rows follows.
EmitStaleAgentOffline == Sweep({a \in enabled : seen[a] = "stale" /\ ~told[a]})

\* The event is dated now, whatever became of the row since the query.
EmitOffline(a) ==
  /\ a \in due
  /\ due' = due \ {a}
  /\ told' = [told EXCEPT ![a] = TRUE]
  /\ timeline' = [timeline EXCEPT ![a] = "offline"]
  /\ UNCHANGED <<enabled, seen, link>>

\* The INSERT fails; the error is dropped.
EmitOfflineFails(a) ==
  /\ Fault /\ a \in due
  /\ due' = due \ {a}
  /\ UNCHANGED <<enabled, seen, told, timeline, link>>

\* PATCH isActive.
ToggleAgent(a) ==
  /\ enabled' = IF a \in enabled THEN enabled \ {a} ELSE enabled \cup {a}
  /\ UNCHANGED <<seen, told, timeline, due, link>>

-----------------------------------------------------------------------------
PresenceInit ==
  /\ enabled = Agent
  /\ seen = [a \in Agent |-> "never"]
  /\ told = [a \in Agent |-> FALSE]
  /\ timeline = [a \in Agent |-> "none"]
  /\ due = {}
  /\ link = [l \in Link |-> None]

LinkStep(l) ==
  \/ \E a \in Agent : Dial(l, a)
  \/ SendHeartbeat(l) \/ SendSnapshot(l) \/ PumpWrites(l) \/ PumpFails(l)
  \/ ClientEnds(l)
  \/ HeartbeatTouch(l) \/ DropFrame(l) \/ IngestMetrics(l)
  \/ EnrichAfterMetricsIngest(l) \/ ServerEnds(l)

AgentStep(a) ==
  Silence(a) \/ EmitOffline(a) \/ EmitOfflineFails(a) \/ ToggleAgent(a)

PresenceNext ==
  \/ \E l \in Link : LinkStep(l)
  \/ \E a \in Agent : AgentStep(a)
  \/ EmitStaleAgentOffline

\* Time passes; a half-open connection is found out by the server's ping; the
\* sweep runs every minute.
PresenceFairness ==
  /\ \A l \in Link :
       /\ WF_presenceVars(focus = "presence" /\ ServerEnds(l) /\ ~link[l].client)
       /\ WF_presenceVars(focus = "presence" /\ EnrichAfterMetricsIngest(l))
  /\ \A a \in Agent :
       /\ WF_presenceVars(focus = "presence" /\ Silence(a))
       /\ WF_presenceVars(focus = "presence" /\ (EmitOffline(a) \/ EmitOfflineFails(a)))
  /\ WF_presenceVars(focus = "presence" /\ EmitStaleAgentOffline)

-----------------------------------------------------------------------------
(* Properties. *)

\* A silence is announced once, however many sweeps it lasts and whatever touches
\* fall between a sweep's query and its events (agent_presence.go:36).
OfflineOncePerSilence ==
  [][\A a \in Agent : a \in due \ due' /\ told'[a] => ~told[a]]_presenceVars

\* A host that is gone for good is announced in the end: a connection the server
\* still holds open keeps the row fresh only until the server finds it dead.
SilenceIsAnnounced ==
  \A a \in Agent :
    <>[](a \in enabled /\ seen[a] # "never" /\ ~HasClient(a)) => <>[]told[a]
=============================================================================
