------------------------------ MODULE HostPeers ------------------------------
(***************************************************************************)
(* Whom a host talks to and how far away it is (internal/probe:            *)
(* snapshot.go, dnscache.go, extras.go, latency.go): the sockets of a      *)
(* snapshot, a cache of names, the rows of the latency loop.               *)
(*                                                                         *)
(* One peer, connected to one port of the host.  The rows of equal peers   *)
(* that are counted as one, and the order of the table, are left out.      *)
(***************************************************************************)
EXTENDS Shared

VARIABLES
  listening,   \* a process listens on the port
  talking,     \* the peer's connection to it is in a state that is shown
  pointer,     \* the peer's address has a name in the DNS
  dnsCache,    \* the answer kept: None, "name", or "miss"
  asking,      \* a worker of resolveBatch is looking the address up
  socketRow,   \* the peer's row in the snapshot being made, None before it is made
  latencyRows, \* extras.latency of one target
  icmpBroken,
  network      \* the snapshot received last

peersVars == <<listening, talking, pointer, dnsCache, asking, socketRow, latencyRows,
               icmpBroken, network>>

-----------------------------------------------------------------------------
Direction == {"inbound", "outbound"}
Latency == {None, "lost", "measured"}
Network == [direction : Direction \cup {None}, named : BOOLEAN, latency : Latency,
            warned : BOOLEAN]

PeersTypeOK ==
  /\ {listening, talking, pointer, asking, icmpBroken} \subseteq BOOLEAN
  /\ dnsCache \in {None, "name", "miss"}
  /\ socketRow # None =>
       socketRow \in [direction : Direction \cup {None}, name : {None, "name", "miss"}]
  /\ latencyRows \in Latency
  /\ network \in Network

-----------------------------------------------------------------------------
(* The host, the peer and the DNS. *)

HostChanges ==
  /\ \/ listening' = ~listening /\ UNCHANGED <<talking, pointer>>
     \/ talking' = ~talking /\ UNCHANGED <<listening, pointer>>
     \/ pointer' = ~pointer /\ UNCHANGED <<listening, talking>>
  /\ UNCHANGED <<dnsCache, asking, socketRow, latencyRows, icmpBroken, network>>

\* An hour for a name, five minutes for a miss.
Expires_NamesOnly == dnsCache = "name"

Expires == dnsCache # None

DnsExpires ==
  /\ Expires /\ dnsCache' = None
  /\ UNCHANGED <<listening, talking, pointer, asking, socketRow, latencyRows, icmpBroken, network>>

-----------------------------------------------------------------------------
(* collectSockets and resolveBatch. *)

\* The connection is known for an inbound one if the listener's row comes before its own.
\* No lookup of the snapshot before lasts a minute.
ReadSockets ==
  /\ socketRow = None /\ ~asking
  /\ \E listenerFirst \in BOOLEAN :
       socketRow' = [direction |-> IF ~talking THEN None
                             ELSE IF listening /\ listenerFirst THEN "inbound" ELSE "outbound",
               name |-> IF talking THEN dnsCache ELSE None]
  /\ asking' = (talking /\ dnsCache = None)
  /\ UNCHANGED <<listening, talking, pointer, dnsCache, latencyRows, icmpBroken, network>>

\* A lookup that was cut off is a miss as much as one without an answer.
AnswerName ==
  /\ asking /\ asking' = FALSE
  /\ \/ dnsCache' = IF pointer THEN "name" ELSE "miss"
     \/ Fault /\ dnsCache' = "miss"
  /\ socketRow' = IF socketRow = None THEN None ELSE [socketRow EXCEPT !.name = dnsCache']
  /\ UNCHANGED <<listening, talking, pointer, latencyRows, icmpBroken, network>>

\* CollectSnapshot goes on with the names there are: all of the batch, or at the total
\* time-out those until then.  The snapshot is sent, or lost with the connection.
ShowNetwork ==
  /\ socketRow # None /\ (~asking \/ Fault)
  /\ socketRow' = None
  /\ \/ network' = [direction |-> socketRow.direction, named |-> socketRow.name = "name",
                    latency |-> latencyRows, warned |-> icmpBroken]
     \/ Fault /\ UNCHANGED network
  /\ UNCHANGED <<listening, talking, pointer, dnsCache, asking, latencyRows, icmpBroken>>

-----------------------------------------------------------------------------
(* runLatencyLoop and ProbeICMP. *)

\* Four echoes: a target without an answer has a row that says so.  Without a raw socket
\* there are no rows.
Echoes == IF Fault THEN {"measured", "lost", None} ELSE {"measured"}

\* The flag is never taken back.
ProbeLatency ==
  /\ latencyRows' \in Echoes
  /\ icmpBroken' = (icmpBroken \/ latencyRows' = None)
  /\ UNCHANGED <<listening, talking, pointer, dnsCache, asking, socketRow, network>>

-----------------------------------------------------------------------------
PeersInit ==
  /\ listening = FALSE /\ talking = FALSE /\ pointer = FALSE
  /\ dnsCache = None /\ asking = FALSE /\ socketRow = None
  /\ latencyRows = None /\ icmpBroken = FALSE
  /\ network = [direction |-> None, named |-> FALSE, latency |-> None, warned |-> FALSE]

SocketStep == ReadSockets \/ ShowNetwork

PeersNext ==
  \/ HostChanges \/ DnsExpires \/ AnswerName \/ ProbeLatency
  \/ SocketStep

\* Snapshots and latency ticks go on; lookups end; answers age.
PeersFairness ==
  /\ WF_peersVars(focus = "peers" /\ SocketStep)
  /\ WF_peersVars(focus = "peers" /\ AnswerName)
  /\ WF_peersVars(focus = "peers" /\ ProbeLatency)
  /\ WF_peersVars(focus = "peers" /\ DnsExpires)

-----------------------------------------------------------------------------
(* Properties. *)

\* A peer that stays and has a name is shown with its name again and again, though
\* lookups were cut off and kept as misses; latency comes back (dnscache.go:50).
NetworkArrives ==
  <>[](focus = "peers" /\ talking /\ pointer) =>
    []<>(network.direction # None /\ network.named /\ network.latency = "measured")
=============================================================================
