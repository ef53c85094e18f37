------------------------------- MODULE Topology -------------------------------
(***************************************************************************)
(* The graph of a site (internal/api/handlers_topology.go,                 *)
(* handlers_topology_extend.go), made anew for each request from what the  *)
(* appliances report of their neighbours: two ends, two protocols and two  *)
(* names may report one link.  The query has no ORDER BY: the rows come in *)
(* any order.                                                              *)
(*                                                                         *)
(* An appliance is its own display name.  Ports, rates, tags, labels and   *)
(* status are left out; the two kinds of VPN peers are one.                *)
(***************************************************************************)
EXTENDS Shared, Naturals, FiniteSets

CONSTANTS
  NetDevice,   \* appliances of the site
  Stranger,    \* names of devices that are no appliance, unless one has it for sys_name
  Unnamed,     \* the address of a neighbour without a name
  Internet,    \* the cloud node
  Contained,   \* pairs of a stranger and an appliance: one name is part of the other
  ReportLimit  \* bound on the reports of the site

ASSUME TopologyAssumption ==
  /\ Contained \subseteq {{s, a} : s \in Stranger, a \in NetDevice}
  /\ ReportLimit \in Nat
  /\ None \notin NetDevice /\ Unnamed \notin NetDevice \cup Stranger \cup {None}

VARIABLES
  sysName, \* of each appliance: sys_name, None before the first poll
  heardOf, \* of each appliance: the reports of its last_snapshot
  graph    \* what a request has drawn, None once the rows have changed

topologyVars == <<sysName, heardOf, graph>>

-----------------------------------------------------------------------------
Hostname == NetDevice \cup Stranger

\* of: the name of a neighbour or of a peer, or what it has for a name.  Of the tunnels
\* only one that is up counts.
Report ==
  [kind : {"lldp"}, of : Hostname, up : BOOLEAN]
    \cup [kind : {"cdp", "vpn"}, of : Hostname \cup {Unnamed}, up : BOOLEAN]
    \cup [kind : {"wan"}, of : {Internet}, up : BOOLEAN]
    \cup [kind : {"tunnel"}, of : {Internet}, up : {TRUE}]

ForeignID(p) == <<IF p.kind = "vpn" THEN "vpn" ELSE "l2", p.of>>

\* LLDP and CDP are one family.  A peer of a VPN is one with its name: the two ends of
\* an Auto-VPN link, each of which tells of the other one, are not.
Family(p) ==
  CASE p.kind \in {"lldp", "cdp"} -> <<"l2">>
    [] p.kind = "vpn" -> <<"vpn", p.of>>
    [] OTHER -> <<p.kind>>

TopologyNode == NetDevice \cup {Internet} \cup {ForeignID(p) : p \in Report}
TopologyEdge ==
  [from : NetDevice, ends : SUBSET TopologyNode, family : {Family(p) : p \in Report},
   protocol : {"lldp", "cdp", "both", "vpn", "wan", "tunnel"}, up : BOOLEAN]

\* sysIndex: the appliance of each name.  todo: the reports still to be drawn.
Drawing == [nodes : SUBSET TopologyNode, edges : SUBSET TopologyEdge,
            sysIndex : [Hostname -> NetDevice \cup {None}], todo : SUBSET (NetDevice \X Report)]

TopologyTypeOK ==
  /\ sysName \in [NetDevice -> Hostname \cup {None}]
  /\ heardOf \in [NetDevice -> SUBSET Report]
  /\ graph # None => graph \in Drawing

Reported == UNION {{a} \X heardOf[a] : a \in NetDevice}

-----------------------------------------------------------------------------
(* Polls.  One replaces the snapshot: here a row of it at a time, as only the *)
(* request reads it.  What a request under way then draws is of rows that are *)
(* no more.                                                                   *)

\* A name that is the display name too names nothing more.
SystemNamed(a) ==
  /\ \E h \in Hostname \ {a} : sysName' = [sysName EXCEPT ![a] = h]
  /\ graph' = None /\ UNCHANGED heardOf

ReportChanges(a) ==
  /\ \/ /\ Cardinality(Reported) < ReportLimit
        /\ \E p \in Report : heardOf' = [heardOf EXCEPT ![a] = @ \cup {p}]
     \/ \E p \in heardOf[a] : heardOf' = [heardOf EXCEPT ![a] = @ \ {p}]
  /\ graph' = None /\ UNCHANGED sysName

-----------------------------------------------------------------------------
(* handleTopology, for one request: what others draw meanwhile is their own. *)

Named(h) == {a \in NetDevice : h \in {a, sysName[a]}}

\* sysIndex: of two rows with one name the later has it, and the rows are in no order.
SysIndex(index) ==
  \A h \in Hostname : IF Named(h) = {} THEN index[h] = None ELSE index[h] \in Named(h)

ReadRows ==
  /\ \E index \in [Hostname -> NetDevice \cup {None}] :
       /\ SysIndex(index)
       /\ graph' = [nodes |-> NetDevice, edges |-> {}, sysIndex |-> index, todo |-> Reported]
  /\ UNCHANGED <<sysName, heardOf>>

SoftMatches(h) == {a \in NetDevice : \E k \in {a, sysName[a]} : {h, k} \in Contained}

\* resolveVPNPeerID goes through a map, in any order: it takes what it comes across.
RemoteIDs(index, p) ==
  IF p.of = Internet THEN {Internet}
  ELSE IF p.of \in Hostname /\ index[p.of] # None THEN {index[p.of]}
  ELSE IF p.kind = "vpn" /\ SoftMatches(p.of) # {} THEN SoftMatches(p.of)
  ELSE {ForeignID(p)}

SameLink_Directed(e, a, b, family) == e.from = a /\ e.ends = {a, b} /\ e.family = family

\* edgeKey: the pair, not its order.
SameLink(e, a, b, family) == e.ends = {a, b} /\ e.family = family

\* addEdge and putVPNEdge.  An uplink replaces the one there is; a link that is reported
\* again is up if one report says so, and found by both protocols if they differ.
Merge(e, p) ==
  IF p.kind = "wan" THEN [e EXCEPT !.up = p.up]
  ELSE [e EXCEPT !.up = @ \/ p.up, !.protocol = IF @ = p.kind THEN @ ELSE "both"]

AddEdge(edges, a, p, b) ==
  LET same == {e \in edges : SameLink(e, a, b, Family(p))}
      made == [from |-> a, ends |-> {a, b}, family |-> Family(p), protocol |-> p.kind,
               up |-> p.up]
  IN  IF same = {} THEN edges \cup {made}
      ELSE (edges \ same) \cup {Merge(e, p) : e \in same}

\* The appliances are in no order, and the order of the reports of one is of no account.
\* A peer of a VPN that is the appliance itself is left out, a neighbour is not.
AddReport(a, p) ==
  /\ graph # None /\ <<a, p>> \in graph.todo
  /\ \E b \in RemoteIDs(graph.sysIndex, p) :
       graph' = IF p.kind = "vpn" /\ a = b
                THEN [graph EXCEPT !.todo = @ \ {<<a, p>>}]
                ELSE [graph EXCEPT !.todo = @ \ {<<a, p>>}, !.nodes = @ \cup {b},
                                   !.edges = AddEdge(@, a, p, b)]
  /\ UNCHANGED <<sysName, heardOf>>

-----------------------------------------------------------------------------
TopologyInit ==
  /\ sysName = [a \in NetDevice |-> None]
  /\ heardOf = [a \in NetDevice |-> {}]
  /\ graph = None

TopologyNext ==
  \/ \E a \in NetDevice : SystemNamed(a) \/ ReportChanges(a)
  \/ ReadRows \/ \E a \in NetDevice : \E p \in heardOf[a] : AddReport(a, p)

-----------------------------------------------------------------------------
(* Properties. *)

\* The nodes a report may mean: an appliance of that name if there is one.
Meant(p) ==
  IF p.of = Internet THEN {Internet}
  ELSE IF Named(p.of) # {} THEN Named(p.of)
  ELSE IF p.kind = "vpn" /\ SoftMatches(p.of) # {} THEN SoftMatches(p.of)
  ELSE {ForeignID(p)}

\* A report of a link between these ends.
Says(r, e) == Family(r[2]) = e.family /\ \E b \in Meant(r[2]) : e.ends = {r[1], b}

\* Each of these reports is drawn, and up if it says so.
AllDrawn(said) ==
  \A r \in said :
    \/ r[2].kind = "vpn" /\ r[1] \in Meant(r[2])
    \/ \E e \in graph.edges : Says(r, e) /\ (r[2].up => e.up \/ r[2].kind = "wan")

LinkKind(e) == e.family[1]

\* Only a peer of a VPN that is told of under two names is drawn twice.
OneEdgePerLink ==
  \A e, f \in graph.edges :
    e.ends = f.ends /\ LinkKind(e) = LinkKind(f) =>
      e = f \/ (LinkKind(e) = "vpn" /\ e.family # f.family)

\* What is drawn one of these reports said.
NothingMadeUp(said) ==
  \A e \in graph.edges :
    LET sayingSo == {r \in said : Says(r, e)} IN
    /\ sayingSo # {} /\ (e.up => \E r \in sayingSo : r[2].up)
    /\ e.protocol = "both" => {"lldp", "cdp"} \subseteq {r[2].kind : r \in sayingSo}

EndsAreNodes == graph.nodes = NetDevice \cup UNION {e.ends : e \in graph.edges}

Complete == graph # None /\ graph.todo = {}

\* In whatever order the rows come: each report is drawn, once with all that report the
\* same link (a VPN peer: under the same name), and up if one of them says so; what is
\* drawn was reported, both protocols by both; and no link ends nowhere
\* (handlers_topology.go:130-138).
GraphIsTrue ==
  Complete =>
    AllDrawn(Reported) /\ OneEdgePerLink /\ NothingMadeUp(Reported) /\ EndsAreNodes
=============================================================================
