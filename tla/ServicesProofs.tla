----------------------------- MODULE ServicesProofs -----------------------------
(***************************************************************************)
(* The services composed, proved with TLAPS.  A component of Services has  *)
(* its own specification's steps and no others; so what was proved of each *)
(* alone holds of the behaviours that the runs check.                      *)
(***************************************************************************)
EXTENDS Services, EnrollmentProofs, ProbeProofs, PassiveInventoryProofs, TLAPS

-----------------------------------------------------------------------------
(* A component in company. *)

LEMMA EnrollmentInCompany ==
  [ServicesNext]_servicesVars => [EnrollmentNext]_enrollmentVars
  BY DEF ServicesNext, FaultsEnd, OthersStill, servicesVars

LEMMA PresenceInCompany ==
  [ServicesNext]_servicesVars => [PresenceNext]_presenceVars
  BY DEF ServicesNext, FaultsEnd, OthersStill, servicesVars

LEMMA UpdateInCompany ==
  [ServicesNext]_servicesVars => [UpdateNext]_updateVars
  BY DEF ServicesNext, FaultsEnd, OthersStill, servicesVars

LEMMA PassiveInCompany ==
  [ServicesNext]_servicesVars => [PassiveNext]_passiveVars
  BY DEF ServicesNext, FaultsEnd, OthersStill, servicesVars

-----------------------------------------------------------------------------
(* The graph of a site, while it is drawn. *)

\* A link that one protocol found was reported in that protocol.
ProtocolsAreTrue(said) ==
  \A e \in graph.edges :
    e.protocol = "both" \/ \E r \in said : Says(r, e) /\ r[2].kind = e.protocol

\* Two edges between the same ends are of two families.
OneEdgePerFamily ==
  \A e, f \in graph.edges : e.ends = f.ends /\ e.family = f.family => e = f

\* What GraphIsTrue says of the answer holds at any time of what has been drawn so far.
Drawn ==
  LET said == Reported \ graph.todo IN
  /\ graph.todo \subseteq Reported /\ SysIndex(graph.sysIndex)
  /\ AllDrawn(said) /\ OneEdgePerFamily /\ NothingMadeUp(said) /\ ProtocolsAreTrue(said)
  /\ EndsAreNodes

TopologyInv == TopologyTypeOK /\ (graph # None => Drawn)

TopologyAlone == TopologyInit /\ [][TopologyNext]_topologyVars

LEMMA ReportsHaveFields ==
  ASSUME NEW p \in Report
  PROVE  /\ p.kind \in {"lldp", "cdp", "vpn", "wan", "tunnel"} /\ p.up \in BOOLEAN
         /\ p.of \in Hostname \cup {Unnamed, Internet}
  BY DEF Report

\* Two protocols draw one kind of link only if they are LLDP and CDP.
LEMMA FamilyTellsKind ==
  ASSUME NEW p \in Report, NEW q \in Report, Family(p) = Family(q), p.kind # q.kind
  PROVE  {p.kind, q.kind} = {"lldp", "cdp"}
  BY ReportsHaveFields DEF Family

\* Of each kind of link but a VPN there is one family.
LEMMA FamiliesDiffer ==
  ASSUME NEW p \in Report, NEW q \in Report, Family(p)[1] = Family(q)[1],
         Family(p)[1] # "vpn"
  PROVE  Family(p) = Family(q)
  BY ReportsHaveFields DEF Family

\* A node that a report leads to is one it may mean.
LEMMA ResolvedAsMeant ==
  ASSUME TopologyTypeOK, NEW index \in [Hostname -> NetDevice \cup {None}], SysIndex(index),
         NEW p \in Report, NEW b \in RemoteIDs(index, p)
  PROVE  b \in Meant(p)
<1>1. CASE p.of \in Hostname /\ p.of # Internet
  <2>1. CASE Named(p.of) = {}
    <3>1. index[p.of] = None
      BY <1>1, <2>1 DEF SysIndex
    <3>. QED
      BY <1>1, <2>1, <3>1 DEF RemoteIDs, Meant
  <2>2. CASE Named(p.of) # {}
    <3>1. index[p.of] \in Named(p.of)
      BY <1>1, <2>2 DEF SysIndex
    <3>2. index[p.of] # None
      BY <3>1, TopologyAssumption DEF Named
    <3>. QED
      BY <1>1, <2>2, <3>1, <3>2 DEF RemoteIDs, Meant
  <2>. QED
    BY <2>1, <2>2
<1>2. CASE p.of = Internet
  BY <1>2 DEF RemoteIDs, Meant
<1>3. CASE p.of \notin Hostname /\ p.of # Internet
  <2>1. p.of = Unnamed
    BY <1>3, ReportsHaveFields
  <2>2. Named(p.of) = {}
    BY <2>1, TopologyAssumption DEF Named, TopologyTypeOK, Hostname
  <2>. QED
    BY <1>3, <2>2 DEF RemoteIDs, Meant
<1>. QED
  BY <1>1, <1>2, <1>3

LEMMA MeantAreNodes ==
  ASSUME NEW p \in Report
  PROVE  Meant(p) \subseteq TopologyNode
  BY DEF Meant, Named, SoftMatches, TopologyNode

\* What becomes of an edge that is reported again.
LEMMA MergeEffect ==
  ASSUME NEW e \in TopologyEdge, NEW p \in Report
  PROVE  LET m == Merge(e, p) IN
         /\ m \in TopologyEdge /\ m.ends = e.ends /\ m.family = e.family
         /\ m.up = IF p.kind = "wan" THEN p.up ELSE e.up \/ p.up
         /\ m.protocol = IF p.kind = "wan" \/ e.protocol = p.kind THEN e.protocol ELSE "both"
  BY ReportsHaveFields DEF Merge, TopologyEdge

\* The edges after one more report: the one it draws, and the others as they were.
LEMMA AddEdgeEffect ==
  ASSUME NEW edges \in SUBSET TopologyEdge, NEW a \in NetDevice, NEW p \in Report,
         NEW b \in TopologyNode,
         \A e, f \in edges : e.ends = f.ends /\ e.family = f.family => e = f
  PROVE  \E d \in TopologyEdge :
           /\ AddEdge(edges, a, p, b) = {e \in edges : ~SameLink(e, a, b, Family(p))} \cup {d}
           /\ SameLink(d, a, b, Family(p))
           /\ \/ /\ \A e \in edges : ~SameLink(e, a, b, Family(p))
                 /\ d.up = p.up /\ d.protocol = p.kind
              \/ \E e \in edges : SameLink(e, a, b, Family(p)) /\ d = Merge(e, p)
<1>. DEFINE same == {e \in edges : SameLink(e, a, b, Family(p))}
            made == [from |-> a, ends |-> {a, b}, family |-> Family(p), protocol |-> p.kind,
                     up |-> p.up]
<1>1. AddEdge(edges, a, p, b) = IF same = {} THEN edges \cup {made}
                                ELSE (edges \ same) \cup {Merge(e, p) : e \in same}
  BY DEF AddEdge
<1>2. CASE same = {}
  <2>1. made \in TopologyEdge
    BY ReportsHaveFields DEF TopologyEdge, TopologyNode
  <2>2. SameLink(made, a, b, Family(p)) /\ made.up = p.up /\ made.protocol = p.kind
    BY DEF SameLink
  <2>. HIDE DEF made
  <2>3. \A e \in edges : ~SameLink(e, a, b, Family(p))
    BY <1>2
  <2>4. AddEdge(edges, a, p, b) = {e \in edges : ~SameLink(e, a, b, Family(p))} \cup {made}
    BY <1>1, <1>2, <2>3
  <2>. QED
    BY <2>1, <2>2, <2>3, <2>4
<1>3. CASE same # {}
  <2>1. PICK e \in edges : SameLink(e, a, b, Family(p))
    BY <1>3
  <2>2. same = {e}
    BY <2>1 DEF SameLink
  <2>3. Merge(e, p) \in TopologyEdge /\ SameLink(Merge(e, p), a, b, Family(p))
    BY <2>1, MergeEffect DEF SameLink
  <2>4. AddEdge(edges, a, p, b) = (edges \ same) \cup {Merge(e, p)}
    BY <1>1, <1>3, <2>2
  <2>5. edges \ same = {f \in edges : ~SameLink(f, a, b, Family(p))}
    OBVIOUS
  <2>. QED
    BY <2>1, <2>3, <2>4, <2>5
<1>. QED
  BY <1>2, <1>3
\* What a report says depends on the rows only.
LEMMA SaidOfRows ==
  ASSUME UNCHANGED <<sysName, heardOf>>
  PROVE  /\ Reported' = Reported
         /\ \A h : Named(h)' = Named(h)
         /\ \A index : SysIndex(index)' <=> SysIndex(index)
         /\ \A r, e : Says(r, e)' <=> Says(r, e)
         /\ \A p : Meant(p)' = Meant(p)
  BY DEF Reported, Named, SysIndex, Says, Meant, SoftMatches

LEMMA ReportedIsTyped ==
  ASSUME TopologyTypeOK
  PROVE  Reported \subseteq NetDevice \X Report
  BY DEF Reported, TopologyTypeOK

\* A request that has just read the rows.
LEMMA ReadRowsDraws ==
  ASSUME TopologyTypeOK, ReadRows
  PROVE  TopologyTypeOK' /\ Drawn'
<1>1. PICK index \in [Hostname -> NetDevice \cup {None}] :
        /\ SysIndex(index)
        /\ graph' = [nodes |-> NetDevice, edges |-> {}, sysIndex |-> index, todo |-> Reported]
  BY DEF ReadRows
<1>2. UNCHANGED <<sysName, heardOf>>
  BY DEF ReadRows
<1>3. TopologyTypeOK'
  <2>1. Reported \in SUBSET (NetDevice \X Report)
    BY ReportedIsTyped
  <2>2. NetDevice \in SUBSET TopologyNode /\ {} \in SUBSET TopologyEdge
    BY DEF TopologyNode
  <2>3. graph' \in Drawing
    BY <1>1, <2>1, <2>2 DEF Drawing
  <2>. QED
    BY <1>2, <2>3 DEF TopologyTypeOK
<1>4. Drawn'
  BY <1>1, <1>2, SaidOfRows
  DEF Drawn, AllDrawn, OneEdgePerFamily, NothingMadeUp, ProtocolsAreTrue, EndsAreNodes
<1>. QED
  BY <1>3, <1>4

\* A report that is left out: the appliance is its own peer.
LEMMA ReportLeftOut ==
  ASSUME TopologyTypeOK, Drawn, graph # None, UNCHANGED <<sysName, heardOf>>,
         NEW a \in NetDevice, NEW p \in Report, <<a, p>> \in graph.todo,
         p.kind = "vpn", a \in Meant(p),
         graph' = [graph EXCEPT !.todo = @ \ {<<a, p>>}]
  PROVE  TopologyTypeOK' /\ Drawn'
<1>1. /\ graph \in Drawing /\ graph' \in Drawing
      /\ graph'.nodes = graph.nodes /\ graph'.edges = graph.edges
      /\ graph'.sysIndex = graph.sysIndex /\ graph'.todo = graph.todo \ {<<a, p>>}
  BY DEF TopologyTypeOK, Drawing
<1>2. TopologyTypeOK'
  BY <1>1 DEF TopologyTypeOK
<1>. DEFINE said == Reported \ graph.todo
<1>3. <<a, p>> \in Reported /\ (Reported \ graph.todo)' = said \cup {<<a, p>>}
  BY <1>1, SaidOfRows DEF Drawn
<1>4. AllDrawn(said)' /\ AllDrawn(said \cup {<<a, p>>})'
  BY <1>1, <1>3, SaidOfRows DEF Drawn, AllDrawn
<1>. QED
  BY <1>1, <1>2, <1>3, <1>4, SaidOfRows
  DEF Drawn, AllDrawn, OneEdgePerFamily, NothingMadeUp, ProtocolsAreTrue, EndsAreNodes

\* A report that is drawn.
LEMMA ReportDrawn ==
  ASSUME TopologyTypeOK, Drawn, graph # None, UNCHANGED <<sysName, heardOf>>,
         NEW a \in NetDevice, NEW p \in Report, <<a, p>> \in graph.todo,
         NEW b \in Meant(p),
         graph' = [graph EXCEPT !.todo = @ \ {<<a, p>>}, !.nodes = @ \cup {b},
                                !.edges = AddEdge(@, a, p, b)]
  PROVE  TopologyTypeOK' /\ Drawn'
<1>. DEFINE sameLink(e) == SameLink(e, a, b, Family(p))
            said == Reported \ graph.todo
            saidNow == said \cup {<<a, p>>}
            before == graph.edges
            now == AddEdge(before, a, p, b)
<1>1. /\ graph.nodes \in SUBSET TopologyNode /\ before \in SUBSET TopologyEdge
      /\ graph.todo \in SUBSET (NetDevice \X Report)
      /\ b \in TopologyNode
  BY MeantAreNodes DEF TopologyTypeOK, Drawing
<1>2. PICK d \in TopologyEdge :
        /\ now = {e \in before : ~sameLink(e)} \cup {d}
        /\ sameLink(d)
        /\ \/ (\A e \in before : ~sameLink(e)) /\ d.up = p.up /\ d.protocol = p.kind
           \/ \E e \in before : sameLink(e) /\ d = Merge(e, p)
  BY <1>1, AddEdgeEffect DEF Drawn, OneEdgePerFamily
<1>3. /\ graph'.nodes = graph.nodes \cup {b} /\ graph'.edges = now
      /\ graph'.sysIndex = graph.sysIndex /\ graph'.todo = graph.todo \ {<<a, p>>}
  BY DEF TopologyTypeOK, Drawing
<1>4. TopologyTypeOK'
  <2>1. graph'.nodes \in SUBSET TopologyNode /\ now \in SUBSET TopologyEdge
        /\ graph'.todo \in SUBSET (NetDevice \X Report)
    BY <1>1, <1>2, <1>3
  <2>. HIDE DEF now
  <2>2. graph' \in Drawing
    BY <1>3, <2>1 DEF TopologyTypeOK, Drawing
  <2>. QED
    BY <2>2 DEF TopologyTypeOK
<1>5. <<a, p>> \in Reported /\ (Reported \ graph.todo)' = saidNow
  BY <1>3, SaidOfRows DEF Drawn
<1>6. said \subseteq NetDevice \X Report
  BY ReportedIsTyped
<1>7. Says(<<a, p>>, d)
  BY <1>2 DEF Says, SameLink
<1>. HIDE DEF now, before, said
<1>8. /\ \A r \in said :
           \/ r[2].kind = "vpn" /\ r[1] \in Meant(r[2])
           \/ \E e \in before : Says(r, e) /\ (r[2].up => e.up \/ r[2].kind = "wan")
      /\ \A e, f \in before : e.ends = f.ends /\ e.family = f.family => e = f
      /\ \A e \in before : LET sayingSo == {r \in said : Says(r, e)} IN
           /\ sayingSo # {} /\ (e.up => \E r \in sayingSo : r[2].up)
           /\ e.protocol = "both" => {"lldp", "cdp"} \subseteq {r[2].kind : r \in sayingSo}
      /\ \A e \in before :
           e.protocol = "both" \/ \E r \in said : Says(r, e) /\ r[2].kind = e.protocol
      /\ graph.nodes = NetDevice \cup UNION {e.ends : e \in before}
  BY DEF Drawn, AllDrawn, OneEdgePerFamily, NothingMadeUp, ProtocolsAreTrue, EndsAreNodes,
         before, said
<1>9. \A e \in before : sameLink(e) =>
        /\ d.ends = e.ends /\ d.family = e.family
        /\ p.kind # "wan" => (d.up <=> e.up \/ p.up)
        /\ p.kind = "wan" => (d.up <=> p.up)
        /\ d.protocol = (IF p.kind = "wan" \/ e.protocol = p.kind THEN e.protocol ELSE "both")
  <2>. SUFFICES ASSUME NEW e \in before, sameLink(e)
                PROVE  /\ d.ends = e.ends /\ d.family = e.family
                       /\ p.kind # "wan" => (d.up <=> e.up \/ p.up)
                       /\ p.kind = "wan" => (d.up <=> p.up)
                       /\ d.protocol = (IF p.kind = "wan" \/ e.protocol = p.kind
                                         THEN e.protocol ELSE "both")
    OBVIOUS
  <2>1. d = Merge(e, p)
    BY <1>2, <1>8 DEF SameLink
  <2>2. e \in TopologyEdge
    BY <1>1
  <2>. QED
    BY <2>1, <2>2, MergeEffect
<1>10. \A r \in said, e \in before : sameLink(e) /\ Says(r, e) => Says(r, d)
  BY <1>9 DEF Says
<1>11. \A r \in said, e \in before : sameLink(e) /\ Says(r, e) =>
         r[2] \in Report /\ Family(r[2]) = Family(p)
  BY <1>6 DEF Says, SameLink
<1>12. \A r \in saidNow :
         \/ r[2].kind = "vpn" /\ r[1] \in Meant(r[2])
         \/ \E e \in now : Says(r, e) /\ (r[2].up => e.up \/ r[2].kind = "wan")
  <2>1. Says(<<a, p>>, d) /\ (p.up => d.up \/ p.kind = "wan")
    BY <1>2, <1>7, <1>9
  <2>2. ASSUME NEW r \in said, ~(r[2].kind = "vpn" /\ r[1] \in Meant(r[2]))
        PROVE  \E e \in now : Says(r, e) /\ (r[2].up => e.up \/ r[2].kind = "wan")
    <3>1. PICK e \in before : Says(r, e) /\ (r[2].up => e.up \/ r[2].kind = "wan")
      BY <1>8, <2>2
    <3>2. CASE ~sameLink(e)
      BY <1>2, <3>1, <3>2
    <3>3. CASE sameLink(e)
      <4>1. Says(r, d) /\ (p.kind = "wan" => r[2].kind = "wan")
        BY <1>10, <1>11, <3>1, <3>3, FamilyTellsKind
      <4>2. r[2].up => d.up \/ r[2].kind = "wan"
        BY <1>9, <3>1, <3>3, <4>1
      <4>. QED
        BY <1>2, <4>1, <4>2
    <3>. QED
      BY <3>2, <3>3
  <2>. QED
    BY <1>2, <2>1, <2>2
<1>13. \A e, f \in now : e.ends = f.ends /\ e.family = f.family => e = f
  BY <1>2, <1>8 DEF SameLink
<1>14. ASSUME NEW e \in now
       PROVE  LET sayingSo == {r \in saidNow : Says(r, e)} IN
              /\ sayingSo # {} /\ (e.up => \E r \in sayingSo : r[2].up)
              /\ e.protocol = "both" => {"lldp", "cdp"} \subseteq {r[2].kind : r \in sayingSo}
  <2>1. CASE e \in before
    BY <1>8, <2>1
  <2>2. CASE e = d
    <3>1. CASE (\A f \in before : ~sameLink(f)) /\ d.up = p.up /\ d.protocol = p.kind
      BY <1>7, <2>2, <3>1, ReportsHaveFields
    <3>2. ASSUME NEW f \in before, sameLink(f)
          PROVE  LET sayingSo == {r \in saidNow : Says(r, d)} IN
                 /\ sayingSo # {} /\ (d.up => \E r \in sayingSo : r[2].up)
                 /\ d.protocol = "both" =>
                      {"lldp", "cdp"} \subseteq {r[2].kind : r \in sayingSo}
      <4>1. d.up => \E r \in saidNow : Says(r, d) /\ r[2].up
        <5>1. p.up => \E r \in saidNow : Says(r, d) /\ r[2].up
          BY <1>7
        <5>2. f.up => \E r \in saidNow : Says(r, d) /\ r[2].up
          BY <1>8, <1>10, <3>2
        <5>3. d.up => f.up \/ p.up
          BY <1>9, <3>2
        <5>. QED
          BY <5>1, <5>2, <5>3
      <4>2. ASSUME d.protocol = "both", f.protocol = "both"
            PROVE  \A k \in {"lldp", "cdp"} : \E r \in saidNow : Says(r, d) /\ r[2].kind = k
        BY <1>8, <1>10, <3>2, <4>2
      <4>3. ASSUME d.protocol = "both", f.protocol # "both"
            PROVE  \A k \in {"lldp", "cdp"} : \E r \in saidNow : Says(r, d) /\ r[2].kind = k
        <5>1. PICK r \in said : Says(r, f) /\ r[2].kind = f.protocol
          BY <1>8, <4>3
        <5>2. r[2].kind # p.kind
          BY <1>9, <3>2, <4>3, <5>1
        <5>3. {r[2].kind, p.kind} = {"lldp", "cdp"}
          BY <1>11, <3>2, <5>1, <5>2, FamilyTellsKind
        <5>. QED
          BY <1>7, <1>10, <3>2, <5>1, <5>3
      <4>. QED
        BY <1>7, <4>1, <4>2, <4>3
    <3>. QED
      BY <1>2, <2>2, <3>1, <3>2
  <2>. QED
    BY <1>2, <2>1, <2>2
<1>15. ASSUME NEW e \in now
       PROVE  e.protocol = "both" \/ \E r \in saidNow : Says(r, e) /\ r[2].kind = e.protocol
  <2>1. CASE e \in before
    BY <1>8, <2>1
  <2>2. CASE e = d
    <3>1. ASSUME NEW f \in before, sameLink(f), d.protocol # "both"
          PROVE  \E r \in saidNow : Says(r, d) /\ r[2].kind = d.protocol
      <4>1. d.protocol = f.protocol
        BY <1>9, <3>1
      <4>. QED
        BY <1>8, <1>10, <3>1, <4>1
    <3>. QED
      BY <1>2, <1>7, <2>2, <3>1
  <2>. QED
    BY <1>2, <2>1, <2>2
<1>16. graph.nodes \cup {b} = NetDevice \cup UNION {e.ends : e \in now}
  <2>1. \A n : n \in UNION {e.ends : e \in now} <=> \E e \in now : n \in e.ends
    OBVIOUS
  <2>2. \A n : n \in UNION {e.ends : e \in before} <=> \E e \in before : n \in e.ends
    OBVIOUS
  <2>3. \A n : (\E e \in now : n \in e.ends) <=> n \in {a, b} \/ \E e \in before : n \in e.ends
    <3>1. d.ends = {a, b}
      BY <1>2 DEF SameLink
    <3>2. \A e \in before : sameLink(e) => e.ends = {a, b}
      BY DEF SameLink
    <3>. QED
      BY <1>2, <3>1, <3>2
  <2>4. \A n : n \in graph.nodes <=> n \in NetDevice \/ \E e \in before : n \in e.ends
    BY <1>8, <2>2
  <2>. QED
    BY <2>1, <2>3, <2>4
<1>17. (graph.todo \subseteq Reported /\ SysIndex(graph.sysIndex))'
  BY <1>3, SaidOfRows DEF Drawn
<1>18. AllDrawn(Reported \ graph.todo)'
  BY <1>3, <1>5, <1>12, SaidOfRows DEF AllDrawn
<1>19. OneEdgePerFamily'
  BY <1>3, <1>13 DEF OneEdgePerFamily
<1>20. NothingMadeUp(Reported \ graph.todo)'
  BY <1>3, <1>5, <1>14, SaidOfRows DEF NothingMadeUp
<1>21. ProtocolsAreTrue(Reported \ graph.todo)'
  BY <1>3, <1>5, <1>15, SaidOfRows DEF ProtocolsAreTrue
<1>22. EndsAreNodes'
  BY <1>3, <1>16 DEF EndsAreNodes
<1>. QED
  BY <1>4, <1>17, <1>18, <1>19, <1>20, <1>21, <1>22 DEF Drawn
\* handleTopology and its rows.
LEMMA TopologyStep ==
  ASSUME TopologyInv, [TopologyNext]_topologyVars
  PROVE  TopologyInv'
<1>1. ASSUME NEW a \in NetDevice, SystemNamed(a)
      PROVE  TopologyInv'
  BY <1>1 DEF SystemNamed, TopologyInv, TopologyTypeOK
<1>2. ASSUME NEW a \in NetDevice, ReportChanges(a)
      PROVE  TopologyInv'
  <2>1. heardOf' \in [NetDevice -> SUBSET Report]
    BY <1>2 DEF ReportChanges, TopologyInv, TopologyTypeOK
  <2>. QED
    BY <1>2, <2>1 DEF ReportChanges, TopologyInv, TopologyTypeOK
<1>3. CASE ReadRows
  BY <1>3, ReadRowsDraws DEF TopologyInv
<1>4. ASSUME NEW a \in NetDevice, NEW p \in heardOf[a], AddReport(a, p)
      PROVE  TopologyInv'
  <2>1. p \in Report /\ TopologyTypeOK /\ Drawn /\ graph # None
        /\ <<a, p>> \in graph.todo /\ UNCHANGED <<sysName, heardOf>>
    BY <1>4 DEF AddReport, TopologyInv, TopologyTypeOK
  <2>2. graph.sysIndex \in [Hostname -> NetDevice \cup {None}] /\ SysIndex(graph.sysIndex)
    BY <2>1 DEF TopologyTypeOK, Drawing, Drawn
  <2>3. PICK b \in RemoteIDs(graph.sysIndex, p) :
          graph' = IF p.kind = "vpn" /\ a = b
                   THEN [graph EXCEPT !.todo = @ \ {<<a, p>>}]
                   ELSE [graph EXCEPT !.todo = @ \ {<<a, p>>}, !.nodes = @ \cup {b},
                                      !.edges = AddEdge(@, a, p, b)]
    BY <1>4 DEF AddReport
  <2>4. b \in Meant(p)
    BY <2>1, <2>2, ResolvedAsMeant
  <2>5. CASE p.kind = "vpn" /\ a = b
    BY <2>1, <2>3, <2>4, <2>5, ReportLeftOut DEF TopologyInv
  <2>6. CASE ~(p.kind = "vpn" /\ a = b)
    BY <2>1, <2>3, <2>4, <2>6, ReportDrawn DEF TopologyInv
  <2>. QED
    BY <2>5, <2>6
<1>5. CASE UNCHANGED topologyVars
  <2>1. UNCHANGED <<sysName, heardOf>> /\ graph' = graph
    BY <1>5 DEF topologyVars
  <2>. QED
    BY <2>1, SaidOfRows
    DEF TopologyInv, TopologyTypeOK, Drawn, AllDrawn, OneEdgePerFamily, NothingMadeUp,
        ProtocolsAreTrue, EndsAreNodes
<1>. QED
  BY <1>1, <1>2, <1>3, <1>4, <1>5 DEF TopologyNext

LEMMA TopologyStart ==
  ASSUME TopologyInit
  PROVE  TopologyInv
  BY DEF TopologyInit, TopologyInv, TopologyTypeOK

\* What a request has drawn is true of the reports it has been through.
THEOREM TopologyIsInvariant == TopologyAlone => []TopologyInv
  BY TopologyStart, TopologyStep, PTL DEF TopologyAlone

\* The graph of a site is true of its rows, however many appliances, names and reports
\* there are and in whatever order they come (handleTopology).
THEOREM GraphStaysTrue == TopologyAlone => []GraphIsTrue
<1>1. TopologyInv /\ Complete => OneEdgePerLink
  <2>. SUFFICES ASSUME TopologyInv, Complete, NEW e \in graph.edges, NEW f \in graph.edges,
                       e.ends = f.ends, LinkKind(e) = LinkKind(f), LinkKind(e) # "vpn"
                PROVE  e = f
    BY FamiliesDiffer DEF OneEdgePerLink, TopologyInv, TopologyTypeOK, Drawing, Complete,
       TopologyEdge, LinkKind, Drawn, OneEdgePerFamily
  <2>1. e \in TopologyEdge /\ f \in TopologyEdge /\ OneEdgePerFamily
    BY DEF TopologyInv, TopologyTypeOK, Drawing, Complete, Drawn
  <2>2. e.family = f.family
    BY <2>1, FamiliesDiffer DEF TopologyEdge, LinkKind
  <2>. QED
    BY <2>1, <2>2 DEF OneEdgePerFamily
<1>2. TopologyInv => GraphIsTrue
  <2>. SUFFICES ASSUME TopologyInv, Complete
                PROVE  GraphIsTrue
    BY DEF GraphIsTrue
  <2>1. Drawn /\ Reported \ graph.todo = Reported
    BY DEF TopologyInv, Complete
  <2>. QED
    BY <1>1, <2>1 DEF Drawn, GraphIsTrue
<1>. QED
  BY <1>2, TopologyIsInvariant, PTL

-----------------------------------------------------------------------------
(* Users and sites. *)

\* A count that no request has overtaken is right still: there is another superadmin, or
\* nothing in the site.
CountsHold ==
  /\ \A u \in User : deleting[u] = "counted" =>
       user[u] # None /\ (Superadmin(u) => OthersThan(u) # {})
  /\ \A p \in Place : deleting[p] = "counted" => Residents(p) = {}

AccountsInv == AccountsTypeOK /\ CountsHold

AccountsAlone == AccountsInit /\ [][AccountsNext]_accountVars

\* Superadmins that a step leaves alone remain what others can count on.
LEMMA OthersRemain ==
  ASSUME NEW u \in User, OthersThan(u) # {},
         \A v \in User \ {u} : user[v] # None => user'[v] = user[v]
  PROVE  OthersThan(u)' # {}
  BY DEF OthersThan, ActiveSuperadmins, Superadmin

\* Creating a user takes nobody from the others.
LEMMA NewUserKeepsCounts ==
  ASSUME AccountsInv, NEW u \in User, user[u] = None, NEW account \in Account,
         user' = [user EXCEPT ![u] = account], UNCHANGED <<place, home, deleting>>
  PROVE  AccountsInv'
<1>1. AccountsTypeOK'
  BY DEF AccountsInv, AccountsTypeOK
<1>2. \A p \in Place : (deleting[p] = "counted" => Residents(p) = {})'
  BY DEF AccountsInv, CountsHold, Residents
<1>3. ASSUME NEW v \in User, deleting'[v] = "counted"
      PROVE  user'[v] # None /\ (Superadmin(v)' => OthersThan(v)' # {})
  <2>1. user[v] # None /\ (Superadmin(v) => OthersThan(v) # {})
    BY <1>3 DEF AccountsInv, CountsHold
  <2>2. v # u /\ user'[v] = user[v]
    BY <2>1 DEF AccountsInv, AccountsTypeOK
  <2>3. \A w \in User \ {v} : user[w] # None => user'[w] = user[w]
    BY DEF AccountsInv, AccountsTypeOK
  <2>. QED
    BY <2>1, <2>2, <2>3, OthersRemain DEF Superadmin
<1>. QED
  BY <1>1, <1>2, <1>3 DEF AccountsInv, CountsHold

LEMMA OvertakeEffect ==
  ASSUME AccountsTypeOK, NEW targets, Overtake(targets)
  PROVE  /\ deleting' \in [User \cup Place -> {None, "counted", "overtaken"}]
         /\ \A t \in User \cup Place :
              deleting'[t] = "counted" => deleting[t] = "counted" /\ t \notin targets
<1>1. \A t \in User \cup Place : deleting[t] \in {None, "counted", "overtaken"}
  BY DEF AccountsTypeOK
<1>. QED
  BY <1>1, AccountsNoneAssumption DEF Overtake

\* handlers_resources.go: every request about users and sites.
LEMMA AccountsStep ==
  ASSUME AccountsInv, [AccountsNext]_accountVars
  PROVE  AccountsInv'
<1>1. ASSUME NEW u \in User, BootstrapAdmin(u) \/ CreateUser(u)
      PROVE  AccountsInv'
  <2>1. PICK role \in {"superadmin", "other"} :
          user' = [user EXCEPT ![u] = [role |-> role, active |-> TRUE]]
    BY <1>1 DEF BootstrapAdmin, CreateUser
  <2>2. [role |-> role, active |-> TRUE] \in Account
    BY DEF Account
  <2>. QED
    BY <1>1, <2>1, <2>2, NewUserKeepsCounts DEF BootstrapAdmin, CreateUser
<1>2. ASSUME NEW u \in User, UpdateUser(u)
      PROVE  AccountsInv'
  <2>1. user' \in [User -> Account \cup {None}] /\ UNCHANGED <<place, home>>
    BY <1>2 DEF UpdateUser, AccountsInv, AccountsTypeOK
  <2>2. /\ deleting' \in [User \cup Place -> {None, "counted", "overtaken"}]
        /\ \A t \in User \cup Place :
             deleting'[t] = "counted" => deleting[t] = "counted" /\ t \notin User
    BY <1>2, OvertakeEffect DEF UpdateUser, AccountsInv
  <2>. QED
    BY <2>1, <2>2 DEF AccountsInv, AccountsTypeOK, CountsHold, Residents
<1>3. ASSUME NEW u \in User, CountSuperadmins(u)
      PROVE  AccountsInv'
  BY <1>3, AccountsAssumption, AccountsNoneAssumption
  DEF CountSuperadmins, AccountsInv, AccountsTypeOK, CountsHold, Residents, Superadmin,
      OthersThan, ActiveSuperadmins
<1>4. ASSUME NEW u \in User, DeleteUser(u)
      PROVE  AccountsInv'
  <2>1. user' \in [User -> Account \cup {None}] /\ UNCHANGED <<place, home>>
    BY <1>4 DEF DeleteUser, AccountsInv, AccountsTypeOK
  <2>2. \A t \in User \cup Place : deleting[t] \in {None, "counted", "overtaken"}
    BY DEF AccountsInv, AccountsTypeOK
  <2>3. /\ deleting' \in [User \cup Place -> {None, "counted", "overtaken"}]
        /\ \A t \in User \cup Place : deleting'[t] = "counted" =>
             deleting[t] = "counted" /\ t \notin User
    BY <1>4, <2>2, AccountsNoneAssumption DEF DeleteUser
  <2>. QED
    BY <2>1, <2>3 DEF AccountsInv, AccountsTypeOK, CountsHold, Residents
<1>5. ASSUME NEW p \in Place, CreateSite(p)
      PROVE  AccountsInv'
  BY <1>5 DEF CreateSite, AccountsInv, AccountsTypeOK, CountsHold, Residents, Superadmin,
      OthersThan, ActiveSuperadmins
<1>6. ASSUME NEW p \in Place, CountResidents(p)
      PROVE  AccountsInv'
  BY <1>6, AccountsAssumption, AccountsNoneAssumption
  DEF CountResidents, AccountsInv, AccountsTypeOK, CountsHold, Residents, Superadmin,
      OthersThan, ActiveSuperadmins
<1>7. ASSUME NEW p \in Place, DeleteSite(p)
      PROVE  AccountsInv'
  <2>1. /\ place' = place \ {p} /\ UNCHANGED user
        /\ home' = [r \in Resident |-> IF home[r] = p THEN None ELSE home[r]]
        /\ deleting' = [deleting EXCEPT ![p] = None]
    BY <1>7 DEF DeleteSite
  <2>2. AccountsTypeOK'
    BY <2>1 DEF AccountsInv, AccountsTypeOK
  <2>3. \A q \in Place : deleting'[q] = "counted" => deleting[q] = "counted" \/ q = p
    BY <2>1 DEF AccountsInv, AccountsTypeOK
  <2>4. \A q \in Place : Residents(q) = {} => Residents(q)' = {}
    BY <2>1, AccountsAssumption, AccountsNoneAssumption DEF Residents
  <2>5. Residents(p)' = {}
    BY <2>1, AccountsAssumption, AccountsNoneAssumption DEF Residents
  <2>6. \A u \in User : deleting'[u] = deleting[u]
    BY <2>1, AccountsAssumption, AccountsNoneAssumption DEF AccountsInv, AccountsTypeOK
  <2>7. \A u \in User : deleting'[u] = "counted" =>
          user'[u] # None /\ (Superadmin(u)' => OthersThan(u)' # {})
    BY <2>1, <2>6
    DEF AccountsInv, CountsHold, OthersThan, ActiveSuperadmins, Superadmin
  <2>8. \A q \in Place : deleting'[q] = "counted" => Residents(q)' = {}
    BY <2>3, <2>4, <2>5 DEF AccountsInv, CountsHold
  <2>. QED
    BY <2>2, <2>7, <2>8 DEF AccountsInv, CountsHold
<1>8. ASSUME NEW r \in Resident, Settle(r)
      PROVE  AccountsInv'
  <2>1. PICK p \in place : home' = [home EXCEPT ![r] = p] /\ Overtake({p})
    BY <1>8 DEF Settle
  <2>2. UNCHANGED <<user, place>> /\ p \in Place
    BY <1>8 DEF Settle, AccountsInv, AccountsTypeOK
  <2>3. /\ deleting' \in [User \cup Place -> {None, "counted", "overtaken"}]
        /\ \A t \in User \cup Place :
             deleting'[t] = "counted" => deleting[t] = "counted" /\ t # p
    BY <2>1, OvertakeEffect DEF AccountsInv
  <2>4. AccountsTypeOK'
    BY <2>1, <2>2, <2>3 DEF AccountsInv, AccountsTypeOK
  <2>5. \A q \in Place : q # p /\ Residents(q) = {} => Residents(q)' = {}
    BY <2>1 DEF Residents, AccountsInv, AccountsTypeOK
  <2>6. \A q \in Place : deleting'[q] = "counted" => Residents(q)' = {}
    BY <2>3, <2>5 DEF AccountsInv, CountsHold
  <2>7. \A u \in User : deleting'[u] = "counted" =>
          user'[u] # None /\ (Superadmin(u)' => OthersThan(u)' # {})
    BY <2>2, <2>3
    DEF AccountsInv, CountsHold, OthersThan, ActiveSuperadmins, Superadmin
  <2>. QED
    BY <2>4, <2>6, <2>7 DEF AccountsInv, CountsHold
<1>9. ASSUME NEW r \in Resident, Leave(r)
      PROVE  AccountsInv'
  BY <1>9, AccountsAssumption, AccountsNoneAssumption
  DEF Leave, AccountsInv, AccountsTypeOK, CountsHold, Residents, Superadmin,
      OthersThan, ActiveSuperadmins
<1>10. ASSUME NEW t \in User \cup Place, DeleteFails(t)
       PROVE  AccountsInv'
  BY <1>10, AccountsNoneAssumption
  DEF DeleteFails, AccountsInv, AccountsTypeOK, CountsHold, Residents, Superadmin,
      OthersThan, ActiveSuperadmins
<1>11. CASE UNCHANGED accountVars
  BY <1>11 DEF accountVars, AccountsInv, AccountsTypeOK, CountsHold, Residents, Superadmin,
      OthersThan, ActiveSuperadmins
<1>. QED
  BY <1>1, <1>2, <1>3, <1>4, <1>5, <1>6, <1>7, <1>8, <1>9, <1>10, <1>11 DEF AccountsNext
LEMMA AccountsStart ==
  ASSUME AccountsInit
  PROVE  AccountsInv
  BY AccountsAssumption, AccountsNoneAssumption DEF AccountsInit, AccountsInv, AccountsTypeOK, CountsHold

\* What a delete goes by is true until another request overtakes it.
THEOREM AccountsIsInvariant == AccountsAlone => []AccountsInv
  BY AccountsStart, AccountsStep, PTL DEF AccountsAlone

\* The last active superadmin, or a site with something in it, is deleted only by a request
\* whose count another one overtook (handleDeleteUser, handleDeleteSite).
THEOREM LostOnlyByRacing == AccountsAlone => LostOnlyWhenOvertaken
<1>. DEFINE Lost == /\ \A u \in ActiveSuperadmins :
                         deleting[u] = "counted" /\ user'[u] = None => ActiveSuperadmins' # {}
                    /\ \A p \in place :
                         deleting[p] = "counted" /\ p \notin place' => Residents(p) = {}
<1>1. AccountsInv /\ [AccountsNext]_accountVars => [Lost]_accountVars
  <2>. SUFFICES ASSUME AccountsInv, AccountsNext
                PROVE  Lost
    OBVIOUS
  <2>1. \A p \in place : deleting[p] = "counted" => Residents(p) = {}
    BY DEF AccountsInv, AccountsTypeOK, CountsHold
  <2>2. ASSUME NEW u \in ActiveSuperadmins, deleting[u] = "counted", user'[u] = None
        PROVE  ActiveSuperadmins' # {}
    <3>1. u \in User /\ user[u] # None /\ OthersThan(u) # {}
      BY <2>2 DEF AccountsInv, CountsHold, ActiveSuperadmins, Superadmin
    <3>2. DeleteUser(u)
      <4>1. user \in [User -> Account \cup {None}]
        BY DEF AccountsInv, AccountsTypeOK
      <4>2. ASSUME NEW v \in User, BootstrapAdmin(v) \/ CreateUser(v) PROVE FALSE
        BY <2>2, <3>1, <4>1, <4>2 DEF BootstrapAdmin, CreateUser
      <4>3. ASSUME NEW v \in User, UpdateUser(v) PROVE FALSE
        BY <2>2, <3>1, <4>1, <4>3, AccountsNoneAssumption DEF UpdateUser
      <4>4. ASSUME NEW v \in User, DeleteUser(v), v # u PROVE FALSE
        BY <2>2, <3>1, <4>1, <4>4 DEF DeleteUser
      <4>5. user' # user
        BY <2>2, <3>1
      <4>. QED
        BY <4>2, <4>3, <4>4, <4>5
        DEF AccountsNext, CountSuperadmins, CreateSite, CountResidents, DeleteSite, Settle, Leave,
            DeleteFails
    <3>3. \A v \in User \ {u} : user'[v] = user[v]
      BY <3>1, <3>2 DEF DeleteUser, AccountsInv, AccountsTypeOK
    <3>. QED
      BY <3>1, <3>3, OthersRemain DEF OthersThan
  <2>. QED
    BY <2>1, <2>2
<1>. QED
  BY <1>1, AccountsIsInvariant, PTL DEF AccountsAlone, LostOnlyWhenOvertaken

-----------------------------------------------------------------------------
(* The types of the other components, with what they need. *)

LEMMA ChecksStep ==
  ASSUME ChecksTypeOK, [ChecksNext]_checksVars
  PROVE  ChecksTypeOK'
<1>. USE DEF ChecksTypeOK
<1>1. ASSUME NEW c \in Check, CreateCheck(c)
      PROVE  ChecksTypeOK'
  BY <1>1 DEF CreateCheck
<1>2. ASSUME NEW c \in Check, PatchCheck(c)
      PROVE  ChecksTypeOK'
  <2>1. PICK on \in BOOLEAN, prefers \in IF check[c].secret THEN {"central"} ELSE Preference,
             cred \in {check[c].named} \cup {k \in Credential : check[c].secret /\ Valid(TRUE, k)} :
          check' = [check EXCEPT ![c].enabled = on, ![c].prefers = prefers, ![c].named = cred]
    BY <1>2 DEF PatchCheck
  <2>2. check[c] \in CheckRow /\ prefers \in Preference
    BY <1>2 DEF PatchCheck, Exists, Preference
  <2>3. cred \in Credential \cup {None}
    BY <2>2 DEF CheckRow
  <2>4. [check[c] EXCEPT !.enabled = on, !.prefers = prefers, !.named = cred] \in CheckRow
    BY <2>2, <2>3 DEF CheckRow
  <2>5. check' = [check EXCEPT ![c] =
          [check[c] EXCEPT !.enabled = on, !.prefers = prefers, !.named = cred]]
    BY <2>1
  <2>. QED
    BY <1>2, <2>4, <2>5 DEF PatchCheck
<1>3. ASSUME NEW c \in Check, DeleteCheck(c) \/ Elapse(c)
      PROVE  ChecksTypeOK'
  <2>1. CASE DeleteCheck(c)
    BY <2>1 DEF DeleteCheck
  <2>2. CASE Elapse(c)
    <3>. check[c] \in CheckRow
      BY <2>2 DEF Elapse, Exists
    <3>1. [check[c] EXCEPT !.due = TRUE] \in CheckRow
      BY DEF CheckRow
    <3>2. check' = [check EXCEPT ![c] = [check[c] EXCEPT !.due = TRUE]]
      BY <2>2 DEF Elapse
    <3>. QED
      BY <2>2, <3>1, <3>2 DEF Elapse
  <2>. QED
    BY <1>3, <2>1, <2>2
<1>4. ASSUME NEW cred \in Credential, EditVault(cred)
      PROVE  ChecksTypeOK'
  BY <1>4 DEF EditVault
<1>5. ASSUME NEW a \in CheckAgent, AgentNearby(a) \/ AgentListChecks(a)
      PROVE  ChecksTypeOK'
  BY <1>5 DEF AgentNearby, AgentListChecks
<1>6. CASE TickReadsAgents \/ TickReadsChecks \/ TickEnds
  <2>1. CASE TickReadsAgents
    BY <2>1 DEF TickReadsAgents, Round
  <2>2. CASE TickReadsChecks
    <3>1. {<<c, check[c]>> : c \in {d \in Check : Exists(d) /\ check[d].enabled}}
            \in SUBSET (Check \X CheckRow)
      BY DEF Exists
    <3>. QED
      BY <2>2, <3>1 DEF TickReadsChecks, Round
  <2>3. CASE TickEnds
    BY <2>3 DEF TickEnds
  <2>. QED
    BY <1>6, <2>1, <2>2, <2>3
<1>7. ASSUME NEW c \in Check, SkipCheck(c) \/ ExecuteCheck(c)
      PROVE  ChecksTypeOK'
  <2>1. CASE SkipCheck(c)
    BY <2>1 DEF SkipCheck, Round
  <2>2. CASE ExecuteCheck(c)
    <3>1. PICK r \in tick.rows : \E ok \in Ran(r[2]) :
            running' = [check |-> c, ok |-> ok] /\ tick' = [tick EXCEPT !.rows = @ \ {r}]
      BY <2>2 DEF ExecuteCheck
    <3>2. tick \in Round /\ Ran(r[2]) \subseteq {"yes", "no"}
      BY <2>2 DEF ExecuteCheck, Ran
    <3>3. tick' \in Round /\ running' \in [check : Check, ok : {"yes", "no"}]
      BY <3>1, <3>2 DEF Round
    <3>. QED
      BY <2>2, <3>3 DEF ExecuteCheck
  <2>. QED
    BY <1>7, <2>1, <2>2
<1>8. CASE PersistCheckResult \/ PersistFails
  <2>1. CASE PersistCheckResult
    <3>1. ASSUME Exists(running.check)
          PROVE  check' \in [Check -> CheckRow \cup {None}]
      <4>. check[running.check] \in CheckRow /\ running.ok \in {"yes", "no"}
        BY <2>1, <3>1 DEF PersistCheckResult, Exists
      <4>1. [check[running.check] EXCEPT !.due = FALSE, !.ok = running.ok] \in CheckRow
        BY DEF CheckRow
      <4>2. check' = [check EXCEPT ![running.check] =
                        [check[running.check] EXCEPT !.due = FALSE, !.ok = running.ok]]
        BY <2>1, <3>1 DEF PersistCheckResult
      <4>. QED
        BY <4>1, <4>2
    <3>. QED
      BY <2>1, <3>1 DEF PersistCheckResult
  <2>2. CASE PersistFails
    BY <2>2 DEF PersistFails
  <2>. QED
    BY <1>8, <2>1, <2>2
<1>9. CASE UNCHANGED checksVars
  BY <1>9 DEF checksVars
<1>. QED
  BY <1>1, <1>2, <1>3, <1>4, <1>5, <1>6, <1>7, <1>8, <1>9 DEF ChecksNext, EditorStep, LoopStep

LEMMA DiscoveryStep ==
  ASSUME DiscoveryTypeOK, [DiscoveryNext]_discoveryVars
  PROVE  DiscoveryTypeOK'
<1>. USE DEF DiscoveryTypeOK
<1>0. Idle \in ScannerState /\ \A k \in Scanner : scanner[k] \in ScannerState
  BY DEF Idle, ScannerState
<1>1. CASE PutSettings \/ IntervalPasses \/ \E k \in Scanner : ServiceChanges(k)
  BY <1>1 DEF PutSettings, IntervalPasses, ServiceChanges
<1>2. ASSUME NEW h \in Address, HostComesOrGoes(h)
      PROVE  DiscoveryTypeOK'
  BY <1>2 DEF HostComesOrGoes
<1>3. ASSUME NEW k \in Scanner, ReadJobs(k)
      PROVE  DiscoveryTypeOK'
  <2>1. [scanner[k] EXCEPT !.at = "jobs", !.job = subnets /\ scanDue] \in ScannerState
    BY <1>0 DEF ScannerState
  <2>2. scanner' = [scanner EXCEPT ![k] =
          [scanner[k] EXCEPT !.at = "jobs", !.job = subnets /\ scanDue]]
    BY <1>3 DEF ReadJobs
  <2>3. scanner' \in [Scanner -> ScannerState]
    BY <2>1, <2>2
  <2>. QED
    BY <1>3, <2>3 DEF ReadJobs
<1>4. ASSUME NEW k \in Scanner, AnswerJobs(k)
      PROVE  DiscoveryTypeOK'
  <2>1. [scanner EXCEPT ![k].at = "sweep"] \in [Scanner -> ScannerState]
    <3>1. [scanner[k] EXCEPT !.at = "sweep"] \in ScannerState
      BY <1>0 DEF ScannerState
    <3>. QED
      BY <3>1
  <2>2. [scanner EXCEPT ![k] = Idle] \in [Scanner -> ScannerState]
    BY <1>0
  <2>4. \/ scanner' = [scanner EXCEPT ![k].at = "sweep"]
        \/ scanner' = [scanner EXCEPT ![k] = Idle]
    BY <1>4, Zenon DEF AnswerJobs
  <2>5. scanDue' \in BOOLEAN
    <3>1. scanDue' \in {FALSE, scanDue} \/ scanDue' \in {FALSE} \/ scanDue' = scanDue
      BY <1>4, Zenon DEF AnswerJobs
    <3>. QED
      BY <3>1
  <2>6. scanner' \in [Scanner -> ScannerState]
    BY <2>1, <2>2, <2>4, Zenon
  <2>7. UNCHANGED <<inService, subnets, answering, discovered>>
    BY <1>4, Zenon DEF AnswerJobs
  <2>. QED
    BY <2>5, <2>6, <2>7
<1>5. ASSUME NEW k \in Scanner, SweepHosts(k)
      PROVE  DiscoveryTypeOK'
  <2>1. Reached \subseteq Address
    BY DEF Reached
  <2>2. [scanner[k] EXCEPT !.at = "post", !.devices = Reached] \in ScannerState
    BY <1>0, <2>1 DEF ScannerState
  <2>. QED
    BY <1>0, <1>5, <2>2 DEF SweepHosts
<1>6. ASSUME NEW k \in Scanner, StoreDevice(k)
      PROVE  DiscoveryTypeOK'
  <2>1. PICK d \in scanner[k].devices :
          /\ discovered' = discovered \cup {d}
          /\ scanner' = [scanner EXCEPT ![k] =
               IF scanner[k].devices = {d} THEN Idle
               ELSE [scanner[k] EXCEPT !.devices = scanner[k].devices \ {d}]]
    BY <1>6 DEF StoreDevice
  <2>2. [scanner[k] EXCEPT !.devices = scanner[k].devices \ {d}] \in ScannerState
    BY DEF ScannerState
  <2>3. scanner' \in [Scanner -> ScannerState]
    BY <1>0, <2>1, <2>2
  <2>4. d \in Address /\ discovered' \in SUBSET Address
    BY <2>1 DEF ScannerState
  <2>. QED
    BY <1>6, <2>3, <2>4 DEF StoreDevice
<1>7. ASSUME NEW k \in Scanner, PostResults(k)
      PROVE  DiscoveryTypeOK'
  <2>1. [scanner[k] EXCEPT !.at = "store"] \in ScannerState
    BY DEF ScannerState
  <2>. QED
    BY <1>0, <1>7, <2>1 DEF PostResults
<1>8. ASSUME NEW k \in Scanner, ScanFails(k)
      PROVE  DiscoveryTypeOK'
  BY <1>0, <1>8 DEF ScanFails
<1>9. CASE UNCHANGED discoveryVars
  BY <1>9 DEF discoveryVars
<1>. QED
  BY <1>1, <1>2, <1>3, <1>4, <1>5, <1>6, <1>7, <1>8, <1>9 DEF DiscoveryNext, ScannerStep

LEMMA InventoryStep ==
  ASSUME InventoryTypeOK, [InventoryNext]_inventoryVars
  PROVE  InventoryTypeOK'
<1>. USE DEF InventoryTypeOK
<1>1. CASE PutMerakiSync \/ SyncIntervalPasses
  BY <1>1 DEF PutMerakiSync, SyncIntervalPasses
<1>2. ASSUME NEW d \in Serial, DashboardChanges(d)
      PROVE  InventoryTypeOK'
  BY <1>2 DEF DashboardChanges
<1>3. ASSUME NEW n \in DeviceName, DeactivateMeraki(n)
      PROVE  InventoryTypeOK'
  <2>. merakiRow[n] \in MerakiRow
    BY <1>3 DEF DeactivateMeraki
  <2>1. [merakiRow[n] EXCEPT !.active = FALSE] \in MerakiRow
    BY DEF MerakiRow
  <2>2. merakiRow' = [merakiRow EXCEPT ![n] = [merakiRow[n] EXCEPT !.active = FALSE]]
    BY <1>3 DEF DeactivateMeraki
  <2>. QED
    BY <1>3, <2>1, <2>2 DEF DeactivateMeraki
<1>4. ASSUME NEW s \in Syncer, ListDevices(s)
      PROVE  InventoryTypeOK'
  BY <1>4 DEF ListDevices, Sync
<1>5. ASSUME NEW s \in Syncer, UpsertAppliance(s)
      PROVE  InventoryTypeOK'
  <2>1. PICK d \in syncing[s].todo :
          /\ syncing' = [syncing EXCEPT ![s].todo = @ \ {d}]
          /\ \/ merakiRow' = [merakiRow EXCEPT ![syncing[s].told[d]] = Synced(@, d)]
             \/ UNCHANGED merakiRow
    BY <1>5 DEF UpsertAppliance
  <2>. syncing[s] \in Sync
    BY <1>5 DEF UpsertAppliance
  <2>2. [syncing[s] EXCEPT !.todo = @ \ {d}] \in Sync /\ d \in Serial
    BY DEF Sync
  <2>3. syncing' = [syncing EXCEPT ![s] = [syncing[s] EXCEPT !.todo = @ \ {d}]]
    BY <2>1
  <2>4. syncing' \in [Syncer -> Sync \cup {None}]
    BY <2>2, <2>3
  <2>5. \A row : Synced(row, d) \in MerakiRow
    BY <2>2 DEF Synced, MerakiRow
  <2>6. merakiRow' \in [DeviceName -> MerakiRow \cup {None}]
    BY <2>1, <2>5
  <2>. QED
    BY <1>5, <2>4, <2>6 DEF UpsertAppliance
<1>6. ASSUME NEW s \in Syncer, RecordSync(s)
      PROVE  InventoryTypeOK'
  BY <1>6 DEF RecordSync
<1>7. CASE UNCHANGED inventoryVars
  BY <1>7 DEF inventoryVars
<1>. QED
  BY <1>1, <1>2, <1>3, <1>4, <1>5, <1>6, <1>7 DEF InventoryNext, SyncStep

LEMMA PeersStep ==
  ASSUME PeersTypeOK, [PeersNext]_peersVars
  PROVE  PeersTypeOK'
<1>. USE DEF PeersTypeOK, Latency, Direction
<1>1. CASE HostChanges \/ DnsExpires
  BY <1>1 DEF HostChanges, DnsExpires
<1>2. CASE AnswerName
  BY <1>2 DEF AnswerName
<1>3. CASE ProbeLatency
  BY <1>3 DEF ProbeLatency, Echoes
<1>4. CASE ReadSockets
  BY <1>4 DEF ReadSockets
<1>5. CASE ShowNetwork
  <2>. socketRow \in [direction : Direction \cup {None}, name : {None, "name", "miss"}]
    BY <1>5 DEF ShowNetwork
  <2>1. [direction |-> socketRow.direction, named |-> socketRow.name = "name",
         latency |-> latencyRows, warned |-> icmpBroken] \in Network
    BY DEF Network
  <2>. QED
    BY <1>5, <2>1 DEF ShowNetwork
<1>6. CASE UNCHANGED peersVars
  BY <1>6 DEF peersVars
<1>. QED
  BY <1>1, <1>2, <1>3, <1>4, <1>5, <1>6 DEF PeersNext, SocketStep

LEMMA ReceiversStep ==
  ASSUME ReceiversTypeOK, [ReceiversNext]_receiverVars
  PROVE  ReceiversTypeOK'
<1>. USE DEF ReceiversTypeOK
<1>1. CASE SiteComesOrGoes
  <2>1. handling # None =>
          [handling EXCEPT !.site = FALSE] \in [source : Source, site : BOOLEAN]
    OBVIOUS
  <2>. QED
    BY <1>1, <2>1 DEF SiteComesOrGoes
<1>2. CASE ReceiversRestart \/ ReceiveFlows \/ FlowStep
  BY <1>2 DEF ReceiversRestart, ReceiveFlows, FlowStep, Flush, InsertFlow, Become, Fate
<1>3. ASSUME NEW s \in Source, TrapArrives(s) \/ ReceiveTrap(s) \/ ClearTrapAlarm(s)
      PROVE  ReceiversTypeOK'
  <2>1. CASE TrapArrives(s) \/ ClearTrapAlarm(s)
    BY <2>1 DEF TrapArrives, ClearTrapAlarm
  <2>2. CASE ReceiveTrap(s)
    <3>1. PICK site \in {known, FALSE} : handling' = [source |-> s, site |-> site]
      BY <2>2 DEF ReceiveTrap
    <3>2. handling' \in [source : Source, site : BOOLEAN]
      BY <3>1
    <3>. QED
      BY <2>2, <3>2 DEF ReceiveTrap
  <2>. QED
    BY <1>3, <2>1, <2>2
<1>4. CASE InsertTrap
  <2>1. \/ trapAlarm' = [trapAlarm EXCEPT ![handling.source] = "open"]
        \/ trapAlarm' = trapAlarm
    BY <1>4, Zenon DEF InsertTrap
  <2>2. trapAlarm' \in [Source -> {"open", "cleared", None}]
    BY <2>1
  <2>3. handling' = None /\ known' = known /\ trapped' = trapped /\ flow' = flow
    BY <1>4, Zenon DEF InsertTrap
  <2>. QED
    BY <2>2, <2>3
<1>5. CASE UNCHANGED receiverVars
  BY <1>5 DEF receiverVars
<1>. QED
  BY <1>1, <1>2, <1>3, <1>4, <1>5 DEF ReceiversNext

\* Of a device that is still to do the status is known.
HealthInv ==
  /\ HealthTypeOK
  /\ reading # None =>
       \A d \in reading.todo :
         reading.told \in [Device -> Health \cup {None}] /\ reading.told[d] # None

LEMMA HealthStepped ==
  ASSUME HealthInv, [HealthNext]_healthVars
  PROVE  HealthInv'
<1>. USE DEF HealthInv, HealthTypeOK
<1>1. CASE SwitchHealth \/ HealthIntervalPasses
  BY <1>1 DEF SwitchHealth, HealthIntervalPasses
<1>2. ASSUME NEW d \in Device, ConditionChanges(d)
      PROVE  HealthInv'
  BY <1>2 DEF ConditionChanges
<1>3. ASSUME NEW a \in MerakiAppliance, ApplianceChanges(a)
      PROVE  HealthInv'
  BY <1>3 DEF ApplianceChanges
<1>4. CASE LoadAppliances
  <2>1. \A row \in [Device -> MerakiAppliance \cup {None}] :
          LET r == [row |-> row, told |-> None, extras |-> FALSE, todo |-> {}] IN
          r \in Reading /\ r.todo = {}
    BY DEF Reading
  <2>. QED
    BY <1>4, <2>1 DEF LoadAppliances
<1>5. CASE ListStatuses
  <2>. DEFINE todo == {d \in Device : reading.row[d] # None /\ condition[d] # None}
  <2>1. PICK extras \in Answered :
          reading' = [reading EXCEPT !.told = condition, !.extras = extras, !.todo = todo]
    BY <1>5, Zenon DEF ListStatuses
  <2>2. /\ extras \in BOOLEAN /\ todo \in SUBSET Device
        /\ \A d \in todo : condition[d] # None
    BY DEF Answered
  <2>3. reading \in Reading
    BY <1>5 DEF ListStatuses
  <2>. HIDE DEF todo
  <2>4. reading' \in Reading /\ reading'.told = condition /\ reading'.todo = todo
    BY <2>1, <2>2, <2>3 DEF Reading
  <2>. QED
    BY <1>5, <2>2, <2>4 DEF ListStatuses
<1>6. CASE PersistHealth
  <2>. reading \in Reading
    BY <1>6 DEF PersistHealth
  <2>1. PICK d \in reading.todo :
          /\ reading' = [reading EXCEPT !.todo = @ \ {d}]
          /\ \/ shown' = [shown EXCEPT ![reading.row[d]] = Written(d)]
             \/ SamplesRefused /\ UNCHANGED shown
    BY <1>6 DEF PersistHealth
  <2>2. reading' \in Reading /\ reading'.told = reading.told
          /\ reading'.todo = reading.todo \ {d}
    BY <2>1 DEF Reading
  <2>3. Written(d) \in [status : Health, ports : BOOLEAN]
    <3>1. reading.told[d] \in Health /\ reading.extras \in BOOLEAN
      BY <1>6 DEF PersistHealth, Reading
    <3>. QED
      BY <3>1 DEF Written
  <2>. QED
    BY <1>6, <2>1, <2>2, <2>3 DEF PersistHealth
<1>7. CASE RecordHealth
  BY <1>7 DEF RecordHealth
<1>8. CASE UNCHANGED healthVars
  BY <1>8 DEF healthVars
<1>. QED
  BY <1>1, <1>2, <1>3, <1>4, <1>5, <1>6, <1>7, <1>8 DEF HealthNext, HealthStep

LEMMA TelemetryStep ==
  ASSUME TelemetryTypeOK, [TelemetryNext]_<<online, telemetryVars>>
  PROVE  TelemetryTypeOK'
<1>. USE DEF TelemetryTypeOK, Content, Inventory
<1>1. CASE TelemetryLoopsStart \/ TelemetryLoopsCancelled
  BY <1>1 DEF TelemetryLoopsStart, TelemetryLoopsCancelled, LoopsStart, LoopsCancelled,
              telemetryVars, caches
<1>2. CASE HostRestarts
  BY <1>2 DEF HostRestarts
<1>3. CASE HardwareAges \/ SearchChanges
  BY <1>3 DEF HardwareAges, SearchChanges, caches
<1>4. ASSUME NEW l \in Loop, CollectHealth(l)
      PROVE  TelemetryTypeOK'
  BY <1>4 DEF CollectHealth, Tick, caches
<1>5. ASSUME NEW l \in Loop, CollectInventory(l)
      PROVE  TelemetryTypeOK'
  <2>1. ticking[l] \in Tick
    BY <1>5 DEF CollectInventory
  <2>2. inventoryHeld' \in Inventory
    BY <1>5 DEF CollectInventory, Inventories, Found, Searched
  <2>3. \A w \in BOOLEAN : [ticking[l] EXCEPT !.at = "warnings", !.warn = w] \in Tick
    BY <2>1 DEF Tick
  <2>4. ticking' = [ticking EXCEPT ![l] =
          [ticking[l] EXCEPT !.at = "warnings", !.warn = inventoryHeld' # "full"]]
    BY <1>5 DEF CollectInventory
  <2>5. ticking' \in [Loop -> Tick \cup {None}]
    <3>1. (inventoryHeld' # "full") \in BOOLEAN
      OBVIOUS
    <3>. QED
      BY <2>3, <2>4, <3>1
  <2>. QED
    BY <1>5, <2>2, <2>5 DEF CollectInventory
<1>6. ASSUME NEW l \in Loop, SetSlowWarnings(l)
      PROVE  TelemetryTypeOK'
  <2>1. ticking[l] \in Tick
    BY <1>6 DEF SetSlowWarnings, Tick
  <2>. QED
    BY <1>6, <2>1 DEF SetSlowWarnings, Tick
<1>7. ASSUME NEW l \in Loop, CollectSnapshot(l)
      PROVE  TelemetryTypeOK'
  <2>1. hardware' \in Content /\ hardwareOld' \in BOOLEAN
    BY <1>7 DEF CollectSnapshot, FoundHardware, Found
  <2>2. [inventory |-> inventoryHeld, hardware |-> hardware', warn |-> slowWarnings] \in Screen
    BY <2>1 DEF Screen
  <2>. QED
    BY <1>7, <2>1, <2>2 DEF CollectSnapshot
<1>8. CASE UNCHANGED <<online, telemetryVars>>
  BY <1>8 DEF telemetryVars, caches
<1>. QED
  BY <1>1, <1>2, <1>3, <1>4, <1>5, <1>6, <1>7, <1>8 DEF TelemetryNext, HealthLoop

\* What an evaluation finds has a code and is counted.
LEMMA IssuesAreCounted ==
  ASSUME NEW snapshot \in Posture
  PROVE  /\ WantCodes(Evaluate(snapshot)) \in SUBSET Code
         /\ Length(Evaluate(snapshot)) \in Nat
BY ComplianceAssumption DEF WantCodes, Length, Evaluate, Code, Posture

LEMMA ComplianceStep ==
  ASSUME ComplianceTypeOK, [ComplianceNext]_complianceVars
  PROVE  ComplianceTypeOK'
<1>. USE DEF ComplianceTypeOK
<1>1. CASE PostureChanges \/ Reattach
  BY <1>1 DEF PostureChanges, Reattach
<1>2. CASE SendFrame
  <2>1. [stage |-> "sent", snapshot |-> posture, opens |-> {}, clears |-> {}] \in Evaluation
    BY DEF Evaluation
  <2>. QED
    BY <1>2, <2>1 DEF SendFrame
<1>3. ASSUME NEW u \in Uplink, LoseFrame(u)
      PROVE  ComplianceTypeOK'
  BY <1>3 DEF LoseFrame, DropUpload
<1>4. ASSUME NEW u \in Uplink, StoreFrame(u)
      PROVE  ComplianceTypeOK'
  <2>. DEFINE codes == WantCodes(Evaluate(frame[u].snapshot))
              opens == codes \ openIssues
              clears == Resolved(codes)
  <2>1. frame[u] \in Evaluation
    BY <1>4 DEF StoreFrame, FrameAt
  <2>2. opens \in SUBSET Code /\ clears \in SUBSET Code
    BY <2>1, IssuesAreCounted DEF Resolved, Evaluation
  <2>3. \/ frame' = [frame EXCEPT ![u].stage = "compared", ![u].opens = opens,
                                  ![u].clears = clears]
        \/ frame' = [frame EXCEPT ![u] = None]
    BY <1>4, Zenon DEF StoreFrame, DropUpload
  <2>4. rebootHeard' \in BOOLEAN
    BY <1>4, <2>1 DEF StoreFrame, WriteHistory, Evaluation, Posture
  <2>. HIDE DEF opens, clears
  <2>5. [frame[u] EXCEPT !.stage = "compared", !.opens = opens, !.clears = clears] \in Evaluation
    BY <2>1, <2>2 DEF Evaluation
  <2>6. frame' \in [Uplink -> Evaluation \cup {None}]
    BY <2>3, <2>5
  <2>. QED
    BY <1>4, <2>4, <2>6 DEF StoreFrame
<1>5. ASSUME NEW u \in Uplink, PersistIssues(u)
      PROVE  ComplianceTypeOK'
  <2>1. frame[u] \in Evaluation
    BY <1>5 DEF PersistIssues, FrameAt
  <2>2. \A v \in Uplink : frame[v] # None =>
          [frame[v] EXCEPT !.clears = @ \ frame[u].clears] \in Evaluation
    BY DEF Evaluation
  <2>3. frame' \in [Uplink -> Evaluation \cup {None}]
    BY <1>5, <2>2 DEF PersistIssues, DropUpload
  <2>4. openIssues' \in SUBSET Code /\ issuesCount' \in Nat
    BY <1>5, <2>1, IssuesAreCounted DEF PersistIssues, Evaluation
  <2>. QED
    BY <1>5, <2>3, <2>4 DEF PersistIssues
<1>6. CASE UNCHANGED complianceVars
  BY <1>6 DEF complianceVars
<1>. QED
  BY <1>1, <1>2, <1>3, <1>4, <1>5, <1>6 DEF ComplianceNext, FrameStep

LEMMA NoticesStep ==
  ASSUME NoticesTypeOK, [NoticesNext]_noticeVars
  PROVE  NoticesTypeOK'
<1>. USE NoticeAssumption DEF NoticesTypeOK
<1>1. CASE OpenAlarm \/ ClearAlarm
  <2>1. [stage |-> "load", todo |-> {}, left |-> TimeLimit] \in Dispatch
    BY DEF Dispatch
  <2>. QED
    BY <1>1, <2>1 DEF OpenAlarm, ClearAlarm, Announce, Event
<1>2. CASE ApiRestarts
  BY <1>2 DEF ApiRestarts
<1>3. ASSUME NEW e \in Event, LoadChannels(e)
      PROVE  NoticesTypeOK'
  <2>1. dispatch[e] \in Dispatch
    BY <1>3, Zenon DEF LoadChannels
  <2>. alarm' = alarm /\ audited' = audited
    BY <1>3, Zenon DEF LoadChannels
  <2>2. CASE UNCHANGED owed /\ dispatch' = [dispatch EXCEPT ![e] = None]
    BY <2>2
  <2>3. ASSUME NEW active \in SUBSET Channels,
               dispatch' = [dispatch EXCEPT ![e].stage = "send", ![e].todo = active],
               owed' = IF calm THEN owed \cup {<<e, c>> : c \in {d \in active : InTime(d)}}
                       ELSE owed
        PROVE  NoticesTypeOK'
    <3>1. [dispatch[e] EXCEPT !.stage = "send", !.todo = active] \in Dispatch
      BY <2>1 DEF Dispatch
    <3>2. dispatch' = [dispatch EXCEPT ![e] =
                         [dispatch[e] EXCEPT !.stage = "send", !.todo = active]]
      BY <2>3
    <3>3. owed' \subseteq Event \X Channels
      BY <2>3
    <3>. QED
      BY <3>1, <3>2, <3>3
  <2>. QED
    BY <1>3, <2>2, <2>3, Zenon DEF LoadChannels
<1>4. ASSUME NEW e \in Event, SendNotice(e)
      PROVE  NoticesTypeOK'
  <2>1. PICK c \in Channels, sent \in BOOLEAN, took \in 0..2 :
          LET left == IF took > dispatch[e].left THEN 0 ELSE dispatch[e].left - took
          IN  /\ NextChannel(e, c)
              /\ \/ audited' = IF left > 0 THEN audited \cup {<<e, c>>} ELSE audited
                 \/ Fault /\ UNCHANGED audited
              /\ dispatch' = [dispatch EXCEPT ![e].todo = Remaining(e, c, sent), ![e].left = left]
    BY <1>4, Zenon DEF SendNotice
  <2>. DEFINE left == IF took > dispatch[e].left THEN 0 ELSE dispatch[e].left - took
              todo == Remaining(e, c, sent)
  <2>2. dispatch[e] \in Dispatch
    BY <2>1 DEF NextChannel
  <2>3. left \in 0..TimeLimit /\ todo \in SUBSET Channels
    BY <2>2 DEF Dispatch, Remaining
  <2>4. dispatch' = [dispatch EXCEPT ![e] = [dispatch[e] EXCEPT !.todo = todo, !.left = left]]
    BY <2>1
  <2>5. audited' \subseteq Event \X Channels
    BY <2>1
  <2>. HIDE DEF left, todo
  <2>6. [dispatch[e] EXCEPT !.todo = todo, !.left = left] \in Dispatch
    BY <2>2, <2>3 DEF Dispatch
  <2>7. dispatch' \in [Event -> Dispatch \cup {None}]
    BY <2>4, <2>6
  <2>. QED
    BY <1>4, <2>5, <2>7 DEF SendNotice
<1>5. ASSUME NEW e \in Event, MailIsLate(e)
      PROVE  NoticesTypeOK'
  <2>1. dispatch[e] \in Dispatch
    BY <1>5 DEF MailIsLate, NextChannel
  <2>2. [dispatch[e] EXCEPT !.stage = "late"] \in Dispatch
    BY <2>1 DEF Dispatch
  <2>3. dispatch' = [dispatch EXCEPT ![e] = [dispatch[e] EXCEPT !.stage = "late"]]
    BY <1>5 DEF MailIsLate
  <2>4. owed' \subseteq Event \X Channels
    BY <1>5 DEF MailIsLate
  <2>. QED
    BY <1>5, <2>2, <2>3, <2>4 DEF MailIsLate
<1>6. ASSUME NEW e \in Event, LateMailReturns(e)
      PROVE  NoticesTypeOK'
  <2>1. dispatch[e] \in Dispatch
    BY <1>6, Zenon DEF LateMailReturns
  <2>2. PICK c \in MailChannel, sent \in BOOLEAN, left \in 0..dispatch[e].left :
          /\ \/ audited' = IF left > 0 THEN audited \cup {<<e, c>>} ELSE audited
             \/ Fault /\ UNCHANGED audited
          /\ dispatch' = [dispatch EXCEPT
               ![e] = [stage |-> "send", todo |-> Remaining(e, c, sent), left |-> left]]
    BY <1>6, Zenon DEF LateMailReturns
  <2>. DEFINE todo == Remaining(e, c, sent)
  <2>3. left \in 0..TimeLimit /\ todo \in SUBSET Channels
    BY <2>1 DEF Dispatch, Remaining
  <2>4. dispatch' = [dispatch EXCEPT ![e] = [stage |-> "send", todo |-> todo, left |-> left]]
    BY <2>2
  <2>5. audited' \subseteq Event \X Channels
    BY <2>2 DEF Channels
  <2>. HIDE DEF todo
  <2>6. [stage |-> "send", todo |-> todo, left |-> left] \in Dispatch
    BY <2>3 DEF Dispatch
  <2>7. dispatch' \in [Event -> Dispatch \cup {None}]
    BY <2>4, <2>6
  <2>. QED
    BY <1>6, <2>5, <2>7 DEF LateMailReturns
<1>7. ASSUME NEW e \in Event, DispatchEnds(e)
      PROVE  NoticesTypeOK'
  BY <1>7 DEF DispatchEnds
<1>8. CASE UNCHANGED noticeVars
  BY <1>8 DEF noticeVars
<1>. QED
  BY <1>1, <1>2, <1>3, <1>4, <1>5, <1>6, <1>7, <1>8 DEF NoticesNext, DispatchStep

LEMMA RetentionStep ==
  ASSUME RetentionTypeOK, [RetentionNext]_retentionVars
  PROVE  RetentionTypeOK'
<1>. DEFINE RowKind == [status : {"absent", "open", "cleared", "pruned"}, age : 0..OldestAge]
<1>. USE RetentionAssumption DEF RetentionTypeOK, Days
<1>0. /\ \A days, least \in Days : Begin(days, least) \in Applying
      /\ \A days \in Nat : Clamp(days) \in Days
  BY DEF Begin, Applying, Clamp
<1>1. ASSUME NEW r \in AlarmRow, RaiseOrClear(r)
      PROVE  RetentionTypeOK'
  <2>1. \A status \in {"open", "cleared"} : [alarmRow[r] EXCEPT !.status = status] \in RowKind
    OBVIOUS
  <2>2. \E status \in {"open", "cleared"} :
          alarmRow' = [alarmRow EXCEPT ![r] = [alarmRow[r] EXCEPT !.status = status]]
    BY <1>1 DEF RaiseOrClear
  <2>. QED
    BY <1>1, <2>1, <2>2 DEF RaiseOrClear
<1>2. CASE ADayPasses
  <2>1. \A r \in AlarmRow :
          alarmRow[r].age < OldestAge => [alarmRow[r] EXCEPT !.age = @ + 1] \in RowKind
    BY DEF OldestAge
  <2>. QED
    BY <1>2, <2>1 DEF ADayPasses
<1>3. CASE PutRetention
  <2>1. PICK asked \in 0..MaxDays + 1 :
          /\ keepDays' = Clamp(asked)
          /\ applying' = [a \in Applier |->
               IF a = "handler" THEN Begin(Clamp(asked), Clamp(asked))
               ELSE IF applying[a] # None /\ Clamp(asked) < applying[a].least
                    THEN [applying[a] EXCEPT !.least = Clamp(asked)] ELSE applying[a]]
    BY <1>3, Zenon DEF PutRetention
  <2>2. Clamp(asked) \in Days
    BY <1>0
  <2>3. \A a \in Applier : applying[a] # None =>
          [applying[a] EXCEPT !.least = Clamp(asked)] \in Applying
    BY <2>2 DEF Applying
  <2>4. applying' \in [Applier -> Applying \cup {None}]
    BY <1>0, <2>1, <2>2, <2>3
  <2>. QED
    BY <1>3, <2>1, <2>2, <2>4 DEF PutRetention
<1>4. CASE RunnerTick
  <2>1. PICK days \in {Loaded} \cup (IF Fault THEN {DefaultDays} ELSE {}) :
          applying' = [applying EXCEPT !["runner"] = Begin(days, keepDays)]
    BY <1>4 DEF RunnerTick
  <2>2. Begin(days, keepDays) \in Applying
    BY <1>0 DEF Loaded
  <2>. QED
    BY <1>4, <2>1, <2>2 DEF RunnerTick
<1>5. ASSUME NEW a \in Applier, ApplyPolicies(a)
      PROVE  RetentionTypeOK'
  <2>1. applying[a] \in Applying
    BY <1>5 DEF ApplyPolicies
  <2>2. [applying[a] EXCEPT !.stage = "prune"] \in Applying /\ applying[a].days \in Days
    BY <2>1 DEF Applying
  <2>3. \/ applying' = [applying EXCEPT ![a] = [applying[a] EXCEPT !.stage = "prune"]]
        \/ applying' = [applying EXCEPT ![a] = None]
    BY <1>5 DEF ApplyPolicies
  <2>. QED
    BY <1>5, <2>2, <2>3 DEF ApplyPolicies
<1>6. ASSUME NEW a \in Applier, Prune(a)
      PROVE  RetentionTypeOK'
  <2>1. \A r \in AlarmRow : [alarmRow[r] EXCEPT !.status = "pruned"] \in RowKind
    OBVIOUS
  <2>2. PICK b : alarmRow' = [r \in AlarmRow |->
          IF r \in b THEN [alarmRow[r] EXCEPT !.status = "pruned"] ELSE alarmRow[r]]
    BY <1>6, Zenon DEF Prune
  <2>3. alarmRow' \in [AlarmRow -> RowKind]
    BY <2>1, <2>2
  <2>. QED
    BY <1>6, <2>3 DEF Prune
<1>7. CASE RetentionRestarts
  BY <1>7 DEF RetentionRestarts
<1>8. CASE UNCHANGED retentionVars
  BY <1>8 DEF retentionVars
<1>. QED
  BY <1>1, <1>2, <1>3, <1>4, <1>5, <1>6, <1>7, <1>8 DEF RetentionNext, ApplierStep

\* A list of processes is finite, so the stops come in some order of a definite length.
ProcessesInv ==
  /\ ProcessesTypeOK
  /\ IsFiniteSet(alive) /\ IsFiniteSet(priorProcs)
  /\ \A l \in Loop : sampling[l] # None => IsFiniteSet(sampling[l].rows)

LEMMA ProcessesStep ==
  ASSUME ProcessesInv, [ProcessesNext]_<<online, processVars>>
  PROVE  ProcessesInv'
<1>. USE ProcessAssumption DEF ProcessesInv, ProcessesTypeOK
<1>1. CASE TimePasses
  BY <1>1 DEF TimePasses
<1>2. ASSUME NEW pid \in Pid, ProcessStarts(pid)
      PROVE  ProcessesInv'
  <2>1. [pid |-> pid, created |-> clock] \in Process
    BY DEF Process
  <2>2. IsFiniteSet(alive')
    BY <1>2, FS_AddElement DEF ProcessStarts
  <2>. QED
    BY <1>2, <2>1, <2>2 DEF ProcessStarts
<1>3. ASSUME NEW p \in alive, ProcessExits(p)
      PROVE  ProcessesInv'
  <2>1. IsFiniteSet(alive')
    BY <1>3, FS_Subset DEF ProcessExits
  <2>. QED
    BY <1>3, <2>1 DEF ProcessExits
<1>4. CASE ProcessLoopsStart \/ ProcessLoopsCancelled
  BY <1>4 DEF ProcessLoopsStart, ProcessLoopsCancelled, LoopsStart, LoopsCancelled, processVars
<1>5. CASE ProbeRestarts
  <2>1. <<>> \in Seq(Stop) /\ Len(<<>>) = 0 /\ IsFiniteSet({})
    BY FS_EmptySet
  <2>. QED
    BY <1>5, <2>1 DEF ProbeRestarts
<1>6. ASSUME NEW l \in Loop, ListProcesses(l)
      PROVE  ProcessesInv'
  <2>1. \A rows \in {alive, {}}, noted \in BOOLEAN :
          LET s == [rows |-> rows, noted |-> noted] IN s \in Sampling /\ IsFiniteSet(s.rows)
    BY FS_EmptySet DEF Sampling
  <2>2. \E rows \in {alive, {}}, noted \in BOOLEAN :
          sampling' = [sampling EXCEPT ![l] = [rows |-> rows, noted |-> noted]]
    BY <1>6 DEF ListProcesses
  <2>. QED
    BY <1>6, <2>1, <2>2 DEF ListProcesses
<1>7. ASSUME NEW l \in Loop, NoteProcesses(l)
      PROVE  ProcessesInv'
  <2>1. sampling[l] \in Sampling
    BY <1>7 DEF NoteProcesses
  <2>2. PICK stops \in SetToSeqs(Stops(sampling[l].rows)) : stopped' = Newest(stopped \o stops)
    BY <1>7, Zenon DEF NoteProcesses
  <2>3. stops \in Seq(Stop)
    <3>. DEFINE rows == sampling[l].rows
                Q == {q \in priorProcs : KeyFromRow(q) \notin {KeyOf(r) : r \in rows}}
                S == Stops(rows)
                n == Cardinality(S)
    <3>1. S = {StopOf(p, rows) : p \in Q} /\ Q \subseteq priorProcs
      BY DEF Stops
    <3>2. S \subseteq Stop
      <4>1. \A p \in Process : StopOf(p, rows) \in Stop
        BY DEF StopOf, Stop
      <4>. HIDE DEF S, Q, rows
      <4>. QED
        BY <3>1, <4>1
    <3>3. IsFiniteSet(Q)
      BY <3>1, FS_Subset
    <3>4. IsFiniteSet(S)
      <4>. DEFINE f == [p \in Q |-> StopOf(p, rows)]
      <4>. HIDE DEF S, Q, rows
      <4>1. f \in [Q -> S] /\ \A y \in S : \E p \in Q : f[p] = y
        BY <3>1
      <4>2. f \in Surjection(Q, S)
        BY <4>1 DEF Surjection
      <4>. QED
        BY <3>3, <4>2, FS_Surjection
    <3>5. n \in Nat
      BY <3>4, FS_CardinalityType
    <3>6. stops \in [1..n -> S]
      BY DEF SetToSeqs
    <3>. HIDE DEF S, n
    <3>. QED
      BY <3>2, <3>5, <3>6
  <2>. DEFINE all == stopped \o stops
              from == IF Len(all) > StopRing THEN Len(all) - StopRing + 1 ELSE 1
  <2>4. all \in Seq(Stop) /\ Len(all) \in Nat
    BY <2>3, ConcatProperties
  <2>. HIDE DEF all
  <2>5. from \in 1..Len(all) + 1 /\ Len(all) - from + 1 <= StopRing
    BY <2>4
  <2>. HIDE DEF from
  <2>6. SubSeq(all, from, Len(all)) \in Seq(Stop)
          /\ Len(SubSeq(all, from, Len(all))) <= StopRing
    BY <2>4, <2>5, SubSeqProperties
  <2>7. stopped' = SubSeq(all, from, Len(all))
    BY <2>2 DEF all, from, Newest
  <2>8. [sampling[l] EXCEPT !.noted = TRUE] \in Sampling
          /\ [sampling[l] EXCEPT !.noted = TRUE].rows = sampling[l].rows
    BY <2>1 DEF Sampling
  <2>9. sampling' = [sampling EXCEPT ![l] = [sampling[l] EXCEPT !.noted = TRUE]]
    BY <1>7 DEF NoteProcesses
  <2>10. priorProcs' \subseteq Process /\ IsFiniteSet(priorProcs')
    BY <1>7, <2>1 DEF NoteProcesses, Sampling
  <2>. QED
    BY <1>7, <2>6, <2>7, <2>8, <2>9, <2>10 DEF NoteProcesses
<1>8. ASSUME NEW l \in Loop, ShowProcesses(l)
      PROVE  ProcessesInv'
  <2>1. \A s \in Range(stopped) : s \in Stop
    BY DEF Range
  <2>. QED
    BY <1>8, <2>1 DEF ShowProcesses
<1>9. CASE UNCHANGED <<online, processVars>>
  BY <1>9 DEF processVars
<1>. QED
  BY <1>1, <1>2, <1>3, <1>4, <1>5, <1>6, <1>7, <1>8, <1>9 DEF ProcessesNext, SnapshotStep

-----------------------------------------------------------------------------
(* All of them together. *)

LEMMA AccountsInCompany ==
  [ServicesNext]_servicesVars => [AccountsNext]_accountVars
  BY DEF ServicesNext, FaultsEnd, OthersStill, servicesVars

LEMMA TopologyInCompany ==
  [ServicesNext]_servicesVars => [TopologyNext]_topologyVars
  BY DEF ServicesNext, FaultsEnd, OthersStill, servicesVars

LEMMA OthersInCompany ==
  [ServicesNext]_servicesVars =>
    /\ [ChecksNext]_checksVars /\ [DiscoveryNext]_discoveryVars
    /\ [InventoryNext]_inventoryVars /\ [HealthNext]_healthVars
    /\ [PeersNext]_peersVars /\ [NoticesNext]_noticeVars
    /\ [ComplianceNext]_complianceVars /\ [RetentionNext]_retentionVars
    /\ [ReceiversNext]_receiverVars
<1>. USE DEF ServicesNext, FaultsEnd, OthersStill, servicesVars
<1>. SUFFICES ASSUME [ServicesNext]_servicesVars
              PROVE  /\ [ChecksNext]_checksVars /\ [DiscoveryNext]_discoveryVars
                     /\ [InventoryNext]_inventoryVars /\ [HealthNext]_healthVars
                     /\ [PeersNext]_peersVars /\ [NoticesNext]_noticeVars
                     /\ [ComplianceNext]_complianceVars /\ [RetentionNext]_retentionVars
                     /\ [ReceiversNext]_receiverVars
  OBVIOUS
<1>1. [ChecksNext]_checksVars
  OBVIOUS
<1>2. [DiscoveryNext]_discoveryVars
  OBVIOUS
<1>3. [InventoryNext]_inventoryVars
  OBVIOUS
<1>4. [HealthNext]_healthVars
  OBVIOUS
<1>5. [PeersNext]_peersVars
  OBVIOUS
<1>6. [NoticesNext]_noticeVars
  OBVIOUS
<1>7. [ComplianceNext]_complianceVars
  OBVIOUS
<1>8. [RetentionNext]_retentionVars
  OBVIOUS
<1>9. [ReceiversNext]_receiverVars
  OBVIOUS
<1>. HIDE DEF ServicesNext, FaultsEnd, OthersStill, servicesVars
<1>. QED
  BY <1>1, <1>2, <1>3, <1>4, <1>5, <1>6, <1>7, <1>8, <1>9

\* The processes and the telemetry of a host share its connection, and nothing else.
HostInv == ProcessesInv /\ TelemetryTypeOK

LEMMA HostInCompany ==
  ASSUME HostInv, [ServicesNext]_servicesVars
  PROVE  HostInv'
<1>1. \/ [ProcessesNext]_<<online, processVars>> /\ UNCHANGED telemetryVars
      \/ [TelemetryNext]_<<online, telemetryVars>> /\ UNCHANGED processVars
  BY DEF ServicesNext, FaultsEnd, OthersStill, servicesVars
<1>2. CASE [ProcessesNext]_<<online, processVars>> /\ UNCHANGED telemetryVars
  <2>1. ProcessesInv'
    BY <1>2, ProcessesStep DEF HostInv
  <2>2. online' \in Loop \cup {None}
    BY <2>1 DEF ProcessesInv, ProcessesTypeOK
  <2>. QED
    BY <1>2, <2>1, <2>2 DEF HostInv, TelemetryTypeOK, telemetryVars, caches
<1>3. CASE [TelemetryNext]_<<online, telemetryVars>> /\ UNCHANGED processVars
  <2>1. TelemetryTypeOK'
    BY <1>3, TelemetryStep DEF HostInv
  <2>2. online' \in Loop \cup {None}
    BY <2>1 DEF TelemetryTypeOK
  <2>. QED
    BY <1>3, <2>1, <2>2 DEF HostInv, ProcessesInv, ProcessesTypeOK, processVars
<1>. QED
  BY <1>1, <1>2, <1>3

\* What the types of the other components need.
OthersInv ==
  /\ ChecksTypeOK /\ DiscoveryTypeOK /\ InventoryTypeOK /\ HealthInv /\ HostInv
  /\ PeersTypeOK /\ NoticesTypeOK /\ ComplianceTypeOK /\ RetentionTypeOK
  /\ ReceiversTypeOK

LEMMA OthersStart ==
  ASSUME ServicesInit
  PROVE  OthersInv
<1>. USE DEF ServicesInit
<1>1. ChecksTypeOK
  BY DEF ChecksInit, ChecksTypeOK
<1>2. DiscoveryTypeOK
  BY DEF DiscoveryInit, DiscoveryTypeOK, Idle, ScannerState
<1>3. InventoryTypeOK
  BY DEF InventoryInit, InventoryTypeOK
<1>4. HealthInv
  BY DEF HealthInit, HealthInv, HealthTypeOK
<1>5. ProcessesInv
  <2>1. <<>> \in Seq(Process) /\ Len(<<>>) = 0 /\ IsFiniteSet({})
    BY FS_EmptySet
  <2>. QED
    BY <2>1, ProcessAssumption DEF ProcessesInit, ProcessesInv, ProcessesTypeOK
<1>6. TelemetryTypeOK
  BY DEF TelemetryInit, TelemetryTypeOK, Content, Inventory, Screen
<1>7. PeersTypeOK
  BY DEF PeersInit, PeersTypeOK, Network, Latency, Direction
<1>8. NoticesTypeOK
  BY DEF NoticesInit, NoticesTypeOK
<1>9. ComplianceTypeOK
  <2>1. ComplianceInit
    OBVIOUS
  <2>2. [reboot |-> FALSE, linked |-> 0] \in Posture
    BY ComplianceAssumption DEF Posture
  <2>. HIDE DEF ServicesInit
  <2>. QED
    BY <2>1, <2>2 DEF ComplianceInit, ComplianceTypeOK
<1>10. RetentionTypeOK
  <2>. DEFINE kept == [status |-> "absent", age |-> 0]
  <2>1. kept \in [status : {"absent", "open", "cleared", "pruned"}, age : 0..OldestAge]
    BY RetentionAssumption DEF OldestAge
  <2>2. RetentionInit
    OBVIOUS
  <2>. HIDE DEF ServicesInit
  <2>. QED
    BY <2>1, <2>2, RetentionAssumption DEF RetentionInit, RetentionTypeOK, Days
<1>11. ReceiversTypeOK
  BY DEF ReceiversInit, ReceiversTypeOK, Fate
<1>. QED
  BY <1>1, <1>2, <1>3, <1>4, <1>5, <1>6, <1>7, <1>8, <1>9, <1>10, <1>11 DEF OthersInv, HostInv

LEMMA OthersStep ==
  ASSUME OthersInv, [ServicesNext]_servicesVars
  PROVE  OthersInv'
<1>1. ChecksTypeOK' /\ DiscoveryTypeOK' /\ InventoryTypeOK' /\ HealthInv'
  BY OthersInCompany, ChecksStep, DiscoveryStep, InventoryStep, HealthStepped DEF OthersInv
<1>2. HostInv'
  BY HostInCompany DEF OthersInv
<1>3. PeersTypeOK' /\ NoticesTypeOK' /\ ComplianceTypeOK' /\ RetentionTypeOK'
  BY OthersInCompany, PeersStep, NoticesStep, ComplianceStep, RetentionStep DEF OthersInv
<1>4. ReceiversTypeOK'
  BY OthersInCompany, ReceiversStep DEF OthersInv
<1>. QED
  BY <1>1, <1>2, <1>3, <1>4 DEF OthersInv

\* Enrollment does what EnrollmentAlone says, and so on.
THEOREM ServicesAreAsAlone ==
  ServicesMove =>
    /\ EnrollmentAlone /\ PresenceAlone /\ UpdateAlone /\ PassiveAlone
    /\ AccountsAlone /\ TopologyAlone
<1>1. ServicesInit =>
        /\ EnrollmentInit /\ PresenceInit /\ UpdateInit /\ PassiveInit
        /\ AccountsInit /\ TopologyInit
  BY DEF ServicesInit
<1>. QED
  BY <1>1, EnrollmentInCompany, PresenceInCompany, UpdateInCompany, PassiveInCompany,
     AccountsInCompany, TopologyInCompany, PTL
  DEF ServicesMove, EnrollmentAlone, PresenceAlone, UpdateAlone, PassiveAlone, AccountsAlone,
      TopologyAlone

\* Whatever component moves, every variable keeps its type.
THEOREM ServicesAreTyped == ServicesMove => []ServicesTypeOK
<1>1. ServicesInit => OthersInv
  BY OthersStart
<1>2. OthersInv /\ [ServicesNext]_servicesVars => OthersInv'
  BY OthersStep
<1>3. /\ EnrollmentInv /\ PresenceInv /\ UpdateInv /\ PassiveInv /\ AccountsInv /\ TopologyInv
      /\ OthersInv
      => ServicesTypeOK
  BY DEF EnrollmentInv, PresenceInv, UpdateInv, PassiveInv, AccountsInv, TopologyInv,
         OthersInv, HealthInv, HostInv, ProcessesInv, ServicesTypeOK
<1>. QED
  BY <1>1, <1>2, <1>3, ServicesAreAsAlone, EnrollmentIsInvariant, PresenceIsInvariant,
     UpdateIsInvariant, PassiveIsInvariant, AccountsIsInvariant, TopologyIsInvariant, PTL
  DEF ServicesMove

-----------------------------------------------------------------------------
(* What the two runs check, for all values of the constants. *)

\* Every variable keeps its type, in the two halves of the system.
THEOREM FleetIsTyped == FleetSpec => []ServicesTypeOK
  BY ServicesAreTyped, PTL DEF FleetSpec

THEOREM SiteIsTyped == SiteSpec => []ServicesTypeOK
  BY ServicesAreTyped, PTL DEF SiteSpec

\* No host holds a credential beyond the uses that an operator gave to its token, however
\* many enroll at once, lose their answers and try again.
THEOREM FleetCredentials == FleetSpec => []CredentialsWithinBudget
  BY ServicesAreAsAlone, CredentialsAreWithinBudget, PTL DEF FleetSpec

\* Enrollment in company is the budget of its tokens: every step of the server, of a host or
\* of an operator spends a use, returns one, or does nothing to the budget.
THEOREM FleetImplementsBudget == FleetSpec => EnrollmentImplementsBudget
  BY ServicesAreAsAlone, EnrollmentRefinesBudget, PTL DEF FleetSpec

\* An agent is announced to be offline once for each of its silences, though the sweep, the
\* streams and the delete handler meet in its row.
THEOREM FleetOfflineOnce == FleetSpec => OfflineOncePerSilence
  BY ServicesAreAsAlone, OfflineIsOncePerSilence, PTL DEF FleetSpec

\* What is at the probe's path is a whole build; none is there only between the two renames
\* of an update, or after a fault between them.
THEOREM FleetIsRunnable == FleetSpec => []RunnableAtPath
<1>1. UpdateInv => RunnableAtPath
  BY DEF UpdateInv
<1>. QED
  BY <1>1, ServicesAreAsAlone, UpdateIsInvariant, PTL DEF FleetSpec

\* The last active superadmin and a site with something in it are lost only to a request
\* that another one overtook.
THEOREM FleetLosesOnlyByRacing == FleetSpec => LostOnlyWhenOvertaken
  BY ServicesAreAsAlone, LostOnlyByRacing, PTL DEF FleetSpec

\* A device is retired only when the last RetireAfter batches, in the order of their commits,
\* were without it.  When it takes a miss by every collector to retire, the feed's newest
\* event of a retired device says so.
THEOREM SiteRetirementIsTrue == SiteSpec => []RetirementIsTrue
  BY ServicesAreAsAlone, RetirementStaysTrue, PTL DEF SiteSpec

\* The graph that a site is shown is true of the rows it was drawn from, and shows no link
\* twice but that of a VPN peer which is told of under two names.
THEOREM SiteGraphIsTrue == SiteSpec => []GraphIsTrue
  BY ServicesAreAsAlone, GraphStaysTrue, PTL DEF SiteSpec

-----------------------------------------------------------------------------
(* What remains of the promise that run services_retention finds broken. *)

SettingsAreRead == [][RunnerTick => applying'["runner"].days = keepDays]_retentionVars

\* Both appliers go by a setting of their time.
ByASetting == \A a \in Applier : applying[a] # None => applying[a].least <= applying[a].days

LEMMA ByASettingStep ==
  ASSUME RetentionTypeOK, ByASetting, [RetentionNext]_retentionVars,
         RunnerTick => applying'["runner"].days = keepDays
  PROVE  ByASetting'
<1>. USE RetentionAssumption DEF RetentionTypeOK, ByASetting, Days
<1>0. \A days, least : Begin(days, least).days = days /\ Begin(days, least).least = least
  BY DEF Begin
<1>1. CASE UNCHANGED applying
  BY <1>1
<1>2. CASE PutRetention
  <2>1. PICK asked \in 0..MaxDays + 1 :
          applying' = [a \in Applier |->
            IF a = "handler" THEN Begin(Clamp(asked), Clamp(asked))
            ELSE IF applying[a] # None /\ Clamp(asked) < applying[a].least
                 THEN [applying[a] EXCEPT !.least = Clamp(asked)] ELSE applying[a]]
    BY <1>2, Zenon DEF PutRetention
  <2>2. Clamp(asked) \in Days
    BY DEF Clamp
  <2>3. ASSUME NEW a \in Applier, applying'[a] # None, a # "handler",
               ~(applying[a] # None /\ Clamp(asked) < applying[a].least)
        PROVE  applying'[a].least <= applying'[a].days
    BY <2>1, <2>3
  <2>4. ASSUME NEW a \in Applier, a # "handler",
               applying[a] # None, Clamp(asked) < applying[a].least
        PROVE  applying'[a].least <= applying'[a].days
    <3>1. applying[a] \in Applying /\ applying'[a] = [applying[a] EXCEPT !.least = Clamp(asked)]
      BY <2>1, <2>4
    <3>2. /\ applying'[a].least = Clamp(asked) /\ applying'[a].days = applying[a].days
          /\ {applying[a].least, applying[a].days} \subseteq Int
      BY <3>1 DEF Applying
    <3>. QED
      BY <2>2, <2>4, <3>2
  <2>5. applying'["handler"].least <= applying'["handler"].days
    BY <1>0, <2>1, <2>2 DEF Applier
  <2>. QED
    BY <2>3, <2>4, <2>5
<1>3. CASE RunnerTick
  <2>1. PICK days : applying' = [applying EXCEPT !["runner"] = Begin(days, keepDays)]
    BY <1>3 DEF RunnerTick
  <2>2. days = keepDays
    BY <1>0, <1>3, <2>1 DEF Applier
  <2>. QED
    BY <1>0, <2>1, <2>2
<1>4. ASSUME NEW a \in Applier, ApplyPolicies(a)
      PROVE  ByASetting'
  <2>1. CASE applying' = [applying EXCEPT ![a] = None]
    BY <2>1
  <2>2. CASE applying' = [applying EXCEPT ![a].stage = "prune"]
    <3>1. applying[a] \in Applying /\ applying[a] # None
      BY <1>4 DEF ApplyPolicies
    <3>2. applying'[a].least = applying[a].least /\ applying'[a].days = applying[a].days
      BY <2>2, <3>1 DEF Applying
    <3>. QED
      BY <2>2, <3>1, <3>2
  <2>. QED
    BY <1>4, <2>1, <2>2 DEF ApplyPolicies
<1>5. ASSUME NEW a \in Applier, Prune(a)
      PROVE  ByASetting'
  BY <1>5 DEF Prune
<1>6. CASE RetentionRestarts
  BY <1>6 DEF RetentionRestarts
<1>. QED
  BY <1>1, <1>2, <1>3, <1>4, <1>5, <1>6
  DEF RetentionNext, RaiseOrClear, ADayPasses, ApplierStep, retentionVars

\* A cleared alarm is deleted only when a setting of the time is exceeded, as
\* docs/src/data-retention.md:37 has it - as long as the runner can read the settings: the
\* failed read of settings.go:276 is the only way to lose one earlier.
THEOREM KeptWhenSettingsAreRead == SiteSpec /\ SettingsAreRead => KeptAsLongAsSet
<1>. DEFINE Read == RunnerTick => applying'["runner"].days = keepDays
            Kept == \A r \in AlarmRow :
                      alarmRow[r].status = "cleared" /\ alarmRow'[r].status = "pruned" =>
                        \E a \in Applier :
                          applying[a] # None /\ alarmRow[r].age > applying[a].least
<1>1. ServicesInit => ByASetting
  BY DEF ServicesInit, RetentionInit, ByASetting
<1>2. RetentionTypeOK /\ ByASetting /\ [RetentionNext]_retentionVars /\ [Read]_retentionVars
        => ByASetting'
  <2>1. CASE UNCHANGED retentionVars
    BY <2>1 DEF ByASetting, retentionVars
  <2>. QED
    BY <2>1, ByASettingStep
<1>3. RetentionTypeOK /\ ByASetting /\ [RetentionNext]_retentionVars => [Kept]_retentionVars
  <2>1. ASSUME RetentionTypeOK, ByASetting, RetentionNext, NEW r \in AlarmRow,
               alarmRow[r].status = "cleared", alarmRow'[r].status = "pruned"
        PROVE  \E a \in Applier : applying[a] # None /\ alarmRow[r].age > applying[a].least
    <3>. USE DEF RetentionTypeOK
    <3>1. PICK a \in Applier : Prune(a)
      <4>1. alarmRow' # alarmRow
        BY <2>1
      <4>2. ~(\E s \in AlarmRow : RaiseOrClear(s))
        <5>1. SUFFICES ASSUME NEW s \in AlarmRow, RaiseOrClear(s) PROVE FALSE
          OBVIOUS
        <5>2. alarmRow'[r].status \in {alarmRow[r].status, "open", "cleared"}
          BY <2>1, <5>1 DEF RaiseOrClear
        <5>. QED
          BY <2>1, <5>2
      <4>3. ~ADayPasses
        <5>1. ADayPasses => alarmRow'[r].status = alarmRow[r].status
          BY <2>1 DEF ADayPasses
        <5>. QED
          BY <2>1, <5>1
      <4>. QED
        BY <2>1, <4>1, <4>2, <4>3
        DEF RetentionNext, ApplierStep, ApplyPolicies, PutRetention, RunnerTick,
            RetentionRestarts
    <3>2. PICK b \in Batches(Due(applying[a].days)) \cup (IF Fault THEN {{}} ELSE {}) :
            alarmRow' = [s \in AlarmRow |->
              IF s \in b THEN [alarmRow[s] EXCEPT !.status = "pruned"] ELSE alarmRow[s]]
      BY <3>1, Zenon DEF Prune
    <3>3. r \in b
      BY <2>1, <3>2
    <3>4. alarmRow[r].age > applying[a].days
      BY <3>2, <3>3 DEF Batches, Due
    <3>5. applying[a] # None /\ applying[a].least <= applying[a].days
      BY <2>1, <3>1 DEF Prune, ByASetting
    <3>6. {alarmRow[r].age, applying[a].days, applying[a].least} \subseteq Int
      BY <2>1, <3>5, RetentionAssumption DEF Applying, Days, OldestAge
    <3>. QED
      BY <3>4, <3>5, <3>6
  <2>. QED
    BY <2>1
<1>4. ServicesTypeOK => RetentionTypeOK
  BY DEF ServicesTypeOK
<1>5. [ServicesNext]_servicesVars => [RetentionNext]_retentionVars
  BY OthersInCompany
<1>6. SettingsAreRead <=> [][Read]_retentionVars
  BY DEF SettingsAreRead
<1>7. KeptAsLongAsSet <=> [][Kept]_retentionVars
  BY DEF KeptAsLongAsSet
<1>. HIDE DEF Read, Kept
<1>. QED
  BY <1>1, <1>2, <1>3, <1>4, <1>5, <1>6, <1>7, ServicesAreTyped, PTL DEF SiteSpec, ServicesMove
=============================================================================
