--------------------------- MODULE DelegationProofs ---------------------------
(***************************************************************************)
(* Proofs about Delegation, for any collectors, requests and intervals.    *)
(***************************************************************************)
EXTENDS Delegation, TLAPS

Awaited(q) == request[q] # None /\ ~request[q].late

\* A write that somebody waits for is the only one its sender waits for.
Waiting ==
  \A q \in Request : Awaited(q) =>
    /\ Has(request[q].from, "writing")
    /\ \A r \in Request : Awaited(r) /\ request[r].from = request[q].from => r = q

\* The history knows of every moment the row was the sender's, the present one
\* included, and of the acceptance.
Accounted ==
  \A q \in Request :
    /\ request[q] # None
    /\ request[q].phase = "accepted" \/ request[q].from \in {Central, row.owner}
    => request[q].owned

Inv == TypeOK /\ Waiting /\ Accounted

-----------------------------------------------------------------------------
(* Helpers. *)

LEMMA InitInv == Init => Inv
BY NoneAssumption DEF Init, Inv, TypeOK, Waiting, Accounted, Awaited, Row, Poller

LEMMA SendIsCall ==
  ASSUME TypeOK, NEW p \in Poller, NEW kind \in {"result", "error"}
  PROVE  Send(p, kind) \in Call
BY DEF Send, Call, TypeOK

\* What is sent is accounted for.
LEMMA SendIsAccounted ==
  ASSUME TypeOK, NEW p \in Poller, NEW kind \in {"result", "error"},
         Send(p, kind).phase = "accepted" \/ p \in {Central, row.owner}
  PROVE  Send(p, kind).owned
BY DEF Send, TypeOK

LEMMA RowedInv ==
  ASSUME Inv, NEW newRow \in Row, Rowed(newRow), UNCHANGED <<listed, worker, polled>>,
         coll' \in [Collector -> {"active", "inactive", "gone"}]
  PROVE  Inv'
<1>1. row' = newRow /\ request' \in [Request -> Call \cup {None}]
  BY DEF Inv, TypeOK, Rowed, Call
<1>2. TypeOK'
  BY <1>1 DEF Inv, TypeOK
<1>3. ASSUME NEW q \in Request
      PROVE  /\ request'[q] = None <=> request[q] = None
             /\ request[q] # None =>
                  /\ request'[q].from = request[q].from
                  /\ request'[q].late = request[q].late
                  /\ request'[q].phase = request[q].phase
                  /\ request[q].owned => request'[q].owned
                  /\ newRow.owner = request[q].from => request'[q].owned
  BY NoneAssumption DEF Inv, TypeOK, Rowed, Call
<1>4. Waiting'
  BY <1>3 DEF Inv, Waiting, Awaited, Has
<1>5. Accounted'
  BY <1>1, <1>3 DEF Inv, Accounted
<1> QED BY <1>2, <1>4, <1>5 DEF Inv

-----------------------------------------------------------------------------
(* Steps that add, change or remove one request. *)

\* The answer to a write.
LEMMA AnswerInv ==
  ASSUME Inv, NEW q \in Request, request[q] # None, NEW good \in BOOLEAN,
         Answer(q, good), UNCHANGED <<table, listed>>,
         polled' \in Poller \cup {None}
  PROVE  Inv'
<1> DEFINE call == request[q]
<1>1. call \in Call /\ call.from \in Poller
  BY NoneAssumption DEF Inv, TypeOK, Call
<1>2. CASE call.kind = "result" /\ ~good /\ ~call.late
  <2>1. /\ request' = [request EXCEPT ![q] = Send(call.from, "error")]
        /\ UNCHANGED worker
    BY <1>2 DEF Answer
  <2>2. /\ Send(call.from, "error") \in Call
        /\ Send(call.from, "error") # None
        /\ Send(call.from, "error").from = call.from
        /\ ~Send(call.from, "error").late
    BY <1>1, SendIsCall, NoneAssumption DEF Inv, Send
  <2>3. TypeOK'
    BY <2>1, <2>2 DEF Inv, TypeOK, table
  <2>4. \A r \in Request : r # q => request'[r] = request[r]
    BY <2>1 DEF Inv, TypeOK
  <2>5. request'[q] = Send(call.from, "error")
    BY <2>1 DEF Inv, TypeOK
  <2>6. \A r \in Request : (Awaited(r)' <=> Awaited(r))
                           /\ (Awaited(r) => request'[r].from = request[r].from)
    BY <1>2, <2>2, <2>4, <2>5 DEF Awaited
  <2>7. Waiting'
    BY <2>1, <2>6 DEF Inv, Waiting, Has
  <2>8. Accounted'
    BY <1>1, <2>2, <2>4, <2>5, SendIsAccounted DEF Inv, Accounted, table
  <2> QED BY <2>3, <2>7, <2>8 DEF Inv
<1>3. CASE ~(call.kind = "result" /\ ~good /\ ~call.late)
  <2>1. /\ request' = [request EXCEPT ![q] = None]
        /\ IF call.late THEN UNCHANGED worker ELSE Goes(call.from, "ticking")
    BY <1>3 DEF Answer
  <2>2. request'[q] = None /\ \A r \in Request : r # q => request'[r] = request[r]
    BY <2>1 DEF Inv, TypeOK
  <2>3. worker' \in [Poller -> Worker \cup {None}]
    BY <1>1, <2>1, NoneAssumption
    DEF Inv, TypeOK, Goes, Worker, Waiting, Awaited, Has
  <2>4. TypeOK'
    BY <2>1, <2>3 DEF Inv, TypeOK, table
  <2>5. ASSUME NEW r \in Request, Awaited(r)'
        PROVE  r # q /\ Awaited(r) /\ request'[r] = request[r]
    BY <2>2, <2>5 DEF Awaited
  <2>6. ASSUME NEW r \in Request, Awaited(r)'
        PROVE  Has(request[r].from, "writing")'
    <3>1. r # q /\ Awaited(r) /\ request'[r] = request[r]
      BY <2>5, <2>6
    <3>2. Has(request[r].from, "writing")
      BY <3>1 DEF Inv, Waiting
    <3>3. CASE call.late
      BY <2>1, <3>1, <3>2, <3>3 DEF Has
    <3>4. CASE ~call.late
      <4>1. request[r].from # call.from
        BY <3>1, <3>4 DEF Inv, Waiting, Awaited
      <4>2. worker'[request[r].from] = worker[request[r].from]
        BY <2>1, <3>4, <4>1, <3>1, NoneAssumption DEF Goes, Inv, TypeOK, Call, Awaited
      <4> QED BY <3>1, <3>2, <4>2 DEF Has
    <3> QED BY <3>3, <3>4
  <2>7. Waiting'
    BY <2>5, <2>6 DEF Inv, Waiting
  <2>8. Accounted'
    BY <2>2 DEF Inv, Accounted, table
  <2> QED BY <2>4, <2>7, <2>8 DEF Inv
<1> QED BY <1>2, <1>3

\* A context is cancelled, and with it goes the worker that had it.
LEMMA OrphanedInv ==
  ASSUME Inv, NEW p \in Poller, NEW w \in Worker \cup {None},
         worker' = [worker EXCEPT ![p] = w], request' = Orphaned(p),
         UNCHANGED <<table, polled>>,
         listed' \in [Collector -> Interval \cup {Absent, None}]
  PROVE  Inv'
<1>1. request' \in [Request -> Call \cup {None}]
  BY DEF Inv, TypeOK, Orphaned, Call
<1>2. TypeOK'
  BY <1>1 DEF Inv, TypeOK, table
<1>3. ASSUME NEW q \in Request
      PROVE  /\ request'[q] = None <=> request[q] = None
             /\ request[q] # None =>
                  /\ request'[q].from = request[q].from
                  /\ request'[q].phase = request[q].phase
                  /\ request'[q].owned = request[q].owned
             /\ Awaited(q)' => request[q].from # p /\ Awaited(q)
  BY NoneAssumption DEF Inv, TypeOK, Orphaned, Call, Awaited
<1>4. ASSUME NEW q \in Request, Awaited(q)'
      PROVE  Has(request[q].from, "writing")'
  BY <1>3, <1>4 DEF Inv, TypeOK, Waiting, Has, Awaited
<1>5. Waiting'
  BY <1>3, <1>4 DEF Inv, Waiting, Awaited
<1>6. Accounted'
  BY <1>3 DEF Inv, Accounted, table
<1> QED BY <1>2, <1>5, <1>6 DEF Inv

\* A worker that waits for nothing moves on.
LEMMA MovesInv ==
  ASSUME Inv, NEW p \in Poller, NEW from \in {"ticking", "polling"},
         NEW to \in {"ticking", "polling"}, Has(p, from), Goes(p, to),
         UNCHANGED <<table, listed, request, polled>>
  PROVE  Inv'
<1>1. worker' \in [Poller -> Worker \cup {None}]
  BY NoneAssumption DEF Inv, TypeOK, Goes, Has, Worker
<1>2. TypeOK'
  BY <1>1 DEF Inv, TypeOK, table
<1>3. ASSUME NEW q \in Request, Awaited(q)
      PROVE  Has(request[q].from, "writing")'
  <2>1. Has(request[q].from, "writing")
    BY <1>3 DEF Inv, Waiting
  <2>2. request[q].from # p
    BY <2>1 DEF Has
  <2>3. worker'[request[q].from] = worker[request[q].from]
    BY <1>3, <2>2, NoneAssumption DEF Goes, Inv, TypeOK, Call, Awaited
  <2> QED BY <2>1, <2>3 DEF Has
<1>4. Waiting'
  BY <1>3 DEF Inv, Waiting, Awaited
<1>5. Accounted'
  BY DEF Inv, Accounted, table
<1> QED BY <1>2, <1>4, <1>5 DEF Inv

\* A poll ends and its outcome is sent.
LEMMA PollEndsInv ==
  ASSUME Inv, NEW p \in Poller, NEW kind \in {"result", "error"}, PollEnds(p, kind)
  PROVE  Inv'
<1>1. PICK q \in Request :
        request[q] = None /\ request' = [request EXCEPT ![q] = Send(p, kind)]
  BY DEF PollEnds
<1>2. /\ Send(p, kind) \in Call /\ Send(p, kind) # None
      /\ Send(p, kind).from = p
  BY SendIsCall, NoneAssumption DEF Inv, Send
<1>3. request'[q] = Send(p, kind) /\ \A r \in Request : r # q => request'[r] = request[r]
  BY <1>1 DEF Inv, TypeOK
<1>4. /\ worker' \in [Poller -> Worker \cup {None}]
      /\ Has(p, "writing")'
      /\ \A o \in Poller : o # p => worker'[o] = worker[o]
  BY NoneAssumption DEF PollEnds, Goes, Has, Worker, Inv, TypeOK
<1>5. TypeOK'
  BY <1>1, <1>2, <1>4 DEF PollEnds, Inv, TypeOK, table
<1>6. ASSUME NEW r \in Request, Awaited(r), r # q
      PROVE  request[r].from # p /\ Has(request[r].from, "writing")'
  <2>1. Has(request[r].from, "writing")
    BY <1>6 DEF Inv, Waiting
  <2>2. request[r].from # p
    BY <2>1 DEF PollEnds, Has
  <2>3. request[r].from \in Poller
    BY <1>6, NoneAssumption DEF Inv, TypeOK, Call, Awaited
  <2> QED BY <1>3, <1>4, <1>6, <2>1, <2>2, <2>3 DEF Has
<1>7. Waiting'
  BY <1>2, <1>3, <1>4, <1>6 DEF Inv, Waiting, Awaited
<1>8. Accounted'
  BY <1>2, <1>3, SendIsAccounted DEF PollEnds, Inv, Accounted, table
<1> QED BY <1>5, <1>7, <1>8 DEF Inv

LEMMA CheckOwnerInv ==
  ASSUME Inv, NEW q \in Request, CheckOwner(q)
  PROVE  Inv'
<1>1. CASE ~Acceptable(request[q])
  BY <1>1, AnswerInv DEF CheckOwner, Inv, TypeOK
<1>2. CASE Acceptable(request[q])
  <2>1. /\ request' = [request EXCEPT ![q].phase = "accepted"]
        /\ UNCHANGED <<table, listed, worker, polled>>
    BY <1>2 DEF CheckOwner
  <2>2. request[q].owned
    BY <1>2 DEF CheckOwner, Acceptable, Inv, Accounted
  <2>3. request' \in [Request -> Call \cup {None}]
    BY <2>1, NoneAssumption DEF CheckOwner, Inv, TypeOK, Call
  <2>4. TypeOK'
    BY <2>1, <2>3 DEF Inv, TypeOK, table
  <2>5. ASSUME NEW r \in Request
        PROVE  /\ request'[r] = None <=> request[r] = None
               /\ request[r] # None =>
                    /\ request'[r].from = request[r].from
                    /\ request'[r].late = request[r].late
                    /\ request'[r].owned = request[r].owned
                    /\ r # q => request'[r].phase = request[r].phase
    BY <2>1, <2>3, NoneAssumption DEF CheckOwner, Inv, TypeOK, Call
  <2>6. Waiting'
    BY <2>1, <2>5 DEF Inv, Waiting, Awaited, Has
  <2>7. Accounted'
    BY <2>1, <2>2, <2>5 DEF Inv, Accounted, table
  <2> QED BY <2>4, <2>6, <2>7 DEF Inv
<1> QED BY <1>1, <1>2

LEMMA GivesUpInv ==
  ASSUME Inv, NEW q \in Request, GivesUp(q)
  PROVE  Inv'
<1> DEFINE p == request[q].from
<1>1. p \in Poller /\ Has(p, "writing")
  BY NoneAssumption DEF GivesUp, Inv, TypeOK, Call, Waiting, Awaited
<1>2. /\ worker' \in [Poller -> Worker \cup {None}]
      /\ \A o \in Poller : o # p => worker'[o] = worker[o]
  BY <1>1, NoneAssumption DEF GivesUp, Goes, Has, Worker, Inv, TypeOK
<1>3. request' \in [Request -> Call \cup {None}]
  BY NoneAssumption DEF GivesUp, Inv, TypeOK, Call
<1>4. TypeOK'
  BY <1>2, <1>3 DEF GivesUp, Inv, TypeOK, table
<1>5. ASSUME NEW r \in Request
      PROVE  /\ request'[r] = None <=> request[r] = None
             /\ request[r] # None =>
                  /\ request'[r].from = request[r].from
                  /\ request'[r].phase = request[r].phase
                  /\ request'[r].owned = request[r].owned
             /\ Awaited(r)' => r # q /\ Awaited(r)
  BY NoneAssumption DEF GivesUp, Inv, TypeOK, Call, Awaited
<1>6. ASSUME NEW r \in Request, Awaited(r)'
      PROVE  Has(request[r].from, "writing")'
  <2>1. r # q /\ Awaited(r) /\ Has(request[r].from, "writing")
    BY <1>5, <1>6 DEF Inv, Waiting
  <2>2. request[r].from # p
    BY <2>1 DEF GivesUp, Inv, Waiting, Awaited
  <2>3. request[r].from \in Poller
    BY <2>1, NoneAssumption DEF Inv, TypeOK, Call, Awaited
  <2> QED BY <1>2, <1>5, <2>1, <2>2, <2>3 DEF Has, Awaited
<1>7. Waiting'
  BY <1>5, <1>6 DEF Inv, Waiting, Awaited
<1>8. Accounted'
  BY <1>5 DEF GivesUp, Inv, Accounted, table
<1> QED BY <1>4, <1>7, <1>8 DEF Inv

-----------------------------------------------------------------------------
(* Every step. *)

LEMMA OperatorInv ==
  ASSUME Inv, OperatorNext
  PROVE  Inv'
<1>1. CASE UpdateAppliance
  BY <1>1, RowedInv DEF UpdateAppliance, Inv, TypeOK
<1>2. CASE DeleteAppliance
  <2>1. row' \in Row /\ row'.owner = Central
    BY <1>2 DEF DeleteAppliance, Inv, TypeOK, Row, Poller
  <2>2. TypeOK'
    BY <1>2, <2>1 DEF DeleteAppliance, Inv, TypeOK
  <2>3. Waiting'
    BY <1>2 DEF DeleteAppliance, Inv, Waiting, Awaited, Has
  <2>4. Accounted'
    BY <1>2, <2>1 DEF DeleteAppliance, Inv, Accounted
  <2> QED BY <2>2, <2>3, <2>4 DEF Inv
<1>3. ASSUME NEW c \in Collector, PatchCollector(c) PROVE Inv'
  <2>1. TypeOK'
    BY <1>3 DEF PatchCollector, Inv, TypeOK
  <2> QED BY <1>3, <2>1 DEF PatchCollector, Inv, Waiting, Accounted, Awaited, Has
<1>4. ASSUME NEW c \in Collector, DeleteCollector(c) PROVE Inv'
  <2>1. [row EXCEPT !.owner = IF @ = c THEN Central ELSE @] \in Row
    BY DEF Inv, TypeOK, Row, Poller
  <2>2. coll' \in [Collector -> {"active", "inactive", "gone"}]
    BY <1>4 DEF DeleteCollector, Inv, TypeOK
  <2> QED BY <1>4, <2>1, <2>2, RowedInv DEF DeleteCollector
<1> QED BY <1>1, <1>2, <1>3, <1>4 DEF OperatorNext

\* What a poller does with a list.
LEMMA FollowInv ==
  ASSUME Inv, NEW p \in Poller, NEW l \in Interval \cup {Absent}, Follow(p, l),
         UNCHANGED <<table, polled>>,
         listed' \in [Collector -> Interval \cup {Absent, None}]
  PROVE  Inv'
<1>1. CASE UNCHANGED <<worker, request>>
  <2>1. TypeOK'
    BY <1>1 DEF Inv, TypeOK, table
  <2> QED BY <1>1, <2>1 DEF Inv, Waiting, Accounted, Awaited, Has, table
<1>2. ASSUME NEW w \in Worker \cup {None}, worker' = [worker EXCEPT ![p] = w],
             request' = Orphaned(p)
      PROVE  Inv'
  BY <1>2, OrphanedInv
<1>3. (IF l = Absent THEN None ELSE [pc |-> "polling", every |-> l])
        \in Worker \cup {None}
  BY DEF Worker
<1> QED BY <1>1, <1>2, <1>3 DEF Follow

LEMMA ListInv ==
  ASSUME Inv, NEW c \in Collector, NEW l \in Interval \cup {Absent, None},
         listed' = [listed EXCEPT ![c] = l],
         UNCHANGED <<table, worker, request, polled>>
  PROVE  Inv'
<1>1. TypeOK'
  BY DEF Inv, TypeOK, table
<1> QED BY <1>1 DEF Inv, Waiting, Accounted, Awaited, Has, table

LEMMA TargetsType ==
  ASSUME TypeOK, NEW p \in Poller
  PROVE  Targets(p) \in Interval \cup {Absent}
BY DEF Targets, TypeOK, Row

LEMMA StepInv ==
  ASSUME Inv, [Next]_vars
  PROVE  Inv'
<1>1. CASE OperatorNext
  BY <1>1, OperatorInv
<1>2. ASSUME NEW p \in Poller, PollerNext(p) PROVE Inv'
  <2>1. CASE Restart(p)
    <3>1. listed' \in [Collector -> Interval \cup {Absent, None}]
      BY <2>1 DEF Restart, Inv, TypeOK
    <3> QED BY <2>1, <3>1, OrphanedInv DEF Restart
  <2>2. CASE Tick(p)
    BY <2>2, MovesInv DEF Tick
  <2>3. CASE PollIsDropped(p)
    BY <2>3, MovesInv DEF PollIsDropped
  <2> QED BY <1>2, <2>1, <2>2, <2>3, PollEndsInv DEF PollerNext
<1>3. CASE ReconcileCentral
  <2>1. listed' \in [Collector -> Interval \cup {Absent, None}] /\ Central \in Poller
    BY <1>3 DEF ReconcileCentral, Inv, TypeOK, Poller
  <2> QED BY <1>3, <2>1, FollowInv, TargetsType DEF ReconcileCentral, Inv
<1>4. ASSUME NEW c \in Collector, FetchTargets(c) \/ FetchFails(c) \/ Reconcile(c)
      PROVE  Inv'
  <2>1. c \in Poller
    BY DEF Poller
  <2>2. CASE FetchTargets(c)
    BY <2>1, <2>2, TargetsType, ListInv DEF FetchTargets, Inv
  <2>3. CASE FetchFails(c)
    BY <2>3, ListInv DEF FetchFails
  <2>4. CASE Reconcile(c)
    <3>1. /\ listed[c] \in Interval \cup {Absent}
          /\ listed' \in [Collector -> Interval \cup {Absent, None}]
      BY <2>4 DEF Reconcile, Inv, TypeOK
    <3> QED BY <2>1, <2>4, <3>1, FollowInv DEF Reconcile
  <2> QED BY <1>4, <2>2, <2>3, <2>4
<1>5. ASSUME NEW q \in Request, RequestNext(q) PROVE Inv'
  <2>1. CASE Write(q)
    <3>1. polled' \in Poller \cup {None}
      BY <2>1, NoneAssumption DEF Write, Inv, TypeOK, Call
    <3> QED BY <2>1, <3>1, AnswerInv DEF Write
  <2>2. CASE WriteFails(q)
    BY <2>2, AnswerInv DEF WriteFails, Inv, TypeOK
  <2> QED BY <1>5, <2>1, <2>2, CheckOwnerInv, GivesUpInv DEF RequestNext
<1>6. CASE UNCHANGED vars
  <2>1. TypeOK'
    BY <1>6 DEF Inv, TypeOK, vars
  <2> QED BY <1>6, <2>1 DEF vars, Inv, Waiting, Accounted, Awaited, Has
<1> QED BY <1>1, <1>2, <1>3, <1>4, <1>5, <1>6 DEF Next

LEMMA AlwaysInv == Spec => []Inv
BY InitInv, StepInv, PTL DEF Spec

-----------------------------------------------------------------------------
(* Theorems. *)

\* Every state is well typed; an answer finds a worker that waits for it.
THEOREM TypeCorrect == Spec => []TypeOK
BY AlwaysInv, PTL DEF Inv

\* handleCollectorSNMPResult and handleCollectorSNMPError: what a collector sends
\* is written only if the row was its own at some time since it was sent.
THEOREM OwnedWrites == Spec => WritesWereOwned
<1>1. Inv => \A q \in Request :
                Write(q) /\ request[q].from \in Collector => request[q].owned
  BY DEF Inv, Accounted, Write
<1> QED BY <1>1, AlwaysInv, PTL DEF Spec, WritesWereOwned
=============================================================================
