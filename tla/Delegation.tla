------------------------------ MODULE Delegation ------------------------------
(***************************************************************************)
(* One appliance and the processes that may poll it: sonar-poller, while   *)
(* appliances.collector_id is NULL, or the collector the row is delegated  *)
(* to (internal/collector/snmp_poller.go).  Every poller reconciles its    *)
(* worker for the appliance with a list it read some time ago.             *)
(* sonar-poller writes to the row whoever owns it; a collector writes      *)
(* through sonar-api, which reads the owner and then writes                *)
(* (internal/api/handlers_collectors_snmp.go).  Operators move, deactivate *)
(* and delete the appliance and the collectors.                            *)
(*                                                                         *)
(* Time is not represented: a ticker may fire and a deadline may pass      *)
(* whenever a goroutine waits for it.  The appliance's credentials open    *)
(* everywhere; PollScheduler has those that do not, and the semaphore.     *)
(***************************************************************************)
EXTENDS FiniteSets

CONSTANTS
  Collector,    \* ids of enrolled collectors
  Central,      \* sonar-poller: collector_id is NULL
  Request,      \* writes to the row under way at the same time (bound)
  Interval,     \* poll_interval_s values, after the 15 s floor
  None

Poller == Collector \cup {Central}

ASSUME CentralAssumption == Central \notin Collector

VARIABLES
  row,      \* the appliance's row: the columns that decide who polls it
  coll,     \* the collectors' rows: is_active, or deleted
  listed,   \* lists of targets read but not yet reconciled with
  worker,   \* the workers maps, and what the worker in each is doing
  request,  \* writes to the row under way
  polled    \* whose the last write to last_snapshot or last_error was

vars == <<row, coll, listed, worker, request, polled>>
table == <<row, coll>>

-----------------------------------------------------------------------------
(* State. *)

Row == [state : {"active", "inactive", "gone"}, owner : Poller,
        interval : Interval]

\* A worker waits for its ticker; dials and walks the device; or waits for the
\* answer to its write.  A worker whose context is cancelled can neither send nor
\* record anything more: it is left out, and what it sent is "late".
Worker == [pc : {"ticking", "polling", "writing"}, every : Interval]

\* A result or an error on its way to the row.  A collector's is "sent" until
\* sonar-api has read the row and accepted; from sonar-poller there is no such
\* question.  late: its sender no longer waits for it.  owned is history: the row
\* has been the collector's at some time since it was sent.
Call == [from : Poller, kind : {"result", "error"}, phase : {"sent", "accepted"},
         late : BOOLEAN, owned : BOOLEAN]

Absent == "absent"  \* the list that was read does not mention the appliance

ASSUME NoneAssumption ==
  /\ None \notin Interval /\ None \notin Worker /\ None \notin Call
  /\ Absent \notin Interval /\ Absent # None

TypeOK ==
  /\ row \in Row
  /\ coll \in [Collector -> {"active", "inactive", "gone"}]
  /\ listed \in [Collector -> Interval \cup {Absent, None}]
  /\ worker \in [Poller -> Worker \cup {None}]
  /\ request \in [Request -> Call \cup {None}]
  /\ polled \in Poller \cup {None}

Entitled(p) == row.state = "active" /\ row.owner = p

Has(p, pc) == worker[p] # None /\ worker[p].pc = pc

-----------------------------------------------------------------------------
(* Operators. *)

\* What the history becomes once the row is newRow.
Rowed(newRow) ==
  /\ row' = newRow
  /\ request' = [q \in Request |->
       IF request[q] # None /\ newRow.owner = request[q].from
       THEN [request[q] EXCEPT !.owned = TRUE] ELSE request[q]]

\* A sparse PATCH, any fields together in one UPDATE.  The handler has checked
\* before that a new owner is active and of the appliance's site; by the time of
\* the UPDATE it may be neither, but it exists (a foreign key).  Nothing keeps
\* the two sites equal later, so sites are left out.
UpdateAppliance ==
  /\ row.state # "gone"
  /\ \E new \in Row :
       /\ new.state # "gone" /\ new # row
       /\ new.owner \in Collector \ {row.owner} => coll[new.owner] # "gone"
       /\ Rowed(new)
  /\ UNCHANGED <<coll, listed, worker, polled>>

DeleteAppliance ==
  /\ row.state # "gone"
  /\ row' = [row EXCEPT !.state = "gone", !.owner = Central]
  /\ UNCHANGED <<coll, listed, worker, request, polled>>

PatchCollector(c) ==
  /\ coll[c] # "gone"
  /\ \E s \in {"active", "inactive"} : coll' = [coll EXCEPT ![c] = s]
  /\ UNCHANGED <<row, listed, worker, request, polled>>

\* Leaving the row with an owner that does not exist.
DeleteCollector_Dangling(c) ==
  /\ coll[c] # "gone"
  /\ coll' = [coll EXCEPT ![c] = "gone"]
  /\ Rowed([row EXCEPT !.owner = IF @ = c THEN None ELSE @])
  /\ UNCHANGED <<listed, worker, polled>>

\* appliances.collector_id is set to NULL by the foreign key.
DeleteCollector(c) ==
  /\ coll[c] # "gone"
  /\ coll' = [coll EXCEPT ![c] = "gone"]
  /\ Rowed([row EXCEPT !.owner = IF @ = c THEN Central ELSE @])
  /\ UNCHANGED <<listed, worker, polled>>

-----------------------------------------------------------------------------
(* Reconciliation, in both programs: read the list, then start, restart or  *)
(* cancel the worker.  A collector is known by its token alone: the handler *)
(* of the list looks at the appliance, not at the collector's row.          *)

\* A list without its condition on collector_id.
Targets_AnyOwner(p) == IF row.state = "active" THEN row.interval ELSE Absent

Targets(p) == IF Entitled(p) THEN row.interval ELSE Absent

FetchTargets(c) ==
  /\ listed[c] = None
  /\ listed' = [listed EXCEPT ![c] = Targets(c)]
  /\ UNCHANGED <<table, worker, request, polled>>

\* The request or its answer is lost: reconcile returns and changes nothing.
FetchFails(c) ==
  /\ listed[c] # None
  /\ listed' = [listed EXCEPT ![c] = None]
  /\ UNCHANGED <<table, worker, request, polled>>

\* The requests once p's worker has been cancelled.
Orphaned(p) ==
  [q \in Request |-> IF request[q] # None /\ request[q].from = p
                     THEN [request[q] EXCEPT !.late = TRUE] ELSE request[q]]

\* Reconciling without stopping the worker of an appliance that vanished.
Follow_NeverStops(p, l) ==
  IF l = Absent \/ (worker[p] # None /\ worker[p].every = l)
  THEN UNCHANGED <<worker, request>>
  ELSE /\ worker' = [worker EXCEPT ![p] = [pc |-> "polling", every |-> l]]
       /\ request' = Orphaned(p)

\* A new worker polls at once.
Follow(p, l) ==
  IF worker[p] # None /\ worker[p].every = l
  THEN UNCHANGED <<worker, request>>
  ELSE /\ worker' = [worker EXCEPT ![p] =
            IF l = Absent THEN None ELSE [pc |-> "polling", every |-> l]]
       /\ request' = Orphaned(p)

Reconcile(c) ==
  /\ listed[c] # None
  /\ Follow(c, listed[c])
  /\ listed' = [listed EXCEPT ![c] = None]
  /\ UNCHANGED <<table, polled>>

\* sonar-poller follows its list while it reads it; PollScheduler has the two
\* apart.
ReconcileCentral ==
  /\ Follow(Central, Targets(Central))
  /\ UNCHANGED <<table, listed, polled>>

-----------------------------------------------------------------------------
(* Workers. *)

Goes(p, pc) == worker' = [worker EXCEPT ![p].pc = pc]

Tick(p) ==
  /\ Has(p, "ticking")
  /\ Goes(p, "polling")
  /\ UNCHANGED <<table, listed, request, polled>>

\* The poll's deadline passes: in sonar-poller before a slot is had, in a
\* collector before the result is sent, and the report of the failure takes
\* the context that has just expired.  The row hears nothing.
PollIsDropped(p) ==
  /\ Has(p, "polling")
  /\ Goes(p, "ticking")
  /\ UNCHANGED <<table, listed, request, polled>>

\* What p sends to the row.
Send(p, kind) ==
  [from |-> p, kind |-> kind, late |-> FALSE,
   phase |-> IF p = Central THEN "accepted" ELSE "sent",
   owned |-> p \in {Central, row.owner}]

\* The device is walked, or its dial fails, and the row is to be told.
PollEnds(p, kind) ==
  /\ Has(p, "polling")
  /\ Goes(p, "writing")
  /\ \E q \in Request : /\ request[q] = None
                        /\ request' = [request EXCEPT ![q] = Send(p, kind)]
  /\ UNCHANGED <<table, listed, polled>>

\* A collector's worker stops waiting when its 45 s are over.
GivesUp(q) ==
  /\ request[q] # None /\ ~request[q].late
  /\ request[q].from \in Collector
  /\ request' = [request EXCEPT ![q].late = TRUE]
  /\ Goes(request[q].from, "ticking")
  /\ UNCHANGED <<table, listed, polled>>

-----------------------------------------------------------------------------
(* The writes: handleCollectorSNMPResult and handleCollectorSNMPError for  *)
(* the collectors, persist and recordPollError in sonar-poller.            *)

\* The sender, if it waits, hears of success or of an error.  The error of a
\* result is recorded or reported in turn.
Answer(q, good) ==
  LET call == request[q] IN
  IF call.kind = "result" /\ ~good /\ ~call.late
  THEN /\ request' = [request EXCEPT ![q] = Send(call.from, "error")]
       /\ UNCHANGED worker
  ELSE /\ request' = [request EXCEPT ![q] = None]
       /\ IF call.late THEN UNCHANGED worker ELSE Goes(call.from, "ticking")

\* Accepting from any collector.
Acceptable_AnyOwner(call) ==
  row.state \in (IF call.kind = "result" THEN {"active"} ELSE {"active", "inactive"})

\* Results are accepted for an active row, errors for any that exists.
Acceptable(call) ==
  /\ row.owner = call.from
  /\ row.state \in (IF call.kind = "result" THEN {"active"}
                                            ELSE {"active", "inactive"})

CheckOwner(q) ==
  /\ request[q] # None /\ request[q].phase = "sent"
  /\ IF Acceptable(request[q])
     THEN /\ request' = [request EXCEPT ![q].phase = "accepted"]
          /\ UNCHANGED worker
     ELSE Answer(q, FALSE)
  /\ UNCHANGED <<table, listed, polled>>

\* PersistSnapshot or RecordPollError; the answer to it may be lost.
Write(q) ==
  /\ request[q] # None /\ request[q].phase = "accepted"
  /\ row.state # "gone"
  /\ polled' = request[q].from
  /\ \E good \in BOOLEAN : Answer(q, good)
  /\ UNCHANGED <<table, listed>>

\* Lost on the way, refused by the database, cut off by a restart of sonar-api,
\* or abandoned because its sender went away.
WriteFails(q) ==
  /\ request[q] # None
  /\ Answer(q, FALSE)
  /\ UNCHANGED <<table, listed, polled>>

-----------------------------------------------------------------------------
\* A poller's process stops and starts again; what it sent stays on its way.
Restart(p) ==
  /\ listed' = [c \in Collector |-> IF c = p THEN None ELSE listed[c]]
  /\ worker' = [worker EXCEPT ![p] = None]
  /\ request' = Orphaned(p)
  /\ UNCHANGED <<table, polled>>

Init ==
  /\ row \in {r \in Row : r.state = "active"}
  /\ coll = [c \in Collector |-> "active"]
  /\ listed = [c \in Collector |-> None]
  /\ worker = [p \in Poller |-> None]
  /\ request = [q \in Request |-> None]
  /\ polled = None

OperatorNext ==
  \/ UpdateAppliance \/ DeleteAppliance
  \/ \E c \in Collector : PatchCollector(c) \/ DeleteCollector(c)

PollerNext(p) ==
  \/ Restart(p) \/ Tick(p) \/ PollIsDropped(p)
  \/ \E kind \in {"result", "error"} : PollEnds(p, kind)

RequestNext(q) == CheckOwner(q) \/ Write(q) \/ WriteFails(q) \/ GivesUp(q)

Next ==
  \/ OperatorNext
  \/ \E p \in Poller : PollerNext(p)
  \/ ReconcileCentral
  \/ \E c \in Collector : FetchTargets(c) \/ FetchFails(c) \/ Reconcile(c)
  \/ \E q \in Request : RequestNext(q)

Spec == Init /\ [][Next]_vars

\* Tickers fire and every write comes to an end.  What may fail does not fail
\* for ever: lists arrive, devices answer or refuse, sonar-api is reached and
\* the database commits.
Fairness ==
  /\ WF_vars(ReconcileCentral)
  /\ \A c \in Collector : WF_vars(FetchTargets(c)) /\ SF_vars(Reconcile(c))
  /\ \A p \in Poller :
       /\ WF_vars(Tick(p))
       /\ SF_vars(PollEnds(p, "result") \/ PollEnds(p, "error"))
  /\ \A q \in Request : WF_vars(RequestNext(q))
  /\ SF_vars(\E q \in Request : CheckOwner(q))
  /\ SF_vars(\E q \in Request : Write(q))

FairSpec == Spec /\ Fairness

-----------------------------------------------------------------------------
(* Properties. *)

\* The owner is read before the write and not again: between the two the
\* appliance may be moved, deactivated or its collector deleted.  Still, what a
\* collector sends reaches the row only if the appliance was its own at some
\* time between the sending and the write.
WritesWereOwned ==
  [][\A q \in Request :
       Write(q) /\ request[q].from \in Collector => request[q].owned]_vars

Quiet(p) ==
  /\ worker[p] = None
  /\ \A q \in Request : request[q] # None => request[q].from # p

\* A poller that lost the appliance for good, to another owner, to deactivation
\* or with its row, ends its worker and has nothing left on its way to the row.
LosersFallSilent == \A p \in Poller : <>[]~Entitled(p) => <>[]Quiet(p)

\* A poller that keeps the appliance ends up as the only one that writes to it,
\* whatever earlier owners had under way: the last word in last_snapshot and
\* last_error is its own.
OwnerTakesOver == \A p \in Poller : <>[]Entitled(p) => <>[](polled = p)

\* "deactivate (stop claiming new jobs)": what a collector reads as its targets
\* while it is deactivated does not name the appliance.
DeactivatedClaimsNothing ==
  [][\A c \in Collector :
       coll[c] = "inactive" /\ listed[c] = None => listed'[c] \in {Absent, None}]_vars
=============================================================================
