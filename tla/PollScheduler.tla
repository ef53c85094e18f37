---------------------------- MODULE PollScheduler ----------------------------
(***************************************************************************)
(* The SNMP poll scheduler of sonar-poller (internal/poller/scheduler.go): *)
(* one main goroutine reconciles the appliances table with a map of        *)
(* per-appliance worker goroutines; every worker polls its device on its   *)
(* own interval; a buffered channel, s.sem, bounds how many polls (and     *)
(* centrally run checks) are in flight; the outcome of a poll goes back to *)
(* the appliance's row.                                                    *)
(*                                                                         *)
(* The appliances table is edited concurrently by sonar-api.  Time is not  *)
(* represented: a ticker may fire and a 30 s deadline may pass whenever    *)
(* the goroutine waits for it.                                             *)
(***************************************************************************)
EXTENDS Integers, FiniteSets

CONSTANTS
  Appliance,         \* appliance ids
  Worker,            \* identities of worker goroutines, reused after exit (bound)
  Interval,          \* poll_interval_s values, after the 15 s floor
  Sealed,            \* values of enc_snmp_creds, with the target they are used on
  Broken,            \* sealed values that do not open under the running master key
  MaxParallelPolls,  \* capacity of s.sem
  MaxEdits,          \* bound: edits of the appliances table in a behaviour
  MaxRestarts,       \* bound: restarts of the poller in a behaviour
  None

ASSUME CapAssumption == MaxParallelPolls \in Nat \ {0}
ASSUME BoundAssumption == MaxEdits \in Nat /\ MaxRestarts \in Nat
ASSUME SealedAssumption == Broken \subseteq Sealed
ASSUME WorkerAssumption == IsFiniteSet(Worker)

VARIABLES
  row,       \* appliances: the columns the scheduler selects on
  outcome,   \* appliances: last_snapshot and last_error
  rec,       \* the reconcile call of the main goroutine
  handle,    \* s.workers
  job,       \* the worker goroutines and their contexts
  slots,     \* len(s.sem)
  chk,       \* the check loop's use of s.sem
  edits,     \* table edits so far
  restarts   \* restarts so far

table == <<row, outcome, edits>>
memory == <<rec, handle, job, slots, chk>>
vars == <<row, outcome, rec, handle, job, slots, chk, edits, restarts>>

-----------------------------------------------------------------------------
(* State. *)

\* "absent": not created yet.  "central": active, with credentials and no
\* collector, so reconcile selects it.  "away": kept, but inactive or owned by
\* a collector.  "gone": deleted; its id is never used again.
RowState == {"absent", "central", "away", "gone"}
Row == [state : RowState, interval : Interval, sealed : Sealed]

\* last_snapshot is "complete" when the mandatory system and interface groups
\* both answered, "hollow" when one of them did not.
Collected == {"complete", "hollow"}
Outcome == [snap : Collected \cup {"none"}, err : BOOLEAN]
Blank == [snap |-> "none", err |-> FALSE]

\* workerHandle: the context to cancel (None when the worker was refused at
\* its start, its context already cancelled) and the interval it runs at.
Handle == [ctx : Worker \cup {None}, every : Interval]

\* A worker waits for its ticker, waits for a slot, or holds one: while it dials
\* and collects, and while its transaction is open.
Holding == {"polling", "committing"}
JobPc == {"ticking", "queued"} \cup Holding
Job == [pc : JobPc, ap : Appliance, every : Interval, live : BOOLEAN]

ASSUME NoneAssumption ==
  None \notin Worker /\ None \notin Row /\ None \notin Handle /\ None \notin Job

\* "idle": in Run's select.  "rows": in the loop over the result set.
Rec == [pc : {"idle", "rows"}, todo : [Appliance -> Row \cup {None}],
        seen : SUBSET Appliance]
NoRows == [a \in Appliance |-> None]
IdleRec == [pc |-> "idle", todo |-> NoRows, seen |-> {}]

TypeOK ==
  /\ row \in [Appliance -> Row]
  /\ outcome \in [Appliance -> Outcome]
  /\ rec \in Rec
  /\ handle \in [Appliance -> Handle \cup {None}]
  /\ job \in [Worker -> Job \cup {None}]
  /\ slots \in 0..MaxParallelPolls
  /\ chk \in {"idle", "running"}
  /\ edits \in 0..MaxEdits
  /\ restarts \in 0..MaxRestarts

Exists(a) == row[a].state \in {"central", "away"}
Listed(a) == row[a].state = "central"

-----------------------------------------------------------------------------
(* Edits of the appliances table by sonar-api. *)

CreateAppliance(a) ==
  /\ edits < MaxEdits
  /\ row[a].state = "absent"
  /\ \E s \in {"central", "away"}, i \in Interval, c \in Sealed :
       row' = [row EXCEPT ![a] = [state |-> s, interval |-> i, sealed |-> c]]
  /\ edits' = edits + 1
  /\ UNCHANGED <<outcome, memory, restarts>>

\* A sparse PATCH: is_active, collector_id, poll_interval_s, the target and the
\* re-sealed credentials change together in one UPDATE.
UpdateAppliance(a) ==
  /\ edits < MaxEdits
  /\ Exists(a)
  /\ \E s \in {"central", "away"}, i \in Interval, c \in Sealed :
       /\ row' = [row EXCEPT ![a] = [state |-> s, interval |-> i, sealed |-> c]]
       /\ row' # row
  /\ edits' = edits + 1
  /\ UNCHANGED <<outcome, memory, restarts>>

DeleteAppliance(a) ==
  /\ edits < MaxEdits
  /\ Exists(a)
  /\ row' = [row EXCEPT ![a].state = "gone"]
  /\ outcome' = [outcome EXCEPT ![a] = Blank]
  /\ edits' = edits + 1
  /\ UNCHANGED <<memory, restarts>>

-----------------------------------------------------------------------------
(* Writes of the poller to the row.  Both take the worker's own context, so *)
(* they do nothing once it is cancelled; neither touches a deleted row.     *)

RecordPollError(a, live) ==
  outcome' = IF live /\ Exists(a) THEN [outcome EXCEPT ![a].err = TRUE]
                                  ELSE outcome

PersistSnapshot(a, got) ==
  outcome' = [outcome EXCEPT ![a] = [snap |-> got, err |-> FALSE]]

-----------------------------------------------------------------------------
(* reconcile: the table is read once, its rows handled one by one, and the *)
(* workers of appliances no row mentioned are stopped.                     *)

Opens(c) == c \notin Broken

\* The context's cancel function; cancelling no context does nothing.
Cancelled(C) ==
  [w \in Worker |-> IF w \in C /\ job[w] # None
                    THEN [job[w] EXCEPT !.live = FALSE]
                    ELSE job[w]]

Contexts(A) == {handle[a].ctx : a \in {b \in A : handle[b] # None}}

\* workerLoop's first poll is made at once.
NewJob(a, r) == [pc |-> "queued", ap |-> a, every |-> r.interval, live |-> TRUE]

\* s.pool.Query: a consistent copy of the listed rows.  When it fails the
\* reconcile returns and every worker stays.
ReconcileQuery ==
  /\ rec.pc = "idle"
  /\ rec' = [pc |-> "rows", seen |-> {},
             todo |-> [a \in Appliance |-> IF Listed(a) THEN row[a] ELSE None]]
  /\ UNCHANGED <<table, handle, job, slots, chk, restarts>>

\* A restart that looks at no interval.
KeepWorker_AnyCadence(a) ==
  /\ rec.pc = "rows" /\ rec.todo[a] # None
  /\ handle[a] # None
  /\ rec' = [rec EXCEPT !.todo[a] = None, !.seen = @ \cup {a}]
  /\ UNCHANGED <<table, handle, job, slots, chk, restarts>>

\* A row whose worker already has the right cadence.
KeepWorker(a) ==
  /\ rec.pc = "rows" /\ rec.todo[a] # None
  /\ handle[a] # None /\ handle[a].every = rec.todo[a].interval
  /\ rec' = [rec EXCEPT !.todo[a] = None, !.seen = @ \cup {a}]
  /\ UNCHANGED <<table, handle, job, slots, chk, restarts>>

NeedsStart(a) ==
  /\ rec.pc = "rows" /\ rec.todo[a] # None
  /\ handle[a] # None => handle[a].every # rec.todo[a].interval

\* An interval change that forgets the worker it replaces.
StartWorker_NoCancel(a) ==
  /\ NeedsStart(a) /\ Opens(rec.todo[a].sealed)
  /\ \E w \in Worker :
       /\ job[w] = None
       /\ job' = [job EXCEPT ![w] = NewJob(a, rec.todo[a])]
       /\ handle' = [handle EXCEPT ![a] =
                       [ctx |-> w, every |-> rec.todo[a].interval]]
  /\ rec' = [rec EXCEPT !.todo[a] = None, !.seen = @ \cup {a}]
  /\ UNCHANGED <<table, slots, chk, restarts>>

\* A new row, or one whose interval changed: the old worker, if any, is
\* cancelled, the new one registered and its goroutine started.
StartWorker(a) ==
  /\ NeedsStart(a) /\ Opens(rec.todo[a].sealed)
  /\ \E w \in Worker :
       /\ job[w] = None
       /\ job' = [Cancelled(Contexts({a})) EXCEPT ![w] = NewJob(a, rec.todo[a])]
       /\ handle' = [handle EXCEPT ![a] =
                       [ctx |-> w, every |-> rec.todo[a].interval]]
  /\ rec' = [rec EXCEPT !.todo[a] = None, !.seen = @ \cup {a}]
  /\ UNCHANGED <<table, slots, chk, restarts>>

\* The handle is registered before the credentials are opened and stays
\* registered when they do not open.
RefuseWorker(a) ==
  /\ NeedsStart(a) /\ ~Opens(rec.todo[a].sealed)
  /\ job' = Cancelled(Contexts({a}))
  /\ handle' = [handle EXCEPT ![a] =
                  [ctx |-> None, every |-> rec.todo[a].interval]]
  /\ RecordPollError(a, TRUE)
  /\ rec' = [rec EXCEPT !.todo[a] = None, !.seen = @ \cup {a}]
  /\ UNCHANGED <<row, edits, slots, chk, restarts>>

\* Forgetting a worker without cancelling it.
ReconcileSweep_HandlesOnly ==
  /\ rec.pc = "rows"
  /\ handle' = [a \in Appliance |-> IF a \in rec.seen THEN handle[a] ELSE None]
  /\ rec' = IdleRec
  /\ UNCHANGED <<table, job, slots, chk, restarts>>

\* Cancelling a worker without forgetting it.
ReconcileSweep_ContextsOnly ==
  /\ rec.pc = "rows"
  /\ job' = Cancelled(Contexts(Appliance \ rec.seen))
  /\ rec' = IdleRec
  /\ UNCHANGED <<table, handle, slots, chk, restarts>>

\* rows.Next returns false: at the end of the result set, or before it when the
\* connection is lost (rows.Err is not consulted).  Workers of appliances not
\* seen are cancelled and forgotten.
ReconcileSweep ==
  /\ rec.pc = "rows"
  /\ job' = Cancelled(Contexts(Appliance \ rec.seen))
  /\ handle' = [a \in Appliance |-> IF a \in rec.seen THEN handle[a] ELSE None]
  /\ rec' = IdleRec
  /\ UNCHANGED <<table, slots, chk, restarts>>

-----------------------------------------------------------------------------
(* workerLoop and pollOnce. *)

\* select may prefer the ticker over a cancelled context.
BeginPoll(w) ==
  /\ job[w] # None /\ job[w].pc = "ticking"
  /\ job' = [job EXCEPT ![w].pc = "queued"]
  /\ UNCHANGED <<table, rec, handle, slots, chk, restarts>>

StopWorker(w) ==
  /\ job[w] # None /\ job[w].pc = "ticking" /\ ~job[w].live
  /\ job' = [job EXCEPT ![w] = None]
  /\ UNCHANGED <<table, rec, handle, slots, chk, restarts>>

\* A semaphore that never refuses.
AcquireSlot_NoCap(w) ==
  /\ job[w] # None /\ job[w].pc = "queued"
  /\ slots' = slots + 1
  /\ job' = [job EXCEPT ![w].pc = "polling"]
  /\ UNCHANGED <<table, rec, handle, chk, restarts>>

AcquireSlot(w) ==
  /\ job[w] # None /\ job[w].pc = "queued"
  /\ slots < MaxParallelPolls
  /\ slots' = slots + 1
  /\ job' = [job EXCEPT ![w].pc = "polling"]
  /\ UNCHANGED <<table, rec, handle, chk, restarts>>

\* 30 s in the queue, or the worker was cancelled: the poll is skipped.
GiveUp(w) ==
  /\ job[w] # None /\ job[w].pc = "queued"
  /\ job' = [job EXCEPT ![w].pc = "ticking"]
  /\ UNCHANGED <<table, rec, handle, slots, chk, restarts>>

\* CollectAll never fails: a group that does not answer within the deadline is
\* a warning in the snapshot.  What follows is BeginTx on the worker's context.
Collect(w) ==
  /\ job[w] # None /\ job[w].pc = "polling" /\ job[w].live
  /\ job' = [job EXCEPT ![w].pc = "committing"]
  /\ UNCHANGED <<table, rec, handle, slots, chk, restarts>>

\* A commit already sent may still win against a cancellation; the metrics
\* event is published and the slot released on return.
CommitPersist(w) ==
  /\ job[w] # None /\ job[w].pc = "committing"
  /\ Exists(job[w].ap)
  /\ \E got \in Collected : PersistSnapshot(job[w].ap, got)
  /\ slots' = slots - 1
  /\ job' = [job EXCEPT ![w].pc = "ticking"]
  /\ UNCHANGED <<row, edits, rec, handle, chk, restarts>>

\* An early return that keeps the slot.
PollFails_Leaks(w) ==
  /\ job[w] # None /\ job[w].pc \in Holding
  /\ RecordPollError(job[w].ap, job[w].live)
  /\ job' = [job EXCEPT ![w].pc = "ticking"]
  /\ UNCHANGED <<row, edits, rec, handle, slots, chk, restarts>>

\* An unparsable address, a failed Dial, a cancelled context, a database error,
\* or samples of a deleted appliance.
PollFails(w) ==
  /\ job[w] # None /\ job[w].pc \in Holding
  /\ RecordPollError(job[w].ap, job[w].live)
  /\ slots' = slots - 1
  /\ job' = [job EXCEPT ![w].pc = "ticking"]
  /\ UNCHANGED <<row, edits, rec, handle, chk, restarts>>

-----------------------------------------------------------------------------
(* The check loop runs one central check at a time under the same semaphore. *)

CheckAcquire ==
  /\ chk = "idle" /\ slots < MaxParallelPolls
  /\ chk' = "running"
  /\ slots' = slots + 1
  /\ UNCHANGED <<table, rec, handle, job, restarts>>

CheckDone ==
  /\ chk = "running"
  /\ chk' = "idle"
  /\ slots' = slots - 1
  /\ UNCHANGED <<table, rec, handle, job, restarts>>

\* The process ends, on a signal or a crash, and is started again: nothing the
\* scheduler keeps survives but the table.
Restart ==
  /\ restarts < MaxRestarts
  /\ restarts' = restarts + 1
  /\ rec' = IdleRec
  /\ handle' = [a \in Appliance |-> None]
  /\ job' = [w \in Worker |-> None]
  /\ slots' = 0
  /\ chk' = "idle"
  /\ UNCHANGED table

-----------------------------------------------------------------------------
Init ==
  /\ row \in [Appliance -> [state : {"absent", "central"}, interval : Interval,
                            sealed : Sealed]]
  /\ outcome = [a \in Appliance |-> Blank]
  /\ rec = IdleRec
  /\ handle = [a \in Appliance |-> None]
  /\ job = [w \in Worker |-> None]
  /\ slots = 0
  /\ chk = "idle"
  /\ edits = 0
  /\ restarts = 0

Edit(a) == CreateAppliance(a) \/ UpdateAppliance(a) \/ DeleteAppliance(a)

HandleRow(a) == KeepWorker(a) \/ StartWorker(a) \/ RefuseWorker(a)

WorkerStep(w) ==
  \/ BeginPoll(w) \/ StopWorker(w)
  \/ AcquireSlot(w) \/ GiveUp(w)
  \/ Collect(w) \/ CommitPersist(w) \/ PollFails(w)

Next ==
  \/ \E a \in Appliance : Edit(a)
  \/ ReconcileQuery
  \/ \E a \in Appliance : HandleRow(a)
  \/ ReconcileSweep
  \/ \E w \in Worker : WorkerStep(w)
  \/ CheckAcquire \/ CheckDone
  \/ Restart

Spec == Init /\ [][Next]_vars

\* A goroutine that can run eventually runs, a ticker fires, and a poll ends:
\* each of its waits has a deadline, and the database answers.  The strong
\* conditions: select does not prefer the ticker for ever, and the connection is
\* not lost each time before the same row is read.
Fairness ==
  /\ WF_vars(ReconcileQuery)
  /\ WF_vars(ReconcileSweep)
  /\ \A a \in Appliance : SF_vars(HandleRow(a))
  /\ \A w \in Worker :
       /\ WF_vars(BeginPoll(w) \/ AcquireSlot(w) \/ GiveUp(w))
       /\ WF_vars(Collect(w) \/ CommitPersist(w) \/ PollFails(w))
       /\ SF_vars(StopWorker(w))

FairSpec == Spec /\ Fairness

-----------------------------------------------------------------------------
(* Properties. *)

\* Slots are conserved: the channel holds exactly one token per poll or check
\* that is between its acquire and its deferred release, so no early return of
\* pollOnce leaks one and at most MaxParallelPolls devices are mid-poll.
Holders == {w \in Worker : job[w] # None /\ job[w].pc \in Holding}
SlotsConserved ==
  slots = Cardinality(Holders) + (IF chk = "running" THEN 1 ELSE 0)

\* "One goroutine per appliance": a goroutine whose context is not cancelled is
\* the one its appliance's handle would cancel, and runs at the handle's
\* interval.  Two of them for one appliance would need two handles.
OneLiveWorker ==
  \A w \in Worker : job[w] # None /\ job[w].live =>
    /\ handle[job[w].ap] # None
    /\ handle[job[w].ap].ctx = w
    /\ handle[job[w].ap].every = job[w].every

\* A deleted, deactivated or delegated appliance is not polled for ever: once
\* its row is no longer listed, every goroutine for it comes to its end.
DelistedDrains ==
  \A a \in Appliance :
    <>[](~Listed(a)) => <>[](\A w \in Worker : job[w] = None \/ job[w].ap # a)

\* An interval change takes effect: when the row settles, no live worker keeps
\* an older interval.
CadenceConverges ==
  \A a \in Appliance, i \in Interval :
    <>[](Listed(a) /\ row[a].interval = i) =>
      <>[](\A w \in Worker :
             job[w] # None /\ job[w].ap = a /\ job[w].live => job[w].every = i)

\* A listed appliance has a live worker that starts a poll again and again,
\* unless its credentials did not open when the worker was started.  Whether the
\* poll gets a slot within its 30 s is not promised.
Attempting(a) ==
  \E w \in Worker : /\ job[w] # None /\ job[w].ap = a /\ job[w].live
                   /\ job[w].pc \in {"queued"} \cup Holding
Refused(a) == handle[a] # None /\ handle[a].ctx = None
ListedKeepsPolling ==
  \A a \in Appliance : []<>(~Listed(a) \/ Refused(a) \/ Attempting(a))

\* scheduler.go:196: "open creds failed; worker will retry on next reconcile".
\* A reconcile that reads a row whose credentials open leaves it with a worker.
RetriedOnReconcile ==
  [][\A a \in Appliance :
       /\ rec.todo[a] # None /\ rec'.todo[a] = None
       /\ a \in rec'.seen
       /\ Opens(rec.todo[a].sealed)
       => \E w \in Worker : job'[w] # None /\ job'[w].ap = a /\ job'[w].live]_vars
==============================================================================
