------------------------ MODULE PollSchedulerProofs ------------------------
(***************************************************************************)
(* For every number of appliances, goroutines, slots and edits: the state  *)
(* of the poll scheduler is well typed, s.sem conserves its slots, and an  *)
(* appliance has at most one goroutine whose context is not cancelled.     *)
(*                                                                         *)
(* The three are proved together.  That slots never falls below zero on a  *)
(* release needs SlotsConserved (the releasing goroutine is a holder), and *)
(* the other two need the types.                                           *)
(***************************************************************************)
EXTENDS PollScheduler, FiniteSetTheorems, TLAPS

Inv == TypeOK /\ SlotsConserved /\ OneLiveWorker

-----------------------------------------------------------------------------
(* Lemmas about the goroutines that hold a slot. *)

\* The holders are some of the finitely many goroutines.
LEMMA HoldersFinite == IsFiniteSet(Holders) /\ Cardinality(Holders) \in Nat
  BY WorkerAssumption, FS_Subset, FS_CardinalityType DEF Holders

\* A goroutine that acquires a slot adds one to the count.
LEMMA HoldersGain ==
  ASSUME NEW w, w \notin Holders, Holders' = Holders \cup {w}
  PROVE  Cardinality(Holders') = Cardinality(Holders) + 1
  BY HoldersFinite, FS_AddElement

\* A goroutine that releases its slot takes one from the count, which was
\* positive.
LEMMA HoldersLose ==
  ASSUME NEW w, w \in Holders, Holders' = Holders \ {w}
  PROVE  /\ Cardinality(Holders') = Cardinality(Holders) - 1
         /\ Cardinality(Holders) >= 1
<1>1. Cardinality(Holders') = Cardinality(Holders) - 1
  BY HoldersFinite, FS_RemoveElement
<1>2. IsFiniteSet(Holders') /\ Cardinality(Holders') \in Nat
  BY HoldersFinite, FS_Subset, FS_CardinalityType
<1>. QED  BY <1>1, <1>2, HoldersFinite

\* Cancelling contexts keeps every goroutine where it is.
LEMMA CancelledType ==
  ASSUME TypeOK, NEW C
  PROVE  /\ Cancelled(C) \in [Worker -> Job \cup {None}]
         /\ \A w \in Worker :
              /\ Cancelled(C)[w] = None <=> job[w] = None
              /\ job[w] # None =>
                   /\ Cancelled(C)[w].pc = job[w].pc
                   /\ Cancelled(C)[w].ap = job[w].ap
                   /\ Cancelled(C)[w].every = job[w].every
                   /\ Cancelled(C)[w].live => job[w].live /\ w \notin C
<1>. DEFINE c == Cancelled(C)
<1>1. job \in [Worker -> Job \cup {None}]
  BY DEF TypeOK
<1>2. ASSUME NEW w \in Worker
      PROVE  /\ c[w] \in Job \cup {None}
             /\ c[w] = None <=> job[w] = None
             /\ job[w] # None =>
                  /\ c[w].pc = job[w].pc /\ c[w].ap = job[w].ap
                  /\ c[w].every = job[w].every
                  /\ c[w].live => job[w].live /\ w \notin C
  <2>1. CASE job[w] = None
    BY <2>1, <1>1 DEF Cancelled
  <2>2. CASE job[w] # None
    <3>1. job[w] \in Job
      BY <2>2, <1>1
    <3>2. CASE w \in C
      <4>1. c[w] = [job[w] EXCEPT !.live = FALSE]
        BY <2>2, <3>2 DEF Cancelled
      <4>2. /\ c[w] \in Job
            /\ c[w].pc = job[w].pc /\ c[w].ap = job[w].ap
            /\ c[w].every = job[w].every /\ c[w].live = FALSE
        BY <3>1, <4>1 DEF Job
      <4>. QED  BY <4>2, <2>2, NoneAssumption
    <3>3. CASE w \notin C
      BY <2>2, <3>1, <3>3 DEF Cancelled
    <3>. QED  BY <3>2, <3>3
  <2>. QED  BY <2>1, <2>2
<1>. QED  BY <1>2 DEF Cancelled

\* Moving one goroutine to another place of its loop keeps the types and the
\* one live worker, and makes it a holder exactly when the place holds a slot.
LEMMA PcChange ==
  ASSUME TypeOK, OneLiveWorker, UNCHANGED handle,
         NEW w \in Worker, job[w] # None,
         NEW p \in JobPc, job' = [job EXCEPT ![w].pc = p]
  PROVE  /\ job' \in [Worker -> Job \cup {None}]
         /\ OneLiveWorker'
         /\ Holders' = IF p \in Holding THEN Holders \cup {w}
                                        ELSE Holders \ {w}
<1>1. job \in [Worker -> Job \cup {None}] /\ job[w] \in Job
  BY DEF TypeOK
<1>2. /\ job'[w] = [job[w] EXCEPT !.pc = p]
      /\ \A v \in Worker : v # w => job'[v] = job[v]
      /\ DOMAIN job' = Worker
  BY <1>1
<1>3. /\ job'[w] \in Job /\ job'[w] # None
      /\ job'[w].pc = p /\ job'[w].ap = job[w].ap
      /\ job'[w].every = job[w].every /\ job'[w].live = job[w].live
  BY <1>1, <1>2, NoneAssumption DEF Job
<1>4. job' \in [Worker -> Job \cup {None}]
  BY <1>1, <1>2, <1>3
<1>5. OneLiveWorker'
  BY <1>2, <1>3 DEF OneLiveWorker
<1>6. Holders' = IF p \in Holding THEN Holders \cup {w} ELSE Holders \ {w}
  BY <1>2, <1>3 DEF Holders
<1>. QED  BY <1>4, <1>5, <1>6

\* A cancellation that leaves the map entries of the other appliances alone
\* keeps the slots.
LEMMA CancelledHolders ==
  ASSUME TypeOK, NEW C, job' = Cancelled(C)
  PROVE  Holders' = Holders
<1>1. \A w \in Worker : /\ job'[w] = None <=> job[w] = None
                        /\ job[w] # None => job'[w].pc = job[w].pc
  BY CancelledType
<1>. QED  BY <1>1 DEF Holders

-----------------------------------------------------------------------------
(* Init and the steps. *)

LEMMA InitInv == Init => Inv
<1> SUFFICES ASSUME Init PROVE Inv
  OBVIOUS
<1>1. rec \in Rec
  BY DEF Init, IdleRec, NoRows, Rec
<1>2. TypeOK
  <2>1. row \in [Appliance -> Row]
    BY DEF Init, Row, RowState
  <2>2. outcome \in [Appliance -> Outcome]
    BY DEF Init, Outcome, Blank
  <2>. QED  BY <1>1, <2>1, <2>2, CapAssumption, BoundAssumption DEF Init, TypeOK
<1>3. Holders = {}
  BY DEF Init, Holders
<1>4. SlotsConserved
  BY <1>3, FS_EmptySet DEF Init, SlotsConserved
<1>5. OneLiveWorker
  BY DEF Init, OneLiveWorker
<1>. QED  BY <1>2, <1>4, <1>5 DEF Inv

\* The reconcile steps and the edits of the table touch no slot.
LEMMA EditInv ==
  ASSUME Inv, NEW a \in Appliance, Edit(a)
  PROVE  Inv'
<1>. USE DEF Inv
<1>1. UNCHANGED <<rec, handle, job, slots, chk, restarts>>
  BY DEF Edit, CreateAppliance, UpdateAppliance, DeleteAppliance, memory
<1>2. edits' \in 0..MaxEdits
  BY BoundAssumption DEF Edit, CreateAppliance, UpdateAppliance, DeleteAppliance, TypeOK
<1>3. row' \in [Appliance -> Row] /\ outcome' \in [Appliance -> Outcome]
  <2>1. CASE CreateAppliance(a)
    BY <2>1 DEF CreateAppliance, TypeOK, Row, RowState
  <2>2. CASE UpdateAppliance(a)
    BY <2>2 DEF UpdateAppliance, TypeOK, Row, RowState
  <2>3. CASE DeleteAppliance(a)
    BY <2>3 DEF DeleteAppliance, TypeOK, Row, RowState, Outcome, Blank
  <2>. QED  BY <2>1, <2>2, <2>3 DEF Edit
<1>4. TypeOK'
  BY <1>1, <1>2, <1>3 DEF TypeOK
<1>5. SlotsConserved' /\ OneLiveWorker'
  BY <1>1 DEF SlotsConserved, Holders, OneLiveWorker
<1>. QED  BY <1>4, <1>5

LEMMA QueryInv == Inv /\ ReconcileQuery => Inv'
<1> SUFFICES ASSUME Inv, ReconcileQuery PROVE Inv'
  OBVIOUS
<1>. USE DEF Inv
<1>1. rec' \in Rec
  BY DEF ReconcileQuery, TypeOK, Rec
<1>2. TypeOK'
  BY <1>1 DEF ReconcileQuery, TypeOK, table
<1>3. SlotsConserved' /\ OneLiveWorker'
  BY DEF ReconcileQuery, SlotsConserved, Holders, OneLiveWorker
<1>. QED  BY <1>2, <1>3

LEMMA KeepInv ==
  ASSUME Inv, NEW a \in Appliance, KeepWorker(a)
  PROVE  Inv'
<1>. USE DEF Inv
<1>1. rec' \in Rec
  BY DEF KeepWorker, TypeOK, Rec
<1>2. TypeOK'
  BY <1>1 DEF KeepWorker, TypeOK, table
<1>3. SlotsConserved' /\ OneLiveWorker'
  BY DEF KeepWorker, SlotsConserved, Holders, OneLiveWorker
<1>. QED  BY <1>2, <1>3

\* The old worker's context is the one of the handle that is replaced, so it is
\* cancelled before the new worker is live.
LEMMA StartInv ==
  ASSUME Inv, NEW a \in Appliance, StartWorker(a)
  PROVE  Inv'
<1>. USE DEF Inv
<1>. DEFINE c == Cancelled(Contexts({a}))
            r == rec.todo[a]
<1>1. PICK w \in Worker :
        /\ job[w] = None
        /\ job' = [c EXCEPT ![w] = NewJob(a, r)]
        /\ handle' = [handle EXCEPT ![a] = [ctx |-> w, every |-> r.interval]]
  BY DEF StartWorker
<1>2. rec' \in Rec /\ r \in Row
  BY DEF StartWorker, NeedsStart, TypeOK, Rec
<1>3. NewJob(a, r) \in Job /\ NewJob(a, r) # None /\ NewJob(a, r).ap = a
      /\ NewJob(a, r).every = r.interval /\ NewJob(a, r).pc = "queued"
  <2>1. r.interval \in Interval /\ "queued" \in JobPc
    BY <1>2 DEF Row, JobPc
  <2>2. NewJob(a, r) \in Job
    BY <2>1 DEF NewJob, Job
  <2>. QED  BY <2>2, NoneAssumption DEF NewJob
<1>4. c \in [Worker -> Job \cup {None}]
  BY CancelledType
<1>5. /\ job' \in [Worker -> Job \cup {None}]
      /\ job'[w] = NewJob(a, r)
      /\ \A v \in Worker : v # w => job'[v] = c[v]
  BY <1>1, <1>3, <1>4
<1>6. /\ handle' \in [Appliance -> Handle \cup {None}]
      /\ handle'[a] = [ctx |-> w, every |-> r.interval]
      /\ \A b \in Appliance : b # a => handle'[b] = handle[b]
  BY <1>1, <1>2 DEF TypeOK, Handle, Row
<1>7. TypeOK'
  BY <1>2, <1>5, <1>6 DEF StartWorker, TypeOK, table
<1>8. Holders' = Holders
  <2>1. \A v \in Worker : /\ c[v] = None <=> job[v] = None
                          /\ job[v] # None => c[v].pc = job[v].pc
    BY CancelledType
  <2>2. "queued" \notin Holding
    BY DEF Holding
  <2>. QED  BY <1>1, <1>3, <1>5, <2>1, <2>2 DEF Holders
<1>9. SlotsConserved'
  BY <1>8 DEF StartWorker, SlotsConserved
<1>10. ASSUME NEW v \in Worker, job'[v] # None, job'[v].live
       PROVE  /\ handle'[job'[v].ap] # None
              /\ handle'[job'[v].ap].ctx = v
              /\ handle'[job'[v].ap].every = job'[v].every
  <2>1. CASE v = w
    <3>1. handle'[a] \in Handle
      BY <1>2, <1>6 DEF Handle, Row
    <3>. QED  BY <2>1, <3>1, <1>3, <1>5, <1>6, NoneAssumption
  <2>2. CASE v # w
    <3>1. job'[v] = c[v]
      BY <1>5, <2>2
    <3>2. /\ job[v] # None /\ job[v].live /\ v \notin Contexts({a})
          /\ job'[v].ap = job[v].ap /\ job'[v].every = job[v].every
      BY <3>1, <1>10, CancelledType
    <3>3. /\ handle[job[v].ap] # None /\ handle[job[v].ap].ctx = v
          /\ handle[job[v].ap].every = job[v].every
          /\ job[v].ap \in Appliance
      BY <3>2 DEF OneLiveWorker, TypeOK, Job
    <3>4. job[v].ap # a
      BY <3>2, <3>3 DEF Contexts
    <3>. QED  BY <3>2, <3>3, <3>4, <1>6
  <2>. QED  BY <2>1, <2>2
<1>11. OneLiveWorker'
  BY <1>10 DEF OneLiveWorker
<1>. QED  BY <1>7, <1>9, <1>11

LEMMA RefuseInv ==
  ASSUME Inv, NEW a \in Appliance, RefuseWorker(a)
  PROVE  Inv'
<1>. USE DEF Inv
<1>. DEFINE r == rec.todo[a]
<1>1. /\ job' = Cancelled(Contexts({a}))
      /\ handle' = [handle EXCEPT ![a] = [ctx |-> None, every |-> r.interval]]
  BY DEF RefuseWorker
<1>2. r \in Row
  BY DEF RefuseWorker, NeedsStart, TypeOK, Rec
<1>3. rec' \in Rec
  BY DEF RefuseWorker, TypeOK, Rec
<1>4. outcome' \in [Appliance -> Outcome]
  BY DEF RefuseWorker, RecordPollError, TypeOK, Outcome
<1>5. job' \in [Worker -> Job \cup {None}]
  BY <1>1, CancelledType
<1>6. /\ handle' \in [Appliance -> Handle \cup {None}]
      /\ \A b \in Appliance : b # a => handle'[b] = handle[b]
  BY <1>1, <1>2 DEF TypeOK, Handle, Row
<1>7. TypeOK'
  BY <1>3, <1>4, <1>5, <1>6 DEF RefuseWorker, TypeOK
<1>8. SlotsConserved'
  BY <1>1, CancelledHolders DEF RefuseWorker, SlotsConserved
<1>9. ASSUME NEW v \in Worker, job'[v] # None, job'[v].live
      PROVE  /\ handle'[job'[v].ap] # None
             /\ handle'[job'[v].ap].ctx = v
             /\ handle'[job'[v].ap].every = job'[v].every
  <2>1. /\ job[v] # None /\ job[v].live /\ v \notin Contexts({a})
        /\ job'[v].ap = job[v].ap /\ job'[v].every = job[v].every
    BY <1>1, <1>9, CancelledType
  <2>2. /\ handle[job[v].ap] # None /\ handle[job[v].ap].ctx = v
        /\ handle[job[v].ap].every = job[v].every
        /\ job[v].ap \in Appliance
    BY <2>1 DEF OneLiveWorker, TypeOK, Job
  <2>3. job[v].ap # a
    BY <2>1, <2>2 DEF Contexts
  <2>. QED  BY <2>1, <2>2, <2>3, <1>6
<1>10. OneLiveWorker'
  BY <1>9 DEF OneLiveWorker
<1>. QED  BY <1>7, <1>8, <1>10

\* Every handle that is forgotten has its context cancelled in the same step.
LEMMA SweepInv == Inv /\ ReconcileSweep => Inv'
<1> SUFFICES ASSUME Inv, ReconcileSweep PROVE Inv'
  OBVIOUS
<1>. USE DEF Inv
<1>. DEFINE unseen == Appliance \ rec.seen
<1>1. /\ job' = Cancelled(Contexts(unseen))
      /\ handle' = [a \in Appliance |-> IF a \in rec.seen THEN handle[a] ELSE None]
  BY DEF ReconcileSweep
<1>2. rec' \in Rec
  BY DEF ReconcileSweep, IdleRec, NoRows, Rec
<1>3. job' \in [Worker -> Job \cup {None}]
  BY <1>1, CancelledType
<1>4. handle' \in [Appliance -> Handle \cup {None}]
  BY <1>1 DEF TypeOK
<1>5. TypeOK'
  BY <1>2, <1>3, <1>4 DEF ReconcileSweep, TypeOK, table
<1>6. SlotsConserved'
  BY <1>1, CancelledHolders DEF ReconcileSweep, SlotsConserved
<1>7. ASSUME NEW v \in Worker, job'[v] # None, job'[v].live
      PROVE  /\ handle'[job'[v].ap] # None
             /\ handle'[job'[v].ap].ctx = v
             /\ handle'[job'[v].ap].every = job'[v].every
  <2>1. /\ job[v] # None /\ job[v].live /\ v \notin Contexts(unseen)
        /\ job'[v].ap = job[v].ap /\ job'[v].every = job[v].every
    BY <1>1, <1>7, CancelledType
  <2>2. /\ handle[job[v].ap] # None /\ handle[job[v].ap].ctx = v
        /\ handle[job[v].ap].every = job[v].every
        /\ job[v].ap \in Appliance
    BY <2>1 DEF OneLiveWorker, TypeOK, Job
  <2>3. job[v].ap \in rec.seen
    BY <2>1, <2>2 DEF Contexts
  <2>. QED  BY <2>1, <2>2, <2>3, <1>1
<1>8. OneLiveWorker'
  BY <1>7 DEF OneLiveWorker
<1>. QED  BY <1>5, <1>6, <1>8

\* A step of a worker acquires a slot, releases the one it holds, or neither.
LEMMA WorkerInv ==
  ASSUME Inv, NEW w \in Worker, WorkerStep(w)
  PROVE  Inv'
<1>. USE DEF Inv
<1>. DEFINE used == IF chk = "running" THEN 1 ELSE 0
<1>1. slots \in Nat /\ used \in {0, 1} /\ slots = Cardinality(Holders) + used
  BY CapAssumption DEF TypeOK, SlotsConserved
<1>2. /\ UNCHANGED <<row, edits, rec, handle, chk, restarts>>
      /\ job[w] # None
  BY DEF WorkerStep, BeginPoll, StopWorker, AcquireSlot, GiveUp, Collect,
         CommitPersist, PollFails, table
<1>3. outcome' \in [Appliance -> Outcome]
  <2>1. CASE UNCHANGED outcome
    BY <2>1 DEF TypeOK
  <2>2. CASE RecordPollError(job[w].ap, job[w].live)
    BY <2>2 DEF RecordPollError, TypeOK, Outcome
  <2>3. CASE \E got \in Collected : PersistSnapshot(job[w].ap, got)
    <3>1. PICK got \in Collected : PersistSnapshot(job[w].ap, got)
      BY <2>3
    <3>2. [snap |-> got, err |-> FALSE] \in Outcome
      BY DEF Outcome
    <3>. QED  BY <3>1, <3>2 DEF PersistSnapshot, TypeOK
  <2>. QED
    BY <2>1, <2>2, <2>3 DEF WorkerStep, BeginPoll, StopWorker, AcquireSlot,
       GiveUp, Collect, CommitPersist, PollFails, table
<1>4. ASSUME NEW p \in JobPc, job' = [job EXCEPT ![w].pc = p],
             \/ p \in Holding /\ w \in Holders /\ slots' = slots
             \/ p \notin Holding /\ w \notin Holders /\ slots' = slots
             \/ p \in Holding /\ w \notin Holders /\ slots' = slots + 1
                /\ slots < MaxParallelPolls
             \/ p \notin Holding /\ w \in Holders /\ slots' = slots - 1
      PROVE  Inv'
  <2>1. /\ job' \in [Worker -> Job \cup {None}]
        /\ OneLiveWorker'
        /\ Holders' = IF p \in Holding THEN Holders \cup {w} ELSE Holders \ {w}
    BY <1>2, <1>4, PcChange
  <2>2. SlotsConserved' /\ slots' \in 0..MaxParallelPolls
    <3>1. CASE slots' = slots /\ Holders' = Holders
      BY <3>1, <1>1, <1>2 DEF SlotsConserved, TypeOK
    <3>2. CASE /\ Holders' = Holders \cup {w} /\ w \notin Holders
               /\ slots' = slots + 1 /\ slots < MaxParallelPolls
      <4>1. Cardinality(Holders') = Cardinality(Holders) + 1
        BY <3>2, HoldersGain
      <4>. QED  BY <4>1, <3>2, <1>1, <1>2, CapAssumption, HoldersFinite DEF SlotsConserved
    <3>3. CASE Holders' = Holders \ {w} /\ w \in Holders /\ slots' = slots - 1
      <4>1. /\ Cardinality(Holders') = Cardinality(Holders) - 1
            /\ Cardinality(Holders) >= 1
        BY <3>3, HoldersLose
      <4>. QED  BY <4>1, <3>3, <1>1, <1>2, CapAssumption, HoldersFinite DEF SlotsConserved, TypeOK
    <3>. QED  BY <3>1, <3>2, <3>3, <2>1, <1>4
  <2>3. TypeOK'
    BY <2>1, <2>2, <1>2, <1>3 DEF TypeOK
  <2>. QED  BY <2>1, <2>2, <2>3
<1>5. CASE BeginPoll(w)
  BY <1>5, <1>4 DEF BeginPoll, JobPc, Holding, Holders
<1>6. CASE GiveUp(w)
  BY <1>6, <1>4 DEF GiveUp, JobPc, Holding, Holders
<1>7. CASE AcquireSlot(w)
  BY <1>7, <1>4 DEF AcquireSlot, JobPc, Holding, Holders
<1>8. CASE Collect(w)
  BY <1>8, <1>4 DEF Collect, JobPc, Holding, Holders
<1>9. CASE CommitPersist(w)
  BY <1>9, <1>4 DEF CommitPersist, JobPc, Holding, Holders
<1>10. CASE PollFails(w)
  BY <1>10, <1>4 DEF PollFails, JobPc, Holding, Holders
<1>11. CASE StopWorker(w)
  <2>1. /\ job' = [job EXCEPT ![w] = None] /\ slots' = slots
        /\ job[w].pc = "ticking"
    BY <1>11 DEF StopWorker
  <2>2. /\ job' \in [Worker -> Job \cup {None}] /\ job'[w] = None
        /\ \A v \in Worker : v # w => job'[v] = job[v]
    BY <2>1 DEF TypeOK
  <2>3. Holders' = Holders
    BY <2>1, <2>2 DEF Holders, Holding
  <2>4. SlotsConserved' /\ OneLiveWorker'
    BY <2>1, <2>2, <2>3, <1>2 DEF SlotsConserved, OneLiveWorker
  <2>5. TypeOK'
    BY <2>1, <2>2, <1>2, <1>3 DEF TypeOK
  <2>. QED  BY <2>4, <2>5
<1>. QED  BY <1>5, <1>6, <1>7, <1>8, <1>9, <1>10, <1>11 DEF WorkerStep

LEMMA CheckInv == Inv /\ (CheckAcquire \/ CheckDone) => Inv'
<1> SUFFICES ASSUME Inv, CheckAcquire \/ CheckDone PROVE Inv'
  OBVIOUS
<1>. USE DEF Inv
<1>1. UNCHANGED <<row, outcome, edits, rec, handle, job, restarts>>
  BY DEF CheckAcquire, CheckDone, table
<1>2. Holders' = Holders /\ OneLiveWorker'
  BY <1>1 DEF Holders, OneLiveWorker
<1>3. SlotsConserved' /\ slots' \in 0..MaxParallelPolls
  <2>1. CASE CheckAcquire
    BY <2>1, <1>2, HoldersFinite, CapAssumption DEF CheckAcquire, SlotsConserved, TypeOK
  <2>2. CASE CheckDone
    BY <2>2, <1>2, HoldersFinite, CapAssumption DEF CheckDone, SlotsConserved, TypeOK
  <2>. QED  BY <2>1, <2>2
<1>4. TypeOK'
  BY <1>1, <1>3 DEF CheckAcquire, CheckDone, TypeOK
<1>. QED  BY <1>2, <1>3, <1>4

LEMMA RestartInv == Inv /\ Restart => Inv'
<1> SUFFICES ASSUME Inv, Restart PROVE Inv'
  OBVIOUS
<1>. USE DEF Inv
<1>1. rec' \in Rec
  BY DEF Restart, IdleRec, NoRows, Rec
<1>2. restarts' \in 0..MaxRestarts
  BY BoundAssumption DEF Restart, TypeOK
<1>3. TypeOK'
  BY <1>1, <1>2, CapAssumption DEF Restart, TypeOK, table
<1>4. Holders' = {}
  BY DEF Restart, Holders
<1>5. SlotsConserved' /\ OneLiveWorker'
  BY <1>4, FS_EmptySet DEF Restart, SlotsConserved, OneLiveWorker
<1>. QED  BY <1>3, <1>5

-----------------------------------------------------------------------------
(* The theorems. *)

\* Every step of the poller, of the check loop and of sonar-api keeps Inv.
LEMMA StepInv == Inv /\ [Next]_vars => Inv'
<1> SUFFICES ASSUME Inv, [Next]_vars PROVE Inv'
  OBVIOUS
<1>1. CASE UNCHANGED vars
  BY <1>1 DEF vars, Inv, TypeOK, SlotsConserved, Holders, OneLiveWorker
<1>2. CASE \E a \in Appliance : Edit(a)
  BY <1>2, EditInv
<1>3. CASE ReconcileQuery
  BY <1>3, QueryInv
<1>4. CASE \E a \in Appliance : HandleRow(a)
  BY <1>4, KeepInv, StartInv, RefuseInv DEF HandleRow
<1>5. CASE ReconcileSweep
  BY <1>5, SweepInv
<1>6. CASE \E w \in Worker : WorkerStep(w)
  BY <1>6, WorkerInv
<1>7. CASE CheckAcquire \/ CheckDone
  BY <1>7, CheckInv
<1>8. CASE Restart
  BY <1>8, RestartInv
<1>. QED
  BY <1>1, <1>2, <1>3, <1>4, <1>5, <1>6, <1>7, <1>8 DEF Next

LEMMA Invariance == Spec => []Inv
  BY InitInv, StepInv, PTL DEF Spec

\* The scheduler's state is well typed in every reachable state, for any number
\* of appliances and goroutines.
THEOREM TypeCorrect == Spec => []TypeOK
  BY Invariance, PTL DEF Inv

\* s.sem (scheduler.go:55-56, 238-243) never leaks a slot and never lets more
\* than MaxParallelPolls polls and checks run, whatever poll fails where.
THEOREM SlotsAreConserved == Spec => []SlotsConserved
  BY Invariance, PTL DEF Inv

\* "One goroutine per appliance" (scheduler.go:5), read as the code keeps it: at
\* most one goroutine that is not cancelled, and it is the registered one.
THEOREM OneLiveWorkerEach == Spec => []OneLiveWorker
  BY Invariance, PTL DEF Inv
=============================================================================
