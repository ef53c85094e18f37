--------------------------- MODULE PassiveInventory ---------------------------
(***************************************************************************)
(* Passive SNMP inventory: the capture of a collector                      *)
(* (internal/collector/passive_snmp_runner.go, collector/discovery) and    *)
(* the merge of its batch into the site's inventory and change feed        *)
(* (internal/api/handlers_passive_snmp.go): one transaction at READ        *)
(* COMMITTED, in which every row written stays locked until the end.       *)
(*                                                                         *)
(* What a device says of itself is left out: of the events only those of   *)
(* its status are kept, and of these the newest of each device.            *)
(***************************************************************************)
EXTENDS Shared, Naturals, FiniteSets

CONSTANTS
  Probe,       \* collectors of the site that capture
  Ip,
  RetireAfter  \* passes without a device until it is retired

ASSUME PassiveAssumption == RetireAfter \in Nat \ {0} /\ IsFiniteSet(Probe)

VARIABLES
  inventory, \* passive_snmp_inventory, as committed
  feed,      \* passive_snmp_changes: the newest event, by time
  pass,      \* a collector's pass: what it captured, how far the merge is
  silent     \* history: batches committed since the last one with the device

passiveVars == <<inventory, feed, pass, silent>>

-----------------------------------------------------------------------------
DeviceRow == [status : {"active", "retired"}, misses : 0..RetireAfter]

\* todo: devices still to upsert, then rows still to bump.  prior: the device at hand and
\* its status before.  mine: rows written, and so locked.  told: events inserted.
\* before: collectors whose merge was under way when this one began.  after: those
\* that began one since.  late: devices that one of those told of.
Pass == [at : {"captured", "upsert", "bump"}, devices : SUBSET Ip, todo : SUBSET Ip,
         prior : {None} \cup (Ip \X {"none", "active", "retired"}),
         mine : [Ip -> DeviceRow \cup {None}], told : [Ip -> {None, "on", "retired"}],
         before : SUBSET Probe, after : SUBSET Probe, late : SUBSET Ip]

ASSUME PassiveNoneAssumption ==
  /\ None \notin DeviceRow /\ None \notin Pass /\ None \notin {"on", "retired"}
  /\ None \notin Ip \X {"none", "active", "retired"}

PassiveTypeOK ==
  /\ inventory \in [Ip -> DeviceRow \cup {None}]
  /\ feed \in [Ip -> {None, "on", "retired"}]
  /\ pass \in [Probe -> Pass \cup {None}]
  /\ silent \in [Ip -> 0..RetireAfter]

PassAt(k, place) == pass[k] # None /\ pass[k].at = place

\* The pass has reached the server, which has not answered.
Merging(k) == PassAt(k, "upsert") \/ PassAt(k, "bump")

RowLocked(k, ip) == \E j \in Probe \ {k} : pass[j] # None /\ pass[j].mine[ip] # None

-----------------------------------------------------------------------------
(* The collector. *)

\* runOnePassiveSNMPCapture: the destinations of others' SNMP requests, each of them
\* classified; none seen, nothing posted.
CapturePassiveSNMP(k) ==
  /\ pass[k] = None
  /\ \E devices \in SUBSET Ip \ {{}} :
       pass' = [pass EXCEPT ![k] =
         [at |-> "captured", devices |-> devices, todo |-> devices, prior |-> None,
          mine |-> [ip \in Ip |-> None], told |-> [ip \in Ip |-> None],
          before |-> {}, after |-> {}, late |-> {}]]
  /\ UNCHANGED <<inventory, feed, silent>>

-----------------------------------------------------------------------------
(* mergePassiveSNMPBatch. *)

\* NOW() is the time of this step, whenever the transaction commits.  A collector waits
\* 30 s for the answer and 10 minutes at least between two passes: no merge overlaps two
\* passes of another collector.
BeginMerge(k) ==
  /\ PassAt(k, "captured")
  /\ \A j \in Probe : Merging(j) => k \notin pass[j].before \cup pass[j].after
  /\ pass' = [j \in Probe |->
       IF j = k THEN [pass[k] EXCEPT !.at = "upsert", !.before = {i \in Probe : Merging(i)}]
       ELSE IF Merging(j) THEN [pass[j] EXCEPT !.after = @ \cup {k}] ELSE pass[j]]
  /\ UNCHANGED <<inventory, feed, silent>>

\* The devices come in the order of a Go map, which is any.  The read takes no lock.
ReadPrior(k) ==
  /\ PassAt(k, "upsert") /\ pass[k].prior = None
  /\ \E ip \in pass[k].todo :
       pass' = [pass EXCEPT ![k].todo = @ \ {ip},
         ![k].prior = <<ip, IF inventory[ip] = None THEN "none" ELSE inventory[ip].status>>]
  /\ UNCHANGED <<inventory, feed, silent>>

\* An upsert that leaves miss_count as it was.
Upserted_Keeps(row) == [status |-> "active", misses |-> IF row = None THEN 0 ELSE row.misses]

Upserted(row) == [status |-> "active", misses |-> 0]

\* INSERT ... ON CONFLICT waits for a transaction that wrote the row, then sees what
\* that one left; the event goes by the status read before.
Upsert(k) ==
  /\ PassAt(k, "upsert") /\ pass[k].prior # None
  /\ LET ip == pass[k].prior[1] IN
       /\ ~RowLocked(k, ip)
       /\ pass' = [pass EXCEPT ![k].prior = None,
            ![k].mine[ip] = Upserted(inventory[ip]),
            ![k].told[ip] = IF pass[k].prior[2] = "active" THEN None ELSE "on"]
  /\ UNCHANGED <<inventory, feed, silent>>

\* A count of no other rows than those of the batch.
Missed_OfBatch(k) == {ip \in Ip : pass[k].mine[ip] # None /\ ip \notin pass[k].devices}

\* The rows the UPDATE of miss_count finds: the statement's snapshot.
Missed(k) == {ip \in Ip : inventory[ip] # None /\ inventory[ip].status = "active"
                          /\ ip \notin pass[k].devices}

BeginBump(k) ==
  /\ PassAt(k, "upsert") /\ pass[k].prior = None /\ pass[k].todo = {}
  /\ pass' = [pass EXCEPT ![k].at = "bump", ![k].todo = Missed(k)]
  /\ UNCHANGED <<inventory, feed, silent>>

\* Each row is looked at anew once its lock is there.
Bump(k) ==
  /\ PassAt(k, "bump")
  /\ \E ip \in pass[k].todo :
       /\ ~RowLocked(k, ip)
       /\ pass' = [pass EXCEPT ![k].todo = @ \ {ip},
            ![k].mine[ip] = IF inventory[ip].status = "active"
                            THEN [inventory[ip] EXCEPT !.misses = @ + 1] ELSE @]
  /\ UNCHANGED <<inventory, feed, silent>>

Retiring(k) ==
  {ip \in Ip : LET row == pass[k].mine[ip] IN
    row # None /\ row.status = "active" /\ row.misses >= RetireAfter}

\* A retirement without its event.
Told_Silently(k) == pass[k].told

Told(k) == [ip \in Ip |-> IF ip \in Retiring(k) THEN "retired" ELSE pass[k].told[ip]]

\* The rows to retire are among those just bumped, so the SELECT, the UPDATEs, the
\* events and COMMIT are one step.  The trimming of the feed to the 500 newest events
\* of the site is left out.
RetireAndCommit(k) ==
  /\ PassAt(k, "bump") /\ pass[k].todo = {}
  /\ LET retiring == Retiring(k)
         told == Told(k)
     IN
     /\ inventory' = [ip \in Ip |->
          IF ip \in retiring THEN [pass[k].mine[ip] EXCEPT !.status = "retired"]
          ELSE IF pass[k].mine[ip] # None THEN pass[k].mine[ip] ELSE inventory[ip]]
     /\ feed' = [ip \in Ip |->
          IF told[ip] # None /\ ip \notin pass[k].late THEN told[ip] ELSE feed[ip]]
     /\ pass' = [j \in Probe |->
          IF j = k THEN None
          ELSE IF pass[j] # None /\ k \in pass[j].after
          THEN [pass[j] EXCEPT !.late = @ \cup {ip \in Ip : told[ip] # None}]
          ELSE pass[j]]
     /\ silent' = [ip \in Ip |->
          IF ip \in pass[k].devices THEN 0
          ELSE IF silent[ip] < RetireAfter THEN silent[ip] + 1 ELSE RetireAfter]

\* k wants a row that j has locked.
WaitsFor(k, j) ==
  \E ip \in Ip :
    /\ pass[j] # None /\ pass[j].mine[ip] # None
    /\ \/ PassAt(k, "bump") /\ ip \in pass[k].todo
       \/ PassAt(k, "upsert") /\ pass[k].prior # None /\ pass[k].prior[1] = ip

\* One of two that wait for each other is aborted by the database; a statement fails,
\* or the collector does not wait longer than 30 s; the API refuses or is away.
Rollback(k) ==
  /\ pass[k] # None
  /\ Fault \/ \E j \in Probe \ {k} : WaitsFor(k, j) /\ WaitsFor(j, k)
  /\ pass' = [pass EXCEPT ![k] = None]
  /\ UNCHANGED <<inventory, feed, silent>>

-----------------------------------------------------------------------------
PassiveInit ==
  /\ inventory = [ip \in Ip |-> None]
  /\ feed = [ip \in Ip |-> None]
  /\ pass = [k \in Probe |-> None]
  /\ silent = [ip \in Ip |-> 0]

MergeStep(k) ==
  \/ BeginMerge(k) \/ ReadPrior(k) \/ Upsert(k) \/ BeginBump(k) \/ Bump(k)
  \/ RetireAndCommit(k) \/ Rollback(k)

PassiveNext == \E k \in Probe : CapturePassiveSNMP(k) \/ MergeStep(k)

\* The collectors capture every run interval; the API and the database go on.
PassiveFairness ==
  \A k \in Probe : /\ WF_passiveVars(focus = "passive" /\ CapturePassiveSNMP(k))
                   /\ WF_passiveVars(focus = "passive" /\ MergeStep(k))

-----------------------------------------------------------------------------
(* Properties. *)

Retired(ip) == inventory[ip] # None /\ inventory[ip].status = "retired"

\* However the merges of two collectors overlap, a device is retired only when the
\* last RetireAfter batches, in the order of their commits, were without it
\* (handlers_passive_snmp.go:90).  When it takes a miss by every collector to retire,
\* the feed, in the order of its times, does not show it as having come back since.  (Of
\* an active device the newest event may say retired: overlapping batches read a status
\* that is not the one they overwrite.)
RetirementIsTrue ==
  \A ip \in Ip : Retired(ip) =>
    /\ silent[ip] >= RetireAfter
    /\ RetireAfter >= Cardinality(Probe) => feed[ip] = "retired"

\* A device that no pass sees any more is retired in the end, though batches block and
\* abort each other.
SilentRetires ==
  \A ip \in Ip :
    <>[](\A k \in Probe : pass[k] = None \/ ip \notin pass[k].devices)
      => <>[](inventory[ip] = None \/ Retired(ip))
=============================================================================
