------------------------- MODULE PassiveInventoryProofs -------------------------
(***************************************************************************)
(* Proofs about PassiveInventory, for any number of collectors and devices *)
(* and any number of passes to retirement.                                 *)
(***************************************************************************)
EXTENDS PassiveInventory, FiniteSetTheorems, TLAPS

Bumped(row) == [status |-> "active", misses |-> row.misses + 1]

\* What a pass has done to the rows: upserted those of its batch, bumped active rows
\* outside of it.  A row it has written is as it left it, and as committed before that.
Wrote(p) ==
  \A ip \in Ip : p.mine[ip] # None =>
    IF ip \in p.devices THEN p.mine[ip] = Upserted(None)
    ELSE /\ inventory[ip] # None /\ inventory[ip].status = "active"
         /\ p.mine[ip] = Bumped(inventory[ip])

\* How far a pass is.
Progress(p) ==
  /\ p.at = "captured" =>
       /\ p.prior = None /\ p.todo = p.devices
       /\ p.before = {} /\ p.after = {} /\ p.late = {}
       /\ \A ip \in Ip : p.mine[ip] = None
  /\ p.at = "upsert" =>
       /\ p.todo \subseteq p.devices
       /\ p.prior # None => p.prior[1] \in p.devices
       /\ \A ip \in p.devices : \/ ip \in p.todo \/ p.mine[ip] # None
                                \/ p.prior # None /\ p.prior[1] = ip
       /\ \A ip \in Ip : p.mine[ip] # None => ip \in p.devices
  /\ p.at = "bump" =>
       /\ \A ip \in p.todo : ip \notin p.devices /\ inventory[ip] # None
       /\ \A ip \in p.devices : p.mine[ip] # None
  /\ \A ip \in Ip : p.told[ip] # None => ip \in p.devices

PassesProgress == \A k \in Probe : pass[k] # None => Progress(pass[k]) /\ Wrote(pass[k])

\* A row that one transaction has written is written by no other.
LocksAreHeld ==
  \A j, k \in Probe, ip \in Ip :
    pass[j] # None /\ pass[k] # None /\ pass[j].mine[ip] # None /\ pass[k].mine[ip] # None
    => j = k

\* miss_count counts silence.
MissesAreSilence ==
  \A ip \in Ip : inventory[ip] # None =>
    IF inventory[ip].status = "active"
    THEN inventory[ip].misses <= silent[ip] /\ inventory[ip].misses < RetireAfter
    ELSE silent[ip] >= RetireAfter

\* The collectors whose merge overlaps or has overlapped this one, and those of them
\* whose merge is over: none of them begins another before this one ends.
Met(k) == pass[k].before \cup pass[k].after
Over(k) == {i \in Met(k) : ~Merging(i)}

MergesMeet ==
  \A k \in Probe : Merging(k) =>
    /\ k \notin Met(k)
    /\ \A i \in Probe : Merging(i) /\ i # k => i \in Met(k)

\* A device that a later merge told of while this one runs was reset then: its row
\* counts, since, one miss for each merge that is over, but for the one that reset it.
LateIsRecent ==
  \A k \in Probe, ip \in Ip : Merging(k) /\ ip \in pass[k].late =>
    /\ inventory[ip] # None
    /\ inventory[ip].status = "active" => inventory[ip].misses < Cardinality(Over(k))
    /\ pass[k].mine[ip] # None => pass[k].mine[ip].misses <= Cardinality(Over(k))

RetiredIsTold ==
  RetireAfter >= Cardinality(Probe) =>
    \A ip \in Ip : Retired(ip) => feed[ip] = "retired"

PassiveInv ==
  /\ PassiveTypeOK /\ PassesProgress /\ LocksAreHeld /\ MissesAreSilence
  /\ MergesMeet /\ LateIsRecent /\ RetiredIsTold

-----------------------------------------------------------------------------
(* Helpers. *)

LEMMA PassTyped ==
  ASSUME PassiveInv, NEW k \in Probe, pass[k] # None
  PROVE  pass[k] \in Pass
BY DEF PassiveInv, PassiveTypeOK

LEMMA PassIsSome ==
  ASSUME NEW p \in Pass
  PROVE  p # None
BY PassiveNoneAssumption

LEMMA RowTyped ==
  ASSUME PassiveInv, NEW ip \in Ip, inventory[ip] # None
  PROVE  /\ inventory[ip] \in DeviceRow /\ inventory[ip].misses \in 0..RetireAfter
         /\ inventory[ip].status \in {"active", "retired"}
BY DEF PassiveInv, PassiveTypeOK, DeviceRow

\* The merges that are over are others' merges, so fewer than the collectors.
LEMMA OverIsSmall ==
  ASSUME PassiveInv, NEW k \in Probe, Merging(k)
  PROVE  /\ IsFiniteSet(Over(k)) /\ Cardinality(Over(k)) \in Nat
         /\ Cardinality(Over(k)) < Cardinality(Probe)
<1>1. pass[k] \in Pass
  BY PassTyped DEF Merging, PassAt
<1>2. Over(k) \in SUBSET (Probe \ {k})
  BY <1>1 DEF PassiveInv, MergesMeet, Over, Met, Pass
<1>3. /\ IsFiniteSet(Probe \ {k}) /\ IsFiniteSet(Probe)
      /\ Cardinality(Probe \ {k}) = Cardinality(Probe) - 1
  BY PassiveAssumption, FS_RemoveElement
<1>4. /\ IsFiniteSet(Over(k))
      /\ Cardinality(Over(k)) <= Cardinality(Probe \ {k})
  BY <1>2, <1>3, FS_Subset
<1>5. /\ Cardinality(Over(k)) \in Nat /\ Cardinality(Probe) \in Nat
  BY <1>3, <1>4, FS_CardinalityType
<1> QED BY <1>3, <1>4, <1>5

LEMMA OverGrows ==
  ASSUME NEW S, NEW T, IsFiniteSet(T), S \subseteq T
  PROVE  /\ Cardinality(S) \in Nat /\ Cardinality(T) \in Nat
         /\ Cardinality(S) <= Cardinality(T)
<1>1. S \in SUBSET T
  OBVIOUS
<1> QED BY <1>1, FS_Subset, FS_CardinalityType

LEMMA PassiveInitInv == PassiveInit => PassiveInv
<1> SUFFICES ASSUME PassiveInit PROVE PassiveInv
  OBVIOUS
<1>1. PassiveTypeOK
  BY PassiveAssumption DEF PassiveInit, PassiveTypeOK
<1>2. \A k \in Probe : pass[k] = None
  BY DEF PassiveInit
<1>3. \A ip \in Ip : inventory[ip] = None
  BY DEF PassiveInit
<1> QED
  BY <1>1, <1>2, <1>3
  DEF PassiveInv, PassesProgress, LocksAreHeld, MissesAreSilence, MergesMeet,
      LateIsRecent, RetiredIsTold, Retired, Merging, PassAt

-----------------------------------------------------------------------------
(* Steps of one pass that leave what is committed alone. *)

Merges(p) == p # None /\ p.at \in {"upsert", "bump"}

\* p is what becomes of the pass.
LEMMA PassSetInv ==
  ASSUME PassiveInv, NEW k \in Probe, NEW p \in Pass \cup {None},
         pass' = [pass EXCEPT ![k] = p], UNCHANGED <<inventory, feed, silent>>,
         p # None => Progress(p) /\ Wrote(p),
         \A ip \in Ip : p # None /\ p.mine[ip] # None =>
           ~RowLocked(k, ip) \/ (pass[k] # None /\ pass[k].mine[ip] # None),
         Merges(p) => /\ Merging(k)
                      /\ p.before = pass[k].before /\ p.after = pass[k].after
                      /\ p.late = pass[k].late,
         \A ip \in Ip : Merges(p) /\ ip \in p.late /\ p.mine[ip] # None =>
           p.mine[ip].misses <= Cardinality(Over(k))
  PROVE  PassiveInv'
<1>1. /\ pass'[k] = p /\ \A j \in Probe : j # k => pass'[j] = pass[j]
      /\ pass' \in [Probe -> Pass \cup {None}]
  BY DEF PassiveInv, PassiveTypeOK
<1>2. PassiveTypeOK'
  BY <1>1 DEF PassiveInv, PassiveTypeOK
<1>3. PassesProgress'
  <2>1. ASSUME NEW j \in Probe, pass'[j] # None
        PROVE  Progress(pass'[j]) /\ Wrote(pass'[j])
    BY <1>1, <2>1 DEF PassiveInv, PassesProgress
  <2> QED BY <2>1 DEF PassesProgress, Progress, Wrote
<1>4. LocksAreHeld'
  <2>1. ASSUME NEW j \in Probe \ {k}, NEW ip \in Ip, pass[j] # None,
               pass[j].mine[ip] # None, p # None, p.mine[ip] # None
        PROVE  FALSE
    BY <2>1 DEF PassiveInv, LocksAreHeld, RowLocked
  <2> QED BY <1>1, <2>1 DEF PassiveInv, LocksAreHeld
<1>5. MissesAreSilence' /\ RetiredIsTold'
  BY DEF PassiveInv, MissesAreSilence, RetiredIsTold, Retired
<1>6. /\ \A j \in Probe : Merging(j)' => Merging(j)
      /\ \A j \in Probe : Merging(j)' => /\ pass'[j].before = pass[j].before
                                         /\ pass'[j].after = pass[j].after
                                         /\ pass'[j].late = pass[j].late
      /\ \A j \in Probe : j # k => (Merging(j)' <=> Merging(j))
  BY <1>1 DEF Merging, PassAt, Merges
<1>7. MergesMeet'
  BY <1>6 DEF PassiveInv, MergesMeet, Met
<1>8. LateIsRecent'
  <2> SUFFICES ASSUME NEW j \in Probe, NEW ip \in Ip, Merging(j)', ip \in pass'[j].late
               PROVE  /\ inventory'[ip] # None
                      /\ inventory'[ip].status = "active"
                         => inventory'[ip].misses < Cardinality(Over(j)')
                      /\ pass'[j].mine[ip] # None
                         => pass'[j].mine[ip].misses <= Cardinality(Over(j)')
    BY DEF LateIsRecent
  <2>1. Merging(j) /\ ip \in pass[j].late /\ pass[j] \in Pass /\ pass'[j] \in Pass
    BY <1>1, <1>6, PassTyped DEF Merging, PassAt
  <2>2. Over(j) \subseteq Over(j)'
    <3>1. Met(j) \subseteq Probe /\ Met(j)' = Met(j)
      BY <1>6, <2>1 DEF Met, Pass
    <3> QED BY <1>6, <3>1 DEF Over
  <2>3. IsFiniteSet(Over(j)')
    <3>1. Over(j)' \in SUBSET Probe
      BY <2>1 DEF Over, Met, Pass
    <3> QED BY <3>1, PassiveAssumption, FS_Subset
  <2>4. /\ Cardinality(Over(j)) \in Nat /\ Cardinality(Over(j)') \in Nat
        /\ Cardinality(Over(j)) <= Cardinality(Over(j)')
    BY <2>2, <2>3, OverGrows
  <2>5. /\ inventory[ip] # None
        /\ inventory[ip].status = "active" => inventory[ip].misses < Cardinality(Over(j))
        /\ pass[j].mine[ip] # None => pass[j].mine[ip].misses <= Cardinality(Over(j))
    BY <2>1 DEF PassiveInv, LateIsRecent
  <2>6. pass'[j].mine[ip] # None => pass'[j].mine[ip].misses <= Cardinality(Over(j))
    BY <1>1, <1>6, <2>1, <2>5 DEF Merging, PassAt, Merges
  <2>7. /\ pass'[j].mine[ip] # None => pass'[j].mine[ip].misses \in Nat
        /\ inventory[ip].misses \in Nat
    BY <2>1, <2>5, RowTyped, PassiveAssumption DEF Pass, DeviceRow
  <2> QED BY <2>4, <2>5, <2>6, <2>7
<1> QED
  BY <1>2, <1>3, <1>4, <1>5, <1>7, <1>8 DEF PassiveInv

LEMMA CapturePassiveSNMPInv ==
  ASSUME PassiveInv, NEW k \in Probe, CapturePassiveSNMP(k)
  PROVE  PassiveInv'
<1> PICK devices \in SUBSET Ip \ {{}} :
      pass' = [pass EXCEPT ![k] =
        [at |-> "captured", devices |-> devices, todo |-> devices, prior |-> None,
         mine |-> [ip \in Ip |-> None], told |-> [ip \in Ip |-> None],
         before |-> {}, after |-> {}, late |-> {}]]
  BY DEF CapturePassiveSNMP
<1> DEFINE p == [at |-> "captured", devices |-> devices, todo |-> devices,
                 prior |-> None, mine |-> [ip \in Ip |-> None],
                 told |-> [ip \in Ip |-> None], before |-> {}, after |-> {},
                 late |-> {}]
<1>1. p \in Pass
  BY DEF Pass
<1>2. Progress(p) /\ Wrote(p) /\ ~Merges(p) /\ \A ip \in Ip : p.mine[ip] = None
  BY DEF Progress, Wrote, Merges
<1>3. pass' = [pass EXCEPT ![k] = p] /\ UNCHANGED <<inventory, feed, silent>>
  BY DEF CapturePassiveSNMP
<1> HIDE DEF p
<1> QED BY <1>1, <1>2, <1>3, PassSetInv

LEMMA RollbackInv ==
  ASSUME PassiveInv, NEW k \in Probe, Rollback(k)
  PROVE  PassiveInv'
BY PassSetInv DEF Rollback, Merges

LEMMA ReadPriorInv ==
  ASSUME PassiveInv, NEW k \in Probe, ReadPrior(k)
  PROVE  PassiveInv'
<1>1. /\ pass[k] # None /\ pass[k].at = "upsert" /\ Merging(k)
      /\ pass[k] \in Pass /\ Progress(pass[k]) /\ Wrote(pass[k])
      /\ pass[k].prior = None
  BY PassTyped DEF ReadPrior, PassAt, Merging, PassiveInv, PassesProgress
<1> PICK ip \in pass[k].todo :
      pass' = [pass EXCEPT ![k].todo = @ \ {ip},
        ![k].prior = <<ip, IF inventory[ip] = None THEN "none" ELSE inventory[ip].status>>]
  BY DEF ReadPrior
<1> DEFINE status == IF inventory[ip] = None THEN "none" ELSE inventory[ip].status
           p == [pass[k] EXCEPT !.todo = @ \ {ip}, !.prior = <<ip, status>>]
<1>2. ip \in Ip /\ ip \in pass[k].devices /\ status \in {"none", "active", "retired"}
  BY <1>1, RowTyped DEF Progress, Pass
<1>3. <<ip, status>> # None /\ <<ip, status>> \in Ip \X {"none", "active", "retired"}
  BY <1>2, PassiveNoneAssumption
<1> HIDE DEF status
<1>4. /\ p \in Pass /\ p # None
      /\ p.at = "upsert" /\ p.devices = pass[k].devices
      /\ p.todo = pass[k].todo \ {ip} /\ p.prior = <<ip, status>>
      /\ p.mine = pass[k].mine /\ p.told = pass[k].told /\ p.before = pass[k].before
      /\ p.after = pass[k].after /\ p.late = pass[k].late
  <2>1. p \in Pass
    BY <1>1, <1>3 DEF Pass
  <2>2. /\ p.at = "upsert" /\ p.devices = pass[k].devices
        /\ p.todo = pass[k].todo \ {ip} /\ p.prior = <<ip, status>>
        /\ p.mine = pass[k].mine /\ p.told = pass[k].told /\ p.before = pass[k].before
        /\ p.after = pass[k].after /\ p.late = pass[k].late
    BY <1>1, <1>3 DEF Pass
  <2> QED BY <2>1, <2>2, PassIsSome
<1>5. pass' = [pass EXCEPT ![k] = p] /\ UNCHANGED <<inventory, feed, silent>>
  BY DEF ReadPrior, status
<1> HIDE DEF p
<1>6. Progress(p)
  BY <1>1, <1>2, <1>3, <1>4 DEF Progress
<1>7. Wrote(p)
  BY <1>1, <1>4 DEF Wrote
<1>8. \A i \in Ip : i \in p.late /\ p.mine[i] # None
                    => p.mine[i].misses <= Cardinality(Over(k))
  BY <1>1, <1>4 DEF PassiveInv, LateIsRecent
<1> QED BY <1>1, <1>4, <1>5, <1>6, <1>7, <1>8, PassSetInv

LEMMA UpsertInv ==
  ASSUME PassiveInv, NEW k \in Probe, Upsert(k)
  PROVE  PassiveInv'
<1>1. /\ pass[k] # None /\ pass[k].at = "upsert" /\ Merging(k)
      /\ pass[k] \in Pass /\ Progress(pass[k]) /\ Wrote(pass[k])
      /\ pass[k].prior # None
  BY PassTyped DEF Upsert, PassAt, Merging, PassiveInv, PassesProgress
<1> DEFINE ip == pass[k].prior[1]
           event == IF pass[k].prior[2] = "active" THEN None ELSE "on"
           p == [pass[k] EXCEPT !.prior = None, !.mine[ip] = Upserted(inventory[ip]),
                                !.told[ip] = event]
<1>2. ip \in Ip /\ ip \in pass[k].devices
  BY <1>1 DEF Progress, Pass
<1>3. ~RowLocked(k, ip) /\ UNCHANGED <<inventory, feed, silent>>
  BY DEF Upsert
<1>4. pass' = [pass EXCEPT ![k] = p]
  BY <1>2 DEF Upsert
<1>5. /\ Upserted(inventory[ip]) = Upserted(None) /\ Upserted(None) \in DeviceRow
      /\ Upserted(None).misses = 0 /\ event \in {None, "on", "retired"}
  BY PassiveAssumption DEF Upserted, DeviceRow
<1> HIDE DEF event
<1>6. /\ p \in Pass /\ p # None
      /\ p.at = "upsert" /\ p.devices = pass[k].devices
      /\ p.todo = pass[k].todo /\ p.prior = None
      /\ p.mine = [pass[k].mine EXCEPT ![ip] = Upserted(None)]
      /\ p.told = [pass[k].told EXCEPT ![ip] = event]
      /\ p.before = pass[k].before /\ p.after = pass[k].after /\ p.late = pass[k].late
  <2>1. p \in Pass
    BY <1>1, <1>5 DEF Pass
  <2>2. /\ p.at = "upsert" /\ p.devices = pass[k].devices
        /\ p.todo = pass[k].todo /\ p.prior = None
        /\ p.mine = [pass[k].mine EXCEPT ![ip] = Upserted(None)]
        /\ p.told = [pass[k].told EXCEPT ![ip] = event]
        /\ p.before = pass[k].before /\ p.after = pass[k].after /\ p.late = pass[k].late
    BY <1>1, <1>5 DEF Pass
  <2> QED BY <2>1, <2>2, PassIsSome
<1>7. /\ p.mine[ip] = Upserted(None) /\ p.told[ip] = event
      /\ Upserted(None) # None
      /\ \A i \in Ip : i # ip => p.mine[i] = pass[k].mine[i] /\ p.told[i] = pass[k].told[i]
  BY <1>1, <1>2, <1>5, <1>6, PassiveNoneAssumption DEF Pass
<1> HIDE DEF p, ip
<1>8. Progress(p)
  BY <1>1, <1>2, <1>6, <1>7 DEF Progress, ip
<1>9. Wrote(p)
  BY <1>1, <1>2, <1>6, <1>7 DEF Wrote
<1>10. \A i \in Ip : p.mine[i] # None => ~RowLocked(k, i) \/ pass[k].mine[i] # None
  BY <1>3, <1>7
<1>11. \A i \in Ip : i \in p.late /\ p.mine[i] # None
                     => p.mine[i].misses <= Cardinality(Over(k))
  BY <1>1, <1>5, <1>6, <1>7, OverIsSmall DEF PassiveInv, LateIsRecent
<1> QED BY <1>1, <1>3, <1>4, <1>6, <1>8, <1>9, <1>10, <1>11, PassSetInv

LEMMA BeginBumpInv ==
  ASSUME PassiveInv, NEW k \in Probe, BeginBump(k)
  PROVE  PassiveInv'
<1>1. /\ pass[k] # None /\ pass[k].at = "upsert" /\ Merging(k)
      /\ pass[k] \in Pass /\ Progress(pass[k]) /\ Wrote(pass[k])
      /\ pass[k].prior = None /\ pass[k].todo = {}
  BY PassTyped DEF BeginBump, PassAt, Merging, PassiveInv, PassesProgress
<1> DEFINE p == [pass[k] EXCEPT !.at = "bump", !.todo = Missed(k)]
<1>2. pass' = [pass EXCEPT ![k] = p] /\ UNCHANGED <<inventory, feed, silent>>
  BY DEF BeginBump
<1>3. /\ p \in Pass /\ p # None
      /\ p.at = "bump" /\ p.devices = pass[k].devices
      /\ p.todo = Missed(k) /\ p.prior = None
      /\ p.mine = pass[k].mine /\ p.told = pass[k].told /\ p.before = pass[k].before
      /\ p.after = pass[k].after /\ p.late = pass[k].late
  <2>1. p \in Pass
    BY <1>1 DEF Pass, Missed
  <2>2. /\ p.at = "bump" /\ p.devices = pass[k].devices
        /\ p.todo = Missed(k) /\ p.prior = None
        /\ p.mine = pass[k].mine /\ p.told = pass[k].told /\ p.before = pass[k].before
        /\ p.after = pass[k].after /\ p.late = pass[k].late
    BY <1>1 DEF Pass, Missed
  <2> QED BY <2>1, <2>2, PassIsSome
<1> HIDE DEF p
<1>4. Progress(p)
  BY <1>1, <1>3 DEF Progress, Missed, Pass
<1>5. Wrote(p)
  BY <1>1, <1>3 DEF Wrote
<1>6. \A i \in Ip : i \in p.late /\ p.mine[i] # None
                    => p.mine[i].misses <= Cardinality(Over(k))
  BY <1>1, <1>3 DEF PassiveInv, LateIsRecent
<1> QED BY <1>1, <1>2, <1>3, <1>4, <1>5, <1>6, PassSetInv

LEMMA BumpInv ==
  ASSUME PassiveInv, NEW k \in Probe, Bump(k)
  PROVE  PassiveInv'
<1>1. /\ pass[k] # None /\ pass[k].at = "bump" /\ Merging(k)
      /\ pass[k] \in Pass /\ Progress(pass[k]) /\ Wrote(pass[k])
  BY PassTyped DEF Bump, PassAt, Merging, PassiveInv, PassesProgress
<1> PICK ip \in pass[k].todo :
      /\ ~RowLocked(k, ip)
      /\ pass' = [pass EXCEPT ![k].todo = @ \ {ip},
           ![k].mine[ip] = IF inventory[ip].status = "active"
                           THEN [inventory[ip] EXCEPT !.misses = @ + 1] ELSE @]
  BY DEF Bump
<1> DEFINE row == IF inventory[ip].status = "active"
                  THEN [inventory[ip] EXCEPT !.misses = @ + 1] ELSE pass[k].mine[ip]
           p == [pass[k] EXCEPT !.todo = @ \ {ip}, !.mine[ip] = row]
<1>2. /\ ip \in Ip /\ ip \notin pass[k].devices /\ inventory[ip] # None
      /\ inventory[ip] \in DeviceRow
  BY <1>1, RowTyped DEF Progress, Pass
<1>3. pass' = [pass EXCEPT ![k] = p] /\ UNCHANGED <<inventory, feed, silent>>
  BY <1>1, <1>2 DEF Bump
<1>4. inventory[ip].status = "active" =>
        /\ row = Bumped(inventory[ip]) /\ row \in DeviceRow /\ row # None
        /\ row.misses = inventory[ip].misses + 1 /\ inventory[ip].misses \in Nat
  <2>1. inventory[ip].status = "active" => inventory[ip].misses < RetireAfter
    BY <1>2 DEF PassiveInv, MissesAreSilence
  <2> QED BY <1>2, <2>1, PassiveAssumption, PassiveNoneAssumption DEF Bumped, DeviceRow
<1>5. inventory[ip].status # "active" => row = pass[k].mine[ip]
  OBVIOUS
<1>6. row \in DeviceRow \cup {None}
  BY <1>1, <1>2, <1>4, <1>5 DEF Pass
<1> HIDE DEF row
<1>7. /\ p \in Pass /\ p # None
      /\ p.at = "bump" /\ p.devices = pass[k].devices
      /\ p.todo = pass[k].todo \ {ip} /\ p.prior = pass[k].prior
      /\ p.mine = [pass[k].mine EXCEPT ![ip] = row] /\ p.told = pass[k].told
      /\ p.before = pass[k].before /\ p.after = pass[k].after /\ p.late = pass[k].late
  <2>1. p \in Pass
    BY <1>1, <1>6 DEF Pass
  <2>2. /\ p.at = "bump" /\ p.devices = pass[k].devices
        /\ p.todo = pass[k].todo \ {ip} /\ p.prior = pass[k].prior
        /\ p.mine = [pass[k].mine EXCEPT ![ip] = row] /\ p.told = pass[k].told
        /\ p.before = pass[k].before /\ p.after = pass[k].after /\ p.late = pass[k].late
    BY <1>1, <1>6 DEF Pass
  <2> QED BY <2>1, <2>2, PassIsSome
<1>8. p.mine[ip] = row /\ \A i \in Ip : i # ip => p.mine[i] = pass[k].mine[i]
  BY <1>1, <1>2, <1>7 DEF Pass
<1> HIDE DEF p
<1>9. Progress(p)
  BY <1>1, <1>2, <1>7, <1>8 DEF Progress, Pass
<1>10. Wrote(p)
  BY <1>1, <1>2, <1>4, <1>5, <1>7, <1>8 DEF Wrote
<1>11. \A i \in Ip : p.mine[i] # None => ~RowLocked(k, i) \/ pass[k].mine[i] # None
  BY <1>8
<1>12. \A i \in Ip : i \in p.late /\ p.mine[i] # None
                     => p.mine[i].misses <= Cardinality(Over(k))
  <2> SUFFICES ASSUME NEW i \in Ip, i \in pass[k].late, p.mine[i] # None
               PROVE  p.mine[i].misses <= Cardinality(Over(k))
    BY <1>7
  <2>1. CASE p.mine[i] = pass[k].mine[i]
    BY <1>1, <2>1 DEF PassiveInv, LateIsRecent
  <2>2. CASE p.mine[i] # pass[k].mine[i]
    <3>1. i = ip /\ inventory[ip].status = "active"
      BY <1>5, <1>8, <2>2
    <3>2. inventory[ip].misses < Cardinality(Over(k))
      BY <1>1, <1>2, <3>1 DEF PassiveInv, LateIsRecent
    <3> QED BY <1>1, <1>4, <1>8, <3>1, <3>2, OverIsSmall
  <2> QED BY <2>1, <2>2
<1> QED BY <1>1, <1>3, <1>7, <1>9, <1>10, <1>11, <1>12, PassSetInv

-----------------------------------------------------------------------------
(* A merge begins. *)

LEMMA BeginMergeInv ==
  ASSUME PassiveInv, NEW k \in Probe, BeginMerge(k)
  PROVE  PassiveInv'
<1>1. /\ pass[k] # None /\ pass[k].at = "captured" /\ ~Merging(k)
      /\ pass[k] \in Pass /\ Progress(pass[k]) /\ Wrote(pass[k])
      /\ UNCHANGED <<inventory, feed, silent>>
  BY PassTyped DEF BeginMerge, PassAt, Merging, PassiveInv, PassesProgress
<1> DEFINE p == [pass[k] EXCEPT !.at = "upsert", !.before = {i \in Probe : Merging(i)}]
<1>2. /\ pass' \in [Probe -> Pass \cup {None}]
      /\ pass'[k] = p
      /\ \A j \in Probe : j # k /\ ~Merging(j) => pass'[j] = pass[j]
      /\ \A j \in Probe : j # k /\ Merging(j) =>
           pass'[j] = [pass[j] EXCEPT !.after = @ \cup {k}]
  <2>1. p \in Pass
    BY <1>1 DEF Pass
  <2>2. \A j \in Probe : Merging(j) => [pass[j] EXCEPT !.after = @ \cup {k}] \in Pass
    BY PassTyped DEF Merging, PassAt, Pass
  <2> HIDE DEF p
  <2>3. pass' = [j \in Probe |->
          IF j = k THEN p
          ELSE IF Merging(j) THEN [pass[j] EXCEPT !.after = @ \cup {k}] ELSE pass[j]]
    BY DEF BeginMerge, p
  <2> QED BY <2>1, <2>2, <2>3 DEF PassiveInv, PassiveTypeOK
<1>3. /\ p.at = "upsert" /\ p.devices = pass[k].devices /\ p.todo = pass[k].todo
      /\ p.prior = pass[k].prior /\ p.mine = pass[k].mine /\ p.told = pass[k].told
      /\ p.before = {i \in Probe : Merging(i)} /\ p.after = {} /\ p.late = {}
  BY <1>1 DEF Pass, Progress
<1> HIDE DEF p
<1>4. p # None
  <2>1. p \in Pass
    BY <1>1 DEF Pass, p
  <2> QED BY <2>1, PassIsSome
<1>5. ASSUME NEW j \in Probe, j # k, pass'[j] # None
      PROVE  /\ pass[j] # None /\ pass'[j].at = pass[j].at
             /\ pass'[j].devices = pass[j].devices /\ pass'[j].todo = pass[j].todo
             /\ pass'[j].prior = pass[j].prior /\ pass'[j].mine = pass[j].mine
             /\ pass'[j].told = pass[j].told /\ pass'[j].late = pass[j].late
             /\ pass'[j].before = pass[j].before
             /\ pass'[j].after = IF Merging(j) THEN pass[j].after \cup {k}
                                 ELSE pass[j].after
  <2>1. CASE Merging(j)
    <3>1. pass[j] # None /\ pass[j] \in Pass
      BY <2>1, PassTyped DEF Merging, PassAt
    <3> QED BY <1>2, <1>5, <2>1, <3>1 DEF Pass
  <2>2. CASE ~Merging(j)
    BY <1>2, <1>5, <2>2
  <2> QED BY <2>1, <2>2
<1>6. PassiveTypeOK'
  BY <1>1, <1>2 DEF PassiveInv, PassiveTypeOK
<1>7. PassesProgress'
  <2>1. Progress(p) /\ Wrote(p)
    BY <1>1, <1>3 DEF Progress, Wrote
  <2>2. ASSUME NEW j \in Probe, j # k, pass'[j] # None
        PROVE  Progress(pass'[j]) /\ Wrote(pass'[j])
    <3>1. Progress(pass[j]) /\ Wrote(pass[j]) /\ (pass[j].at = "captured" => ~Merging(j))
      BY <1>5, <2>2 DEF PassiveInv, PassesProgress, Merging, PassAt
    <3>2. Wrote(pass'[j])
      BY <1>5, <2>2, <3>1 DEF Wrote
    <3>3. Progress(pass'[j])
      BY <1>5, <2>2, <3>1 DEF Progress
    <3> QED BY <3>2, <3>3
  <2>3. \A j \in Probe : pass'[j] # None => Progress(pass'[j]) /\ Wrote(pass'[j])
    BY <1>2, <2>1, <2>2
  <2> QED BY <1>1, <2>3 DEF PassesProgress, Progress, Wrote
<1>8. LocksAreHeld'
  <2>1. \A j \in Probe : pass'[j] # None =>
          pass[j] # None /\ pass'[j].mine = pass[j].mine
    BY <1>1, <1>2, <1>3, <1>5
  <2> QED BY <2>1 DEF PassiveInv, LocksAreHeld
<1>9. MissesAreSilence' /\ RetiredIsTold'
  BY <1>1 DEF PassiveInv, MissesAreSilence, RetiredIsTold, Retired
<1>10. Merging(k)' /\ \A j \in Probe : j # k => (Merging(j)' <=> Merging(j))
  <2>1. Merging(k)'
    BY <1>2, <1>3, <1>4 DEF Merging, PassAt
  <2>2. ASSUME NEW j \in Probe, j # k, Merging(j)
        PROVE  Merging(j)'
    <3>1. [pass[j] EXCEPT !.after = @ \cup {k}] \in Pass
      BY <2>2, PassTyped DEF Merging, PassAt, Pass
    <3>2. pass'[j] # None
      BY <1>2, <2>2, <3>1, PassIsSome
    <3> QED BY <1>5, <2>2, <3>2 DEF Merging, PassAt
  <2>3. ASSUME NEW j \in Probe, j # k, Merging(j)'
        PROVE  Merging(j)
    BY <1>5, <2>3 DEF Merging, PassAt
  <2> QED BY <2>1, <2>2, <2>3
<1>11. /\ Met(k)' = {i \in Probe : Merging(i)}
       /\ \A j \in Probe : j # k /\ Merging(j) => Met(j)' = Met(j) \cup {k}
  BY <1>2, <1>3, <1>5, <1>10 DEF Met, Merging, PassAt
<1>12. MergesMeet'
  <2> SUFFICES ASSUME NEW j \in Probe, Merging(j)'
               PROVE  /\ j \notin Met(j)'
                      /\ \A i \in Probe : Merging(i)' /\ i # j => i \in Met(j)'
    BY DEF MergesMeet
  <2>1. CASE j = k
    BY <1>1, <1>10, <1>11, <2>1
  <2>2. CASE j # k
    BY <1>10, <1>11, <2>2 DEF PassiveInv, MergesMeet
  <2> QED BY <2>1, <2>2
<1>13. LateIsRecent'
  <2>1. ASSUME NEW j \in Probe, j # k, Merging(j)
        PROVE  Over(j)' = Over(j)
    <3>1. k \notin Met(j) /\ Met(j) \subseteq Probe
      BY <2>1, PassTyped DEF BeginMerge, Met, Merging, PassAt, Pass
    <3> QED BY <1>10, <1>11, <2>1, <3>1 DEF Over
  <2>2. ASSUME NEW j \in Probe, NEW ip \in Ip, Merging(j)', ip \in pass'[j].late
        PROVE  /\ j # k /\ Merging(j) /\ pass'[j].mine = pass[j].mine
               /\ ip \in pass[j].late
    <3>1. j # k
      BY <1>2, <1>3, <2>2
    <3> QED BY <1>5, <1>10, <2>2, <3>1 DEF Merging, PassAt
  <2> QED BY <1>1, <2>1, <2>2 DEF PassiveInv, LateIsRecent
<1> QED
  BY <1>6, <1>7, <1>8, <1>9, <1>12, <1>13 DEF PassiveInv

-----------------------------------------------------------------------------
(* A merge commits. *)

CountedUp(n) == IF n < RetireAfter THEN n + 1 ELSE RetireAfter

\* What becomes of a row: it was in the batch, it is retired, it was bumped, or the
\* merge leaves it and its event alone.
Reset(k, ip) ==
  /\ ip \in pass[k].devices /\ silent'[ip] = 0
  /\ inventory'[ip] = Upserted(None)

Retires(k, ip) ==
  /\ ip \notin pass[k].devices /\ silent'[ip] = CountedUp(silent[ip])
  /\ ip \notin pass[k].late => feed'[ip] = "retired"
  /\ inventory[ip] # None /\ inventory[ip].status = "active"
  /\ inventory[ip].misses + 1 = RetireAfter
  /\ pass[k].mine[ip] # None /\ pass[k].mine[ip].misses = RetireAfter
  /\ inventory'[ip] = [status |-> "retired", misses |-> RetireAfter]

CountsMiss(k, ip) ==
  /\ ip \notin pass[k].devices /\ silent'[ip] = CountedUp(silent[ip])
  /\ inventory[ip] # None /\ inventory[ip].status = "active"
  /\ inventory[ip].misses + 1 < RetireAfter
  /\ inventory'[ip] = Bumped(inventory[ip])
  /\ Told(k)[ip] = None

LeavesAlone(k, ip) ==
  /\ ip \notin pass[k].devices /\ silent'[ip] = CountedUp(silent[ip])
  /\ inventory'[ip] = inventory[ip] /\ feed'[ip] = feed[ip]
  /\ Told(k)[ip] = None

LEMMA CommitRow ==
  ASSUME PassiveInv, NEW k \in Probe, NEW ip \in Ip, RetireAndCommit(k)
  PROVE  \/ Reset(k, ip) \/ Retires(k, ip)
         \/ CountsMiss(k, ip)
         \/ LeavesAlone(k, ip) /\ pass[k].mine[ip] = None
<1> DEFINE row == pass[k].mine[ip]
<1>1. /\ pass[k] # None /\ pass[k].at = "bump" /\ pass[k].todo = {}
      /\ pass[k] \in Pass /\ Progress(pass[k]) /\ Wrote(pass[k])
  BY PassTyped DEF RetireAndCommit, PassAt, PassiveInv, PassesProgress
<1>2. /\ inventory'[ip] = IF ip \in Retiring(k) THEN [row EXCEPT !.status = "retired"]
                          ELSE IF row # None THEN row ELSE inventory[ip]
      /\ feed'[ip] = IF Told(k)[ip] # None /\ ip \notin pass[k].late THEN Told(k)[ip]
                     ELSE feed[ip]
      /\ silent'[ip] = IF ip \in pass[k].devices THEN 0 ELSE CountedUp(silent[ip])
  BY DEF RetireAndCommit, CountedUp
<1>3. /\ ip \in Retiring(k) <=>
           row # None /\ row.status = "active" /\ row.misses >= RetireAfter
      /\ Told(k)[ip] = IF ip \in Retiring(k) THEN "retired" ELSE pass[k].told[ip]
  BY DEF Retiring, Told
<1>4. pass[k].told[ip] # None => ip \in pass[k].devices
  BY <1>1 DEF Progress
<1>5. row # None => row \in DeviceRow /\ row.misses \in 0..RetireAfter
  BY <1>1 DEF Pass, DeviceRow
<1>6. CASE ip \in pass[k].devices
  <2>1. row = Upserted(None) /\ row # None
    BY <1>1, <1>6 DEF Progress, Wrote
  <2>2. ip \notin Retiring(k)
    BY <1>3, <2>1, PassiveAssumption DEF Upserted
  <2> QED BY <1>2, <1>6, <2>1, <2>2 DEF Reset
<1>7. CASE ip \notin pass[k].devices /\ row = None
  BY <1>2, <1>3, <1>4, <1>7 DEF LeavesAlone
<1>8. CASE ip \notin pass[k].devices /\ row # None
  <2>1. /\ inventory[ip] # None /\ inventory[ip].status = "active"
        /\ row = Bumped(inventory[ip]) /\ row.status = "active"
        /\ row.misses = inventory[ip].misses + 1
    BY <1>1, <1>8 DEF Wrote, Bumped
  <2>2. inventory[ip].misses \in Nat /\ inventory[ip].misses < RetireAfter
    BY <2>1, RowTyped, PassiveAssumption DEF PassiveInv, MissesAreSilence
  <2>3. CASE ip \in Retiring(k)
    <3>1. row.misses = RetireAfter /\ inventory[ip].misses + 1 = RetireAfter
      BY <1>3, <2>1, <2>2, <2>3, PassiveAssumption
    <3>2. inventory'[ip] = [status |-> "retired", misses |-> RetireAfter]
      BY <1>2, <2>1, <2>3, <3>1 DEF Bumped
    <3>3. Told(k)[ip] = "retired" /\ Told(k)[ip] # None
      BY <1>3, <2>3, PassiveNoneAssumption
    <3> QED BY <1>2, <1>8, <2>1, <3>1, <3>2, <3>3 DEF Retires
  <2>4. CASE ip \notin Retiring(k)
    BY <1>2, <1>3, <1>4, <1>8, <2>1, <2>2, <2>4, PassiveAssumption DEF CountsMiss
  <2> QED BY <2>3, <2>4
<1> QED BY <1>6, <1>7, <1>8

LEMMA CountedUpBound ==
  ASSUME NEW n \in 0..RetireAfter
  PROVE  /\ CountedUp(n) \in 0..RetireAfter /\ CountedUp(n) >= n
         /\ \A m \in Nat : m <= n /\ m < RetireAfter => m + 1 <= CountedUp(n)
BY PassiveAssumption DEF CountedUp

\* What a commit does to what is stored.
LEMMA CommitStore ==
  ASSUME PassiveInv, NEW k \in Probe, RetireAndCommit(k)
  PROVE  /\ inventory' \in [Ip -> DeviceRow \cup {None}]
         /\ feed' \in [Ip -> {None, "on", "retired"}]
         /\ silent' \in [Ip -> 0..RetireAfter]
         /\ MissesAreSilence' /\ RetiredIsTold'
         /\ \A ip \in Ip : inventory[ip] # None => inventory'[ip] # None
<1>1. pass[k] \in Pass /\ Merging(k)
  BY PassTyped DEF RetireAndCommit, PassAt, Merging
<1>2. \A ip \in Ip : silent[ip] \in 0..RetireAfter
  BY DEF PassiveInv, PassiveTypeOK
<1>3. ASSUME NEW ip \in Ip
      PROVE  /\ inventory'[ip] \in DeviceRow \cup {None}
             /\ silent'[ip] \in 0..RetireAfter
             /\ inventory[ip] # None => inventory'[ip] # None
             /\ inventory'[ip] # None =>
                  IF inventory'[ip].status = "active"
                  THEN /\ inventory'[ip].misses <= silent'[ip]
                       /\ inventory'[ip].misses < RetireAfter
                  ELSE silent'[ip] >= RetireAfter
             /\ RetireAfter >= Cardinality(Probe) /\ Retired(ip)'
                => feed'[ip] = "retired"
  <2>1. CASE Reset(k, ip)
    <3>1. /\ Upserted(None) \in DeviceRow /\ Upserted(None).misses = 0
          /\ Upserted(None).status = "active" /\ Upserted(None) # None
      BY PassiveAssumption, PassiveNoneAssumption DEF Upserted, DeviceRow
    <3> QED BY <2>1, <3>1, PassiveAssumption DEF Reset, Retired
  <2>2. CASE Retires(k, ip)
    <3> DEFINE gone == [status |-> "retired", misses |-> RetireAfter]
    <3>1. gone \in DeviceRow /\ gone # None /\ gone.status = "retired"
      BY PassiveAssumption, PassiveNoneAssumption DEF DeviceRow
    <3>2. inventory[ip].misses <= silent[ip] /\ inventory[ip].misses \in Nat
      BY <2>2, RowTyped, PassiveAssumption DEF PassiveInv, MissesAreSilence, Retires
    <3>3. silent'[ip] \in 0..RetireAfter /\ silent'[ip] >= RetireAfter
      BY <1>2, <2>2, <3>2, CountedUpBound, PassiveAssumption DEF Retires
    <3>4. ASSUME RetireAfter >= Cardinality(Probe)
          PROVE  ip \notin pass[k].late
      <4>1. CASE ip \in pass[k].late
        <5>1. RetireAfter <= Cardinality(Over(k))
          BY <1>1, <2>2, <4>1 DEF PassiveInv, LateIsRecent, Retires
        <5>2. Cardinality(Probe) \in Nat
          BY PassiveAssumption, FS_CardinalityType
        <5> QED BY <1>1, <3>4, <5>1, <5>2, OverIsSmall, PassiveAssumption
      <4> QED BY <4>1
    <3> HIDE DEF gone
    <3>5. inventory'[ip] = gone
      BY <2>2 DEF Retires, gone
    <3>6. RetireAfter >= Cardinality(Probe) => feed'[ip] = "retired"
      BY <2>2, <3>4 DEF Retires
    <3> QED BY <3>1, <3>3, <3>5, <3>6
  <2>3. CASE CountsMiss(k, ip)
    <3>1. /\ inventory[ip].misses <= silent[ip] /\ inventory[ip].misses \in Nat
          /\ inventory[ip].misses < RetireAfter
      BY <2>3, RowTyped, PassiveAssumption DEF PassiveInv, MissesAreSilence, CountsMiss
    <3>2. /\ Bumped(inventory[ip]) \in DeviceRow /\ Bumped(inventory[ip]) # None
          /\ Bumped(inventory[ip]).status = "active"
          /\ Bumped(inventory[ip]).misses = inventory[ip].misses + 1
      BY <3>1, PassiveAssumption, PassiveNoneAssumption DEF Bumped, DeviceRow
    <3>3. silent'[ip] \in 0..RetireAfter /\ inventory[ip].misses + 1 <= silent'[ip]
      BY <1>2, <2>3, <3>1, CountedUpBound DEF CountsMiss
    <3> QED BY <2>3, <3>2, <3>3 DEF CountsMiss, Retired
  <2>4. CASE LeavesAlone(k, ip)
    <3>1. silent'[ip] \in 0..RetireAfter /\ silent'[ip] >= silent[ip]
      BY <1>2, <2>4, CountedUpBound DEF LeavesAlone
    <3>2. inventory'[ip] = inventory[ip] /\ feed'[ip] = feed[ip]
      BY <2>4 DEF LeavesAlone
    <3>3. inventory[ip] # None => inventory[ip].misses \in Nat
      BY RowTyped, PassiveAssumption
    <3>4. inventory[ip] \in DeviceRow \cup {None}
      BY DEF PassiveInv, PassiveTypeOK
    <3>5. inventory[ip] # None =>
            IF inventory[ip].status = "active"
            THEN inventory[ip].misses <= silent[ip] /\ inventory[ip].misses < RetireAfter
            ELSE silent[ip] >= RetireAfter
      BY DEF PassiveInv, MissesAreSilence
    <3>6. RetireAfter >= Cardinality(Probe) /\ Retired(ip) => feed[ip] = "retired"
      BY DEF PassiveInv, RetiredIsTold
    <3>7. inventory'[ip] # None =>
            IF inventory'[ip].status = "active"
            THEN inventory'[ip].misses <= silent'[ip] /\ inventory'[ip].misses < RetireAfter
            ELSE silent'[ip] >= RetireAfter
      BY <1>2, <3>1, <3>2, <3>3, <3>5, PassiveAssumption
    <3>8. RetireAfter >= Cardinality(Probe) /\ Retired(ip)' => feed'[ip] = "retired"
      BY <3>2, <3>6 DEF Retired
    <3> QED BY <3>1, <3>2, <3>4, <3>7, <3>8
  <2> QED BY <2>1, <2>2, <2>3, <2>4, CommitRow
<1>4. ASSUME NEW ip \in Ip
      PROVE  feed'[ip] \in {None, "on", "retired"}
  <2>1. Told(k)[ip] \in {None, "on", "retired"}
    BY <1>1 DEF Told, Pass
  <2> QED BY <2>1 DEF RetireAndCommit, PassiveInv, PassiveTypeOK
<1>5. /\ inventory' = [ip \in Ip |-> inventory'[ip]]
      /\ feed' = [ip \in Ip |-> feed'[ip]] /\ silent' = [ip \in Ip |-> silent'[ip]]
  BY DEF RetireAndCommit
<1>6. /\ inventory' \in [Ip -> DeviceRow \cup {None}]
      /\ feed' \in [Ip -> {None, "on", "retired"}]
      /\ silent' \in [Ip -> 0..RetireAfter]
  BY <1>3, <1>4, <1>5
<1>7. MissesAreSilence' /\ RetiredIsTold'
  BY <1>3 DEF MissesAreSilence, RetiredIsTold
<1> QED BY <1>3, <1>6, <1>7

\* What it does to the passes that go on.
LEMMA CommitPass ==
  ASSUME PassiveInv, NEW k \in Probe, NEW j \in Probe, j # k, RetireAndCommit(k),
         pass'[j] # None
  PROVE  /\ pass[j] # None /\ pass[j] \in Pass /\ pass'[j] \in Pass
         /\ pass'[j].at = pass[j].at
         /\ pass'[j].devices = pass[j].devices /\ pass'[j].todo = pass[j].todo
         /\ pass'[j].prior = pass[j].prior /\ pass'[j].mine = pass[j].mine
         /\ pass'[j].told = pass[j].told
         /\ pass'[j].before = pass[j].before /\ pass'[j].after = pass[j].after
         /\ pass'[j].late = IF k \in pass[j].after
                            THEN pass[j].late \cup {ip \in Ip : Told(k)[ip] # None}
                            ELSE pass[j].late
<1>1. pass'[j] = IF pass[j] # None /\ k \in pass[j].after
                 THEN [pass[j] EXCEPT !.late = @ \cup {ip \in Ip : Told(k)[ip] # None}]
                 ELSE pass[j]
  BY DEF RetireAndCommit
<1>2. pass[j] # None /\ pass[j] \in Pass
  BY <1>1, PassTyped
<1> HIDE DEF Told
<1> QED BY <1>1, <1>2 DEF Pass

LEMMA RetireAndCommitInv ==
  ASSUME PassiveInv, NEW k \in Probe, RetireAndCommit(k)
  PROVE  PassiveInv'
<1>1. Merging(k) /\ pass[k].at = "bump" /\ pass'[k] = None
  BY DEF RetireAndCommit, PassAt, Merging
<1>2. pass' \in [Probe -> Pass \cup {None}]
  <2>1. pass' = [j \in Probe |-> pass'[j]]
    BY DEF RetireAndCommit
  <2>2. \A j \in Probe : pass'[j] \in Pass \cup {None}
    BY <1>1, CommitPass
  <2> QED BY <2>1, <2>2
<1>3. PassiveTypeOK'
  BY <1>2, CommitStore DEF PassiveTypeOK
<1>4. PassesProgress'
  <2>1. ASSUME NEW j \in Probe, pass'[j] # None
        PROVE  (Progress(pass[j]) /\ Wrote(pass[j]) /\ j # k)
    BY <1>1, <2>1, CommitPass DEF PassiveInv, PassesProgress
  <2>2. ASSUME NEW j \in Probe, pass'[j] # None, NEW ip \in Ip, pass[j].mine[ip] # None
        PROVE  inventory'[ip] = inventory[ip]
    <3>1. pass[j] # None /\ pass[k] # None /\ j # k
      BY <1>1, <2>1, <2>2, CommitPass DEF Merging, PassAt
    <3>2. pass[k].mine[ip] = None
      BY <2>2, <3>1 DEF PassiveInv, LocksAreHeld
    <3>3. ip \notin pass[k].devices
      BY <1>1, <3>1, <3>2 DEF PassiveInv, PassesProgress, Progress
    <3>4. ip \notin Retiring(k)
      BY <3>2 DEF Retiring
    <3> QED BY <3>2, <3>4 DEF RetireAndCommit
  <2>3. ASSUME NEW j \in Probe, pass'[j] # None
        PROVE  Wrote(pass[j])' /\ Progress(pass[j])'
    <3>1. pass'[j].mine = pass[j].mine /\ pass'[j].devices = pass[j].devices /\ j # k
      BY <1>1, <2>3, CommitPass
    <3>2. Wrote(pass[j])'
      BY <2>1, <2>2, <2>3, <3>1 DEF Wrote
    <3>3. pass[j].at = "captured" => pass'[j].late = pass[j].late
      BY <2>1, <2>3, <3>1, CommitPass DEF Progress
    <3>4. \A ip \in pass[j].todo : inventory[ip] # None => inventory'[ip] # None
      BY <2>3, <3>1, CommitPass, CommitStore DEF Pass
    <3>5. /\ pass'[j].at = pass[j].at /\ pass'[j].todo = pass[j].todo
          /\ pass'[j].prior = pass[j].prior /\ pass'[j].told = pass[j].told
          /\ pass'[j].before = pass[j].before /\ pass'[j].after = pass[j].after
          /\ pass[j].todo \subseteq Ip
      BY <2>3, <3>1, CommitPass DEF Pass
    <3>6. Progress(pass[j])'
      <4> DEFINE p == pass[j]
                 q == pass'[j]
      <4>1. Progress(p)
        BY <2>1, <2>3
      <4>2. q.at = "captured" =>
              /\ q.prior = None /\ q.todo = q.devices
              /\ q.before = {} /\ q.after = {} /\ q.late = {}
              /\ \A ip \in Ip : q.mine[ip] = None
        BY <3>1, <3>3, <3>5, <4>1 DEF Progress
      <4>3. q.at = "upsert" =>
              /\ q.todo \subseteq q.devices
              /\ q.prior # None => q.prior[1] \in q.devices
              /\ \A ip \in q.devices : \/ ip \in q.todo \/ q.mine[ip] # None
                                       \/ q.prior # None /\ q.prior[1] = ip
              /\ \A ip \in Ip : q.mine[ip] # None => ip \in q.devices
        BY <3>1, <3>5, <4>1 DEF Progress
      <4>4. q.at = "bump" =>
              /\ \A ip \in q.todo : ip \notin q.devices /\ inventory'[ip] # None
              /\ \A ip \in q.devices : q.mine[ip] # None
        BY <3>1, <3>4, <3>5, <4>1 DEF Progress
      <4>5. \A ip \in Ip : q.told[ip] # None => ip \in q.devices
        BY <3>1, <3>5, <4>1 DEF Progress
      <4> QED BY <4>2, <4>3, <4>4, <4>5 DEF Progress
    <3> QED BY <3>2, <3>6
  <2> QED BY <2>3 DEF PassesProgress
<1>5. LocksAreHeld'
  <2>1. \A j \in Probe : pass'[j] # None =>
          pass[j] # None /\ pass'[j].mine = pass[j].mine
    BY <1>1, CommitPass
  <2> QED BY <2>1 DEF PassiveInv, LocksAreHeld
<1>6. ASSUME NEW j \in Probe
      PROVE  /\ Merging(j)' <=> Merging(j) /\ j # k
             /\ Merging(j)' => Met(j)' = Met(j)
  <2>1. CASE j = k
    BY <1>1, <2>1 DEF Merging, PassAt
  <2>2. CASE j # k
    <3>1. pass'[j] = None => ~Merging(j)
      <4> DEFINE more == {ip \in Ip : Told(k)[ip] # None}
      <4>0. more \subseteq Ip
        OBVIOUS
      <4> HIDE DEF more
      <4>1. pass[j] # None => [pass[j] EXCEPT !.late = @ \cup more] \in Pass
        BY <4>0, PassTyped DEF Pass
      <4>2. pass[j] # None => pass'[j] # None
        BY <2>2, <4>1, PassIsSome DEF RetireAndCommit, more
      <4> QED BY <4>2 DEF Merging, PassAt
    <3> QED BY <2>2, <3>1, CommitPass DEF Merging, PassAt, Met
  <2> QED BY <2>1, <2>2
<1>7. MergesMeet'
  BY <1>6 DEF PassiveInv, MergesMeet
<1>8. LateIsRecent'
  <2> SUFFICES ASSUME NEW j \in Probe, NEW ip \in Ip, Merging(j)', ip \in pass'[j].late
               PROVE  /\ inventory'[ip] # None
                      /\ inventory'[ip].status = "active"
                         => inventory'[ip].misses < Cardinality(Over(j)')
                      /\ pass'[j].mine[ip] # None
                         => pass'[j].mine[ip].misses <= Cardinality(Over(j)')
    BY DEF LateIsRecent
  <2>1. Merging(j) /\ j # k /\ pass'[j] # None /\ pass[j] # None
    BY <1>6 DEF Merging, PassAt
  <2>2. k \in Met(j) /\ Met(j)' = Met(j) /\ Met(j) \subseteq Probe
    BY <1>1, <1>6, <2>1, CommitPass DEF PassiveInv, MergesMeet, Met, Pass
  <2>3. Over(j)' = Over(j) \cup {k} /\ k \notin Over(j)
    BY <1>1, <1>6, <2>2 DEF Over
  <2>4. /\ Cardinality(Over(j)) \in Nat
        /\ Cardinality(Over(j)') = Cardinality(Over(j)) + 1
    <3>1. IsFiniteSet(Over(j)) /\ Cardinality(Over(j)) \in Nat
      BY <2>1, OverIsSmall
    <3>2. Cardinality(Over(j) \cup {k}) = Cardinality(Over(j)) + 1
      BY <2>3, <3>1, FS_AddElement
    <3>3. Cardinality(Over(j)') = Cardinality(Over(j) \cup {k})
      BY <2>3
    <3> QED BY <3>1, <3>2, <3>3
  <2>5. ip \in pass[j].late \/ Told(k)[ip] # None
    <3> DEFINE some == {i \in Ip : Told(k)[i] # None}
    <3>1. pass'[j].late = IF k \in pass[j].after THEN pass[j].late \cup some
                          ELSE pass[j].late
      BY <2>1, CommitPass
    <3>2. ip \in pass[j].late \cup some
      BY <3>1
    <3> QED BY <3>2
  <2>6. ip \in pass[j].late =>
          /\ inventory[ip] # None
          /\ inventory[ip].status = "active" => inventory[ip].misses < Cardinality(Over(j))
          /\ pass[j].mine[ip] # None => pass[j].mine[ip].misses <= Cardinality(Over(j))
    BY <2>1 DEF PassiveInv, LateIsRecent
  <2>7. pass'[j].mine = pass[j].mine
    BY <2>1, CommitPass
  <2>8. inventory[ip] # None => inventory[ip].misses \in Nat
    BY RowTyped, PassiveAssumption
  <2>9. inventory'[ip] # None /\ (inventory'[ip].status = "active"
          => inventory'[ip].misses < Cardinality(Over(j)'))
    <3>1. CASE Reset(k, ip)
      <4>1. /\ Upserted(None) \in DeviceRow /\ Upserted(None).misses = 0
            /\ Upserted(None) # None
        BY PassiveAssumption, PassiveNoneAssumption DEF Upserted, DeviceRow
      <4> QED BY <2>4, <3>1, <4>1 DEF Reset
    <3>2. CASE Retires(k, ip)
      <4>1. inventory[ip] # None /\ inventory'[ip].status = "retired"
        BY <3>2 DEF Retires
      <4> QED BY <4>1, CommitStore
    <3>3. CASE CountsMiss(k, ip)
      <4>1. /\ inventory[ip].status = "active" /\ inventory[ip] # None
            /\ inventory'[ip] = Bumped(inventory[ip]) /\ Told(k)[ip] = None
        BY <3>3 DEF CountsMiss
      <4>2. inventory[ip].misses < Cardinality(Over(j))
        BY <2>5, <2>6, <4>1
      <4>3. inventory'[ip].misses = inventory[ip].misses + 1
        BY <4>1 DEF Bumped
      <4> QED BY <2>4, <2>8, <4>1, <4>2, <4>3, CommitStore
    <3>4. CASE LeavesAlone(k, ip)
      BY <2>4, <2>5, <2>6, <2>8, <3>4 DEF LeavesAlone
    <3> QED BY <3>1, <3>2, <3>3, <3>4, CommitRow
  <2>10. pass[j].mine[ip] # None => pass[j].mine[ip].misses <= Cardinality(Over(j)) + 1
    <3>1. CASE pass[j].mine[ip] # None
      <4>1. pass[k].mine[ip] = None
        BY <1>1, <2>1, <3>1 DEF PassiveInv, LocksAreHeld, Merging, PassAt
      <4>2. ip \notin pass[k].devices
        BY <1>1, <4>1 DEF PassiveInv, PassesProgress, Progress, Merging, PassAt
      <4>3. Told(k)[ip] = None
        BY <1>1, <4>1, <4>2
        DEF Told, Retiring, PassiveInv, PassesProgress, Progress, Merging, PassAt
      <4>4. pass[j].mine[ip].misses \in Nat
        BY <2>1, <3>1, PassTyped, PassiveAssumption DEF Pass, DeviceRow
      <4> QED BY <2>4, <2>5, <2>6, <3>1, <4>3, <4>4
    <3> QED BY <3>1
  <2> QED BY <2>4, <2>7, <2>9, <2>10
<1> QED
  BY <1>3, <1>4, <1>5, <1>7, <1>8, CommitStore DEF PassiveInv

-----------------------------------------------------------------------------
(* Theorems, of the component alone: ServicesProofs states them of the whole. *)

LEMMA PassiveStepInv ==
  PassiveInv /\ [PassiveNext]_passiveVars => PassiveInv'
<1> SUFFICES ASSUME PassiveInv, [PassiveNext]_passiveVars
             PROVE  PassiveInv'
  OBVIOUS
<1>1. CASE UNCHANGED passiveVars
  BY <1>1
  DEF passiveVars, PassiveInv, PassiveTypeOK, PassesProgress, Progress, Wrote,
      LocksAreHeld, MissesAreSilence, MergesMeet, LateIsRecent, RetiredIsTold, Retired,
      Over, Met, Merging, PassAt
<1> QED
  BY <1>1, CapturePassiveSNMPInv, BeginMergeInv, ReadPriorInv, UpsertInv, BeginBumpInv,
     BumpInv, RetireAndCommitInv, RollbackInv
  DEF PassiveNext, MergeStep

LEMMA PassiveInvRetirement == PassiveInv => RetirementIsTrue
BY DEF PassiveInv, MissesAreSilence, RetiredIsTold, RetirementIsTrue, Retired

PassiveAlone == PassiveInit /\ [][PassiveNext]_passiveVars

\* Types; rows locked by one merge at a time; a miss_count no greater than the silence.
THEOREM PassiveIsInvariant == PassiveAlone => []PassiveInv
<1>1. PassiveInit => PassiveInv
  BY PassiveInitInv
<1>2. PassiveInv /\ [PassiveNext]_passiveVars => PassiveInv'
  BY PassiveStepInv
<1> QED BY <1>1, <1>2, PTL DEF PassiveAlone

\* A retired device has been missed by as many batches as retire it, and the feed says
\* so last, however the merges of the collectors overlap (handlers_passive_snmp.go:90).
THEOREM RetirementStaysTrue == PassiveAlone => []RetirementIsTrue
<1>1. PassiveInv => RetirementIsTrue
  BY PassiveInvRetirement
<1> QED BY <1>1, PassiveIsInvariant, PTL
=============================================================================
