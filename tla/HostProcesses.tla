---------------------------- MODULE HostProcesses ----------------------------
(***************************************************************************)
(* The processes of a snapshot and those that have stopped                 *)
(* (internal/probe/snapshot.go, dex.go): a process list, the difference to *)
(* the list before, a ring of the newest stops.                            *)
(*                                                                         *)
(* Time is counted in fractions of a second.  procDelta's map has the keys *)
(* of priorProcs, the ring of busy disks is another ring like this one:    *)
(* both are left out, and so are the figures of a row.                     *)
(***************************************************************************)
EXTENDS ProbeLoops, Naturals, Sequences, SequencesExt

CONSTANTS
  Pid,
  MaxClock,  \* bound on time
  Second,    \* a second, in fractions
  StopRing   \* capacity of the ring, 200 in the code

ASSUME ProcessAssumption == MaxClock \in Nat /\ {Second, StopRing} \subseteq Nat \ {0}

VARIABLES
  clock,      \* the time
  alive,      \* the processes of the host
  sampling,   \* the snapshot of each loop: the processes listed, whether noted
  priorProcs, \* rows of the last list noted
  stopped,    \* the ring
  shownStops, \* StoppedProcesses of the snapshot received last
  owedStops   \* history: processes that have ended and are to be shown

processVars == <<clock, alive, sampling, priorProcs, stopped, shownStops, owedStops>>

-----------------------------------------------------------------------------
\* A pid is used again; a pid and the instant of its creation are one process.
Process == [pid : Pid, created : 0..MaxClock]
Sampling == [rows : SUBSET Process, noted : BOOLEAN]

\* An entry of the ring.  ended: history, the list did not hold the process.
Stop == [of : Process, ended : BOOLEAN]

ProcessesTypeOK ==
  /\ clock \in 0..MaxClock /\ alive \subseteq Process
  /\ online \in Loop \cup {None}
  /\ sampling \in [Loop -> Sampling \cup {None}]
  /\ priorProcs \subseteq Process
  /\ stopped \in Seq(Stop) /\ Len(stopped) <= StopRing
  /\ shownStops \subseteq Stop

-----------------------------------------------------------------------------
(* The host and the connection. *)

TimePasses ==
  /\ clock < MaxClock /\ clock' = clock + 1
  /\ UNCHANGED <<online, alive, sampling, priorProcs, stopped, shownStops, owedStops>>

\* Not at the instant another process of this pid was created.
ProcessStarts(pid) ==
  /\ clock < MaxClock /\ clock' = clock + 1
  /\ \A p \in alive : p.pid # pid
  /\ alive' = alive \cup {[pid |-> pid, created |-> clock]}
  /\ UNCHANGED <<online, sampling, priorProcs, stopped, shownStops, owedStops>>

\* One that was noted has to be shown as stopped, unless an ended connection has still a
\* list to note: older rows would take the place of these, and the exit would not be seen.
ProcessExits(p) ==
  /\ alive' = alive \ {p}
  /\ owedStops' =
       IF calm /\ p \in priorProcs /\ \A l \in Loop \ {online} : sampling[l] = None
       THEN owedStops \cup {p} ELSE owedStops
  /\ UNCHANGED <<online, clock, sampling, priorProcs, stopped, shownStops>>

ProcessLoopsStart ==
  /\ LoopsStart({l \in Loop : sampling[l] = None})
  /\ UNCHANGED processVars

ProcessLoopsCancelled == LoopsCancelled /\ UNCHANGED processVars

\* The probe is stopped, or dies.
ProbeRestarts ==
  /\ Fault
  /\ online' = None
  /\ sampling' = [l \in Loop |-> None]
  /\ priorProcs' = {} /\ stopped' = <<>>
  /\ UNCHANGED <<clock, alive, shownStops, owedStops>>

-----------------------------------------------------------------------------
(* snapshotLoop, CollectSnapshot, collectProcesses and noteProcesses. *)

\* Without a list the snapshot goes on without processes.
ListProcesses(l) ==
  /\ online = l /\ sampling[l] = None
  /\ \/ sampling' = [sampling EXCEPT ![l] = [rows |-> alive, noted |-> FALSE]]
     \/ Fault /\ sampling' = [sampling EXCEPT ![l] = [rows |-> {}, noted |-> TRUE]]
  /\ UNCHANGED <<online, clock, alive, priorProcs, stopped, shownStops, owedStops>>

\* The key of collectProcesses: the instant of creation.
KeyOf(p) == [pid |-> p.pid, started |-> p.created]

\* The key noteProcesses makes of StartedAt, which is formatted to the second.
KeyFromRow(p) == [pid |-> p.pid, started |-> p.created - (p.created % Second)]

StopOf(p, rows) == [of |-> p, ended |-> p \notin rows]

Stops_ByPid(rows) == {StopOf(p, rows) : p \in {q \in priorProcs : \A r \in rows : r.pid # q.pid}}

Stops(rows) ==
  {StopOf(p, rows) : p \in {q \in priorProcs : KeyFromRow(q) \notin {KeyOf(r) : r \in rows}}}

\* The newest StopRing of them, which are the last ones.
Newest(stops) ==
  SubSeq(stops, IF Len(stops) > StopRing THEN Len(stops) - StopRing + 1 ELSE 1, Len(stops))

\* The stops of one list are in no order.  Nothing is due of an exit that a full ring has
\* forgotten.
NoteProcesses(l) ==
  /\ sampling[l] # None /\ ~sampling[l].noted
  /\ \E stops \in SetToSeqs(Stops(sampling[l].rows)) :
       LET all == stopped \o stops IN
       /\ stopped' = Newest(all)
       /\ owedStops' = owedStops \ {s.of : s \in {t \in Range(all) \ Range(stopped') : t.ended}}
  /\ priorProcs' = sampling[l].rows
  /\ sampling' = [sampling EXCEPT ![l].noted = TRUE]
  /\ UNCHANGED <<online, clock, alive, shownStops>>

\* A snapshot of a connection that has ended goes nowhere.
ShowProcesses(l) ==
  /\ sampling[l] # None /\ sampling[l].noted
  /\ sampling' = [sampling EXCEPT ![l] = None]
  /\ shownStops' = IF online = l THEN Range(stopped) ELSE shownStops
  /\ owedStops' = owedStops \ {s.of : s \in {t \in shownStops' : t.ended}}
  /\ UNCHANGED <<online, clock, alive, priorProcs, stopped>>

-----------------------------------------------------------------------------
ProcessesInit ==
  /\ online = None
  /\ clock = 0 /\ alive = {}
  /\ sampling = [l \in Loop |-> None]
  /\ priorProcs = {} /\ stopped = <<>> /\ shownStops = {} /\ owedStops = {}

SnapshotStep(l) == ListProcesses(l) \/ NoteProcesses(l) \/ ShowProcesses(l)

ProcessesNext ==
  \/ TimePasses
  \/ \E pid \in Pid : ProcessStarts(pid)
  \/ \E p \in alive : ProcessExits(p)
  \/ ProcessLoopsStart \/ ProcessLoopsCancelled \/ ProbeRestarts
  \/ \E l \in Loop : SnapshotStep(l)

\* The probe connects again and its ticker goes on; processes owe nothing.
ProcessesFairness ==
  /\ WF_<<online, processVars>>(focus = "processes" /\ ProcessLoopsStart)
  /\ \A l \in Loop : WF_<<online, processVars>>(focus = "processes" /\ SnapshotStep(l))

-----------------------------------------------------------------------------
(* Properties. *)

\* A process that was noted and has ended is shown as stopped in the end, though its pid
\* may run again by the next list, unless the ring forgets it before a snapshot arrives
\* (dex.go:276).
ExitIsShown == <>[](owedStops = {})
=============================================================================
