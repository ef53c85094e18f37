------------------------------- MODULE Receivers ------------------------------
(***************************************************************************)
(* The two UDP listeners: SNMP traps, each of which opens an alarm unless  *)
(* one is open for the same source and object (internal/poller/traps.go),  *)
(* and NetFlow records, stored in batches (internal/flows).  Each is one   *)
(* loop, that reads its socket and calls the database in turn; what        *)
(* arrives meanwhile waits in the socket.                                  *)
(***************************************************************************)
EXTENDS Shared, Naturals, FiniteSets

CONSTANTS
  Source,    \* dedup keys of traps: a sender and an object
  FlowRecord,\* records, each seen once
  FlushSize  \* 500: so many pending records are not kept waiting

VARIABLES
  known,    \* there is a site: the appliance's, or the oldest
  trapped,  \* traps in the socket
  handling, \* the trap the loop is at, and whether the site it found is there; or None
  trapAlarm,\* alarms by dedup key: "open", "cleared" (once or more) or None
  flow      \* what has become of each record

receiverVars == <<known, trapped, handling, trapAlarm, flow>>

-----------------------------------------------------------------------------
Fate == {"unseen", "pending", "batch", "stored", "lost"}

ReceiversTypeOK ==
  /\ known \in BOOLEAN /\ trapped \in SUBSET Source
  /\ handling \in [source : Source, site : BOOLEAN] \cup {None}
  /\ trapAlarm \in [Source -> {"open", "cleared", None}]
  /\ flow \in [FlowRecord -> Fate]

-----------------------------------------------------------------------------
(* Traps. *)

\* A site that is deleted takes its alarms with it.
SiteComesOrGoes ==
  /\ known' = ~known
  /\ IF known THEN /\ trapAlarm' = [s \in Source |-> None]
                   /\ handling' = IF handling = None THEN None ELSE [handling EXCEPT !.site = FALSE]
     ELSE UNCHANGED <<trapAlarm, handling>>
  /\ UNCHANGED <<trapped, flow>>

TrapArrives(s) ==
  /\ trapped' = trapped \cup {s}
  /\ UNCHANGED <<known, handling, trapAlarm, flow>>

\* resolveTarget: the errors of its two queries are passed over.
ReceiveTrap(s) ==
  /\ handling = None /\ s \in trapped /\ trapped' = trapped \ {s}
  /\ \E site \in {known} \cup (IF Fault THEN {FALSE} ELSE {}) :
       handling' = [source |-> s, site |-> site]
  /\ UNCHANGED <<known, trapAlarm, flow>>

\* A dedup key that is taken for good.
Raises_Once(s) == trapAlarm[s] = None

Raises(s) == trapAlarm[s] # "open"

\* The INSERT, that the foreign key refuses without the site.  A failure of whatever kind
\* is one line of the debug log.  No rule goes with the alarm, and nobody but an operator
\* clears it.
InsertTrap ==
  /\ handling # None /\ handling' = None
  /\ LET s == handling.source IN
     \/ /\ handling.site /\ Raises(s)
        /\ trapAlarm' = [trapAlarm EXCEPT ![s] = "open"]
     \/ /\ ~handling.site \/ ~Raises(s) \/ Fault
        /\ UNCHANGED trapAlarm
  /\ UNCHANGED <<known, trapped, flow>>

ClearTrapAlarm(s) ==
  /\ trapAlarm[s] = "open" /\ trapAlarm' = [trapAlarm EXCEPT ![s] = "cleared"]
  /\ UNCHANGED <<known, trapped, handling, flow>>

-----------------------------------------------------------------------------
(* Flows. *)

With(fate) == {f \in FlowRecord : flow[f] = fate}
Become(records, fate) ==
  flow' = [f \in FlowRecord |-> IF f \in records THEN fate ELSE flow[f]]

\* A datagram of version 5 with its records; an IPFIX message is read as none.
ReceiveFlows ==
  /\ With("batch") = {} /\ Cardinality(With("pending")) < FlushSize
  /\ \E records \in SUBSET With("unseen") \ {{}} : Become(records, "pending")
  /\ UNCHANGED <<known, trapped, handling, trapAlarm>>

\* Every 5 s, or once there are enough: the pending records are taken out before any of
\* them is stored.
Flush ==
  /\ With("pending") # {} /\ With("batch") = {}
  /\ Become(With("pending"), "batch")
  /\ UNCHANGED <<known, trapped, handling, trapAlarm>>

\* One INSERT after the other within 15 s; the first that fails is the end of the batch.
InsertFlow ==
  /\ With("batch") # {}
  /\ \/ \E f \in With("batch") : Become({f}, "stored")
     \/ Fault /\ Become(With("batch"), "lost")
  /\ UNCHANGED <<known, trapped, handling, trapAlarm>>

\* The last flush goes by a context that is cancelled already.
ReceiversRestart ==
  /\ Fault
  /\ Become(With("pending") \cup With("batch"), "lost")
  /\ \E s \in SUBSET trapped : trapped' = s
  /\ handling' = None
  /\ UNCHANGED <<known, trapAlarm>>

-----------------------------------------------------------------------------
ReceiversInit ==
  /\ known = FALSE /\ trapped = {} /\ handling = None
  /\ trapAlarm = [s \in Source |-> None]
  /\ flow = [f \in FlowRecord |-> "unseen"]

FlowStep == Flush \/ InsertFlow

ReceiversNext ==
  \/ SiteComesOrGoes \/ ReceiversRestart \/ ReceiveFlows \/ FlowStep \/ InsertTrap
  \/ \E s \in Source : TrapArrives(s) \/ ReceiveTrap(s) \/ ClearTrapAlarm(s)

\* The loops go on; a socket hands out its datagrams in turn, so none waits for ever.
ReceiversFairness ==
  /\ WF_receiverVars(focus = "receivers" /\ FlowStep)
  /\ WF_receiverVars(focus = "receivers" /\ InsertTrap)
  /\ \A s \in Source : SF_receiverVars(focus = "receivers" /\ ReceiveTrap(s))

-----------------------------------------------------------------------------
(* Properties. *)

\* While traps keep coming and there is a site, the alarm is open again and again, also
\* after an operator cleared it and whatever became of the traps before (traps.go:84); and
\* no record stays with the listener, in a batch or out of it (listener.go:124).
ReceivedIsKept ==
  /\ \A s \in Source :
       <>[](focus = "receivers" /\ known) /\ []<>(s \in trapped)
       => []<>(trapAlarm[s] = "open")
  /\ <>[](With("pending") \cup With("batch") = {} \/ focus # "receivers")
=============================================================================
