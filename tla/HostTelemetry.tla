---------------------------- MODULE HostTelemetry ----------------------------
(***************************************************************************)
(* The slow telemetry of a Windows host (internal/probe/extras.go, dex.go, *)
(* hardware.go): a loop that fills caches, and the snapshot that copies    *)
(* them.                                                                   *)
(*                                                                         *)
(* Of what a collector finds only whether it is there: "full", or "empty"  *)
(* when its child process failed, ran out of time or was cancelled.  The   *)
(* inventory's child process gives a search for updates 25 of its 60 s and *)
(* goes on without: what it then finds is "unsearched".  Of the health     *)
(* signals, that no other part reads, only the time they take is kept, and *)
(* of the warnings those of the inventory.                                 *)
(***************************************************************************)
EXTENDS ProbeLoops

VARIABLES
  searchHangs,   \* the host's search for updates takes more than those 25 s
  ticking,       \* the tick of each connection's health loop
  slowWarnings,  \* extras.slowWarnings holds one of the inventory
  inventoryHeld, \* dex.inventory
  hardware,      \* hwCache, ...
  hardwareOld,   \* ... and its six hours are over, or it is not there
  screen         \* the snapshot received last

caches == <<slowWarnings, inventoryHeld, hardware, hardwareOld>>
telemetryVars == <<searchHangs, ticking, caches, screen>>

-----------------------------------------------------------------------------
\* "empty" before the first of its kind, too.
Content == {"empty", "full"}
Inventory == {"empty", "unsearched", "full"}

\* health: what CollectHealthSignals found.  warn: the inventory came with a warning.
Tick == [at : {"inventory", "warnings"}, health : Content, warn : BOOLEAN]
Screen == [inventory : Inventory, hardware : Content, warn : BOOLEAN]

TelemetryTypeOK ==
  /\ online \in Loop \cup {None}
  /\ searchHangs \in BOOLEAN
  /\ ticking \in [Loop -> Tick \cup {None}]
  /\ hardware \in Content /\ inventoryHeld \in Inventory
  /\ {hardwareOld, slowWarnings} \subseteq BOOLEAN
  /\ screen \in Screen

-----------------------------------------------------------------------------
TelemetryLoopsStart ==
  /\ LoopsStart({l \in Loop : ticking[l] = None})
  /\ UNCHANGED telemetryVars

TelemetryLoopsCancelled == LoopsCancelled /\ UNCHANGED telemetryVars

SearchChanges ==
  /\ searchHangs' = ~searchHangs
  /\ UNCHANGED <<online, ticking, caches, screen>>

\* The probe is stopped, or dies.
HostRestarts ==
  /\ Fault
  /\ online' = None
  /\ ticking' = [l \in Loop |-> None]
  /\ slowWarnings' = FALSE /\ inventoryHeld' = "empty"
  /\ hardware' = "empty" /\ hardwareOld' = TRUE
  /\ UNCHANGED <<searchHangs, screen>>

\* What a child process of these loops may come back with, if all it finds is this.
Found(l, all) ==
  IF online # l THEN {"empty"} ELSE IF Fault THEN {"empty", all} ELSE {all}

-----------------------------------------------------------------------------
(* runHealthLoop: a tick at once, then one every five minutes. *)

\* CollectHealthSignals always comes back, with nothing on a host that never answers; then
\* the trace of the route adds a figure or nothing.
CollectHealth(l) ==
  /\ ticking[l] = None /\ online = l
  /\ \E found \in Content :
       ticking' = [ticking EXCEPT ![l] = [at |-> "inventory", health |-> found, warn |-> FALSE]]
  /\ UNCHANGED <<online, searchHangs, caches, screen>>

Searched == IF searchHangs THEN "unsearched" ELSE "full"

\* One budget for the tick.
Inventories_Shared(l) == IF ticking[l].health = "empty" THEN {"empty"} ELSE Found(l, Searched)

\* The inventory has a budget of its own.
Inventories(l) == Found(l, Searched)

\* An empty inventory takes the place of a full one.  It comes with a warning, and so does
\* one without the search.
CollectInventory(l) ==
  /\ ticking[l] # None /\ ticking[l].at = "inventory"
  /\ inventoryHeld' \in Inventories(l)
  /\ ticking' = [ticking EXCEPT ![l].at = "warnings", ![l].warn = inventoryHeld' # "full"]
  /\ UNCHANGED <<online, searchHangs, slowWarnings, hardware, hardwareOld, screen>>

\* The warnings of the last tick go.
SetSlowWarnings(l) ==
  /\ ticking[l] # None /\ ticking[l].at = "warnings"
  /\ slowWarnings' = ticking[l].warn
  /\ ticking' = [ticking EXCEPT ![l] = None]
  /\ UNCHANGED <<online, searchHangs, inventoryHeld, hardware, hardwareOld, screen>>

-----------------------------------------------------------------------------
(* CollectSnapshot. *)

HardwareAges ==
  /\ ~hardwareOld /\ hardwareOld' = TRUE
  /\ UNCHANGED <<online, searchHangs, ticking, slowWarnings, inventoryHeld, hardware, screen>>

\* collectHardware, on Windows by a child process.  One that is cut off or answers with
\* nothing leaves an inventory with no rows, which is one all the same.
FoundHardware(l) == Found(l, "full")

\* Hardware found empty is kept as long as any other.  The send fails if the connection
\* ends meanwhile, and then the child process was cancelled too.
CollectSnapshot(l) ==
  /\ online = l
  /\ IF hardwareOld THEN hardware' \in FoundHardware(l) /\ hardwareOld' = FALSE
     ELSE UNCHANGED <<hardware, hardwareOld>>
  /\ \/ screen' = [inventory |-> inventoryHeld, hardware |-> hardware', warn |-> slowWarnings]
     \/ Fault /\ UNCHANGED screen
  /\ UNCHANGED <<online, searchHangs, ticking, slowWarnings, inventoryHeld>>

-----------------------------------------------------------------------------
TelemetryInit ==
  /\ online = None /\ searchHangs = FALSE
  /\ ticking = [l \in Loop |-> None]
  /\ slowWarnings = FALSE /\ inventoryHeld = "empty"
  /\ hardware = "empty" /\ hardwareOld = TRUE
  /\ screen = [inventory |-> "empty", hardware |-> "empty", warn |-> FALSE]

HealthLoop(l) == CollectHealth(l) \/ CollectInventory(l) \/ SetSlowWarnings(l)

TelemetryNext ==
  \/ TelemetryLoopsStart \/ TelemetryLoopsCancelled \/ HostRestarts
  \/ SearchChanges \/ HardwareAges
  \/ \E l \in Loop : HealthLoop(l) \/ CollectSnapshot(l)

\* The connection comes back, the tickers go on, and hours pass.
TelemetryFairness ==
  /\ WF_<<online, telemetryVars>>(focus = "telemetry" /\ TelemetryLoopsStart)
  /\ WF_<<online, telemetryVars>>(focus = "telemetry" /\ HardwareAges)
  /\ \A l \in Loop :
       /\ WF_<<online, telemetryVars>>(focus = "telemetry" /\ HealthLoop(l))
       /\ WF_<<online, telemetryVars>>(focus = "telemetry" /\ CollectSnapshot(l))

-----------------------------------------------------------------------------
(* Properties. *)

\* A host whose health never answers shows its inventory and hardware in the end,
\* whatever cancelled ticks left in the caches: "a hung Windows Update COM search
\* [...] cannot starve installed-apps / event-log inventory" (extras.go:184).  While the
\* search hangs the snapshot says so, and no longer once it does not.
InventoryArrives ==
  /\ <>[](focus = "telemetry" => screen.inventory # "empty" /\ screen.hardware = "full")
  /\ \A hangs \in BOOLEAN :
       <>[](focus = "telemetry" /\ searchHangs = hangs) =>
       <>[](/\ screen.inventory = (IF hangs THEN "unsearched" ELSE "full")
            /\ screen.warn = hangs)
=============================================================================
