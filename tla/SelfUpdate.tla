------------------------------ MODULE SelfUpdate -------------------------------
(***************************************************************************)
(* A probe that replaces its own binary: the manifest and the download of  *)
(* sonar-api (internal/api/handlers_probe.go), the check and the download  *)
(* (internal/probe/update.go), the exchange of the files (update_unix.go,  *)
(* update_windows.go), the supervisor and the watchdog that bring the      *)
(* probe back.  An operator who installs by hand is left out.              *)
(*                                                                         *)
(* A build is a number, its version; a file holds a build, or is torn: not *)
(* the bytes of any build.  A signature over a build's hash verifies, no   *)
(* other does.  A fault may strike every step, a crash fall between two.   *)
(***************************************************************************)
EXTENDS Shared, Naturals

CONSTANTS
  MaxVersion,  \* versions the API comes to offer; a bound
  Torn         \* what a truncated download or an interrupted write leaves

ASSUME SelfUpdateAssumption ==
  /\ MaxVersion \in Nat \ {0}
  /\ Torn \notin 1..MaxVersion
  /\ None \notin 1..MaxVersion \cup {Torn} /\ None \notin {"waiting", "restarting"}

VARIABLES
  platform,  \* "unix" (systemd, Restart=always) or "windows" (SCM, watchdog)
  published, \* the version the API is built with; embedded in it are the probes
  exe,       \* the file at the probe's path; None: there is none
  bak,       \* exe.bak
  staging,   \* exe.new
  probe,     \* the process: the version it runs, where checkAndMaybeUpdate is
  helper,    \* the script that outlives the process and moves the staging file
  stranded   \* a fault fell between the two renames, or the second undo failed

updateVars == <<platform, published, exe, bak, staging, probe, helper, stranded>>

Version == 1..MaxVersion
File == Version \cup {Torn, None}

\* runs: the version that runs, or ran last.  want: the manifest's, whose hash and signature have been verified.
ProbeProcess == [up : BOOLEAN, runs : Version,
                 pc : {"idle", "manifest", "fetched", "staged", "aside"},
                 want : Version \cup {None}]

UpdateTypeOK ==
  /\ platform \in {"unix", "windows"}
  /\ published \in Version
  /\ exe \in File /\ bak \in File /\ staging \in File
  /\ probe \in ProbeProcess
  /\ helper \in {None, "waiting", "restarting"}
  /\ stranded \in BOOLEAN

-----------------------------------------------------------------------------
(* The API. *)

\* A deployment, also of an older image: manifests are made once per process, of the
\* probes in its image.
Deploy ==
  /\ published' \in Version \ {published}
  /\ UNCHANGED <<platform, exe, bak, staging, probe, helper, stranded>>

-----------------------------------------------------------------------------
(* The check and the download. *)

In(pc) == probe.up /\ probe.pc = pc

\* The attempt ends; the error is logged at debug level, the next one is six hours on.
GiveUp == probe' = [probe EXCEPT !.pc = "idle", !.want = None]

Exit == probe' = [probe EXCEPT !.up = FALSE, !.pc = "idle", !.want = None]

Start == probe' = IF exe \in Version
                  THEN [up |-> TRUE, runs |-> exe, pc |-> "idle", want |-> None]
                  ELSE [probe EXCEPT !.up = FALSE]

\* probesign.CompareCalVer.
Newer(local, remote) == remote > local

\* Two minutes after the connection was made and every six hours after.  The helper
\* of an earlier update is done by then: it waits 120 s at most for a process that
\* has exited.
CheckForUpdate ==
  /\ In("idle") /\ helper = None
  /\ Newer(probe.runs, published)
  /\ probe' = [probe EXCEPT !.pc = "manifest", !.want = published]
  /\ UNCHANGED <<platform, published, exe, bak, staging, helper, stranded>>

\* A mismatch that leaves the attempt where it was.
Download_Keeps ==
  /\ In("manifest")
  /\ \E got \in {published, Torn} :
       IF got = probe.want THEN probe' = [probe EXCEPT !.pc = "fetched"] ELSE UNCHANGED probe
  /\ UNCHANGED <<platform, published, exe, bak, staging, helper, stranded>>

\* The API may have been deployed anew since the manifest, the body may be cut off.
Download ==
  /\ In("manifest")
  /\ \E got \in {published} \cup IF Fault THEN {Torn} ELSE {} :
       IF got = probe.want THEN probe' = [probe EXCEPT !.pc = "fetched"] ELSE GiveUp
  /\ UNCHANGED <<platform, published, exe, bak, staging, helper, stranded>>

Fetched == IF probe.want = None THEN Torn ELSE probe.want

\* os.WriteFile truncates first.  Without a file at the probe's path, EvalSymlinks
\* has failed before.
WriteStaging ==
  /\ In("fetched")
  /\ \/ /\ exe # None
        /\ staging' = Fetched
        /\ probe' = [probe EXCEPT !.pc = "staged"]
     \/ /\ exe = None \/ Fault
        /\ staging' \in IF exe = None THEN {staging} ELSE {staging, Torn}
        /\ GiveUp
  /\ UNCHANGED <<platform, published, exe, bak, helper, stranded>>

-----------------------------------------------------------------------------
(* The exchange of the files. *)

\* applyUpdate on Unix: the running binary is moved aside ...
MoveAside ==
  /\ In("staged") /\ platform = "unix" /\ exe # None
  /\ bak' = exe /\ exe' = None
  /\ probe' = [probe EXCEPT !.pc = "aside"]
  /\ UNCHANGED <<platform, published, staging, helper, stranded>>

\* ... and the new one into its place; the process exits.
MoveIntoPlace ==
  /\ In("aside")
  /\ exe' = staging /\ staging' = None
  /\ Exit
  /\ UNCHANGED <<platform, published, bak, helper, stranded>>

\* A failure that leaves the old binary aside.
MoveIntoPlaceFails_NoUndo ==
  /\ Fault /\ In("aside")
  /\ staging' = None
  /\ GiveUp
  /\ UNCHANGED <<platform, published, exe, bak, helper, stranded>>

\* The second rename fails: the first one is undone, as far as that succeeds.
MoveIntoPlaceFails ==
  /\ Fault /\ In("aside")
  /\ \/ exe' = bak /\ bak' = None /\ UNCHANGED stranded
     \/ stranded' = TRUE /\ UNCHANGED <<exe, bak>>
  /\ staging' = None
  /\ GiveUp
  /\ UNCHANGED <<platform, published, helper>>

\* Windows, and Unix when the file system refuses the first rename (bak is gone by
\* then): a detached script is started, the process exits.
SpawnUpdater ==
  /\ In("staged") /\ helper = None
  /\ bak' = IF platform = "unix" THEN None ELSE bak
  /\ helper' = "waiting"
  /\ Exit
  /\ UNCHANGED <<platform, published, exe, staging, stranded>>

SpawnUpdaterFails ==
  /\ Fault /\ In("staged")
  /\ bak' = IF platform = "unix" THEN None ELSE bak
  /\ staging' = None
  /\ GiveUp
  /\ UNCHANGED <<platform, published, exe, helper, stranded>>

\* The script stops the service (windows: the watchdog may have started it again)
\* and moves the staging file; a missing one is taken for moved.
HelperMoves ==
  /\ helper = "waiting"
  /\ platform = "windows" => ~probe.up
  /\ IF staging = None THEN UNCHANGED <<exe, staging>>
     ELSE exe' = staging /\ staging' = None
  /\ helper' = "restarting"
  /\ UNCHANGED <<platform, published, bak, probe, stranded>>

HelperStopsService ==
  /\ helper = "waiting" /\ platform = "windows" /\ probe.up
  /\ Exit
  /\ UNCHANGED <<platform, published, exe, bak, staging, helper, stranded>>

\* 40 attempts to move the file have failed (windows); mv failed (unix, set -e).
HelperGivesUp ==
  /\ Fault /\ helper = "waiting"
  /\ helper' = IF platform = "windows" THEN "restarting" ELSE None
  /\ UNCHANGED <<platform, published, exe, bak, staging, probe, stranded>>

\* systemctl restart; Start-Service, which does nothing to a running service.
HelperRestarts ==
  /\ helper = "restarting"
  /\ IF platform = "windows" /\ probe.up THEN UNCHANGED probe ELSE Start
  /\ helper' = None
  /\ UNCHANGED <<platform, published, exe, bak, staging, stranded>>

\* The helper goes with the service's control group or job, or at a power failure.
HelperKilled ==
  /\ Fault /\ helper # None
  /\ helper' = None
  /\ UNCHANGED <<platform, published, exe, bak, staging, probe, stranded>>

-----------------------------------------------------------------------------
(* The supervisor. *)

\* systemd restarts the probe after 5 s, when the script, which looks for the old
\* process every second, has moved the file; the watchdog task at any time.
Supervise ==
  /\ ~probe.up /\ exe \in Version
  /\ platform = "unix" => helper # "waiting"
  /\ Start
  /\ UNCHANGED <<platform, published, exe, bak, staging, helper, stranded>>

\* A crash; one in the middle of a write leaves a torn staging file.
Crash ==
  /\ Fault /\ probe.up
  /\ staging' \in {staging} \cup IF probe.pc = "fetched" THEN {Torn} ELSE {}
  /\ stranded' = (stranded \/ probe.pc = "aside")
  /\ Exit
  /\ UNCHANGED <<platform, published, exe, bak, helper>>

-----------------------------------------------------------------------------
UpdateInit ==
  /\ platform \in {"unix", "windows"}
  /\ published = 1
  /\ exe = 1 /\ bak = None /\ staging = None
  /\ probe = [up |-> TRUE, runs |-> 1, pc |-> "idle", want |-> None]
  /\ helper = None /\ stranded = FALSE

ProbeStep ==
  \/ CheckForUpdate \/ Download \/ WriteStaging
  \/ MoveAside \/ MoveIntoPlace \/ SpawnUpdater
  \/ MoveIntoPlaceFails \/ SpawnUpdaterFails

HelperStep ==
  HelperMoves \/ HelperStopsService \/ HelperGivesUp \/ HelperRestarts

UpdateNext ==
  \/ Deploy
  \/ ProbeStep \/ HelperStep
  \/ HelperKilled
  \/ Supervise \/ Crash

\* The supervisor is always there, every call returns, the check comes again.  The
\* watchdog, which looks every few minutes, does not start the service each time
\* between the script's stopping it and its moving the file, a second later.
UpdateFairness ==
  /\ WF_updateVars(focus = "update" /\ Supervise)
  /\ WF_updateVars(focus = "update" /\ ProbeStep)
  /\ WF_updateVars(focus = "update" /\ HelperStep)
  /\ SF_updateVars(focus = "update" /\ HelperMoves)

-----------------------------------------------------------------------------
(* Properties. *)

\* Whatever is cut off, exchanged by a deployment between manifest and download, or
\* left behind by a crash: what stands at the probe's path is a whole build, and
\* only a fault between the two renames leaves none there (update_unix.go:16).
RunnableAtPath ==
  /\ exe # Torn
  /\ exe = None => In("aside") \/ stranded

\* What stays published is run in the end, or has been overtaken, or the probe is
\* stranded.
UpdateArrives ==
  \A v \in Version : <>[](published = v) => <>[](probe.runs >= v \/ stranded)
=============================================================================
