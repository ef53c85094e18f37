----------------------------- MODULE ProbeLoops ------------------------------
(***************************************************************************)
(* The loops of the probe (internal/probe/run.go): every connection starts *)
(* its own and cancels them when it ends, without waiting for what they    *)
(* were doing; the caches they share outlive the connection.               *)
(***************************************************************************)
EXTENDS Shared

CONSTANT Loop    \* the loops of one connection, while any of them runs

VARIABLE online  \* the loops whose context is not cancelled, or None

\* dialAndPump: a new connection, while loops of an earlier one may still be running.
LoopsStart(idle) == online = None /\ online' \in idle

\* Its deferred loopCancel, after a failed Read.
LoopsCancelled == Fault /\ online # None /\ online' = None
=============================================================================
