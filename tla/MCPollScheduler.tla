-------------------------- MODULE MCPollScheduler --------------------------
(* PollScheduler on two appliances, three goroutines and one slot. *)
EXTENDS PollScheduler, TLC

CONSTANTS a1, a2, w1, w2, w3

MCInterval == {15, 60}
MCSymmetry == Permutations({w1, w2, w3}) \cup Permutations({a1, a2})

\* last_snapshot and last_error are written here and read by no action.
MCView == <<row, rec, handle, job, slots, chk, edits, restarts>>
=============================================================================
