--------------------------- MODULE MCTaskDispatch ---------------------------
(* An instance of TaskDispatch for TLC: what the heartbeats report.          *)
EXTENDS TaskDispatch

\* One task, with two of the same priority, or a more urgent one; some of them run
\* through the cloud client.  Two heartbeats put tasks of different priority into one
\* queue, in either order.
MCSituations == {{"low_tps"}, {"low_tps", "low_gpu"}, {"low_memory"}}
=============================================================================
