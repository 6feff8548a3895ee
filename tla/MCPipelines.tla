---------------------------- MODULE MCPipelines ----------------------------
(* Small plans for Pipelines.                                              *)
EXTENDS Pipelines

(* A commit, a stop, a commit that the stopped pipeline leaves, a start.   *)
LockPlans == {<<"commit", "stop", "commit", "start">>}
=============================================================================
