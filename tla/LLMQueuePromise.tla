--------------------------- MODULE LLMQueuePromise ---------------------------
(***************************************************************************)
(* LLMQueue implements JobPromise: the refinement mapping.                 *)
(***************************************************************************)
EXTENDS LLMQueue

(* Where a job is for its client: a job a dead worker left behind waits if  *)
(* it was popped only, and runs if RQ had marked it started.                *)
JobPhase(j) ==
  IF rq[j] = "none" THEN "new"
  ELSE IF InQueue(j) \/ j \in intermediate THEN "waiting"
  ELSE IF j \in started THEN "running"
  ELSE "gone"

Promise == INSTANCE JobPromise WITH
  MaxRuns <- MaxRetries + 1,
  NoOutcome <- NoCall.status,
  phase <- [j \in Jobs |-> JobPhase(j)],
  runs <- attempts,
  outcome <- [j \in Jobs |-> result[j].status]

(* Every step of the queue, the worker, a cancellation, a crash or a        *)
(* reclaim is, for the client, a step of JobPromise or none at all: one     *)
(* submission, turns of waiting and running within the budget, one way out, *)
(* and at most one outcome, delivered on the way out and never changed.     *)
PromiseKept == Promise!Spec

=============================================================================
