----------------------------- MODULE JobPromise -----------------------------
(***************************************************************************)
(* What the LLM job queue promises of a job, abstracted from the lists,    *)
(* registries, copies and processes of LLMQueue: a job is submitted once,  *)
(* waits and runs in turns, at most MaxRuns times, and then leaves the     *)
(* queue for good, delivering one outcome or none.                         *)
(***************************************************************************)
EXTENDS Naturals

CONSTANTS
  Jobs,       \* job ids
  MaxRuns,    \* executions a job may have
  NoOutcome   \* the outcome of a job that has delivered nothing

VARIABLES
  phase,      \* "new", "waiting", "running" or "gone"
  runs,       \* executions begun
  outcome     \* what a poller finds as the result of the job

vars == <<phase, runs, outcome>>

Outcomes == {"completed", "failed", "cancelled"}

Init ==
  /\ phase = [j \in Jobs |-> "new"]
  /\ runs = [j \in Jobs |-> 0]
  /\ outcome = [j \in Jobs |-> NoOutcome]

Move(j, here, there) ==
  /\ phase[j] \in here
  /\ phase' = [phase EXCEPT ![j] = there]

Submit(j) ==
  /\ Move(j, {"new"}, "waiting")
  /\ UNCHANGED <<runs, outcome>>

Begin(j) ==
  /\ Move(j, {"waiting"}, "running")
  /\ runs[j] < MaxRuns
  /\ runs' = [runs EXCEPT ![j] = @ + 1]
  /\ UNCHANGED outcome

(* An error, a timeout or a dead worker, with an execution to spare.        *)
Retry(j) ==
  /\ Move(j, {"running"}, "waiting")
  /\ runs[j] < MaxRuns
  /\ UNCHANGED <<runs, outcome>>

Deliver(j) ==
  /\ Move(j, {"running"}, "gone")
  /\ outcome[j] = NoOutcome
  /\ \E o \in Outcomes : outcome' = [outcome EXCEPT ![j] = o]
  /\ UNCHANGED runs

(* Cancelled while it waited, or out of retries.                            *)
Drop(j) ==
  /\ Move(j, {"waiting", "running"}, "gone")
  /\ UNCHANGED <<runs, outcome>>

Next ==
  \E j \in Jobs : Submit(j) \/ Begin(j) \/ Retry(j) \/ Deliver(j) \/ Drop(j)

Spec == Init /\ [][Next]_vars

=============================================================================
