------------------------ MODULE LLMQueuePromiseProofs ------------------------
(***************************************************************************)
(* LLMQueue implements JobPromise, for every value of its constants.       *)
(***************************************************************************)
EXTENDS LLMQueuePromise, LLMQueueProofs

(* What the refinement needs beyond the invariants of LLMQueueProofs: RQ    *)
(* knows every job it was given, holds none that has a result, and a job    *)
(* function that is about to return has an end to report.                   *)
PromiseInv ==
  /\ \A j \in Jobs : Held(j) => rq[j] # "none" /\ result[j] = NoCall
  /\ \A j \in Jobs : api[j] \in {"pushed", "saved", "returned"} => rq[j] # "none"
  /\ worker.pc \in {"completed", "cancelled", "return"} => worker.call.status \in Terminal

LEMMA LocalEnds ==
  ASSUME TypeOK, LocalStep,
         worker.pc \in {"completed", "cancelled", "return"} => worker.call.status \in Terminal
  PROVE  worker'.pc \in {"completed", "cancelled", "return"} => worker'.call.status \in Terminal
<1> USE DEF At
<1>0. /\ worker \in WorkerStates
      /\ worker.pc \notin {"idle", "popped"} => worker.call \in Calls
  BY DEF TypeOK, Running
<1>s. ASSUME NEW status \in Terminal, NEW there, Store(status, there),
             worker.pc \notin {"idle", "popped"}
      PROVE  worker'.call.status \in Terminal
  <2>1. worker.call \in Calls
    BY <1>0, <1>s
  <2>2. worker'.call = [worker.call EXCEPT !.status = status]
    BY <1>0, <1>s DEF Store, WorkerStates
  <2>3. QED
    BY <1>s, <2>1, <2>2 DEF Calls
<1>1. CASE Precheck
  BY <1>0, <1>1 DEF Precheck, WorkerStates
<1>2. CASE Process
  BY <1>0, <1>2 DEF Process, Store, WorkerStates
<1>3. CASE AnnounceProcessing \/ AnnounceStreaming \/ AnnounceCompleted
           \/ AnnounceCancelled \/ AnnounceError
  BY <1>0, <1>3 DEF AnnounceProcessing, AnnounceStreaming, AnnounceCompleted,
    AnnounceCancelled, AnnounceError, Announce, Goto, WorkerStates
<1>4. CASE EnterTry
  BY <1>0, <1>4 DEF EnterTry, WorkerStates
<1>5. CASE Generate
  BY <1>0, <1>5 DEF Generate, Goto, WorkerStates
<1>6. CASE OpenStream
  BY <1>0, <1>6 DEF OpenStream, Store, WorkerStates
<1>7. CASE Token \/ EmptyChunk
  BY <1>0, <1>7 DEF Token, EmptyChunk, WorkerStates
<1>8. CASE EndOfStream \/ StreamError
  BY <1>0, <1>8 DEF EndOfStream, StreamError, WorkerStates
<1>9. CASE CheckChunk
  BY <1>0, <1>9 DEF CheckChunk, WorkerStates
<1>10. CASE CheckResult
  BY <1>0, <1>10 DEF CheckResult, WorkerStates
<1>11. CASE Complete
  BY <1>11, <1>s DEF Complete, Terminal
<1>12. CASE Finalize
  BY <1>12, <1>s DEF Finalize, Terminal
<1>13. CASE Reject
  BY <1>13, <1>s DEF Reject, Terminal
<1>14. CASE HandleError
  BY <1>0, <1>14 DEF HandleError, WorkerStates
<1>15. CASE Timeout
  BY <1>0, <1>15 DEF Timeout, WorkerStates
<1>16. QED
  BY <1>1, <1>2, <1>3, <1>4, <1>5, <1>6, <1>7, <1>8, <1>9, <1>10, <1>11,
    <1>12, <1>13, <1>14, <1>15
  DEF LocalStep

(* RQ never forgets the status of a job, and a push gives it one.           *)
LEMMA StatusKept ==
  ASSUME TypeOK, HolderInv, [Next]_vars
  PROVE  /\ \A j \in Jobs : rq[j] # "none" => rq'[j] # "none"
         /\ \A j \in Jobs : Held(j)' => Held(j) \/ Push(j)
         /\ \A j \in Jobs : api'[j] \in {"pushed", "saved", "returned"}
              => Push(j) \/ api[j] \in {"pushed", "saved", "returned"}
         /\ \A j \in Jobs : Push(j) => rq'[j] # "none"
<1> SUFFICES ASSUME NEW j \in Jobs
             PROVE  /\ rq[j] # "none" => rq'[j] # "none"
                    /\ Held(j)' => Held(j) \/ Push(j)
                    /\ api'[j] \in {"pushed", "saved", "returned"}
                         => Push(j) \/ api[j] \in {"pushed", "saved", "returned"}
                    /\ Push(j) => rq'[j] # "none"
  OBVIOUS
<1>0. /\ queue \in Seq(Jobs) /\ Injective(queue)
      /\ Running => worker.job \in started
      /\ worker.pc = "popped" => worker.job \in intermediate
      /\ \A k \in Jobs : k \in Range(queue) => k \notin intermediate /\ k \notin started
      /\ ~At("idle") => worker.job \in Jobs
  BY HolderAsSets DEF HolderInv, TypeOK
<1>m. /\ rq \in [Jobs -> {"none", "queued", "started", "finished", "failed", "canceled"}]
      /\ api \in [Jobs -> {"idle", "admitted", "pushed", "saved", "returned", "refused",
                           "aborted"}]
  BY DEF TypeOK
<1>p. Push(j) => rq'[j] # "none"
  BY <1>m DEF Push
<1> USE DEF Held, InQueue
<1>1. CASE LocalStep
  BY <1>1, <1>p, LocalKeepsPlace DEF rqVars
<1>2. CASE Dequeue
  BY <1>0, <1>2, <1>p, PopInjective DEF Dequeue
<1>3. CASE StartJob
  BY <1>0, <1>m, <1>3, <1>p DEF StartJob, At
<1>4. CASE Succeed
  BY <1>m, <1>4, <1>p DEF Succeed
<1>5. ASSUME NEW k \in Jobs, RetryOrFail(k), k \notin Range(queue), k \in intermediate \cup started,
             intermediate' \subseteq intermediate, started' \subseteq started, UNCHANGED api
      PROVE  /\ rq[j] # "none" => rq'[j] # "none"
             /\ Held(j)' => Held(j)
             /\ api'[j] = api[j]
  BY <1>0, <1>m, <1>5, RetryMoves
<1>6. CASE Fail
  BY <1>0, <1>5, <1>6, <1>p DEF Fail, At, Running
<1>7. CASE Crash
  BY <1>7, <1>p DEF Crash, rqVars
<1>8. ASSUME NEW k \in Jobs,
             Admit(k) \/ Refuse(k) \/ Abort(k) \/ SavePayload(k) \/ AnnounceQueued(k)
      PROVE  /\ UNCHANGED <<rq, queue, intermediate, started>>
             /\ api'[j] \in {"pushed", "saved", "returned"}
                  => api[j] \in {"pushed", "saved", "returned"}
  BY <1>8, <1>m DEF Admit, Refuse, Abort, SavePayload, AnnounceQueued, EnqueueAt, rqVars
<1>9. ASSUME NEW k \in Jobs, Push(k)
      PROVE  /\ rq[j] # "none" => rq'[j] # "none"
             /\ Held(j)' => Held(j) \/ Push(j)
             /\ api'[j] \in {"pushed", "saved", "returned"}
                  => Push(j) \/ api[j] \in {"pushed", "saved", "returned"}
  <2>1. /\ Range(queue') = Range(queue) \cup {k}
        /\ UNCHANGED <<intermediate, started>>
        /\ api' = [api EXCEPT ![k] = "pushed"] /\ rq' = [rq EXCEPT ![k] = "queued"]
    BY <1>0, <1>9, AppendRange DEF Push, EnqueueAt
  <2>2. CASE j = k
    BY <1>9, <1>p, <2>2
  <2>3. CASE j # k
    BY <1>m, <2>1, <2>3
  <2>4. QED
    BY <2>2, <2>3
<1>10. ASSUME NEW k \in Jobs, CancelStep(k)
       PROVE  /\ rq[j] # "none" => rq'[j] # "none"
              /\ Held(j)' => Held(j)
              /\ api'[j] = api[j]
  BY <1>10, <1>m, CancelKeepsPlace DEF HolderInv
<1>11. ASSUME NEW k \in Jobs, Reclaim(k)
       PROVE  /\ rq[j] # "none" => rq'[j] # "none"
              /\ Held(j)' => Held(j)
              /\ api'[j] = api[j]
  BY <1>0, <1>5, <1>11 DEF Reclaim
<1>12. CASE UNCHANGED vars
  BY <1>12, <1>p DEF vars, rqVars
<1>13. QED
  BY <1>1, <1>2, <1>3, <1>4, <1>6, <1>7, <1>8, <1>9, <1>10, <1>11, <1>12, <1>p, NextCases

(* Only the normal end of an execution stores a result.                     *)
LEMMA ResultKept ==
  ASSUME TypeOK, HolderInv, [Next]_vars, ~Succeed
  PROVE  UNCHANGED result
<1>1. CASE LocalStep
  BY <1>1, LocalKeepsPlace DEF rqVars
<1>2. CASE Dequeue \/ StartJob \/ Fail \/ Crash
  BY <1>2 DEF Dequeue, StartJob, Fail, Crash, rqVars
<1>3. CASE \E k \in Jobs : \/ Admit(k) \/ Refuse(k) \/ Abort(k) \/ Push(k) \/ SavePayload(k)
                           \/ AnnounceQueued(k) \/ Reclaim(k)
  BY <1>3 DEF Admit, Refuse, Abort, Push, SavePayload, AnnounceQueued, Reclaim, rqVars
<1>4. CASE \E k \in Jobs : CancelStep(k)
  BY <1>4, CancelKeepsPlace DEF HolderInv
<1>5. CASE UNCHANGED vars
  BY <1>5 DEF vars, rqVars
<1>6. QED
  BY <1>1, <1>2, <1>3, <1>4, <1>5, NextCases

LEMMA EndsStep ==
  ASSUME TypeOK, HolderInv, RetryInv, [Next]_vars,
         worker.pc \in {"completed", "cancelled", "return"} => worker.call.status \in Terminal
  PROVE  worker'.pc \in {"completed", "cancelled", "return"} => worker'.call.status \in Terminal
<1>i. IdleWorker.pc = "idle"
  BY DEF IdleWorker
<1>1. CASE LocalStep
  BY <1>1, LocalEnds
<1>2. CASE Dequeue
  BY <1>2 DEF Dequeue, IdleWorker
<1>3. CASE StartJob
  BY <1>3 DEF StartJob, TypeOK, WorkerStates
<1>4. CASE Succeed \/ Fail \/ Crash
  BY <1>4, <1>i DEF Succeed, Fail, Crash
<1>5. CASE \E k \in Jobs : \/ Admit(k) \/ Refuse(k) \/ Abort(k) \/ Push(k) \/ SavePayload(k)
                           \/ AnnounceQueued(k) \/ Reclaim(k)
  BY <1>5 DEF Admit, Refuse, Abort, Push, SavePayload, AnnounceQueued, Reclaim
<1>6. CASE \E k \in Jobs : CancelStep(k)
  BY <1>6, CancelKeepsPlace DEF HolderInv
<1>7. CASE UNCHANGED vars
  BY <1>7 DEF vars
<1>8. QED
  BY <1>1, <1>2, <1>3, <1>4, <1>5, <1>6, <1>7, NextCases

LEMMA PromiseInvAlways == Spec => []PromiseInv
<1>1. Init => PromiseInv
  BY DEF Init, PromiseInv, Held, InQueue, Range, IdleWorker
<1>2. TypeOK /\ HolderInv /\ RetryInv /\ PromiseInv /\ [Next]_vars => PromiseInv'
  <2> SUFFICES ASSUME TypeOK, HolderInv, RetryInv, PromiseInv, [Next]_vars
               PROVE  PromiseInv'
    OBVIOUS
  <2>1. ASSUME NEW j \in Jobs, Held(j)' PROVE rq'[j] # "none" /\ result'[j] = NoCall
    <3>1. rq'[j] # "none"
      BY <2>1, StatusKept DEF PromiseInv
    <3>2. CASE Succeed
      <4>1. /\ result' = [result EXCEPT ![worker.job] = worker.call]
            /\ UNCHANGED <<queue, intermediate>> /\ started' = started \ {worker.job}
            /\ worker.job \in started
        BY <3>2 DEF Succeed, HolderInv, OneHolder, Running, At
      <4>2. j # worker.job /\ Held(j)
        BY <2>1, <4>1 DEF Held, InQueue, HolderInv, OneHolder
      <4>3. result'[j] = result[j]
        BY <4>1, <4>2 DEF TypeOK
      <4>4. QED
        BY <3>1, <4>2, <4>3 DEF PromiseInv
    <3>3. CASE ~Succeed
      <4>1. UNCHANGED result
        BY <3>3, ResultKept
      <4>2. Held(j) \/ Push(j)
        BY <2>1, StatusKept
      <4>3. Push(j) => result[j] = NoCall
        BY DEF Push, EnqueueAt, Unpushed, RetryInv
      <4>4. QED
        BY <3>1, <4>1, <4>2, <4>3 DEF PromiseInv
    <3>4. QED
      BY <3>2, <3>3
  <2>2. \A j \in Jobs : api'[j] \in {"pushed", "saved", "returned"} => rq'[j] # "none"
    BY StatusKept DEF PromiseInv
  <2>3. worker'.pc \in {"completed", "cancelled", "return"} => worker'.call.status \in Terminal
    BY EndsStep DEF PromiseInv
  <2>4. QED
    BY <2>1, <2>2, <2>3 DEF PromiseInv
<1>3. QED
  BY <1>1, <1>2, TypeCorrect, HolderAlways, RetryAlways, PTL DEF Spec

-----------------------------------------------------------------------------
(* The refinement                                                           *)

(* A step that moves no job, as JobPromise sees it.                         *)
Still ==
  /\ \A j \in Jobs : JobPhase(j)' = JobPhase(j)
  /\ UNCHANGED <<attempts, result>>

(* A step that moves job k alone.                                           *)
MovesOnly(k, here, there) ==
  /\ JobPhase(k) \in here
  /\ JobPhase(k)' = there
  /\ \A j \in Jobs \ {k} : JobPhase(j)' = JobPhase(j)

LEMMA StillIsStutter ==
  ASSUME Still
  PROVE  UNCHANGED Promise!vars
BY DEF Still, Promise!vars

LEMMA MoveMaps ==
  ASSUME NEW k \in Jobs, NEW here, NEW there, MovesOnly(k, here, there)
  PROVE  Promise!Move(k, here, there)
<1>1. [j \in Jobs |-> JobPhase(j)]' = [[j \in Jobs |-> JobPhase(j)] EXCEPT ![k] = there]
  BY DEF MovesOnly
<1>2. QED
  BY <1>1 DEF MovesOnly, Promise!Move

LEMMA RefinementStep ==
  ASSUME TypeOK, HolderInv, BudgetInv, BudgetInv', PromiseInv, [Next]_vars
  PROVE  [Promise!Next]_Promise!vars
<1>0. /\ queue \in Seq(Jobs) /\ Injective(queue)
      /\ Running => worker.job \in started
      /\ worker.pc = "popped" => worker.job \in intermediate
      /\ \A k \in Jobs : k \in Range(queue) => k \notin intermediate /\ k \notin started
      /\ intermediate \cap started = {}
      /\ ~At("idle") => worker.job \in Jobs
  BY HolderAsSets DEF HolderInv, TypeOK
<1>m. /\ rq \in [Jobs -> {"none", "queued", "started", "finished", "failed", "canceled"}]
      /\ attempts \in [Jobs -> Nat] /\ result \in [Jobs -> MaybeCalls]
      /\ MaxRetries \in Nat
  BY BoundsAssumption DEF TypeOK
<1>p. /\ \A j \in Jobs : Held(j) => rq[j] # "none" /\ result[j] = NoCall
      /\ \A j \in Jobs : api[j] \in {"pushed", "saved", "returned"} => rq[j] # "none"
  BY DEF PromiseInv
<1>s. Still => [Promise!Next]_Promise!vars
  BY StillIsStutter
<1>b. \A j \in Jobs : Waiting(j) => attempts[j] < MaxRetries + 1
  <2>1. ASSUME NEW j \in Jobs, Waiting(j) PROVE attempts[j] < MaxRetries + 1
    <3>1. attempts[j] \in Nat /\ retriesLeft[j] \in Nat
      BY DEF TypeOK
    <3>2. attempts[j] + retriesLeft[j] + 1 <= MaxRetries + 1
      BY <2>1 DEF BudgetInv
    <3>3. QED
      BY <1>m, <3>1, <3>2
  <2>2. QED
    BY <2>1
<1> USE DEF JobPhase, InQueue, Held
<1>1. CASE LocalStep
  BY <1>1, <1>s, LocalKeepsPlace DEF rqVars, Still
<1>2. CASE Dequeue
  <2>1. /\ UNCHANGED <<started, rq, result, attempts>>
        /\ Range(queue') = Range(queue) \ {Head(queue)} /\ Head(queue) \in Range(queue)
        /\ intermediate' = intermediate \cup {Head(queue)}
    BY <1>0, <1>2, PopInjective DEF Dequeue
  <2>2. QED
    BY <1>0, <1>s, <2>1 DEF Still
<1>3. CASE StartJob
  <2>0. PICK k \in Jobs : k = worker.job
    BY <1>0, <1>3 DEF StartJob, At
  <2>1. /\ k \in intermediate /\ k \notin Range(queue)
        /\ UNCHANGED <<queue, result>>
        /\ intermediate' = intermediate \ {k} /\ started' = started \cup {k}
        /\ rq' = [rq EXCEPT ![k] = "started"]
        /\ attempts' = [attempts EXCEPT ![k] = @ + 1]
    BY <1>0, <1>3, <2>0 DEF StartJob, At
  <2>2. MovesOnly(k, {"waiting"}, "running")
    BY <1>m, <1>p, <2>1 DEF MovesOnly
  <2>3. attempts[k] < MaxRetries + 1
    BY <1>b, <2>1 DEF Waiting
  <2>4. Promise!Begin(k)
    BY <2>1, <2>2, <2>3, MoveMaps DEF Promise!Begin
  <2>5. QED
    BY <2>1, <2>4 DEF Promise!Next
<1>4. CASE Succeed
  <2>0. PICK k \in Jobs : k = worker.job
    BY <1>0, <1>4 DEF Succeed, At
  <2>1. /\ k \in started /\ k \notin Range(queue) /\ k \notin intermediate
        /\ UNCHANGED <<queue, intermediate, attempts>> /\ started' = started \ {k}
        /\ rq' = [rq EXCEPT ![k] = "finished"]
        /\ result' = [result EXCEPT ![k] = worker.call]
        /\ worker.call.status \in Terminal
    BY <1>0, <1>4, <2>0 DEF Succeed, At, Running, PromiseInv
  <2>2. MovesOnly(k, {"running"}, "gone")
    BY <1>m, <1>p, <2>1 DEF MovesOnly
  <2>3. [j \in Jobs |-> result[j].status]'
          = [[j \in Jobs |-> result[j].status] EXCEPT ![k] = worker.call.status]
    BY <1>m, <2>1
  <2>4. [j \in Jobs |-> result[j].status][k] = NoCall.status
    BY <1>p, <2>1
  <2>5. worker.call.status \in Promise!Outcomes
    BY <2>1 DEF Terminal, Promise!Outcomes
  <2>6. Promise!Deliver(k)
    BY <2>1, <2>2, <2>3, <2>4, <2>5, MoveMaps DEF Promise!Deliver
  <2>7. QED
    BY <2>1, <2>6 DEF Promise!Next
(* RQ retries a job it holds, or drops it.                                  *)
<1>5. ASSUME NEW k \in Jobs, RetryOrFail(k), k \in intermediate \cup started,
             intermediate' = intermediate \ {k}, started' = started \ {k},
             UNCHANGED <<attempts, result>>
      PROVE  [Promise!Next]_Promise!vars
  <2>0. k \notin Range(queue) /\ rq[k] # "none"
    BY <1>0, <1>p, <1>5
  <2>1. CASE retriesLeft[k] > 0
    <3>1. /\ Range(queue') = Range(queue) \cup {k}
          /\ rq' = [rq EXCEPT ![k] = "queued"]
      <4>1. queue' = Append(queue, k) /\ rq' = [rq EXCEPT ![k] = "queued"]
        BY <1>5, <2>1 DEF RetryOrFail
      <4>2. queue \in Seq(Jobs)
        BY <1>0
      <4>3. Range(Append(queue, k)) = Range(queue) \cup {k}
        BY <4>2, AppendRange
      <4>4. QED
        BY <4>1, <4>3
    <3>2. CASE k \in intermediate
      <4>1. Still
        BY <1>m, <1>5, <2>0, <3>1, <3>2 DEF Still
      <4>2. QED
        BY <1>s, <4>1
    <3>3. CASE k \notin intermediate
      <4>1. MovesOnly(k, {"running"}, "waiting")
        BY <1>m, <1>5, <2>0, <3>1, <3>3 DEF MovesOnly
      <4>2. attempts[k] < MaxRetries + 1
        <5>1. Waiting(k)'
          BY <3>1 DEF Waiting
        <5>2. attempts'[k] + retriesLeft'[k] + 1 <= MaxRetries + 1
          BY <5>1 DEF BudgetInv
        <5>3. attempts'[k] = attempts[k] /\ attempts[k] \in Nat /\ retriesLeft'[k] \in Nat
          BY <1>5, <2>1 DEF TypeOK, RetryOrFail
        <5>4. QED
          BY <1>m, <5>2, <5>3
      <4>3. Promise!Retry(k)
        BY <1>5, <4>1, <4>2, MoveMaps DEF Promise!Retry
      <4>4. QED
        BY <4>3 DEF Promise!Next
    <3>4. QED
      BY <3>2, <3>3
  <2>2. CASE ~(retriesLeft[k] > 0)
    <3>1. UNCHANGED queue /\ rq' = [rq EXCEPT ![k] = "failed"]
      BY <1>5, <2>2 DEF RetryOrFail
    <3>2. MovesOnly(k, {"waiting", "running"}, "gone")
      BY <1>m, <1>5, <2>0, <3>1 DEF MovesOnly
    <3>3. Promise!Drop(k)
      BY <1>5, <3>2, MoveMaps DEF Promise!Drop
    <3>4. QED
      BY <3>3 DEF Promise!Next
  <2>3. QED
    BY <2>1, <2>2
<1>6. CASE Fail
  <2>1. /\ worker.job \in Jobs /\ worker.job \in started /\ RetryOrFail(worker.job)
        /\ started' = started \ {worker.job} /\ UNCHANGED <<intermediate, attempts, result>>
    BY <1>0, <1>6 DEF Fail, At, Running
  <2>2. intermediate' = intermediate \ {worker.job}
    BY <1>0, <2>1
  <2>3. QED
    BY <1>5, <2>1, <2>2
<1>7. CASE Crash
  BY <1>7, <1>s DEF Crash, rqVars, Still
<1>8. ASSUME NEW k \in Jobs,
             Admit(k) \/ Refuse(k) \/ Abort(k) \/ SavePayload(k) \/ AnnounceQueued(k)
      PROVE  Still
  BY <1>8 DEF Admit, Refuse, Abort, SavePayload, AnnounceQueued, rqVars, Still
<1>9. ASSUME NEW k \in Jobs, Push(k) PROVE [Promise!Next]_Promise!vars
  <2>1. /\ Range(queue') = Range(queue) \cup {k} /\ rq' = [rq EXCEPT ![k] = "queued"]
        /\ UNCHANGED <<intermediate, started, result, attempts>>
    BY <1>0, <1>9, AppendRange DEF Push
  <2>2. rq[k] = "none"
    BY <1>9 DEF Push, EnqueueAt, HolderInv, UnpushedIsNowhere, Unpushed
  <2>3. MovesOnly(k, {"new"}, "waiting")
    BY <1>m, <2>1, <2>2 DEF MovesOnly
  <2>4. Promise!Submit(k)
    BY <2>1, <2>3, MoveMaps DEF Promise!Submit
  <2>5. QED
    BY <2>4 DEF Promise!Next
<1>10. ASSUME NEW k \in Jobs, CancelStep(k) PROVE [Promise!Next]_Promise!vars
  <2>1. /\ UNCHANGED <<intermediate, started, result, attempts>>
        /\ Range(queue') \in {Range(queue), Range(queue) \ {k}}
        /\ rq' \in {rq, [rq EXCEPT ![k] = "canceled"]}
    BY <1>10, CancelKeepsPlace DEF HolderInv
  <2>2. rq[k] # "none"
    BY <1>10, <1>p, CancelEffect
  <2>3. CASE Range(queue') = Range(queue) \/ k \notin Range(queue)
    <3>1. Range(queue') = Range(queue)
      BY <2>1, <2>3
    <3>2. Still
      BY <1>m, <2>1, <2>2, <3>1 DEF Still
    <3>3. QED
      BY <1>s, <3>2
  <2>4. CASE Range(queue') = Range(queue) \ {k} /\ k \in Range(queue)
    <3>1. MovesOnly(k, {"waiting", "running"}, "gone")
      BY <1>0, <1>m, <2>1, <2>2, <2>4 DEF MovesOnly
    <3>2. Promise!Drop(k)
      BY <2>1, <3>1, MoveMaps DEF Promise!Drop
    <3>3. QED
      BY <3>2 DEF Promise!Next
  <2>5. QED
    BY <2>1, <2>3, <2>4
<1>11. ASSUME NEW k \in Jobs, Reclaim(k) PROVE [Promise!Next]_Promise!vars
  BY <1>5, <1>11 DEF Reclaim
<1>12. CASE UNCHANGED vars
  BY <1>12, <1>s DEF vars, rqVars, Still
<1>13. QED
  BY <1>1, <1>2, <1>3, <1>4, <1>6, <1>7, <1>8, <1>9, <1>10, <1>11, <1>12, <1>s, NextCases

(* The queue, the worker and its cancellations implement JobPromise: what a *)
(* client sees of a job is one submission, turns of waiting and running     *)
(* within LLM_JOB_MAX_RETRIES + 1 executions, and one way out with at most  *)
(* one outcome, whatever crashes, timeouts and stale copies go on below.    *)
THEOREM PromiseKeptAlways == Spec => PromiseKept
<1>1. Init => Promise!Init
  BY DEF Init, Promise!Init, JobPhase
<1>2. TypeOK /\ HolderInv /\ BudgetInv /\ BudgetInv' /\ PromiseInv /\ [Next]_vars
        => [Promise!Next]_Promise!vars
  BY RefinementStep
<1>3. QED
  BY <1>1, <1>2, TypeCorrect, HolderAlways, BudgetAlways, PromiseInvAlways, PTL
  DEF Spec, PromiseKept, Promise!Spec

=============================================================================
