-------------------------- MODULE JobReadersProofs --------------------------
(***************************************************************************)
(* Theorems about JobReaders, for every value of its constants: what the   *)
(* clients that poll a job, or follow its stream, are told.                *)
(***************************************************************************)
EXTENDS JobReaders, LLMQueueResultsProofs

-----------------------------------------------------------------------------
(* The failures a stream announces                                          *)

(* RQ was given the job and will not run it again: no retry left, and not   *)
(* waiting for its turn.                                                    *)
Spent(j) == ~Unpushed(j) /\ retriesLeft[j] = 0 /\ ~Waiting(j)

(* An event closes a stream only with the end of the job, and announces a   *)
(* failure only once RQ has no retry left.                                  *)
EndInv ==
  /\ At("excepted") => worker.job \in Streaming
  /\ \A j \in Jobs : \A i \in DOMAIN stream[j] :
       /\ stream[j][i].done => stream[j][i].status \in Terminal
       /\ stream[j][i].status = "failed" => Spent(j)

(* A spent job stays spent: only a push or a retry would bring it back.     *)
LEMMA SpentStays ==
  ASSUME TypeOK, HolderInv, [Next]_vars, NEW j \in Jobs, Spent(j)
  PROVE  Spent(j)'
<1> USE DEF Waiting, InQueue
<1>0. /\ queue \in Seq(Jobs) /\ Injective(queue)
      /\ Running => worker.job \in started
      /\ worker.pc = "popped" => worker.job \in intermediate
      /\ \A k \in Jobs : k \in Range(queue) => k \notin intermediate /\ k \notin started
      /\ ~At("idle") => worker.job \in Jobs
  BY HolderAsSets DEF HolderInv, TypeOK
<1>t. /\ api \in [Jobs -> {"idle", "admitted", "pushed", "saved", "returned", "refused",
                           "aborted"}]
      /\ retriesLeft \in [Jobs -> 0..MaxRetries]
  BY DEF TypeOK
<1>s. api[j] \notin {"idle", "admitted", "refused"} /\ retriesLeft[j] = 0
      /\ j \notin Range(queue) /\ j \notin intermediate
  BY DEF Spent, Unpushed
<1>1. CASE LocalStep
  BY <1>1, <1>s, LocalKeepsPlace DEF rqVars, Spent, Unpushed
<1>2. CASE Dequeue
  BY <1>0, <1>s, <1>2, PopInjective DEF Dequeue, Spent, Unpushed
<1>3. CASE StartJob \/ Succeed \/ Crash
  BY <1>s, <1>3 DEF StartJob, Succeed, Crash, rqVars, Spent, Unpushed
<1>5. ASSUME NEW k \in Jobs, RetryOrFail(k), k \notin Range(queue),
             intermediate' \subseteq intermediate, UNCHANGED api
      PROVE  Spent(j)'
  <2>1. CASE retriesLeft[k] > 0
    <3>1. k # j
      BY <1>s, <1>t, <2>1
    <3>2. Range(queue') = Range(queue) \cup {k} /\ retriesLeft'[j] = retriesLeft[j]
      BY <1>0, <1>t, <1>5, <2>1, <3>1, AppendRange DEF RetryOrFail
    <3>3. QED
      BY <1>s, <1>5, <3>1, <3>2 DEF Spent, Unpushed
  <2>2. CASE ~(retriesLeft[k] > 0)
    BY <1>s, <1>5, <2>2 DEF RetryOrFail, Spent, Unpushed
  <2>3. QED
    BY <2>1, <2>2
<1>6. CASE Fail
  BY <1>0, <1>5, <1>6 DEF Fail, At, Running
<1>7. ASSUME NEW k \in Jobs,
             \/ Admit(k) \/ Refuse(k) \/ Abort(k) \/ SavePayload(k) \/ AnnounceQueued(k)
      PROVE  Spent(j)'
  <2>1. UNCHANGED <<queue, intermediate, retriesLeft>>
    BY <1>7 DEF Admit, Refuse, Abort, SavePayload, AnnounceQueued, rqVars
  <2>2. api'[j] \notin {"idle", "admitted", "refused"}
    BY <1>s, <1>t, <1>7 DEF Admit, Refuse, Abort, SavePayload, AnnounceQueued, EnqueueAt
  <2>3. QED
    BY <1>s, <2>1, <2>2 DEF Spent, Unpushed
<1>8. ASSUME NEW k \in Jobs, Push(k) PROVE Spent(j)'
  <2>1. /\ k # j
        /\ Range(queue') = Range(queue) \cup {k}
        /\ UNCHANGED intermediate
        /\ api' = [api EXCEPT ![k] = "pushed"]
        /\ retriesLeft' = [retriesLeft EXCEPT ![k] = MaxRetries]
    BY <1>0, <1>s, <1>8, AppendRange DEF Push, EnqueueAt
  <2>2. QED
    BY <1>s, <1>t, <2>1 DEF Spent, Unpushed
<1>9. ASSUME NEW k \in Jobs, CancelStep(k) PROVE Spent(j)'
  BY <1>s, <1>9, CancelKeepsPlace DEF HolderInv, Spent, Unpushed
<1>10. ASSUME NEW k \in Jobs, Reclaim(k) PROVE Spent(j)'
  BY <1>0, <1>5, <1>10 DEF Reclaim
<1>11. CASE UNCHANGED vars
  BY <1>s, <1>11 DEF vars, rqVars, Spent, Unpushed
<1>12. QED
  BY <1>1, <1>2, <1>3, <1>6, <1>7, <1>8, <1>9, <1>10, <1>11, NextCases

(* The handler announces a failure when the retry_count has passed          *)
(* LLM_JOB_MAX_RETRIES, and then RQ's own count is used up.                 *)
LEMMA FailureIsSpent ==
  ASSUME TypeOK, HolderInv, RetryInv, FailedInv, At("excepted"),
         worker.job \in Streaming, worker.call.status = "failed"
  PROVE  Spent(worker.job)
<1> DEFINE j == worker.job
<1>1. j \in Jobs \ Structured /\ j \in started
  BY JobsAssumption DEF HolderInv, OneHolder, Running, At
<1>2. worker.call.retry > MaxRetries /\ worker.call.retry <= Counted(j)
  BY <1>1 DEF FailedInv, Exhausted, RetryInv, CopiesBounded
<1>3. /\ worker.call.retry \in Nat /\ Counted(j) \in Nat
      /\ retriesLeft[j] \in Nat /\ retriesLeft[j] <= MaxRetries /\ MaxRetries \in Nat
  BY <1>1, RetryTypes
<1>4. ~Uncounted(j) /\ retriesLeft[j] = 0
  BY <1>2, <1>3 DEF Counted
<1>5. ~Unpushed(j)
  BY <1>1 DEF HolderInv, UnpushedIsNowhere, Held
<1>6. QED
  BY <1>4, <1>5 DEF Spent, Uncounted

(* Only the handler of a streaming job has an event to publish.             *)
LEMMA LocalExcepted ==
  ASSUME TypeOK, LocalStep, worker'.pc = "excepted"
  PROVE  worker'.job \in Streaming
<1>0. worker \in WorkerStates
  BY DEF TypeOK
<1>1. CASE HandleError
  BY <1>0, <1>1 DEF HandleError, WorkerStates
<1>2. CASE Precheck \/ Process \/ AnnounceProcessing \/ EnterTry \/ Generate \/ OpenStream
  BY <1>0, <1>2 DEF Precheck, Process, AnnounceProcessing, EnterTry, Generate, OpenStream,
     Store, Announce, Goto, WorkerStates
<1>3. CASE AnnounceStreaming \/ Token \/ EmptyChunk \/ EndOfStream \/ StreamError
  BY <1>0, <1>3 DEF AnnounceStreaming, Token, EmptyChunk, EndOfStream, StreamError, Announce,
     Goto, WorkerStates
<1>4. CASE CheckChunk \/ CheckResult \/ Complete \/ AnnounceCompleted \/ Finalize
  BY <1>0, <1>4 DEF CheckChunk, CheckResult, Complete, AnnounceCompleted, Finalize, Store,
     Announce, Goto, WorkerStates
<1>5. CASE AnnounceCancelled \/ Reject \/ AnnounceError
  BY <1>0, <1>5 DEF AnnounceCancelled, Reject, AnnounceError, Store, Announce, Goto,
     WorkerStates
<1>6. CASE Timeout
  <2>1. worker'.pc \in {"except", "raised"}
    BY <1>0, <1>6 DEF Timeout, WorkerStates
  <2>2. QED
    BY <2>1
<1>7. QED
  BY <1>1, <1>2, <1>3, <1>4, <1>5, <1>6 DEF LocalStep

LEMMA EndStep ==
  TypeOK /\ HolderInv /\ RetryInv /\ FailedInv /\ CallInv /\ CancelInv /\ EndInv
  /\ [Next]_vars => EndInv'
<1> SUFFICES ASSUME TypeOK, HolderInv, RetryInv, FailedInv, CallInv, CancelInv, EndInv,
                    [Next]_vars
             PROVE  EndInv'
  OBVIOUS
<1>0. worker \in WorkerStates /\ stream \in [Jobs -> Seq(Events)]
  BY DEF TypeOK
<1>1. worker'.pc = "excepted" => worker'.job \in Streaming
  <2>1. CASE LocalStep
    BY <2>1, LocalExcepted
  <2>2. CASE Dequeue \/ StartJob \/ Succeed \/ Fail \/ Crash
    <3>1. CASE Dequeue
      BY <3>1 DEF Dequeue, IdleWorker
    <3>2. CASE StartJob
      BY <1>0, <3>2 DEF StartJob, WorkerStates
    <3>3. CASE Succeed \/ Fail \/ Crash
      BY <3>3 DEF Succeed, Fail, Crash, IdleWorker
    <3>4. QED
      BY <2>2, <3>1, <3>2, <3>3
  <2>3. CASE UNCHANGED worker
    BY <2>3 DEF EndInv, At
  <2>4. CASE \E k \in Jobs : \/ Admit(k) \/ Refuse(k) \/ Abort(k) \/ Push(k) \/ SavePayload(k)
                             \/ AnnounceQueued(k) \/ Reclaim(k) \/ CancelStep(k)
    BY <2>3, <2>4, CancelKeepsPlace DEF Admit, Refuse, Abort, Push, SavePayload,
       AnnounceQueued, Reclaim, HolderInv
  <2>5. CASE UNCHANGED vars
    BY <2>3, <2>5 DEF vars
  <2>6. QED
    BY <2>1, <2>2, <2>4, <2>5, NextCases
<1>2. ASSUME NEW j \in Jobs, NEW i \in DOMAIN stream'[j]
      PROVE  /\ stream'[j][i].done => stream'[j][i].status \in Terminal
             /\ stream'[j][i].status = "failed" => Spent(j)'
  <2>1. CASE i \in DOMAIN stream[j] /\ stream'[j][i] = stream[j][i]
    BY <1>2, <2>1, SpentStays DEF EndInv
  <2>2. ASSUME NEW e \in Events, stream'[j][i] = e, MayAppend(j, e)
        PROVE  /\ e.done => e.status \in Terminal
               /\ e.status = "failed" => Spent(j)'
    <3>1. e.status = "failed" => Spent(j)
      BY <2>2, FailureIsSpent DEF MayAppend, EndInv, At
    <3>2. QED
      BY <2>2, <3>1, SpentStays DEF MayAppend
  <2>grows. Grows(j)
    BY StreamGrows
  <2>4. CASE stream'[j] = stream[j]
    BY <1>2, <2>1, <2>4
  <2>5. ASSUME NEW e \in Events, stream'[j] = Append(stream[j], e), MayAppend(j, e)
        PROVE  \/ i \in DOMAIN stream[j] /\ stream'[j][i] = stream[j][i]
               \/ stream'[j][i] = e
    <3>1. stream[j] \in Seq(Events)
      BY <1>0
    <3>2. QED
      BY <1>2, <2>5, <3>1, AppendKeeps
  <2>6. QED
    BY <2>grows, <2>1, <2>2, <2>4, <2>5 DEF Grows
<1>3. QED
  BY <1>1, <1>2 DEF EndInv, At

LEMMA EndAlways == Spec => []EndInv
<1>1. Init => EndInv
  BY DEF Init, EndInv, IdleWorker, At
<1>2. QED
  BY <1>1, EndStep, TypeCorrect, HolderAlways, RetryAlways, FailedAlways, CallAlways, PTL DEF Spec

-----------------------------------------------------------------------------
(* What RQ says of a job it is done with                                    *)

(* A job RQ calls finished or failed has left its hands, a finished one     *)
(* with a result, and only a cancellation calls a job canceled.             *)
Settled(j) ==
  /\ rq[j] \in {"finished", "failed"} => ~Held(j)
  /\ rq[j] = "finished" => result[j] # NoCall
  /\ rq[j] = "canceled" => cancel[j].pc # "none"

SettledInv == \A j \in Jobs : Settled(j)

LEMMA SettledInit == Init => SettledInv
BY DEF Init, SettledInv, Settled

(* RQ settles a job in Succeed, and in the failure of the last attempt.     *)
LEMMA SettledStep ==
  TypeOK /\ HolderInv /\ PromiseInv /\ CancelInv /\ SettledInv /\ [Next]_vars => SettledInv'
<1> SUFFICES ASSUME TypeOK, HolderInv, PromiseInv, CancelInv, SettledInv, [Next]_vars,
                    NEW j \in Jobs
             PROVE  Settled(j)'
  BY DEF SettledInv
<1>0. /\ rq \in [Jobs -> {"none", "queued", "started", "finished", "failed", "canceled"}]
      /\ result \in [Jobs -> MaybeCalls]
      /\ Settled(j)
  BY DEF TypeOK, SettledInv
<1>1. ASSUME rq'[j] = rq[j], UNCHANGED result, cancel[j].pc # "none" => cancel'[j].pc # "none"
      PROVE  Settled(j)'
  BY <1>0, <1>1, GoneStep DEF Settled
<1>2. ASSUME NEW k \in Jobs, RetryOrFail(k), UNCHANGED <<result, cancel>>, k \notin Range(queue),
             intermediate' \subseteq intermediate \ {k}, started' = started \ {k}
      PROVE  Settled(j)'
  <2>1. CASE j # k
    BY <1>0, <1>1, <1>2, <2>1 DEF RetryOrFail
  <2>2. CASE j = k /\ retriesLeft[k] > 0
    BY <1>0, <1>2, <2>2 DEF RetryOrFail, Settled
  <2>3. CASE j = k /\ ~(retriesLeft[k] > 0)
    <3>1. rq'[j] = "failed" /\ ~Held(j)'
      BY <1>0, <1>2, <2>3 DEF RetryOrFail, Held, InQueue
    <3>2. QED
      BY <3>1 DEF Settled
  <2>4. QED
    BY <2>1, <2>2, <2>3
<1>3. CASE LocalStep
  BY <1>1, <1>3, LocalKeepsPlace DEF rqVars
<1>4. CASE Dequeue \/ Crash \/ UNCHANGED vars
  BY <1>1, <1>4 DEF Dequeue, Crash, rqVars, vars
<1>5. CASE StartJob
  <2>1. rq' = [rq EXCEPT ![worker.job] = "started"] /\ UNCHANGED <<result, cancel>>
    BY <1>5 DEF StartJob
  <2>2. CASE j = worker.job
    BY <1>0, <2>1, <2>2 DEF Settled
  <2>3. QED
    BY <1>0, <1>1, <2>1, <2>2
<1>6. CASE Succeed
  <2>1. /\ rq' = [rq EXCEPT ![worker.job] = "finished"]
        /\ result' = [result EXCEPT ![worker.job] = worker.call]
        /\ started' = started \ {worker.job} /\ UNCHANGED <<queue, intermediate, cancel>>
        /\ worker.call \in Calls /\ worker.job \in started
    BY <1>6 DEF Succeed, At, Running, TypeOK, HolderInv, OneHolder
  <2>2. CASE j = worker.job
    <3>1. ~Held(j)'
      BY <2>1, <2>2 DEF Held, InQueue, HolderInv, OneHolder
    <3>2. result'[j] # NoCall
      BY <1>0, <2>1, <2>2, CallTypes
    <3>3. rq'[j] = "finished"
      BY <1>0, <2>1, <2>2
    <3>4. QED
      BY <3>1, <3>2, <3>3 DEF Settled
  <2>3. CASE j # worker.job
    <3>1. rq'[j] = rq[j] /\ result'[j] = result[j] /\ UNCHANGED cancel
      BY <1>0, <2>1, <2>3
    <3>2. QED
      BY <1>0, <3>1, GoneStep DEF Settled
  <2>4. QED
    BY <2>2, <2>3
<1>7. CASE Fail
  <2>1. /\ worker.job \in Jobs /\ worker.job \in started /\ worker.job \notin Range(queue)
        /\ worker.job \notin intermediate
    BY <1>7 DEF Fail, At, Running, TypeOK, HolderInv, OneHolder, InQueue
  <2>2. QED
    BY <1>2, <1>7, <2>1 DEF Fail
<1>8. ASSUME NEW k \in Jobs,
             \/ Admit(k) \/ Refuse(k) \/ Abort(k) \/ SavePayload(k) \/ AnnounceQueued(k)
      PROVE  Settled(j)'
  BY <1>1, <1>8 DEF Admit, Refuse, Abort, SavePayload, AnnounceQueued, rqVars
<1>9. ASSUME NEW k \in Jobs, Push(k) PROVE Settled(j)'
  <2>1. rq' = [rq EXCEPT ![k] = "queued"] /\ UNCHANGED <<result, cancel>>
    BY <1>9 DEF Push
  <2>2. CASE j = k
    BY <1>0, <2>1, <2>2 DEF Settled
  <2>3. QED
    BY <1>0, <1>1, <2>1, <2>2
<1>10. ASSUME NEW k \in Jobs, CancelStep(k) PROVE Settled(j)'
  <2>1. /\ UNCHANGED result /\ cancel'[k].pc # "none"
        /\ rq' \in {rq, [rq EXCEPT ![k] = "canceled"]}
        /\ j # k => cancel'[j] = cancel[j]
    BY <1>10, CancelKeepsPlace, CancelCall, CancelEffect DEF HolderInv
  <2>2. CASE rq'[j] = rq[j]
    BY <1>1, <2>1, <2>2
  <2>3. CASE rq'[j] # rq[j]
    <3>1. j = k /\ rq'[j] = "canceled"
      BY <1>0, <2>1, <2>3
    <3>2. QED
      BY <2>1, <3>1 DEF Settled
  <2>4. QED
    BY <2>2, <2>3
<1>11. ASSUME NEW k \in Jobs, Reclaim(k) PROVE Settled(j)'
  BY <1>2, <1>11 DEF Reclaim, HolderInv, OneHolder, InQueue
<1>12. QED
  BY <1>3, <1>4, <1>5, <1>6, <1>7, <1>8, <1>9, <1>10, <1>11, NextCases

LEMMA SettledAlways == Spec => []SettledInv
BY SettledInit, SettledStep, TypeCorrect, HolderAlways, PromiseInvAlways, CallAlways, PTL DEF Spec

(* Before enqueue_llm_call saves the payload of the job it pushed, nobody   *)
(* else writes one: a worker that is faster finds none and raises.          *)
Unsaved(j) ==
  api[j] = "pushed" =>
    /\ meta[j] = NoCall /\ result[j] = NoCall
    /\ worker.job = j => worker.mem = NoCall /\ worker.pc \in {"popped", "precheck", "raised"}

UnsavedInv == \A j \in Jobs : Unsaved(j)

(* A worker that finds no payload leaves it at that.                        *)
LEMMA UnsavedLocal ==
  ASSUME TypeOK, RetryInv, LocalStep, worker.mem = NoCall, meta[worker.job] = NoCall,
         result[worker.job] = NoCall, worker.pc \in {"popped", "precheck", "raised"}
  PROVE  worker' \in {[worker EXCEPT !.pc = "raised"],
                      [worker EXCEPT !.pc = "raised", !.timer = FALSE, !.inTry = FALSE]}
         /\ UNCHANGED meta
<1>1. worker.pc = "precheck"
  BY LocalKeepsPlace DEF LocalStep, Precheck, Process, AnnounceProcessing, EnterTry, Generate,
     OpenStream, AnnounceStreaming, Token, EmptyChunk, EndOfStream, StreamError, CheckChunk,
     CheckResult, Complete, AnnounceCompleted, Finalize, AnnounceCancelled, Reject, HandleError,
     AnnounceError, Timeout, At, Running
<1>2. Precheck \/ Timeout
  BY <1>1 DEF LocalStep, Precheck, Process, AnnounceProcessing, EnterTry, Generate,
     OpenStream, AnnounceStreaming, Token, EmptyChunk, EndOfStream, StreamError, CheckChunk,
     CheckResult, Complete, AnnounceCompleted, Finalize, AnnounceCancelled, Reject, HandleError,
     AnnounceError, At
<1>3. CASE Precheck
  BY <1>3 DEF Precheck, JobResult
<1>4. CASE Timeout
  BY <1>1, <1>4 DEF Timeout, RetryInv
<1>5. QED
  BY <1>2, <1>3, <1>4

LEMMA UnsavedStep ==
  TypeOK /\ HolderInv /\ RetryInv /\ UnsavedInv /\ [Next]_vars => UnsavedInv'
<1> SUFFICES ASSUME TypeOK, HolderInv, RetryInv, UnsavedInv, [Next]_vars,
                    NEW j \in Jobs, api'[j] = "pushed"
             PROVE  /\ meta'[j] = NoCall /\ result'[j] = NoCall
                    /\ worker'.job = j => /\ worker'.mem = NoCall
                                          /\ worker'.pc \in {"popped", "precheck", "raised"}
  BY DEF UnsavedInv, Unsaved
<1>0. /\ worker \in WorkerStates
      /\ api \in [Jobs -> {"idle", "admitted", "pushed", "saved", "returned", "refused",
                           "aborted"}]
      /\ meta \in [Jobs -> MaybeCalls] /\ result \in [Jobs -> MaybeCalls]
      /\ ~At("idle") => worker.job \in Jobs
      /\ IdleWorker.pc = "idle" /\ IdleWorker.job = NoJob /\ NoJob # j
      /\ Unsaved(j)
  BY JobsAssumption DEF TypeOK, IdleWorker, UnsavedInv
<1>1. CASE Push(j)
  <2>1. /\ Unpushed(j) /\ meta[j] = NoCall /\ result[j] = NoCall /\ UNCHANGED <<meta, result, worker>>
    BY <1>1 DEF Push, EnqueueAt, Unpushed, RetryInv
  <2>2. worker.job # j
    BY <1>0, <2>1 DEF HolderInv, OneHolder, UnpushedIsNowhere, Held, Running, RetryInv, At
  <2>3. QED
    BY <2>1, <2>2
<1>2. CASE api[j] = "pushed"
  <2> USE <1>2
  <2>0. /\ meta[j] = NoCall /\ result[j] = NoCall
        /\ worker.job = j => worker.mem = NoCall /\ worker.pc \in {"popped", "precheck", "raised"}
    BY <1>0 DEF Unsaved
  <2>1. CASE LocalStep
    <3>1. UNCHANGED result /\ worker'.job = worker.job /\ worker.job \in Jobs
      BY <1>0, <2>1, LocalKeepsPlace DEF rqVars, Running, At
    <3>2. CASE worker.job = j
      <4>1. worker' \in {[worker EXCEPT !.pc = "raised"],
                         [worker EXCEPT !.pc = "raised", !.timer = FALSE, !.inTry = FALSE]}
            /\ UNCHANGED meta
        BY <2>0, <2>1, <3>2, UnsavedLocal
      <4>2. worker'.pc = "raised" /\ worker'.mem = worker.mem
        BY <1>0, <4>1 DEF WorkerStates
      <4>3. QED
        BY <2>0, <3>1, <3>2, <4>1, <4>2
    <3>3. CASE worker.job # j
      <4>1. \/ meta' \in {meta, [meta EXCEPT ![worker.job] = worker'.mem]}
            \/ HandleError
        BY <2>1, LocalRetry
      <4>2. meta'[j] = meta[j]
        BY <1>0, <3>1, <3>3, <4>1 DEF HandleError, SaveMeta
      <4>3. QED
        BY <2>0, <3>1, <3>3, <4>2
    <3>4. QED
      BY <3>2, <3>3
  <2>2. CASE Dequeue
    <3>1. /\ worker' = [IdleWorker EXCEPT !.pc = "popped", !.job = Head(queue),
                                          !.mem = meta[Head(queue)]]
          /\ UNCHANGED <<meta, result>>
      BY <2>2 DEF Dequeue
    <3>2. worker'.pc = "popped" /\ worker'.job = Head(queue) /\ worker'.mem = meta[Head(queue)]
      BY <3>1 DEF IdleWorker
    <3>3. QED
      BY <2>0, <3>1, <3>2
  <2>3. CASE StartJob
    <3>1. worker'.pc = "precheck" /\ worker'.job = worker.job /\ worker'.mem = worker.mem
          /\ UNCHANGED <<meta, result>>
      BY <1>0, <2>3 DEF StartJob, WorkerStates
    <3>2. QED
      BY <2>0, <3>1
  <2>4. CASE Succeed
    BY <1>0, <2>0, <2>4 DEF Succeed, At
  <2>5. CASE Fail
    <3>1. /\ UNCHANGED result /\ worker' = IdleWorker
          /\ \/ UNCHANGED meta
             \/ worker.mem # NoCall /\ meta' = [meta EXCEPT ![worker.job] = worker.mem]
      BY <2>5 DEF Fail, SaveMeta
    <3>2. QED
      BY <1>0, <2>0, <3>1
  <2>6. CASE Crash
    BY <1>0, <2>0, <2>6 DEF Crash, rqVars
  <2>7. ASSUME NEW k \in Jobs,
               Admit(k) \/ Refuse(k) \/ Abort(k) \/ AnnounceQueued(k) \/ Push(k) \/ Reclaim(k)
        PROVE  UNCHANGED <<meta, result, worker>>
    BY <2>7 DEF Admit, Refuse, Abort, AnnounceQueued, Push, Reclaim, rqVars
  <2>8. ASSUME NEW k \in Jobs, SavePayload(k)
        PROVE  meta'[j] = meta[j] /\ UNCHANGED <<result, worker>>
    <3>1. api'[k] # "pushed"
      BY <1>0, <2>8 DEF SavePayload, EnqueueAt
    <3>2. QED
      BY <1>0, <2>8, <3>1 DEF SavePayload, SaveMeta, rqVars
  <2>9. ASSUME NEW k \in Jobs, CancelStep(k)
        PROVE  meta'[j] = meta[j] /\ UNCHANGED <<result, worker>>
    BY <2>9, CancelEffect, CancelKeepsPlace DEF HolderInv
  <2>10. CASE UNCHANGED vars
    BY <2>0, <2>10 DEF vars, rqVars
  <2>11. QED
    BY <2>0, <2>1, <2>2, <2>3, <2>4, <2>5, <2>6, <2>7, <2>8, <2>9, <2>10, NextCases
<1>3. ASSUME ~Push(j) PROVE api[j] = "pushed"
  <2>1. CASE LocalStep
    BY <2>1, LocalKeepsPlace
  <2>2. CASE Dequeue \/ StartJob \/ Succeed \/ Fail \/ Crash
    BY <2>2 DEF Dequeue, StartJob, Succeed, Fail, Crash
  <2>3. ASSUME NEW k \in Jobs,
               \/ Admit(k) \/ Refuse(k) \/ Abort(k) \/ AnnounceQueued(k) \/ SavePayload(k)
        PROVE  api[j] = "pushed"
    BY <1>0, <2>3 DEF Admit, Refuse, Abort, AnnounceQueued, SavePayload, EnqueueAt
  <2>4. ASSUME NEW k \in Jobs, Push(k) PROVE api[j] = "pushed"
    BY <1>0, <1>3, <2>4 DEF Push, EnqueueAt
  <2>5. ASSUME NEW k \in Jobs, Reclaim(k) \/ CancelStep(k) PROVE api[j] = "pushed"
    BY <2>5, CancelKeepsPlace DEF Reclaim, HolderInv
  <2>6. CASE UNCHANGED vars
    BY <2>6 DEF vars
  <2>7. QED
    BY <2>1, <2>2, <2>3, <2>4, <2>5, <2>6, NextCases
<1>4. QED
  BY <1>1, <1>2, <1>3

LEMMA UnsavedAlways == Spec => []UnsavedInv
<1>1. Init => UnsavedInv
  BY DEF Init, UnsavedInv, Unsaved
<1>2. QED
  BY <1>1, UnsavedStep, TypeCorrect, HolderAlways, RetryAlways, PTL DEF Spec

(* The worker writes no meta but that of its job.                           *)
LEMMA MetaLocal ==
  ASSUME TypeOK, LocalStep
  PROVE  \A j \in Jobs \ {worker.job} : meta'[j] = meta[j]
<1>0. meta \in [Jobs -> MaybeCalls]
  BY DEF TypeOK
<1>1. ASSUME NEW call, SaveMeta(worker.job, call)
      PROVE  \A j \in Jobs \ {worker.job} : meta'[j] = meta[j]
  BY <1>0, <1>1 DEF SaveMeta
<1>2. CASE Process \/ OpenStream \/ Complete \/ Finalize \/ Reject \/ HandleError
  BY <1>1, <1>2 DEF Process, OpenStream, Complete, Finalize, Reject, HandleError, Store
<1>3. CASE \/ Precheck \/ EnterTry \/ Generate \/ AnnounceProcessing \/ AnnounceStreaming
           \/ Token \/ EmptyChunk \/ EndOfStream \/ StreamError \/ CheckChunk \/ CheckResult
           \/ AnnounceCompleted \/ AnnounceCancelled \/ AnnounceError \/ Timeout
  BY <1>3 DEF Precheck, EnterTry, Generate, AnnounceProcessing, AnnounceStreaming, Token,
     EmptyChunk, EndOfStream, StreamError, CheckChunk, CheckResult, AnnounceCompleted,
     AnnounceCancelled, AnnounceError, Timeout, Announce
<1>4. QED
  BY <1>2, <1>3 DEF LocalStep

(* What the worker has announced, or is about to return, is in the meta.    *)
Ends == {"completed", "cancelled", "return"}

LEMMA LocalAgrees ==
  ASSUME TypeOK, LocalStep,
         worker.pc \in Ends => meta[worker.job].status = worker.call.status
  PROVE  worker'.pc \in Ends => meta'[worker.job].status = worker'.call.status
<1> USE DEF At, Ends
<1>0. worker \in WorkerStates /\ worker.job \in Jobs /\ meta \in [Jobs -> MaybeCalls]
  BY LocalKeepsPlace DEF TypeOK, Running
<1>s. ASSUME NEW status, NEW there, Store(status, there)
      PROVE  meta'[worker.job].status = worker'.call.status
  BY <1>0, <1>s DEF Store, SaveMeta, WorkerStates
<1>1. CASE Complete \/ Finalize \/ Reject
  BY <1>s, <1>1 DEF Complete, Finalize, Reject
<1>2. CASE AnnounceCompleted \/ AnnounceCancelled
  BY <1>0, <1>2 DEF AnnounceCompleted, AnnounceCancelled, Announce, Goto, WorkerStates
<1>3. CASE Precheck \/ EnterTry \/ Generate \/ AnnounceProcessing \/ AnnounceStreaming
  BY <1>0, <1>3 DEF Precheck, EnterTry, Generate, AnnounceProcessing, AnnounceStreaming,
     Announce, Goto, WorkerStates
<1>4. CASE Token \/ EmptyChunk \/ EndOfStream \/ StreamError \/ CheckChunk \/ CheckResult
  BY <1>0, <1>4 DEF Token, EmptyChunk, EndOfStream, StreamError, CheckChunk, CheckResult,
     WorkerStates
<1>5. CASE Process \/ OpenStream
  BY <1>0, <1>5 DEF Process, OpenStream, Store, WorkerStates
<1>6. CASE HandleError \/ AnnounceError \/ Timeout
  <2>1. worker'.pc \in {"except", "excepted", "raised"}
    <3>1. CASE HandleError
      BY <1>0, <3>1 DEF HandleError, WorkerStates
    <3>2. CASE AnnounceError
      BY <1>0, <3>2 DEF AnnounceError, Announce, Goto, WorkerStates
    <3>3. CASE Timeout
      BY <1>0, <3>3 DEF Timeout, WorkerStates
    <3>4. QED
      BY <1>6, <3>1, <3>2, <3>3
  <2>2. QED
    BY <2>1
<1>7. QED
  BY <1>1, <1>2, <1>3, <1>4, <1>5, <1>6 DEF LocalStep

(* Of a job nobody cancels, get_job_result finds the same status in the     *)
(* meta as in the stored result, whichever of them RQ offers.               *)
Agrees(j) ==
  cancel[j].pc = "none" =>
    /\ result[j] # NoCall => meta[j].status = result[j].status
    /\ worker.job = j /\ worker.pc \in Ends => meta[j].status = worker.call.status

AgreeInv == \A j \in Jobs : Agrees(j)

(* A job somebody asked to cancel is never again one nobody did.            *)
LEMMA CancelStays ==
  ASSUME TypeOK, HolderInv, CancelInv, [Next]_vars, NEW j \in Jobs, cancel'[j].pc = "none"
  PROVE  cancel[j].pc = "none"
<1>1. CASE LocalStep
  BY <1>1, LocalKeepsPlace
<1>2. CASE Dequeue \/ StartJob \/ Succeed \/ Fail \/ Crash
  BY <1>2 DEF Dequeue, StartJob, Succeed, Fail, Crash
<1>3. ASSUME NEW k \in Jobs,
             \/ Admit(k) \/ Refuse(k) \/ Abort(k) \/ AnnounceQueued(k) \/ SavePayload(k)
             \/ Push(k) \/ Reclaim(k)
      PROVE  UNCHANGED cancel
  BY <1>3 DEF Admit, Refuse, Abort, AnnounceQueued, SavePayload, Push, Reclaim
<1>4. ASSUME NEW k \in Jobs, CancelStep(k) PROVE cancel[j].pc = "none"
  BY <1>4, CancelEffect, CancelCall
<1>5. CASE UNCHANGED vars
  BY <1>5 DEF vars
<1>6. QED
  BY <1>1, <1>2, <1>3, <1>4, <1>5, NextCases

LEMMA AgreeStep ==
  TypeOK /\ HolderInv /\ PromiseInv /\ CancelInv /\ UnsavedInv /\ AgreeInv /\ [Next]_vars
  => AgreeInv'
<1> SUFFICES ASSUME TypeOK, HolderInv, PromiseInv, CancelInv, UnsavedInv, AgreeInv, [Next]_vars,
                    NEW j \in Jobs, cancel'[j].pc = "none"
             PROVE  /\ result'[j] # NoCall => meta'[j].status = result'[j].status
                    /\ worker'.job = j /\ worker'.pc \in Ends
                         => meta'[j].status = worker'.call.status
  BY DEF AgreeInv, Agrees
<1>0. /\ worker \in WorkerStates
      /\ meta \in [Jobs -> MaybeCalls] /\ result \in [Jobs -> MaybeCalls]
      /\ ~At("idle") => worker.job \in Jobs
      /\ IdleWorker.pc \notin Ends
      /\ Agrees(j)
  BY DEF TypeOK, IdleWorker, AgreeInv, Ends
<1>c. cancel[j].pc = "none"
  BY CancelStays
<1>a. /\ result[j] # NoCall => meta[j].status = result[j].status
      /\ worker.job = j /\ worker.pc \in Ends => meta[j].status = worker.call.status
      /\ worker.job = j /\ Running => result[j] = NoCall /\ worker.job \in started
  BY <1>0, <1>c DEF Agrees, PromiseInv, Held, HolderInv, OneHolder
<1>1. ASSUME meta'[j] = meta[j], UNCHANGED result, worker' = worker \/ worker'.pc \notin Ends
      PROVE  /\ result'[j] # NoCall => meta'[j].status = result'[j].status
             /\ worker'.job = j /\ worker'.pc \in Ends => meta'[j].status = worker'.call.status
  BY <1>a, <1>1
<1>2. CASE LocalStep
  <2>1. UNCHANGED result /\ worker'.job = worker.job /\ worker.job \in Jobs /\ Running
    BY <1>0, <1>2, LocalKeepsPlace DEF rqVars, Running, At
  <2>2. CASE worker.job = j
    <3>1. result'[j] = NoCall
      BY <1>a, <2>1, <2>2
    <3>2. worker'.pc \in Ends => meta'[worker.job].status = worker'.call.status
      BY <1>a, <1>2, <2>2, LocalAgrees
    <3>3. QED
      BY <2>1, <2>2, <3>1, <3>2
  <2>3. CASE worker.job # j
    <3>1. meta'[j] = meta[j]
      BY <1>2, <2>3, MetaLocal
    <3>2. QED
      BY <1>a, <2>1, <2>3, <3>1
  <2>4. QED
    BY <2>2, <2>3
<1>3. CASE Dequeue
  <2>1. worker'.pc = "popped" /\ UNCHANGED <<meta, result>>
    BY <1>3 DEF Dequeue, IdleWorker
  <2>2. QED
    BY <1>1, <2>1 DEF Ends
<1>4. CASE StartJob
  <2>1. worker'.pc = "precheck" /\ UNCHANGED <<meta, result>>
    BY <1>0, <1>4 DEF StartJob, WorkerStates
  <2>2. QED
    BY <1>1, <2>1 DEF Ends
<1>5. CASE Succeed
  <2>1. /\ result' = [result EXCEPT ![worker.job] = worker.call] /\ worker' = IdleWorker
        /\ UNCHANGED meta /\ worker.pc = "return" /\ worker.job \in Jobs
    BY <1>0, <1>5 DEF Succeed, At
  <2>2. CASE worker.job = j
    BY <1>0, <1>a, <2>1, <2>2 DEF Ends
  <2>3. QED
    BY <1>0, <1>a, <2>1, <2>2
<1>6. CASE Fail
  <2>1. /\ UNCHANGED result /\ worker' = IdleWorker /\ Running /\ worker.job \in Jobs
        /\ \/ UNCHANGED meta
           \/ meta' = [meta EXCEPT ![worker.job] = worker.mem]
    BY <1>0, <1>6 DEF Fail, SaveMeta, At, Running
  <2>2. CASE worker.job = j
    BY <1>0, <1>a, <2>1, <2>2
  <2>3. CASE worker.job # j
    <3>1. meta'[j] = meta[j]
      BY <1>0, <2>1, <2>3
    <3>2. QED
      BY <1>0, <1>1, <2>1, <3>1
  <2>4. QED
    BY <2>2, <2>3
<1>7. CASE Crash \/ UNCHANGED vars
  BY <1>0, <1>1, <1>7 DEF Crash, rqVars, vars
<1>8. ASSUME NEW k \in Jobs,
             Admit(k) \/ Refuse(k) \/ Abort(k) \/ AnnounceQueued(k) \/ Push(k) \/ Reclaim(k)
      PROVE  UNCHANGED <<meta, result, worker>>
  BY <1>8 DEF Admit, Refuse, Abort, AnnounceQueued, Push, Reclaim, rqVars
<1>9. ASSUME NEW k \in Jobs, SavePayload(k)
      PROVE  /\ result'[j] # NoCall => meta'[j].status = result'[j].status
             /\ worker'.job = j /\ worker'.pc \in Ends => meta'[j].status = worker'.call.status
  <2>1. /\ UNCHANGED <<result, worker>> /\ meta' = [meta EXCEPT ![k] = NewCall]
        /\ api[k] = "pushed"
    BY <1>9 DEF SavePayload, SaveMeta, rqVars, EnqueueAt
  <2>2. CASE k = j
    BY <2>1, <2>2 DEF UnsavedInv, Unsaved, Ends
  <2>3. CASE k # j
    BY <1>0, <1>1, <2>1, <2>3
  <2>4. QED
    BY <2>2, <2>3
<1>10. ASSUME NEW k \in Jobs, CancelStep(k)
       PROVE  meta'[j] = meta[j] /\ UNCHANGED <<result, worker>>
  <2>1. k # j
    BY <1>10, CancelCall
  <2>2. QED
    BY <1>10, <2>1, CancelEffect, CancelKeepsPlace DEF HolderInv
<1>11. QED
  BY <1>1, <1>2, <1>3, <1>4, <1>5, <1>6, <1>7, <1>8, <1>9, <1>10, NextCases

LEMMA AgreeAlways == Spec => []AgreeInv
<1>1. Init => AgreeInv
  BY DEF Init, AgreeInv, Agrees, IdleWorker, Ends
<1>2. QED
  BY <1>1, AgreeStep, TypeCorrect, HolderAlways, PromiseInvAlways, CallAlways, UnsavedAlways,
     PTL DEF Spec

-----------------------------------------------------------------------------
(* The queue under its readers                                              *)

WaiterStep(j) == Wait(j) \/ Waiter(j) \/ DeadlinePasses(j)
ReaderStep(j) == Subscribe(j) \/ Receive(j) \/ GiveUp(j)

LEMMA ReadCases ==
  [ReadNext]_readVars =>
    \/ [Next]_vars /\ UNCHANGED <<waiter, reader>>
    \/ \E j \in Jobs : WaiterStep(j) /\ UNCHANGED <<vars, reader>>
    \/ \E j \in Jobs : ReaderStep(j) /\ UNCHANGED <<vars, waiter>>
BY DEF ReadNext, readVars, WaiterStep, ReaderStep, Wait, Waiter, PollPayload, PollStatus,
   FetchResult, DeadlinePasses, WaiterOnly, Subscribe, Receive, GiveUp, ReaderOnly

(* The clients only read: the queue under them behaves as LLMQueue says.    *)
LEMMA QueueUnderReaders == ReadSpec => Spec
<1>1. ReadInit => Init
  BY DEF ReadInit
<1>2. [ReadNext]_readVars => [Next]_vars
  BY ReadCases
<1>3. QED
  BY <1>1, <1>2, PTL DEF ReadSpec, Spec

(* What is known of the queue whenever a client looks at it.                *)
QueueInv ==
  /\ TypeOK /\ PayloadKept /\ HolderInv /\ PromiseInv /\ CallInv /\ CancelInv /\ TextInv
  /\ EndInv /\ SettledInv /\ AgreeInv

LEMMA QueueInvAlways == ReadSpec => []QueueInv
<1>1. Spec => []QueueInv
  BY TypeCorrect, HolderAlways, PromiseInvAlways, CallAlways, TextAlways, EndAlways,
     SettledAlways, AgreeAlways, PTL DEF QueueInv
<1>2. QED
  BY <1>1, QueueUnderReaders, PTL

(* enqueue_llm_call returns once.                                           *)
LEMMA ReturnedStays ==
  ASSUME TypeOK, HolderInv, [Next]_vars, NEW j \in Jobs, api[j] = "returned"
  PROVE  api'[j] = "returned"
<1>0. api \in [Jobs -> {"idle", "admitted", "pushed", "saved", "returned", "refused",
                        "aborted"}]
  BY DEF TypeOK
<1>1. CASE LocalStep
  BY <1>1, LocalKeepsPlace
<1>2. CASE Dequeue \/ StartJob \/ Succeed \/ Fail \/ Crash
  BY <1>2 DEF Dequeue, StartJob, Succeed, Fail, Crash
<1>3. ASSUME NEW k \in Jobs,
             \/ Admit(k) \/ Refuse(k) \/ Abort(k) \/ AnnounceQueued(k) \/ SavePayload(k) \/ Push(k)
      PROVE  api'[j] = "returned"
  BY <1>0, <1>3 DEF Admit, Refuse, Abort, AnnounceQueued, SavePayload, Push, EnqueueAt, InEnqueue
<1>4. ASSUME NEW k \in Jobs, Reclaim(k) \/ CancelStep(k) PROVE api'[j] = "returned"
  BY <1>4, CancelKeepsPlace DEF Reclaim, HolderInv
<1>5. CASE UNCHANGED vars
  BY <1>5 DEF vars
<1>6. QED
  BY <1>1, <1>2, <1>3, <1>4, <1>5, NextCases

(* What RQ has settled, and what it stored then, stays as it is, unless     *)
(* somebody cancels the job.                                                *)
LEMMA OutcomeStays ==
  ASSUME QueueInv, [Next]_vars, NEW j \in Jobs, rq[j] \in {"finished", "failed"},
         cancel'[j].pc = "none"
  PROVE  rq'[j] = rq[j] /\ result'[j] = result[j]
<1>0. /\ ~Held(j) /\ ~InQueue(j) /\ j \notin intermediate /\ j \notin started
      /\ rq \in [Jobs -> {"none", "queued", "started", "finished", "failed", "canceled"}]
      /\ result \in [Jobs -> MaybeCalls]
      /\ TypeOK /\ HolderInv /\ CancelInv
      /\ Running => worker.job \in started
      /\ At("popped") => worker.job \in intermediate
  BY DEF QueueInv, SettledInv, Settled, Held, TypeOK, HolderInv, OneHolder, At
<1>1. ASSUME NEW k \in Jobs, RetryOrFail(k), k # j PROVE rq'[j] = rq[j]
  BY <1>0, <1>1 DEF RetryOrFail
<1>2. CASE LocalStep
  BY <1>0, <1>2, LocalKeepsPlace DEF rqVars
<1>3. CASE Dequeue \/ Crash \/ UNCHANGED vars
  BY <1>3 DEF Dequeue, Crash, rqVars, vars
<1>4. CASE StartJob \/ Succeed
  BY <1>0, <1>4 DEF StartJob, Succeed, At, Running
<1>5. CASE Fail
  <2>1. worker.job # j /\ worker.job \in Jobs
    BY <1>0, <1>5 DEF Fail, At, Running, TypeOK
  <2>2. QED
    BY <1>1, <1>5, <2>1 DEF Fail
<1>6. ASSUME NEW k \in Jobs,
             Admit(k) \/ Refuse(k) \/ Abort(k) \/ AnnounceQueued(k) \/ SavePayload(k)
      PROVE  UNCHANGED <<rq, result>>
  BY <1>6 DEF Admit, Refuse, Abort, AnnounceQueued, SavePayload, rqVars
<1>7. ASSUME NEW k \in Jobs, Push(k) PROVE rq'[j] = rq[j] /\ UNCHANGED result
  <2>1. rq[k] = "none"
    BY <1>0, <1>7 DEF Push, EnqueueAt, HolderInv, UnpushedIsNowhere, Unpushed
  <2>2. QED
    BY <1>0, <1>7, <2>1 DEF Push
<1>8. ASSUME NEW k \in Jobs, Reclaim(k) PROVE rq'[j] = rq[j] /\ UNCHANGED result
  BY <1>0, <1>1, <1>8 DEF Reclaim
<1>9. ASSUME NEW k \in Jobs, CancelStep(k) PROVE rq'[j] = rq[j] /\ UNCHANGED result
  <2>1. k # j
    BY <1>0, <1>9, CancelCall
  <2>2. QED
    BY <1>0, <1>9, <2>1, CancelKeepsPlace DEF HolderInv
<1>10. QED
  BY <1>2, <1>3, <1>4, <1>5, <1>6, <1>7, <1>8, <1>9, NextCases

-----------------------------------------------------------------------------
(* wait_for_job_result                                                      *)

WaiterStates ==
  [pc: {"none", "polling", "polled", "ended", "returned", "expired"},
   call: MaybeCalls, late: BOOLEAN, answer: Statuses \cup {"none"}]

(* What waiter w of a job knows: an outcome of the job only once RQ has     *)
(* settled it, and of a job nobody cancels the outcome that RQ stored.      *)
WaiterOK(w, j) ==
  /\ w \in WaiterStates
  /\ w.pc # "none" => api[j] = "returned"
  /\ w.pc \in {"polled", "ended"} => w.call \in Calls
  /\ w.pc = "returned" => w.answer \in Statuses
  /\ cancel[j].pc = "none" =>
       /\ w.call.status # "cancelled" /\ w.answer # "cancelled"
       /\ w.pc \in {"ended", "returned"} => rq[j] \in {"finished", "failed"}
       /\ w.pc = "returned" /\ rq[j] = "finished" => w.answer = result[j].status

WaiterInv == waiter \in [Jobs -> WaiterStates] /\ \A j \in Jobs : WaiterOK(waiter[j], j)

(* What a client finds when it reads the result of a job.                   *)
LEMMA ReadResult ==
  ASSUME QueueInv, NEW j \in Jobs, api[j] = "returned"
  PROVE  /\ JobResult(j) \in Calls /\ JobResult(j).status \in Statuses
         /\ cancel[j].pc = "none" => JobResult(j).status # "cancelled"
         /\ cancel[j].pc = "none" /\ rq[j] = "finished" => JobResult(j).status = result[j].status
<1>1. meta[j] \in Calls /\ result[j] \in MaybeCalls
  BY DEF QueueInv, PayloadKept, TypeOK
<1>2. JobResult(j) \in Calls
  BY <1>1 DEF JobResult, MaybeCalls
<1>3. JobResult(j).status \in Statuses
  BY <1>2 DEF Calls
<1>4. cancel[j].pc = "none" => JobResult(j).status # "cancelled"
  BY DEF QueueInv, CancelInv, Clean, JobResult
<1>5. cancel[j].pc = "none" /\ rq[j] = "finished" => JobResult(j).status = result[j].status
  BY DEF QueueInv, AgreeInv, Agrees, SettledInv, Settled, JobResult
<1>6. QED
  BY <1>2, <1>3, <1>4, <1>5

LEMMA WaiterQueueStep ==
  ASSUME QueueInv, [Next]_vars, NEW j \in Jobs, NEW w, WaiterOK(w, j)
  PROVE  WaiterOK(w, j)'
<1>1. w.pc # "none" => api'[j] = "returned"
  BY ReturnedStays DEF WaiterOK, QueueInv
<1>2. ASSUME cancel'[j].pc = "none" PROVE cancel[j].pc = "none"
  BY <1>2, CancelStays DEF QueueInv
<1>3. ASSUME cancel'[j].pc = "none", w.pc \in {"ended", "returned"}
      PROVE  /\ rq'[j] \in {"finished", "failed"}
             /\ w.pc = "returned" /\ rq'[j] = "finished" => w.answer = result'[j].status
  <2>1. /\ rq[j] \in {"finished", "failed"}
        /\ w.pc = "returned" /\ rq[j] = "finished" => w.answer = result[j].status
    BY <1>2, <1>3 DEF WaiterOK
  <2>2. rq'[j] = rq[j] /\ result'[j] = result[j]
    BY <1>3, <2>1, OutcomeStays
  <2>3. QED
    BY <2>1, <2>2
<1>4. QED
  BY <1>1, <1>2, <1>3 DEF WaiterOK

(* A poll that says the job has ended says so of a job RQ has settled.      *)
LEMMA PollIsTrue ==
  ASSUME QueueInv, NEW j \in Jobs, WaiterOK(waiter[j], j), cancel[j].pc = "none",
         waiter[j].pc = "polled", PolledStatus(j) \in Terminal
  PROVE  rq[j] \in {"finished", "failed"}
<1>1. /\ rq[j] \in {"queued", "started", "finished", "failed", "canceled"}
      /\ waiter[j].call.status # "cancelled"
      /\ rq[j] # "canceled"
  BY DEF QueueInv, WaiterOK, PromiseInv, TypeOK, SettledInv, Settled
<1>2. CASE rq[j] = "queued"
  BY <1>2 DEF PolledStatus, Terminal
<1>3. CASE rq[j] = "started" /\ waiter[j].call.status # "streaming"
  <2>1. PolledStatus(j) = "processing"
    BY <1>1, <1>3 DEF PolledStatus
  <2>2. QED
    BY <2>1 DEF Terminal
<1>4. CASE rq[j] = "started" /\ waiter[j].call.status = "streaming"
  <2>1. PolledStatus(j) = "streaming"
    BY <1>1, <1>4 DEF PolledStatus
  <2>2. QED
    BY <2>1 DEF Terminal
<1>5. QED
  BY <1>1, <1>2, <1>3, <1>4

LEMMA WaiterOwnStep ==
  ASSUME QueueInv, WaiterInv, NEW j \in Jobs, WaiterStep(j), UNCHANGED vars
  PROVE  /\ WaiterOK(waiter'[j], j)
         /\ waiter' = [waiter EXCEPT ![j] = waiter'[j]]
<1>0. /\ WaiterOK(waiter[j], j) /\ waiter[j] \in WaiterStates /\ j \in DOMAIN waiter
  BY DEF WaiterInv, WaiterOK
<1>1. CASE Wait(j)
  <2>1. /\ waiter' = [waiter EXCEPT ![j].pc = "polling"]
        /\ waiter[j].pc = "none" /\ api[j] = "returned"
    BY <1>1 DEF Wait, WaiterAt
  <2>2. waiter'[j] = [waiter[j] EXCEPT !.pc = "polling"]
    BY <1>0, <2>1
  <2>3. WaiterOK(waiter'[j], j)
    BY <1>0, <2>1, <2>2 DEF WaiterOK, WaiterStates
  <2>4. QED
    BY <1>0, <2>1, <2>2, <2>3
<1>2. CASE PollPayload(j)
  <2>1. /\ waiter' = [waiter EXCEPT ![j].pc = "polled", ![j].call = JobResult(j)]
        /\ waiter[j].pc = "polling"
    BY <1>2 DEF PollPayload, WaiterAt
  <2>2. waiter'[j] = [waiter[j] EXCEPT !.pc = "polled", !.call = JobResult(j)]
    BY <1>0, <2>1
  <2>3. /\ JobResult(j) \in Calls /\ JobResult(j) \in MaybeCalls /\ api[j] = "returned"
        /\ cancel[j].pc = "none" => JobResult(j).status # "cancelled"
    BY <1>0, <2>1, ReadResult DEF WaiterOK, MaybeCalls
  <2>4. WaiterOK(waiter'[j], j)
    BY <1>0, <2>1, <2>2, <2>3 DEF WaiterOK, WaiterStates
  <2>5. QED
    BY <1>0, <2>1, <2>2, <2>4
<1>3. CASE PollStatus(j)
  <2> DEFINE next == IF PolledStatus(j) \in Terminal THEN "ended"
                     ELSE IF waiter[j].late THEN "expired" ELSE "polling"
  <2>1. waiter' = [waiter EXCEPT ![j].pc = next] /\ waiter[j].pc = "polled"
    BY <1>3 DEF PollStatus, WaiterAt
  <2>2. next \in {"ended", "expired", "polling"}
    OBVIOUS
  <2>3. next = "ended" /\ cancel[j].pc = "none" => rq[j] \in {"finished", "failed"}
    BY <1>0, <2>1, PollIsTrue
  <2> HIDE DEF next
  <2>4. waiter'[j] = [waiter[j] EXCEPT !.pc = next]
    BY <1>0, <2>1
  <2>5. WaiterOK(waiter'[j], j)
    BY <1>0, <2>1, <2>2, <2>3, <2>4 DEF WaiterOK, WaiterStates
  <2>6. QED
    BY <1>0, <2>1, <2>4, <2>5
<1>4. CASE FetchResult(j)
  <2>1. /\ waiter' = [waiter EXCEPT ![j].pc = "returned", ![j].answer = JobResult(j).status]
        /\ waiter[j].pc = "ended"
    BY <1>4 DEF FetchResult, WaiterAt
  <2>2. waiter'[j] = [waiter[j] EXCEPT !.pc = "returned", !.answer = JobResult(j).status]
    BY <1>0, <2>1
  <2>3. /\ JobResult(j).status \in Statuses /\ api[j] = "returned"
        /\ cancel[j].pc = "none" => JobResult(j).status # "cancelled"
        /\ cancel[j].pc = "none" /\ rq[j] = "finished" => JobResult(j).status = result[j].status
    BY <1>0, <2>1, ReadResult DEF WaiterOK
  <2>4. WaiterOK(waiter'[j], j)
    BY <1>0, <2>1, <2>2, <2>3 DEF WaiterOK, WaiterStates
  <2>5. QED
    BY <1>0, <2>1, <2>2, <2>4
<1>5. CASE DeadlinePasses(j)
  <2>1. waiter' = [waiter EXCEPT ![j].late = TRUE]
    BY <1>5 DEF DeadlinePasses
  <2>2. waiter'[j] = [waiter[j] EXCEPT !.late = TRUE]
    BY <1>0, <2>1
  <2>3. WaiterOK(waiter'[j], j)
    BY <1>0, <2>2 DEF WaiterOK, WaiterStates
  <2>4. QED
    BY <1>0, <2>1, <2>2, <2>3
<1>6. QED
  BY <1>1, <1>2, <1>3, <1>4, <1>5 DEF WaiterStep, Waiter

LEMMA WaiterAlways == ReadSpec => []WaiterInv
<1>1. ReadInit => WaiterInv
  BY CallTypes DEF ReadInit, WaiterInv, WaiterOK, WaiterStates, NoWaiter, NoCall
<1>2. QueueInv /\ WaiterInv /\ [ReadNext]_readVars => WaiterInv'
  <2> SUFFICES ASSUME QueueInv, WaiterInv, [ReadNext]_readVars
               PROVE  WaiterInv'
    OBVIOUS
  <2>1. CASE [Next]_vars /\ UNCHANGED <<waiter, reader>>
    <3>1. ASSUME NEW j \in Jobs PROVE WaiterOK(waiter[j], j)'
      <4>1. \A w : WaiterOK(w, j) => WaiterOK(w, j)'
        BY <2>1, WaiterQueueStep
      <4>2. WaiterOK(waiter[j], j)
        BY DEF WaiterInv
      <4>3. QED
        BY <2>1, <4>1, <4>2
    <3>2. QED
      BY <2>1, <3>1 DEF WaiterInv
  <2>2. ASSUME UNCHANGED vars, NEW w, NEW j \in Jobs, WaiterOK(w, j) PROVE WaiterOK(w, j)'
    BY <2>2 DEF WaiterOK, vars, rqVars
  <2>3. ASSUME NEW k \in Jobs, WaiterStep(k), UNCHANGED <<vars, reader>>
        PROVE  WaiterInv'
    <3>1. WaiterOK(waiter'[k], k) /\ waiter' = [waiter EXCEPT ![k] = waiter'[k]]
      BY <2>3, WaiterOwnStep
    <3>2. waiter' \in [Jobs -> WaiterStates] /\ \A j \in Jobs : WaiterOK(waiter'[j], j)
      BY <3>1 DEF WaiterInv, WaiterOK
    <3>3. QED
      BY <2>2, <2>3, <3>2 DEF WaiterInv
  <2>4. CASE \E j \in Jobs : ReaderStep(j) /\ UNCHANGED <<vars, waiter>>
    BY <2>2, <2>4 DEF WaiterInv
  <2>5. QED
    BY <2>1, <2>3, <2>4, ReadCases
<1>3. QED
  BY <1>1, <1>2, QueueInvAlways, PTL DEF ReadSpec

(* Whoever asks for a job nobody cancels is told what RQ stored, or that    *)
(* the job failed, and only once RQ is done with it, although the poll      *)
(* reads the payload and the status at different moments.                   *)
THEOREM WaiterGetsOutcomeAlways == ReadSpec => []WaiterGetsOutcome
<1>1. WaiterInv => WaiterGetsOutcome
  <2> SUFFICES ASSUME WaiterInv, NEW j \in Jobs, waiter[j].pc = "returned",
                      cancel[j].pc = "none"
               PROVE  /\ \/ rq[j] = "finished" /\ waiter[j].answer = result[j].status
                         \/ rq[j] = "failed"
                      /\ AskOutcome(j) \in {"answer", "generation failed"}
    BY DEF WaiterGetsOutcome
  <2>1. WaiterOK(waiter[j], j)
    BY DEF WaiterInv
  <2>2. CASE waiter[j].answer = "completed"
    <3>1. AskOutcome(j) = "answer"
      BY <2>2 DEF AskOutcome
    <3>2. QED
      BY <2>1, <3>1 DEF WaiterOK
  <2>3. CASE waiter[j].answer # "completed"
    <3>1. waiter[j].answer \notin {"completed", "cancelled"}
      BY <2>1, <2>3 DEF WaiterOK
    <3>2. AskOutcome(j) = "generation failed"
      BY <3>1 DEF AskOutcome
    <3>3. QED
      BY <2>1, <3>2 DEF WaiterOK
  <2>4. QED
    BY <2>2, <2>3
<1>2. QED
  BY <1>1, WaiterAlways, PTL

-----------------------------------------------------------------------------
(* stream_llm_events                                                        *)

ReaderStates ==
  [pc: {"none", "reading", "ended", "expired"}, pos: Nat, end: Statuses \cup {"none"}]

(* What reader r knows of stream s: while it reads, no event up to its      *)
(* position closed the stream; once it has ended, the last one did.         *)
ReaderOK(r, s) ==
  /\ r \in ReaderStates
  /\ r.pos <= Len(s)
  /\ r.pc = "none" => r.pos = 0
  /\ r.pc = "reading" => \A i \in 1..r.pos : ~Closes(s[i])
  /\ r.pc = "ended" => r.pos # 0 /\ Closes(s[r.pos]) /\ r.end = s[r.pos].status

ReaderInv == reader \in [Jobs -> ReaderStates] /\ \A j \in Jobs : ReaderOK(reader[j], stream[j])

(* A stream only grows, behind its readers.                                 *)
LEMMA ReaderQueueStep ==
  ASSUME QueueInv, [Next]_vars, NEW j \in Jobs, NEW r, ReaderOK(r, stream[j])
  PROVE  ReaderOK(r, stream'[j])
<1>0. stream[j] \in Seq(Events) /\ Grows(j)
  BY StreamGrows DEF QueueInv, TypeOK
<1>1. CASE stream'[j] = stream[j]
  BY <1>1
<1>2. ASSUME NEW e \in Events, stream'[j] = Append(stream[j], e)
      PROVE  ReaderOK(r, stream'[j])
  <2>1. /\ Len(stream[j]) \in Nat /\ Len(stream'[j]) = Len(stream[j]) + 1
        /\ \A i \in 1..Len(stream[j]) : stream'[j][i] = stream[j][i]
    BY <1>0, <1>2, AppendKeeps
  <2>2. r.pos \in Nat /\ r.pos <= Len(stream[j])
    BY DEF ReaderOK, ReaderStates
  <2>3. \A i \in 1..r.pos : stream'[j][i] = stream[j][i]
    BY <2>1, <2>2
  <2>4. r.pos # 0 => stream'[j][r.pos] = stream[j][r.pos]
    BY <2>2, <2>3
  <2>5. QED
    BY <2>1, <2>2, <2>3, <2>4 DEF ReaderOK
<1>3. QED
  BY <1>0, <1>1, <1>2 DEF Grows

LEMMA ReaderOwnStep ==
  ASSUME QueueInv, ReaderInv, NEW j \in Jobs, ReaderStep(j), UNCHANGED vars
  PROVE  /\ ReaderOK(reader'[j], stream[j])
         /\ reader' = [reader EXCEPT ![j] = reader'[j]]
<1> DEFINE s == stream[j]
<1>0. /\ ReaderOK(reader[j], s) /\ reader[j] \in ReaderStates /\ j \in DOMAIN reader
      /\ s \in Seq(Events) /\ Len(s) \in Nat
  BY DEF ReaderInv, ReaderOK, QueueInv, TypeOK
<1>1. CASE Subscribe(j)
  <2>1. reader' = [reader EXCEPT ![j].pc = "reading"] /\ reader[j].pc = "none"
    BY <1>1 DEF Subscribe
  <2>2. reader'[j] = [reader[j] EXCEPT !.pc = "reading"]
    BY <1>0, <2>1
  <2>3. reader[j].pos = 0
    BY <1>0, <2>1 DEF ReaderOK
  <2>4. ReaderOK(reader'[j], s)
    BY <1>0, <2>1, <2>2, <2>3 DEF ReaderOK, ReaderStates
  <2>5. QED
    BY <1>0, <2>1, <2>2, <2>4
<1>2. CASE Receive(j)
  <2> DEFINE n == reader[j].pos + 1
             e == s[n]
  <2>1. /\ reader' = [reader EXCEPT
                        ![j].pos = n,
                        ![j].pc = IF Closes(e) THEN "ended" ELSE @,
                        ![j].end = IF Closes(e) THEN e.status ELSE @]
        /\ reader[j].pc = "reading" /\ reader[j].pos < Len(s)
    BY <1>0, <1>2 DEF Receive, ReaderStates
  <2>2. n \in Nat /\ n # 0 /\ n <= Len(s) /\ n = reader[j].pos + 1
    BY <1>0, <2>1 DEF ReaderStates
  <2>3. e \in Events /\ e.status \in Statuses
    <3>1. e \in Events
      BY <1>0, <2>2
    <3>2. QED
      BY <3>1 DEF Events
  <2>4. \A i \in 1..reader[j].pos : ~Closes(s[i])
    BY <1>0, <2>1 DEF ReaderOK
  <2>5. CASE Closes(e)
    <3>1. reader'[j] = [reader[j] EXCEPT !.pos = n, !.pc = "ended", !.end = e.status]
          /\ e = s[n]
      BY <1>0, <2>1, <2>5
    <3>2. reader'[j] \in ReaderStates
      BY <1>0, <2>2, <2>3, <3>1 DEF ReaderStates
    <3>3. reader'[j].pc = "ended" /\ reader'[j].pos = n /\ reader'[j].end = s[n].status
      BY <1>0, <3>1 DEF ReaderStates
    <3>4. ReaderOK(reader'[j], s)
      BY <2>2, <2>5, <3>2, <3>3 DEF ReaderOK
    <3>5. QED
      BY <1>0, <2>1, <2>5, <3>1, <3>4
  <2>6. CASE ~Closes(e)
    <3>1. reader'[j] = [reader[j] EXCEPT !.pos = n]
      BY <1>0, <2>1, <2>6
    <3>2. reader'[j] \in ReaderStates /\ reader'[j].pc = "reading" /\ reader'[j].pos = n
      BY <1>0, <2>1, <2>2, <3>1 DEF ReaderStates
    <3>3. \A i \in 1..n : ~Closes(s[i])
      BY <1>0, <2>2, <2>4, <2>6 DEF ReaderStates
    <3>4. ReaderOK(reader'[j], s)
      BY <2>2, <3>2, <3>3 DEF ReaderOK
    <3>5. QED
      BY <1>0, <2>1, <2>6, <3>1, <3>4
  <2>7. QED
    BY <2>5, <2>6
<1>3. CASE GiveUp(j)
  <2>1. reader' = [reader EXCEPT ![j].pc = "expired"]
    BY <1>3 DEF GiveUp
  <2>2. reader'[j] = [reader[j] EXCEPT !.pc = "expired"]
    BY <1>0, <2>1
  <2>3. ReaderOK(reader'[j], s)
    BY <1>0, <2>2 DEF ReaderOK, ReaderStates
  <2>4. QED
    BY <1>0, <2>1, <2>2, <2>3
<1>4. QED
  BY <1>1, <1>2, <1>3 DEF ReaderStep

LEMMA ReaderAlways == ReadSpec => []ReaderInv
<1>1. ReadInit => ReaderInv
  BY DEF ReadInit, Init, ReaderInv, ReaderOK, ReaderStates, NoReader
<1>2. QueueInv /\ ReaderInv /\ [ReadNext]_readVars => ReaderInv'
  <2> SUFFICES ASSUME QueueInv, ReaderInv, [ReadNext]_readVars
               PROVE  ReaderInv'
    OBVIOUS
  <2>1. CASE [Next]_vars /\ UNCHANGED <<waiter, reader>>
    <3>1. ASSUME NEW j \in Jobs PROVE ReaderOK(reader[j], stream'[j])
      BY <2>1, ReaderQueueStep DEF ReaderInv
    <3>2. QED
      BY <2>1, <3>1 DEF ReaderInv
  <2>2. CASE \E j \in Jobs : WaiterStep(j) /\ UNCHANGED <<vars, reader>>
    BY <2>2 DEF ReaderInv, vars
  <2>3. ASSUME NEW k \in Jobs, ReaderStep(k), UNCHANGED <<vars, waiter>>
        PROVE  ReaderInv'
    <3>1. ReaderOK(reader'[k], stream[k]) /\ reader' = [reader EXCEPT ![k] = reader'[k]]
      BY <2>3, ReaderOwnStep
    <3>2. reader' \in [Jobs -> ReaderStates] /\ \A j \in Jobs : ReaderOK(reader'[j], stream[j])
      BY <3>1 DEF ReaderInv, ReaderOK
    <3>3. QED
      BY <2>3, <3>2 DEF ReaderInv, vars
  <2>4. QED
    BY <2>1, <2>2, <2>3, ReadCases
<1>3. QED
  BY <1>1, <1>2, QueueInvAlways, PTL DEF ReadSpec

(* Every client is at one of its steps, has loaded a call before it looks   *)
(* at it, and has read no further than its stream goes.                     *)
THEOREM ReadersTypeCorrect == ReadSpec => []ReadersTypeOK
<1>1. WaiterInv /\ ReaderInv => ReadersTypeOK
  <2> SUFFICES ASSUME WaiterInv, ReaderInv
               PROVE  ReadersTypeOK
    OBVIOUS
  <2>1. \A j \in Jobs : /\ waiter[j].pc \in {"polled", "ended"} => waiter[j].call \in Calls
                        /\ waiter[j].pc = "returned" => waiter[j].answer \in Statuses
                        /\ reader[j].pos <= Len(stream[j])
    BY DEF WaiterInv, WaiterOK, ReaderInv, ReaderOK
  <2>2. waiter \in [Jobs -> WaiterStates] /\ reader \in [Jobs -> ReaderStates]
    BY DEF WaiterInv, ReaderInv
  <2>3. QED
    BY <2>1, <2>2 DEF ReadersTypeOK, WaiterStates, ReaderStates
<1>2. QED
  BY <1>1, WaiterAlways, ReaderAlways, PTL

(* A stream ends for its reader with a final status, and as failed only     *)
(* when RQ will not run the job again: the errors that are retried are      *)
(* announced on the same stream and do not close it.                        *)
THEOREM StreamEndIsAnEndAlways == ReadSpec => []StreamEndIsAnEnd
<1>1. QueueInv /\ ReaderInv => StreamEndIsAnEnd
  <2> SUFFICES ASSUME QueueInv, ReaderInv, NEW j \in Jobs, reader[j].pc = "ended"
               PROVE  /\ reader[j].end \in Terminal
                      /\ reader[j].end = "failed" =>
                           retriesLeft[j] = 0 /\ ~InQueue(j) /\ j \notin intermediate
    BY DEF StreamEndIsAnEnd
  <2> DEFINE n == reader[j].pos
  <2>1. /\ n \in Nat /\ n # 0 /\ n <= Len(stream[j])
        /\ Closes(stream[j][n]) /\ reader[j].end = stream[j][n].status
    BY DEF ReaderInv, ReaderOK, ReaderStates
  <2>2. stream[j] \in Seq(Events) /\ n \in DOMAIN stream[j]
    BY <2>1 DEF QueueInv, TypeOK
  <2>3. /\ stream[j][n].done => stream[j][n].status \in Terminal
        /\ stream[j][n].status = "failed" => Spent(j)
    BY <2>2 DEF QueueInv, EndInv
  <2>4. QED
    BY <2>1, <2>3 DEF Closes, Spent, Waiting
<1>2. QED
  BY <1>1, QueueInvAlways, ReaderAlways, PTL

(* Once RQ has stored the result of a streaming job, whoever still follows  *)
(* its stream has an event before it that ends the stream.                  *)
THEOREM ReaderNeverMissesEndAlways == ReadSpec => []ReaderNeverMissesEnd
<1>1. QueueInv /\ ReaderInv => ReaderNeverMissesEnd
  <2> SUFFICES ASSUME QueueInv, ReaderInv, NEW j \in Streaming, reader[j].pc = "reading",
                      result[j] # NoCall
               PROVE  \E i \in (reader[j].pos + 1)..Len(stream[j]) : Closes(stream[j][i])
    BY DEF ReaderNeverMissesEnd
  <2>1. j \in Jobs
    BY JobsAssumption
  <2>2. stream[j] \in Seq(Events) /\ reader[j] \in ReaderStates
    BY <2>1 DEF QueueInv, TypeOK, ReaderInv
  <2>3. reader[j].pos \in Nat /\ \A i \in 1..reader[j].pos : ~Closes(stream[j][i])
    BY <2>1, <2>2 DEF ReaderInv, ReaderOK, ReaderStates
  <2>4. PICK i \in DOMAIN stream[j] : stream[j][i].done
    BY DEF QueueInv, TextInv, ClosedAs
  <2>5. Closes(stream[j][i])
    BY <2>4 DEF Closes
  <2>6. i \in (reader[j].pos + 1)..Len(stream[j])
    BY <2>2, <2>3, <2>4, <2>5
  <2>7. QED
    BY <2>5, <2>6
<1>2. QED
  BY <1>1, QueueInvAlways, ReaderAlways, PTL

=============================================================================
