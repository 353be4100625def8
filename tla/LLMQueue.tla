------------------------------ MODULE LLMQueue ------------------------------
(***************************************************************************)
(* The LLM job queue: app/infrastructure/redis/{queue_service,job_store,   *)
(* rq_queue}.py on the API side, app/worker/jobs.py on the worker side,    *)
(* with RQ and Redis (libraries, not part of the repository) modelled from *)
(* the way these files use them.                                           *)
(*                                                                         *)
(* Three kinds of actors share Redis:                                      *)
(*   - the coroutine enqueue_llm_call of the API's event loop (it has no   *)
(*     await, so the loop runs one at a time), one per job;                *)
(*   - the single SimpleWorker, which runs process_llm_call;               *)
(*   - cancel_llm_call, which asyncio.to_thread moves to a thread, at most *)
(*     one per job here.                                                   *)
(* Every Redis command is a step of its own.  Job.fetch copies the job's   *)
(* meta dictionary into the caller, and save_meta writes the whole         *)
(* dictionary back, so each actor has a copy that may be stale.            *)
(***************************************************************************)
EXTENDS Naturals, Sequences, FiniteSets, SequencesExt

CONSTANTS
  Jobs,           \* job ids
  NoJob,          \* the job of an idle worker
  Streaming,      \* the jobs whose call_type is streaming_text_generation
  Structured,     \* the jobs whose call_type is structured_json
  Cancellable,    \* the jobs some client asks to cancel
  MaxRetries,     \* LLM_JOB_MAX_RETRIES
  MaxQueueSize,   \* LLM_MAX_QUEUE_SIZE
  MaxChunks,      \* bound: chunks of one generation
  MaxCrashes,     \* bound: crashes of the worker process
  Aborts,         \* whether enqueue_llm_call may stop half-way (API crash, Redis error)
  Timeouts,       \* whether RQ's job timeout may fire
  ResultVisible   \* whether the installed RQ still offers Job.result

ASSUME JobsAssumption ==
  /\ NoJob \notin Jobs
  /\ Streaming \subseteq Jobs
  /\ Structured \subseteq Jobs \ Streaming
  /\ Cancellable \subseteq Jobs

ASSUME BoundsAssumption ==
  /\ MaxRetries \in Nat
  /\ MaxQueueSize \in Nat
  /\ MaxChunks \in Nat
  /\ MaxCrashes \in Nat
  /\ Aborts \in BOOLEAN
  /\ Timeouts \in BOOLEAN
  /\ ResultVisible \in BOOLEAN

VARIABLES
  api,          \* where enqueue_llm_call stands, per job
  queue,        \* the RQ list
  intermediate, \* RQ's intermediate list: popped, not yet marked started
  started,      \* RQ's StartedJobRegistry
  rq,           \* the RQ status of each job
  retriesLeft,  \* RQ's retries_left of each job
  meta,         \* job.meta["llm_call"] (and the retry_count beside it) in Redis
  result,       \* what process_llm_call returned, once RQ stored it
  stream,       \* the Redis stream of events of each job
  worker,       \* the worker process: program counter and local variables
  cancel,       \* cancel_llm_call of each job: program counter and copies
  attempts,     \* history: calls of process_llm_call, per job
  crashes       \* crashes of the worker so far

rqVars == <<queue, intermediate, started, rq, retriesLeft, result>>
vars == <<api, rqVars, meta, stream, worker, cancel, attempts, crashes>>

-----------------------------------------------------------------------------
(* Data                                                                     *)

Terminal == {"completed", "failed", "cancelled"}
Statuses == {"queued", "processing", "streaming"} \cup Terminal

(* What the queue reads and writes of an LLMCallJob; text is the result of  *)
(* a streaming job, as the numbers of the chunks it was joined from.        *)
Calls == [status: Statuses, cancel: BOOLEAN, retry: Nat, text: Seq(Nat)]

(* No llm_call in the meta dictionary, no result.                           *)
NoCall == [status |-> "none", cancel |-> FALSE, retry |-> 0, text |-> <<>>]
MaybeCalls == Calls \cup {NoCall}

(* Mutant: the default of LLMCallJob.status is left out.                    *)
NewCall_NoStatus == NoCall

NewCall == [NoCall EXCEPT !.status = "queued"]

(* An event of a stream; token is 0 or the number of the chunk it carries.  *)
Events == [status: Statuses, cancel: BOOLEAN, done: BOOLEAN, token: Nat]

StreamEvent(call, done, token) ==
  [status |-> call.status, cancel |-> call.cancel, done |-> done, token |-> token]

Emit(j, e) == stream' = [stream EXCEPT ![j] = Append(@, e)]

SaveMeta(j, call) == meta' = [meta EXCEPT ![j] = call]

(* RedisJobStore.get_job_result: job.result when RQ offers it, or the meta. *)
JobResult(j) ==
  IF ResultVisible /\ result[j] # NoCall THEN result[j] ELSE meta[j]

CancelRequested(j) == JobResult(j).cancel

InQueue(j) == j \in Range(queue)

IdleWorker ==
  [pc |-> "idle", job |-> NoJob, mem |-> NoCall, call |-> NoCall,
   text |-> <<>>, chunks |-> 0, timer |-> FALSE, inTry |-> FALSE]

NoCancel == [pc |-> "none", mem |-> NoCall, call |-> NoCall]

Init ==
  /\ api = [j \in Jobs |-> "idle"]
  /\ queue = <<>>
  /\ intermediate = {}
  /\ started = {}
  /\ rq = [j \in Jobs |-> "none"]
  /\ retriesLeft = [j \in Jobs |-> 0]
  /\ meta = [j \in Jobs |-> NoCall]
  /\ result = [j \in Jobs |-> NoCall]
  /\ stream = [j \in Jobs |-> <<>>]
  /\ worker = IdleWorker
  /\ cancel = [j \in Jobs |-> NoCancel]
  /\ attempts = [j \in Jobs |-> 0]
  /\ crashes = 0

-----------------------------------------------------------------------------
(* LLMQueueService.enqueue_llm_call                                         *)

EnqueueAt(j, here, there) ==
  /\ api[j] = here
  /\ api' = [api EXCEPT ![j] = there]

InEnqueue(j) == api[j] \in {"admitted", "pushed", "saved"}

(* Mutant: the queue size compared with > instead of >=.                    *)
Admit_OffByOne(j) ==
  /\ \A k \in Jobs : ~InEnqueue(k)
  /\ EnqueueAt(j, "idle", "admitted")
  /\ Len(queue) <= MaxQueueSize
  /\ UNCHANGED <<rqVars, meta, stream, worker, cancel, attempts, crashes>>

(* estimate_wait_time_seconds is a multiple of the jobs queued or started   *)
(* by an average of past timings: with at least one such job it may or may  *)
(* not exceed the wait timeout.                                             *)
MayWaitTooLong == Len(queue) + Cardinality(started) > 0

(* check_backpressure.                                                      *)
Admit(j) ==
  /\ \A k \in Jobs : ~InEnqueue(k)
  /\ EnqueueAt(j, "idle", "admitted")
  /\ Len(queue) < MaxQueueSize
  /\ UNCHANGED <<rqVars, meta, stream, worker, cancel, attempts, crashes>>

Refuse(j) ==
  /\ \A k \in Jobs : ~InEnqueue(k)
  /\ EnqueueAt(j, "idle", "refused")
  /\ \/ Len(queue) >= MaxQueueSize
     \/ MayWaitTooLong
  /\ UNCHANGED <<rqVars, meta, stream, worker, cancel, attempts, crashes>>

(* Mutant: the number of executions passed as the number of retries.        *)
Push_ExtraRetry(j) ==
  /\ EnqueueAt(j, "admitted", "pushed")
  /\ queue' = Append(queue, j)
  /\ rq' = [rq EXCEPT ![j] = "queued"]
  /\ retriesLeft' = [retriesLeft EXCEPT ![j] = MaxRetries + 1]
  /\ UNCHANGED <<intermediate, started, result, meta, stream, worker, cancel,
                 attempts, crashes>>

(* Mutant: an enqueue that failed half-way is repeated with the same id.    *)
Push_Again(j) ==
  /\ api[j] \in {"admitted", "aborted"}
  /\ api' = [api EXCEPT ![j] = "pushed"]
  /\ queue' = Append(queue, j)
  /\ rq' = [rq EXCEPT ![j] = "queued"]
  /\ retriesLeft' = [retriesLeft EXCEPT ![j] = MaxRetries]
  /\ UNCHANGED <<intermediate, started, result, meta, stream, worker, cancel,
                 attempts, crashes>>

(* RQQueueClient.enqueue: RQ stores the job and pushes its id.              *)
Push(j) ==
  /\ EnqueueAt(j, "admitted", "pushed")
  /\ queue' = Append(queue, j)
  /\ rq' = [rq EXCEPT ![j] = "queued"]
  /\ retriesLeft' = [retriesLeft EXCEPT ![j] = MaxRetries]
  /\ UNCHANGED <<intermediate, started, result, meta, stream, worker, cancel,
                 attempts, crashes>>

(* save_job_payload of the job object enqueue returned.                     *)
SavePayload(j) ==
  /\ EnqueueAt(j, "pushed", IF j \in Streaming THEN "saved" ELSE "returned")
  /\ SaveMeta(j, NewCall)
  /\ UNCHANGED <<rqVars, stream, worker, cancel, attempts, crashes>>

AnnounceQueued(j) ==
  /\ EnqueueAt(j, "saved", "returned")
  /\ Emit(j, StreamEvent(NewCall, FALSE, 0))
  /\ UNCHANGED <<rqVars, meta, worker, cancel, attempts, crashes>>

(* The API process dies, or Redis refuses a command, inside the coroutine.  *)
Abort(j) ==
  /\ Aborts
  /\ InEnqueue(j)
  /\ api' = [api EXCEPT ![j] = "aborted"]
  /\ UNCHANGED <<rqVars, meta, stream, worker, cancel, attempts, crashes>>

-----------------------------------------------------------------------------
(* The worker: RQ's dequeue and start                                       *)

At(pc) == worker.pc = pc
Running == worker.pc \notin {"idle", "popped"}

(* LMOVE to the intermediate list and Job.fetch, which copies the meta.     *)
Dequeue ==
  /\ At("idle")
  /\ queue # <<>>
  /\ LET j == Head(queue)
     IN  /\ worker' = [IdleWorker EXCEPT !.pc = "popped", !.job = j, !.mem = meta[j]]
         /\ intermediate' = intermediate \cup {j}
  /\ queue' = Tail(queue)
  /\ UNCHANGED <<api, started, rq, retriesLeft, result, meta, stream, cancel,
                 attempts, crashes>>

(* prepare_execution, then process_llm_call loads the call from job.meta or *)
(* from the payload.                                                        *)
StartJob ==
  /\ At("popped")
  /\ LET j == worker.job
     IN  /\ intermediate' = intermediate \ {j}
         /\ started' = started \cup {j}
         /\ rq' = [rq EXCEPT ![j] = "started"]
         /\ attempts' = [attempts EXCEPT ![j] = @ + 1]
  /\ worker' = [worker EXCEPT
                  !.pc = "precheck",
                  !.call = IF worker.mem = NoCall THEN NewCall ELSE worker.mem,
                  !.timer = Timeouts]
  /\ UNCHANGED <<api, queue, retriesLeft, result, meta, stream, cancel, crashes>>

-----------------------------------------------------------------------------
(* process_llm_call, one action per Redis command or model-server answer    *)

Goto(pc) == worker' = [worker EXCEPT !.pc = pc]

WorkerUnchanged == UNCHANGED <<api, rqVars, cancel, attempts, crashes>>

(* set_job_payload(job, llm_call): the worker's copy of the meta, then the  *)
(* meta in Redis, become the call.                                          *)
Store(status, there) ==
  LET call == [worker.call EXCEPT !.status = status]
  IN  /\ worker' = [worker EXCEPT !.pc = there, !.call = call, !.mem = call]
      /\ SaveMeta(worker.job, call)
      /\ UNCHANGED stream

Announce(done, there) ==
  /\ Emit(worker.job, StreamEvent(worker.call, done, 0))
  /\ Goto(there)
  /\ UNCHANGED meta

(* is_cancel_requested before the try block; without a meta it raises.      *)
Precheck ==
  /\ At("precheck")
  /\ LET j == worker.job
     IN  worker' =
           IF JobResult(j) = NoCall THEN [worker EXCEPT !.pc = "raised"]
           ELSE IF CancelRequested(j)
           THEN [worker EXCEPT !.pc = "finalize", !.call.cancel = TRUE]
           ELSE [worker EXCEPT !.pc = "process"]
  /\ UNCHANGED <<meta, stream>>
  /\ WorkerUnchanged

Process ==
  /\ At("process")
  /\ Store("processing", IF worker.job \in Streaming THEN "announce" ELSE "try")
  /\ WorkerUnchanged

AnnounceProcessing ==
  /\ At("announce")
  /\ Announce(FALSE, "try")
  /\ WorkerUnchanged

EnterTry ==
  /\ At("try")
  /\ worker' = [worker EXCEPT
                  !.pc = IF worker.job \in Streaming THEN "open" ELSE "generate",
                  !.inTry = TRUE]
  /\ UNCHANGED <<meta, stream>>
  /\ WorkerUnchanged

(* ask_llm_sync or generate_text_sync: an answer, a ValueError, TypeError   *)
(* or KeyError of a structured call, or any other error.                    *)
Generate ==
  /\ At("generate")
  /\ \/ Goto("finish")
     \/ worker.job \in Structured
        /\ worker' = [worker EXCEPT !.pc = "reject", !.inTry = FALSE]
     \/ worker' = [worker EXCEPT !.pc = "except", !.inTry = FALSE]
  /\ UNCHANGED <<meta, stream>>
  /\ WorkerUnchanged

OpenStream ==
  /\ At("open")
  /\ Store("streaming", "opened")
  /\ WorkerUnchanged

AnnounceStreaming ==
  /\ At("opened")
  /\ Announce(FALSE, "chunk")
  /\ WorkerUnchanged

(* The next chunk, whose delta has a content or not; the end of the stream; *)
(* or an error of the model server.                                         *)
Token ==
  /\ At("chunk")
  /\ worker.chunks < MaxChunks
  /\ LET n == worker.chunks + 1
     IN  /\ worker' = [worker EXCEPT !.pc = "check", !.chunks = n,
                                     !.text = Append(@, n)]
         /\ Emit(worker.job, StreamEvent(worker.call, FALSE, n))
  /\ UNCHANGED meta
  /\ WorkerUnchanged

(* Mutant: the test `if token:` is dropped for the parts of the result.     *)
EmptyChunk_Kept ==
  /\ At("chunk")
  /\ worker.chunks < MaxChunks
  /\ worker' = [worker EXCEPT !.pc = "check", !.chunks = @ + 1,
                              !.text = Append(@, worker.chunks + 1)]
  /\ UNCHANGED <<meta, stream>>
  /\ WorkerUnchanged

EmptyChunk ==
  /\ At("chunk")
  /\ worker.chunks < MaxChunks
  /\ worker' = [worker EXCEPT !.pc = "check", !.chunks = @ + 1]
  /\ UNCHANGED <<meta, stream>>
  /\ WorkerUnchanged

EndOfStream ==
  /\ At("chunk")
  /\ worker' = [worker EXCEPT !.pc = "finish", !.call.text = worker.text]
  /\ UNCHANGED <<meta, stream>>
  /\ WorkerUnchanged

StreamError ==
  /\ At("chunk")
  /\ worker' = [worker EXCEPT !.pc = "except", !.inTry = FALSE]
  /\ UNCHANGED <<meta, stream>>
  /\ WorkerUnchanged

(* is_cancel_requested after a chunk: LLMJobCancelledError leaves the try.  *)
CheckChunk ==
  /\ At("check")
  /\ worker' =
       IF CancelRequested(worker.job)
       THEN [worker EXCEPT !.pc = "finalize", !.call.cancel = TRUE, !.inTry = FALSE]
       ELSE [worker EXCEPT !.pc = "chunk"]
  /\ UNCHANGED <<meta, stream>>
  /\ WorkerUnchanged

(* is_cancel_requested before the result is returned, still in the try.     *)
CheckResult ==
  /\ At("finish")
  /\ worker' =
       IF CancelRequested(worker.job)
       THEN [worker EXCEPT !.pc = "finalize", !.call.cancel = TRUE]
       ELSE [worker EXCEPT !.pc = "complete"]
  /\ UNCHANGED <<meta, stream>>
  /\ WorkerUnchanged

(* Mutant: no closing event for a completed streaming job.                  *)
Complete_Silent ==
  /\ At("complete")
  /\ Store("completed", "return")
  /\ WorkerUnchanged

Complete ==
  /\ At("complete")
  /\ Store("completed", IF worker.job \in Streaming THEN "completed" ELSE "return")
  /\ WorkerUnchanged

AnnounceCompleted ==
  /\ At("completed")
  /\ Announce(TRUE, "return")
  /\ WorkerUnchanged

(* finalize_cancelled_job                                                   *)
Finalize ==
  /\ At("finalize")
  /\ Store("cancelled", "cancelled")
  /\ WorkerUnchanged

AnnounceCancelled ==
  /\ At("cancelled")
  /\ Announce(TRUE, "return")
  /\ WorkerUnchanged

(* except NonRetryableLLMJobError; only structured calls raise it, so the   *)
(* handler's stream event is never reached.                                 *)
Reject ==
  /\ At("reject")
  /\ Store("failed", "return")
  /\ WorkerUnchanged

(* Mutant: the last retry is refused by the worker, not by RQ.              *)
HandleError_OffByOne ==
  /\ At("except")
  /\ LET retry == worker.call.retry + 1
         call == [worker.call EXCEPT
                    !.retry = retry,
                    !.status = IF retry < MaxRetries THEN "queued" ELSE "failed"]
     IN  /\ worker' = [worker EXCEPT
                         !.pc = IF worker.job \in Streaming THEN "excepted" ELSE "raised",
                         !.call = call, !.mem = call]
         /\ SaveMeta(worker.job, call)
  /\ UNCHANGED stream
  /\ WorkerUnchanged

(* Mutant: the worker enqueues the retry itself, then raises.               *)
HandleError_Requeue ==
  /\ At("except")
  /\ LET call == [worker.call EXCEPT !.retry = @ + 1, !.status = "queued"]
     IN  /\ worker' = [worker EXCEPT !.pc = "raised", !.call = call, !.mem = call]
         /\ SaveMeta(worker.job, call)
  /\ queue' = Append(queue, worker.job)
  /\ UNCHANGED <<api, intermediate, started, rq, retriesLeft, result, stream, cancel,
                 attempts, crashes>>

(* except Exception                                                         *)
HandleError ==
  /\ At("except")
  /\ LET retry == worker.call.retry + 1
         call == [worker.call EXCEPT
                    !.retry = retry,
                    !.status = IF retry <= MaxRetries THEN "queued" ELSE "failed"]
     IN  /\ worker' = [worker EXCEPT
                         !.pc = IF worker.job \in Streaming THEN "excepted" ELSE "raised",
                         !.call = call, !.mem = call]
         /\ SaveMeta(worker.job, call)
  /\ UNCHANGED stream
  /\ WorkerUnchanged

(* Mutant: the event of an error that is retried closes the stream, too.    *)
AnnounceError_Closes ==
  /\ At("excepted")
  /\ Announce(TRUE, "raised")
  /\ WorkerUnchanged

AnnounceError ==
  /\ At("excepted")
  /\ Announce(worker.call.status = "failed", "raised")
  /\ WorkerUnchanged

(* RQ's death penalty raises JobTimeoutException wherever the job stands:   *)
(* the try block catches it, its handlers and the code before it do not.    *)
Timeout ==
  /\ worker.timer
  /\ Running /\ ~At("raised")
  /\ worker' = [worker EXCEPT !.pc = IF worker.inTry THEN "except" ELSE "raised",
                              !.timer = FALSE, !.inTry = FALSE]
  /\ UNCHANGED <<meta, stream>>
  /\ WorkerUnchanged

-----------------------------------------------------------------------------
(* RQ's end of a job, the crash of a worker, and what RQ does about it      *)

Succeed ==
  /\ At("return")
  /\ LET j == worker.job
     IN  /\ result' = [result EXCEPT ![j] = worker.call]
         /\ rq' = [rq EXCEPT ![j] = "finished"]
         /\ started' = started \ {j}
  /\ worker' = IdleWorker
  /\ UNCHANGED <<api, queue, intermediate, retriesLeft, meta, stream, cancel,
                 attempts, crashes>>

(* Retry(max=MaxRetries, interval=0): back to the queue while retries are   *)
(* left, failed otherwise.                                                  *)
RetryOrFail(j) ==
  IF retriesLeft[j] > 0
  THEN /\ retriesLeft' = [retriesLeft EXCEPT ![j] = @ - 1]
       /\ queue' = Append(queue, j)
       /\ rq' = [rq EXCEPT ![j] = "queued"]
  ELSE /\ rq' = [rq EXCEPT ![j] = "failed"]
       /\ UNCHANGED <<retriesLeft, queue>>

(* handle_job_failure; Job.retry saves the worker's copy of the meta again, *)
(* unless it is empty.                                                      *)
Fail ==
  /\ At("raised")
  /\ LET j == worker.job
     IN  /\ RetryOrFail(j)
         /\ started' = started \ {j}
         /\ IF retriesLeft[j] > 0 /\ worker.mem # NoCall
            THEN SaveMeta(j, worker.mem)
            ELSE UNCHANGED meta
  /\ worker' = IdleWorker
  /\ UNCHANGED <<api, intermediate, result, stream, cancel, attempts, crashes>>

Crash ==
  /\ ~At("idle")
  /\ crashes < MaxCrashes
  /\ crashes' = crashes + 1
  /\ worker' = IdleWorker
  /\ UNCHANGED <<api, rqVars, meta, stream, cancel, attempts>>

(* RQ's maintenance finds the job of a dead worker in the intermediate list *)
(* or in the StartedJobRegistry.                                            *)
Reclaim(j) ==
  /\ j \in (intermediate \cup started) \ {worker.job}
  /\ RetryOrFail(j)
  /\ intermediate' = intermediate \ {j}
  /\ started' = started \ {j}
  /\ UNCHANGED <<api, result, meta, stream, worker, cancel, attempts, crashes>>

-----------------------------------------------------------------------------
(* LLMQueueService.cancel_llm_call                                          *)

CancelAt(j, here) == cancel[j].pc = here
CancelGoto(j, there) == cancel' = [cancel EXCEPT ![j].pc = there]
CancelUnchanged == UNCHANGED <<api, worker, attempts, crashes>>

(* get_job: the job object, with its copy of the meta. The client knows the *)
(* id once enqueue_llm_call has returned.                                   *)
CancelFetch(j) ==
  /\ j \in Cancellable
  /\ api[j] = "returned"
  /\ CancelAt(j, "none")
  /\ cancel' = [cancel EXCEPT ![j].pc = "fetched", ![j].mem = meta[j]]
  /\ UNCHANGED <<rqVars, meta, stream>>
  /\ CancelUnchanged

CancelLoad(j) ==
  /\ CancelAt(j, "fetched")
  /\ cancel' = [cancel EXCEPT ![j].pc = "loaded", ![j].call = JobResult(j)]
  /\ UNCHANGED <<rqVars, meta, stream>>
  /\ CancelUnchanged

(* Mutant: no early return for a job that has already ended.                *)
CancelDecide_Always(j) ==
  /\ CancelAt(j, "loaded")
  /\ cancel' = [cancel EXCEPT ![j].pc = IF rq[j] = "queued" THEN "remove" ELSE "request",
                              ![j].call.cancel = TRUE]
  /\ UNCHANGED <<rqVars, meta, stream>>
  /\ CancelUnchanged

(* get_job_status, and which of the three ways the call goes.               *)
CancelDecide(j) ==
  /\ CancelAt(j, "loaded")
  /\ cancel' =
       IF cancel[j].call.status \in Terminal
       THEN [cancel EXCEPT ![j].pc = "replied"]
       ELSE [cancel EXCEPT ![j].pc = IF rq[j] = "queued" THEN "remove" ELSE "request",
                           ![j].call.cancel = TRUE]
  /\ UNCHANGED <<rqVars, meta, stream>>
  /\ CancelUnchanged

(* Queue.remove: LREM of the first occurrence, if there is one.             *)
CancelRemove(j) ==
  /\ CancelAt(j, "remove")
  /\ \/ \E i \in 1..Len(queue) : /\ queue[i] = j
                                 /\ \A k \in 1..(i - 1) : queue[k] # j
                                 /\ queue' = RemoveAt(queue, i)
     \/ ~InQueue(j) /\ UNCHANGED queue
  /\ CancelGoto(j, "store")
  /\ UNCHANGED <<intermediate, started, rq, retriesLeft, result, meta, stream>>
  /\ CancelUnchanged

(* save_job_payload writes the call into the meta of the job object: the    *)
(* call is read after the meta, whose retry_count, if set, is the one the   *)
(* worker will load.                                                        *)
CancelPayload(j, status) ==
  [cancel[j].call EXCEPT
     !.status = status,
     !.retry = IF cancel[j].mem.retry > 0 THEN cancel[j].mem.retry ELSE @]

(* Mutant: set_status(CANCELED) is left out.                                *)
CancelStore_NoStatus(j) ==
  /\ CancelAt(j, "store")
  /\ SaveMeta(j, CancelPayload(j, "cancelled"))
  /\ cancel' = [cancel EXCEPT ![j].pc = "announce", ![j].call.status = "cancelled"]
  /\ UNCHANGED <<rqVars, stream>>
  /\ CancelUnchanged

CancelStore(j) ==
  /\ CancelAt(j, "store")
  /\ SaveMeta(j, CancelPayload(j, "cancelled"))
  /\ cancel' = [cancel EXCEPT ![j].pc = "status", ![j].call.status = "cancelled"]
  /\ UNCHANGED <<rqVars, stream>>
  /\ CancelUnchanged

CancelSetStatus(j) ==
  /\ CancelAt(j, "status")
  /\ rq' = [rq EXCEPT ![j] = "canceled"]
  /\ CancelGoto(j, "announce")
  /\ UNCHANGED <<queue, intermediate, started, retriesLeft, result, meta, stream>>
  /\ CancelUnchanged

CancelAnnounce(j) ==
  /\ CancelAt(j, "announce")
  /\ Emit(j, StreamEvent(cancel[j].call, TRUE, 0))
  /\ CancelGoto(j, "replied")
  /\ UNCHANGED <<rqVars, meta>>
  /\ CancelUnchanged

CancelRequest(j) ==
  /\ CancelAt(j, "request")
  /\ SaveMeta(j, CancelPayload(j, cancel[j].call.status))
  /\ CancelGoto(j, "notify")
  /\ UNCHANGED <<rqVars, stream>>
  /\ CancelUnchanged

CancelNotify(j) ==
  /\ CancelAt(j, "notify")
  /\ Emit(j, StreamEvent(cancel[j].call, FALSE, 0))
  /\ CancelGoto(j, "replied")
  /\ UNCHANGED <<rqVars, meta>>
  /\ CancelUnchanged

(* The thread dies with the API process.                                    *)
CancelAbort(j) ==
  /\ Aborts
  /\ cancel[j].pc \notin {"none", "replied", "aborted"}
  /\ CancelGoto(j, "aborted")
  /\ UNCHANGED <<rqVars, meta, stream>>
  /\ CancelUnchanged

-----------------------------------------------------------------------------
Enqueue(j) == Push(j) \/ SavePayload(j) \/ AnnounceQueued(j)

Worker ==
  \/ Dequeue \/ StartJob \/ Precheck \/ Process \/ AnnounceProcessing \/ EnterTry
  \/ Generate \/ OpenStream \/ AnnounceStreaming \/ Token \/ EmptyChunk
  \/ EndOfStream \/ StreamError \/ CheckChunk \/ CheckResult \/ Complete
  \/ AnnounceCompleted \/ Finalize \/ AnnounceCancelled \/ Reject \/ HandleError
  \/ AnnounceError \/ Succeed \/ Fail

Cancel(j) ==
  \/ CancelLoad(j) \/ CancelDecide(j) \/ CancelRemove(j) \/ CancelStore(j)
  \/ CancelSetStatus(j) \/ CancelAnnounce(j) \/ CancelRequest(j) \/ CancelNotify(j)

Next ==
  \/ Worker \/ Timeout \/ Crash
  \/ \E j \in Jobs : \/ Admit(j) \/ Refuse(j) \/ Abort(j) \/ CancelFetch(j) \/ CancelAbort(j)
                     \/ Enqueue(j) \/ Cancel(j) \/ Reclaim(j)

Spec == Init /\ [][Next]_vars

(* Clients are free to call; what was called, the worker (restarted by its  *)
(* supervisor after a crash) and RQ's maintenance keep running. A chunked   *)
(* answer of the model server ends: the bound is MaxChunks.                 *)
Fairness ==
  /\ WF_vars(Worker)
  /\ \A j \in Jobs : WF_vars(Enqueue(j)) /\ WF_vars(Cancel(j)) /\ WF_vars(Reclaim(j))

FairSpec == Spec /\ Fairness

-----------------------------------------------------------------------------
(* Properties                                                               *)

WorkerPC ==
  {"idle", "popped", "precheck", "process", "announce", "try", "generate", "open",
   "opened", "chunk", "check", "finish", "complete", "completed", "finalize",
   "cancelled", "reject", "except", "excepted", "return", "raised"}

CancelPC ==
  {"none", "fetched", "loaded", "remove", "store", "status", "announce", "request",
   "notify", "replied", "aborted"}

WorkerStates ==
  [pc: WorkerPC, job: Jobs \cup {NoJob}, mem: MaybeCalls, call: MaybeCalls,
   text: Seq(Nat), chunks: Nat, timer: BOOLEAN, inTry: BOOLEAN]

CancelStates == [pc: CancelPC, mem: MaybeCalls, call: MaybeCalls]

(* Every variable holds what the code and RQ put there; an actor works on a *)
(* call only once it has loaded one.                                        *)
TypeOK ==
  /\ api \in [Jobs -> {"idle", "admitted", "pushed", "saved", "returned", "refused",
                       "aborted"}]
  /\ queue \in Seq(Jobs)
  /\ intermediate \in SUBSET Jobs
  /\ started \in SUBSET Jobs
  /\ rq \in [Jobs -> {"none", "queued", "started", "finished", "failed", "canceled"}]
  /\ retriesLeft \in [Jobs -> 0..MaxRetries]
  /\ meta \in [Jobs -> MaybeCalls]
  /\ result \in [Jobs -> MaybeCalls]
  /\ stream \in [Jobs -> Seq(Events)]
  /\ worker \in WorkerStates
  /\ ~At("idle") => worker.job \in Jobs
  /\ Running => worker.call \in Calls
  /\ cancel \in [Jobs -> CancelStates]
  /\ \A j \in Jobs : cancel[j].pc \notin {"none", "fetched", "aborted"}
                     => cancel[j].call \in Calls
  /\ attempts \in [Jobs -> Nat]
  /\ crashes \in 0..MaxCrashes

(* A client learns the id of a job once its payload is in Redis, and the    *)
(* payload stays there.                                                     *)
PayloadKept ==
  \A j \in Jobs : /\ api[j] \in {"saved", "returned"} => meta[j] \in Calls
                  /\ cancel[j].pc # "none" => meta[j] \in Calls

Held(j) == InQueue(j) \/ j \in intermediate \/ j \in started

(* RQ holds a job at most once: it never waits in the queue twice, and      *)
(* never waits while it runs or while a dead worker left it behind. (Two    *)
(* executions of one job would interleave their events in one stream.)      *)
OneHolder ==
  /\ \A m, n \in 1..Len(queue) : queue[m] = queue[n] => m = n
  /\ \A j \in Jobs : InQueue(j) => j \notin intermediate /\ j \notin started
  /\ intermediate \cap started = {}
  /\ worker.pc = "popped" => worker.job \in intermediate
  /\ Running => worker.job \in started

(* docs/queue.md, Retries: process_llm_call is executed at most             *)
(* LLM_JOB_MAX_RETRIES + 1 times for a job, whatever mix of worker errors,  *)
(* timeouts, crashes, reclaims and cancellations it goes through.           *)
ExecutionsBounded == \A j \in Jobs : attempts[j] <= MaxRetries + 1

(* Two counters of one budget: process_llm_call announces a job as failed   *)
(* once the retry_count it keeps in the meta (copied, and written back      *)
(* stale, by worker and cancel) exceeds LLM_JOB_MAX_RETRIES; RQ then has no *)
(* retry left that would run the job again. (A structured job fails without *)
(* its retries being used up.)                                              *)
ExhaustedNeverReruns ==
  \A j \in Jobs \ Structured : meta[j].status = "failed" =>
    retriesLeft[j] = 0 /\ ~InQueue(j) /\ j \notin intermediate

(* A job that left RQ's hands (finished, failed, or taken off the list by a *)
(* cancellation) never comes back to them.                                  *)
GoneForGood ==
  [][\A j \in Jobs : rq[j] # "none" /\ ~Held(j) => ~Held(j)']_vars

(* What RQ's status, which get_job_status tells every client, says of where *)
(* a job is: one that is finished or failed is out of RQ's hands, and one   *)
(* that is queued or started is in them. Crashes, timeouts and failures     *)
(* lose no job; only a cancellation can, that took it off the list and died *)
(* with its process before set_status.                                      *)
StatusKeepsTrack ==
  \A j \in Jobs :
    /\ rq[j] \in {"finished", "failed"} => ~Held(j)
    /\ rq[j] \in {"queued", "started"} /\ ~Held(j) =>
         cancel[j].pc \in {"store", "status", "aborted"}

(* No job of the backlog is admitted past LLM_MAX_QUEUE_SIZE: a retried or  *)
(* reclaimed job goes back to the queue unchecked, yet the jobs in RQ's     *)
(* hands exceed the limit by no more than the running one and the ones that *)
(* crashed workers left.                                                    *)
BacklogBounded ==
  Cardinality({j \in Jobs : Held(j)}) <= MaxQueueSize + 1 + crashes

(* The status a poller finds in the stored result and the end a stream      *)
(* reader sees agree: before RQ stores the result of a streaming job, an    *)
(* event with that status has closed its stream.                            *)
ResultIsAnnounced ==
  \A j \in Streaming : result[j] # NoCall =>
    \E i \in DOMAIN stream[j] :
      stream[j][i].done /\ stream[j][i].status = result[j].status

IsOpening(e) == e.status = "streaming" /\ e.token = 0 /\ ~e.cancel

Ascending(s) == \A m, n \in DOMAIN s : m < n => s[m] < s[n]

(* The tokens of stream s since the opening at i, no other after it, come   *)
(* in the order of their chunks, and text was joined from exactly these.    *)
Streamed(s, i, text) ==
  /\ IsOpening(s[i])
  /\ \A k \in DOMAIN s : k > i => ~IsOpening(s[k])
  /\ \A m, n \in DOMAIN s :
       i < m /\ m < n /\ s[m].token # 0 /\ s[n].token # 0 => s[m].token < s[n].token
  /\ Ascending(text)
  /\ Range(text) = {s[k].token : k \in (i + 1)..Len(s)} \ {0}

(* The text of a completed streaming job is exactly the tokens published    *)
(* since its last attempt began to stream, in order.                        *)
CompletedTextWasStreamed ==
  \A j \in Streaming : result[j].status = "completed" =>
    \E i \in DOMAIN stream[j] : Streamed(stream[j], i, result[j].text)

(* No reader of a job ever finds it completed and cancel_requested at once, *)
(* although the request and the completion write the same dictionary.       *)
CompletedNeverCarriesCancel ==
  \A j \in Jobs : /\ ~(meta[j].status = "completed" /\ meta[j].cancel)
                  /\ ~(result[j].status = "completed" /\ result[j].cancel)

(* Every job handed to RQ is eventually settled and out of its hands (for   *)
(* good, by GoneForGood), however many errors, timeouts and crashes (up to  *)
(* MaxCrashes) it meets, and whenever it is cancelled.                      *)
EveryJobSettles ==
  \A j \in Jobs :
    rq[j] # "none" ~> rq[j] \in {"finished", "failed", "canceled"} /\ ~Held(j)

-----------------------------------------------------------------------------
(* What the documentation says of cancellation, and the code does not keep  *)

(* docs/queue.md:129, "Queued jobs can be cancelled immediately": a job     *)
(* whose cancellation was answered as carried out never completes.          *)
CancelledNeverCompletes ==
  \A j \in Jobs : cancel[j].pc = "replied" /\ cancel[j].call.status = "cancelled"
                    => result[j].status # "completed"

(* docs/queue.md:129, "Streaming jobs check for cancellation during         *)
(* generation and stop between generated chunks": once the stream carries   *)
(* the accepted request, at most one more token follows.                    *)
StreamStopsAfterCancel ==
  \A j \in Streaming : \A i \in DOMAIN stream[j] : stream[j][i].cancel =>
    Cardinality({k \in DOMAIN stream[j] : k > i /\ stream[j][k].token # 0}) <= 1

=============================================================================
