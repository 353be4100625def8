----------------------------- MODULE JobReaders -----------------------------
(***************************************************************************)
(* The clients that wait for a job of LLMQueue:                            *)
(*   - wait_for_job_result, which polls get_job_status and then reads the  *)
(*     result, for QueuedLLMGateway.ask_llm;                               *)
(*   - stream_llm_events, which follows the stream of a job, for           *)
(*     QueuedLLMGateway.stream_llm.                                        *)
(* A poll is three commands (payload, RQ status, payload again), with the  *)
(* worker, the cancellations and RQ between them.                          *)
(***************************************************************************)
EXTENDS LLMQueue

CONSTANT Deadlines   \* whether the deadlines of the waiting clients may pass

ASSUME DeadlinesAssumption == Deadlines \in BOOLEAN

VARIABLES
  waiter,   \* wait_for_job_result of each job: program counter and copies
  reader    \* stream_llm_events of each job: position in the stream, and its end

readVars == <<vars, waiter, reader>>

NoWaiter == [pc |-> "none", call |-> NoCall, late |-> FALSE, answer |-> "none"]
NoReader == [pc |-> "none", pos |-> 0, end |-> "none"]

ReadInit ==
  /\ Init
  /\ waiter = [j \in Jobs |-> NoWaiter]
  /\ reader = [j \in Jobs |-> NoReader]

-----------------------------------------------------------------------------
(* LLMQueueService.wait_for_job_result                                      *)

WaiterAt(j, pc) == waiter[j].pc = pc
WaiterOnly == UNCHANGED <<vars, reader>>

(* QueuedLLMGateway.ask_llm waits as soon as enqueue_llm_call has returned. *)
Wait(j) ==
  /\ j \notin Streaming
  /\ api[j] = "returned"
  /\ WaiterAt(j, "none")
  /\ waiter' = [waiter EXCEPT ![j].pc = "polling"]
  /\ WaiterOnly

(* Mutant: the payload of the first poll is kept for the next ones.         *)
PollPayload_Cached(j) ==
  /\ WaiterAt(j, "polling")
  /\ waiter' = [waiter EXCEPT ![j].pc = "polled",
                              ![j].call = IF @ = NoCall THEN JobResult(j) ELSE @]
  /\ WaiterOnly

(* get_job_status, its first command.                                       *)
PollPayload(j) ==
  /\ WaiterAt(j, "polling")
  /\ waiter' = [waiter EXCEPT ![j].pc = "polled", ![j].call = JobResult(j)]
  /\ WaiterOnly

(* Mutant: the status of the payload alone.                                 *)
PolledStatus_PayloadOnly(j) == waiter[j].call.status

(* get_job_status: the RQ status, read after the payload, corrects it.      *)
PolledStatus(j) ==
  CASE rq[j] = "queued" -> "queued"
    [] rq[j] = "started" /\ waiter[j].call.status \notin {"streaming", "cancelled"} -> "processing"
    [] rq[j] = "canceled" -> "cancelled"
    [] rq[j] = "failed" -> "failed"
    [] OTHER -> waiter[j].call.status

(* The second command, and the test of the deadline after it.               *)
PollStatus(j) ==
  /\ WaiterAt(j, "polled")
  /\ waiter' = [waiter EXCEPT ![j].pc =
                  IF PolledStatus(j) \in Terminal THEN "ended"
                  ELSE IF waiter[j].late THEN "expired" ELSE "polling"]
  /\ WaiterOnly

(* get_job_result, whose status the gateway turns into an answer or error.  *)
FetchResult(j) ==
  /\ WaiterAt(j, "ended")
  /\ waiter' = [waiter EXCEPT ![j].pc = "returned", ![j].answer = JobResult(j).status]
  /\ WaiterOnly

(* QueuedLLMGateway.ask_llm: what its caller gets. GenerationTimeoutError   *)
(* needs "timeout" in last_error, where the worker writes "timed out".      *)
AskOutcome(j) ==
  CASE waiter[j].pc = "expired" -> "queue wait timeout"
    [] waiter[j].pc = "returned" /\ waiter[j].answer = "completed" -> "answer"
    [] waiter[j].pc = "returned" /\ waiter[j].answer = "cancelled" -> "request cancelled"
    [] waiter[j].pc = "returned" /\ waiter[j].answer \notin {"completed", "cancelled"} -> "generation failed"
    [] waiter[j].pc \notin {"expired", "returned"} -> "none yet"

DeadlinePasses(j) ==
  /\ Deadlines
  /\ waiter[j].pc \in {"polling", "polled"}
  /\ ~waiter[j].late
  /\ waiter' = [waiter EXCEPT ![j].late = TRUE]
  /\ WaiterOnly

-----------------------------------------------------------------------------
(* RedisJobStore.stream_llm_events                                          *)

ReaderOnly == UNCHANGED <<vars, waiter>>

Closes(e) == e.done \/ e.status \in Terminal

Subscribe(j) ==
  /\ j \in Streaming
  /\ api[j] = "returned"
  /\ reader[j].pc = "none"
  /\ reader' = [reader EXCEPT ![j].pc = "reading"]
  /\ ReaderOnly

(* Mutant: only the last event of a batch is asked whether it closes.       *)
Receive_LastOfBatch(j) ==
  /\ reader[j].pc = "reading"
  /\ reader[j].pos < Len(stream[j])
  /\ LET last == stream[j][Len(stream[j])]
     IN  reader' = [reader EXCEPT
                      ![j].pos = Len(stream[j]),
                      ![j].pc = IF Closes(last) THEN "ended" ELSE @,
                      ![j].end = IF Closes(last) THEN last.status ELSE @]
  /\ ReaderOnly

(* XREAD after last_id; its batch is handed on event by event, and an event *)
(* that closes the stream ends it.                                          *)
Receive(j) ==
  /\ reader[j].pc = "reading"
  /\ reader[j].pos < Len(stream[j])
  /\ LET e == stream[j][reader[j].pos + 1]
     IN  reader' = [reader EXCEPT
                      ![j].pos = @ + 1,
                      ![j].pc = IF Closes(e) THEN "ended" ELSE @,
                      ![j].end = IF Closes(e) THEN e.status ELSE @]
  /\ ReaderOnly

(* Nothing new until the deadline: StreamingTimeoutError.                   *)
GiveUp(j) ==
  /\ Deadlines
  /\ reader[j].pc = "reading"
  /\ reader[j].pos = Len(stream[j])
  /\ reader' = [reader EXCEPT ![j].pc = "expired"]
  /\ ReaderOnly

-----------------------------------------------------------------------------
Waiter(j) == PollPayload(j) \/ PollStatus(j) \/ FetchResult(j)

ReadNext ==
  \/ Next /\ UNCHANGED <<waiter, reader>>
  \/ \E j \in Jobs : \/ Wait(j) \/ Waiter(j) \/ DeadlinePasses(j)
                     \/ Subscribe(j) \/ Receive(j) \/ GiveUp(j)

ReadSpec == ReadInit /\ [][ReadNext]_readVars

(* The queue as in LLMQueue; the event loop keeps polling.                  *)
FairReadSpec ==
  /\ ReadSpec
  /\ WF_readVars(Worker /\ UNCHANGED <<waiter, reader>>)
  /\ \A j \in Jobs : /\ WF_readVars(Enqueue(j) /\ UNCHANGED <<waiter, reader>>)
                     /\ WF_readVars(Cancel(j) /\ UNCHANGED <<waiter, reader>>)
                     /\ WF_readVars(Reclaim(j) /\ UNCHANGED <<waiter, reader>>)
                     /\ WF_readVars(Waiter(j))

-----------------------------------------------------------------------------
(* Properties                                                               *)

(* Every client is at one of its steps; it has loaded a call before it      *)
(* looks at it; a reader is never past the end of its stream.               *)
ReadersTypeOK ==
  /\ waiter \in [Jobs -> [pc: {"none", "polling", "polled", "ended", "returned", "expired"},
                          call: MaybeCalls, late: BOOLEAN, answer: Statuses \cup {"none"}]]
  /\ reader \in [Jobs -> [pc: {"none", "reading", "ended", "expired"},
                          pos: Nat, end: Statuses \cup {"none"}]]
  /\ \A j \in Jobs : /\ waiter[j].pc \in {"polled", "ended"} => waiter[j].call \in Calls
                     /\ waiter[j].pc = "returned" => waiter[j].answer \in Statuses
                     /\ reader[j].pos <= Len(stream[j])

(* wait_for_job_result reads payload, RQ status and payload at three        *)
(* moments, yet for a job nobody cancels it returns only once RQ is done    *)
(* with it, what it returns is the outcome RQ stored, if it stored one, and *)
(* the caller of ask_llm is never told of a cancellation.                   *)
WaiterGetsOutcome ==
  \A j \in Jobs : waiter[j].pc = "returned" /\ cancel[j].pc = "none" =>
    /\ \/ rq[j] = "finished" /\ waiter[j].answer = result[j].status
       \/ rq[j] = "failed"
    /\ AskOutcome(j) \in {"answer", "generation failed"}

(* The event that ends a stream for its reader carries a final status       *)
(* (never the failure of an attempt that is retried), and a stream that     *)
(* ended as failed belongs to a job that will not run again. (One that      *)
(* ended as completed may: a timeout at the return has the job retried.)    *)
StreamEndIsAnEnd ==
  \A j \in Jobs : reader[j].pc = "ended" =>
    /\ reader[j].end \in Terminal
    /\ reader[j].end = "failed" => retriesLeft[j] = 0 /\ ~InQueue(j) /\ j \notin intermediate

(* Once RQ has the result of a streaming job, a reader that still follows   *)
(* the stream has its end before it: it cannot have read past it and wait.  *)
ReaderNeverMissesEnd ==
  \A j \in Streaming : reader[j].pc = "reading" /\ result[j] # NoCall =>
    \E i \in (reader[j].pos + 1)..Len(stream[j]) : Closes(stream[j][i])

(* Whoever waits for a job that nobody cancels gets an answer, whatever the *)
(* job goes through, unless the deadline passes first.                      *)
WaiterAnswered ==
  \A j \in Jobs :
    waiter[j].pc = "polling" ~>
      waiter[j].pc = "returned" \/ waiter[j].late \/ cancel[j].pc # "none"

=============================================================================
