# Specification of the language agent

TLA+ models of `language_agent`, the TLC runs that check them on small instances, and TLAPS
proofs about them. Every definition is translated from the Python source; `PROJECT.json` maps
each one to the lines it stands for.

## The system

A browser talks to a Chainlit web UI, the web UI to a FastAPI service, and the service hands
every call of a language model to a single RQ worker through Redis. The worker asks an external
llama-server. PostgreSQL keeps users and chat history.

| Component | State it keeps | Operations | What must hold |
|---|---|---|---|
| LLM job queue (`queue_service`, `job_store`, `rq_queue`) | RQ's list, job hashes with a `meta` dictionary, one Redis stream per job, metrics | enqueue, cancel, status, wait, stream | a job is run a bounded number of times, ends, is never held twice; every reader sees a consistent end |
| Queue worker (`worker/jobs.py`) | local copy of the call, RQ's copy of the meta | `process_llm_call` | the stream, the meta and the result agree; a request to cancel is honoured |
| Queued gateway (`queued_gateway`) | none | ask, stream, cancel | the caller gets the error that fits what happened |
| Agent service (`agent_service`, router, handlers, memory) | one `SessionState` and one `ConversationMemory` for the process | `chat_full`, `chat_stream` | concurrent requests do not mix up mode and history |
| llama-server gateway | a stream filter | ask, generate, stream | what the filter shows is the text without its think blocks |
| Model profiles | configuration | select, merge | a known mode gets its profile, another one the default |
| API routes, errors | none | HTTP endpoints | one error per failure |
| User accounts | table of users | sign up, log in, create by script | one account per name; everyone is told the truth about it |
| Web UI login and rate limit | counters and lock-outs in Redis or memory | check, record, clear, expire | only refusals lock a name, and a bounded number of them per window is answered |
| Web UI chat | message on screen, selected mode | handle a message, a stream, a retry | what is shown is what was received; every message is answered once |
| Session orchestrator, migrations, pages, landing script | none of interest | | not modelled, see below |

### How the components interact

* **API process.** One asyncio event loop. `enqueue_llm_call` has no `await`, so the loop runs
  one at a time. `cancel_llm_call`, `get_job_status` and `get_job_result` run in threads
  (`asyncio.to_thread`): they interleave with everything, command by command.
* **Worker process.** A `SimpleWorker` runs one job at a time (`create_worker` refuses any other
  concurrency). A POSIX timer raises `JobTimeoutException` anywhere in the job function.
* **Redis.** Commands are atomic, sequences of them are not. `Job.fetch` copies the meta of a
  job, `save_meta` writes the whole dictionary back. The API and the worker therefore work on
  copies that go stale.
* **RQ.** Pops a job to an intermediate list, marks it started, stores its result, pushes a
  failed job again while `retries_left` is positive, and hands the job of a dead worker to the
  same retry rule.
* **Worker to llama-server.** The worker iterates over `stream_llm_sync` itself (`jobs.py:213`); a
  full call is one request. `LlamaServerGateway.stream_llm`, for a caller on an event loop, runs the
  same generator in a thread of its own, which hands tokens to the loop one by one.
* **Web UI process.** Another asyncio event loop. The handlers of a chat run concurrently and
  share its response mode; logins run concurrently and share the store of failures. Both reach
  the API over HTTP, where every request may time out, fail, or fail after it was done.

The hard behaviours are the lost updates of the meta, the two counters of retries, a job between
the queue and the registry, a timeout after the job's work is done, the death of either process
between two commands, and tokens of several attempts on one stream; outside the queue, tags cut by
chunks, the end of a stream that is not the end of the answer, and the check, the request and the
count of a login that others interleave with. `PROJECT.json` lists them as hazards, each at the
line where it bites and with the properties that cover it.

## Modules

| Module | What it is |
|---|---|
| `LLMQueue` | the job queue and the worker: enqueue, cancel, `process_llm_call`, and RQ's part |
| `MCLLMQueue` | model values and symmetry for TLC |
| `LLMQueueProofs`, `LLMQueueResultsProofs` | theorems about `LLMQueue`: lists, budget and retries; backlog, cancellation, streams and results |
| `JobPromise` | the abstract specification: what the queue promises of a job |
| `LLMQueuePromise`, `MCLLMQueuePromise` | the refinement mapping from `LLMQueue` to `JobPromise`, and its instance |
| `LLMQueuePromiseProofs` | the proof of that refinement |
| `JobReaders`, `MCJobReaders` | `LLMQueue` with the clients that poll a job or follow its stream |
| `JobReadersProofs` | theorems about `JobReaders` |
| `AgentSession`, `MCAgentSession` | `AgentService`, its router, handlers and memory, under concurrent requests |
| `AgentSessionProofs` | theorems about `AgentSession` |
| `ThinkFilter` | the two filters of think blocks, as functions of a text and its cuts |
| `LlamaGateway`, `MCLlamaGateway` | one call of the gateway to llama-server, full or streamed, over `ThinkFilter` |
| `LlamaGatewayProofs` | theorems about `ThinkFilter` and `LlamaGateway` |
| `WebLogin`, `MCWebLogin` | sign-up and login from the Web UI to the database, with the store of failures |
| `WebLoginProofs` | theorems about `WebLogin` |
| `ChatUI`, `MCChatUI` | the messages of one chat, the API's answers and the connections between them |
| `ChatUIProofs` | theorems about `ChatUI` |

### LLMQueue

Three kinds of actors, each Redis command a step of its own:

* `enqueue_llm_call` of job `j` is `Admit`/`Refuse` (`check_backpressure`), `Push`
  (`Queue.enqueue`), `SavePayload`, `AnnounceQueued`; its position is `api[j]`. `Abort` ends it
  between any two commands.
* `process_llm_call` is the program counter `worker.pc` with the locals that matter: `mem`, the
  meta RQ loaded with the job; `call`, the `LLMCallJob`; `text`, the `parts` list; `timer`, RQ's
  timeout; `inTry`, whether the instruction is under `except Exception`. The actions follow the
  function from top to bottom: `StartJob`, `Precheck`, `Process`, `AnnounceProcessing`,
  `EnterTry`, then `Generate` for a plain or structured job, or `OpenStream`,
  `AnnounceStreaming`, `Token`/`EmptyChunk`, `CheckChunk`, `EndOfStream`/`StreamError`;
  `CheckResult`, `Complete`, `AnnounceCompleted`; `Finalize`, `AnnounceCancelled` for a
  cancelled job; `Reject` and `HandleError`, `AnnounceError` for the handlers.
* `cancel_llm_call` of job `j` is `cancel[j].pc` with its two copies: `mem`, the meta of the job
  object, and `call`, read by a later command. `CancelDecide` takes one of the three ways
  (already ended, queued, running); the rest are the commands of each way.
* RQ is external and modelled from the way it is used: `Dequeue` (pop and fetch), the first half
  of `StartJob` (mark started), `Succeed`, `Fail` (with the second save of the meta by
  `Job.retry`), `Timeout`, `Crash`, `Reclaim`. `Job.result` exists in older RQ versions and in
  newer ones behind a return value; `ResultVisible` covers both.

Data is reduced to what the code decides on. A call is its status, the cancel flag, the retry
count and, for a stream, the numbers of the chunks its text was joined from. `meta[j]` stands
for `job.meta["llm_call"]` with the `retry_count` beside it, which the code always sets
together. Expiry of keys, metrics and messages are left out; the estimate of the waiting time is
any value that the numbers of queued and started jobs allow.

### JobPromise and LLMQueuePromise

`JobPromise` has three variables: where a job is (`new`, `waiting`, `running`, `gone`), how often
it was begun, and what it delivered. Its actions are `Submit`, `Begin`, `Retry`, `Deliver` and
`Drop`. `LLMQueuePromise` computes them from the queue: `JobPhase` from the RQ status, the list,
the intermediate list and the registry, `runs` from the executions RQ started, `outcome` from
RQ's stored result. `PromiseKept` says that every behaviour of the queue is one of the promise.

### JobReaders

Extends `LLMQueue` by the two ways of waiting for a job. `Wait`, `PollPayload`, `PollStatus` and
`FetchResult` are `wait_for_job_result`: one poll of `get_job_status` is two commands (payload,
then RQ status, combined by `PolledStatus`), and the result is a third. `Subscribe`, `Receive`
and `GiveUp` are `stream_llm_events`; a batch of XREAD is received event by event, as the
generator hands it on. `DeadlinePasses` and `GiveUp` are the two deadlines, which may pass at any
moment, or never if `Deadlines` is false. `AskOutcome` is what `ask_llm` makes of the end: no
branch of it is a `GenerationTimeoutError`, since the gateway looks for "timeout" in a message the
worker words "timed out".

### AgentSession

The requests of one API process share one `AgentService`, hence one `SessionState` (`active`,
`previous`, `states`) and one `ConversationMemory` (`turns`). A request is a record: where it
awaits, the history it read, the mode it resolved, whose mode state its answer was built from
(`used`, read from `states`), and how its answer was labelled. An action is the code between two
awaits:

* `BeginSupplied`, `BeginRouted`, `Classified`: the history is read, the intent resolved, applied
  (`Resolve`), and a clarification or the general answer is given at once.
* `Updated`, `Handled`: the two model calls of a handler in `chat_full`. The state update is
  stored when it arrives, the answer's prompt is built in the same stretch.
* `StaticReply` and `StaticDone` (the turn with the first event of a fixed text, then its last
  event), `OpenStream`, `StreamEvent`, `StreamDone`, `Record`: the generators of `chat_stream`,
  advanced by the server at its own pace. `Fail`, `StreamFails`, `Disconnect` are the ways out; a
  client may leave between any two events.

A mode state is identified with the request that wrote it, a turn with the request it answers;
`log` is a history variable of all turns, `written` of the requests that have stored a state, and
`older` what `written` was before a request's own. The state of a stream is read when the stream is
opened, after an await: it may be another request's, but of the same mode and not older than its
own, which is what `AnswersFromFreshState` says. The handlers differ in prompts and schemas only and are
one parameter `Handlers`. Cancelling the job of a disconnected stream is recorded in `job`; its
effect on the queue is `LLMQueue`'s cancellation. `_stream_mode_response` is unreachable, since
every handler has a `stream`.

### ThinkFilter and LlamaGateway

`ThinkFilter` has `_ThinkStreamFilter` as `Feed` and `Flush` and `_strip_think_blocks` as
`StripThinkBlocks`. The loop of `feed` is `Scan`, a function of the position it has come to, whose
two branches are `FeedInside` and `FeedOutside`. A text is a sequence of characters; what a filter
leaves of it is the sequence of positions kept, so that order, loss and repetition show. `Visible`
and `ClosedBlocks` are the reference: one pass over the whole text, independent of its cuts. The
tags are shortened to three characters with the overlap of the real ones. `MessageContent` is
`_extract_message_content`: the text without its blocks, stripped of the blanks at both ends
(`Strip`). The stream does not strip: of a block, a blank line and an answer it shows the blank
line.

`LlamaGateway` is one call. `BuildPayload` selects the profile, merges its parameters and puts its
control line into the messages; `FullFails`/`FullAnswer` are the plain and structured calls. A
streamed call has two sides: `stream_llm_sync` in its thread (`StreamOpens`, `StreamEvent` for every
way of cutting the text, `StreamDone`, `StreamEof`, `StreamFails`, `StreamInterrupted`,
`StreamFlush`, `Finally`), and the generator that takes items from the queue (`ReadToken`,
`ReadEnd`, `Join`, `Leave`). `swallowed` is a history variable: the characters of a feed that ended
within a block, which `feed` drops even when they preceded the block. `NothingElseIsLost` and
`StreamAgreesWithFull` say that this and the blanks at both ends are the only differences to the
full answer for a text whose tags match, but for one: `_strip_think_blocks` removes single tags
after the blocks, hence also a tag that comes together only where a block was taken out of it, which
the stream shows. (For a text whose last block is not closed the two differ by design of the code:
the full answer keeps the text of the block, the stream drops it.)

### WebLogin

A sign-up is a record: its name, the API's response, and what the Web UI told the user. The
response may be lost before or after the account was committed (`Lose`, `Break`); the API goes on
with a request nobody waits for. An account is identified with the sign-up (or the script) whose
password it has, so that a correct password is one of the account's own.

A login is a program counter over `authenticate_user`: `Check` (lock-out), `ApiLogin` (the API
reads the row and decides), and, when the response arrives, `Rejected` or `Clear`; `Unanswered` is a
response that does not. A refusal goes on with `Count`, `SetExpiry`, `Lock` in the Redis store, or
with `CountInMemory`. `CutOff` ends an attempt before a command of Redis. Between any of these steps
an account may be created (`Create`, `ScriptCreates`), activated or deactivated (`SetActive`): the
row that was read may have changed when its response arrives. `ExpireCounter` and `ExpireLock` are
the passing of time. `wrong`, `guesses` and `cut` are history variables that the properties count
with; `seen` holds, for each attempt, the responses that the accounts made right at some moment
since it began. `Observe` adds to it in every step, and `LoginAnswerWasRight` compares the response
with it: deactivation does not undo an answer on its way, but no login that begins later is accepted.

### ChatUI

A message is its handler `ui[m]`, its connection `net[m]` and the API at work on it, `api[m]`. The
API part is `AgentSession` and the routes reduced to what they send: a status, tokens, one last
event, or an error. The connection is a sequence of events, which may break with events in it
(`Break`) or end as if complete (`EndEarly`). The handler takes events one by one (`OnStatus`,
`OnToken`, `OnDone`, `OnFailedEvent`, `OnStreamError`, `EndOfStream`), and after a stream without a
token sends a second, full request (`Fallback`, `OnAnswer`, `OnFullError`). `Select` changes the
mode of the chat by a setting, a starter or a retry, in between any of these; a starter or a retry
sets the mode before an await and reads it after (`OnSelected`).

Some behaviours that nothing in the repository promises otherwise and that the model therefore
keeps: every error before the first token, an unauthorised or saturated one included, has the one
notice of a stream; a connection that breaks after `done` is shown as interrupted; the retry of a
streamed answer has the mode the chat is in at its end.

### Runs

| Run | Instance | Question |
|---|---|---|
| `faults` | 1 streaming job, 1 retry, 1 chunk, 1 crash, timeouts, aborted calls, `Job.result` offered | budget of executions; the two retry counters; an announced end before a stored result; gone is gone; completed text against streamed tokens; completed and cancel-requested exclude each other; the RQ status against where the job is |
| `backlog` | 3 jobs, queue size 1, 1 crash, aborted calls | the backlog stays bounded |
| `cancel_queued` | 1 job | finding: cancelled, yet completed |
| `cancel_stream` | 1 streaming job | finding: the stream runs on after the request |
| `promise` | a plain and a structured job, 1 retry, 1 crash, timeouts | the queue implements `JobPromise`; RQ holds a job once |
| `waiter` | 1 structured job, 1 retry, 1 crash, timeouts, deadline, fair | every job ends; the waiter of an uncancelled job is answered, with RQ's outcome |
| `reader` | 1 streaming job, 1 retry, timeouts, deadline, `Job.result` offered | what closes a stream is a final status, after `failed` nothing runs again; it is not missed |
| `session` | 3 requests, one naming its mode, one a routed stream, memory of 2 turns | the mode of an answer is the request's own, its state not older than the request's own; one order of turns; only answers are remembered |
| `labels` | a stream and a request for another mode | finding: events carry another request's mode |
| `gateway` | 1 call, texts of up to 3 pieces (a character, a blank, a tag, half a tag, a block), cut in every way; 2 profiles | what is hidden, lost and shown by the filter; a cut-off answer is an error; one control line; the reader gets its end, which is in its queue once the thread is gone |
| `login` | 1 name, 2 sign-ups, 2 logins at a time, limit 2, 4 refusals, 1 cut-off | what a sign-up is told; that a login's answer was right when it was given; when a name is locked, how many refusals it takes, and that its counter expires |
| `chat` | 2 messages (a stream of up to 2 tokens, one of none), 2 modes | text as received; no partial answer passes for a whole one; one answer, not answered twice; no handler waits for what cannot come; every message is answered |

*Bounds.* The queue is FIFO, the worker single, and jobs meet only in the queue: one job shows
every interleaving of worker and canceller, two show the queue order, three the admission next
to a running and a waiting job. One retry gives a first, a last and no further attempt, which is
where the counters can differ. One crash reaches every instruction. One chunk in each of two
attempts tells a repeated token from one of another attempt and a check before a token from one
after the last; `cancel_stream` has two. `MaxChunks`,
`MaxCrashes` and the sets of jobs are the only bounds of the queue; everything else is the
program's own. The readers of a job do not affect it or one another, so one job is enough for
them; `reader` leaves crashes out (a dead worker can only stop the stream, which `GiveUp` ends).
Of the session, two requests show every conflict of a pair, a third an overwriting in between; a
memory of two turns overflows with three requests. `MaxEvents` is 1: the events
before the last differ only in whether one had a token and which mode was active.
Three pieces of text give a tag after, within and before a block and every pair of overlapping
halves; a chunk has any length, so a tag is cut everywhere. Accounts, counters and locks of
different names do not touch, so one name is enough; two sign-ups and two logins are the
conflicting pairs, and four refusals are one more than `RefusalsBounded` allows without a
cut-off. `MaxWrong` and `MaxCuts` bound the history, `MaxLength` the texts. Messages of a chat meet
in its mode only; the second is the retry of the first, or one that switches its mode. `MaxTokens`
gives one message a stream with a shown and a buffered token, the other the stream without one.
The runs turn deadlock checking off: each of these systems stops when there is nothing left to
do (jobs settled, the call ended, the bounds of refusals reached, messages answered).

*Fairness.* `waiter` assumes weak fairness of the worker (its supervisor restarts it), of each
started enqueue and cancel call (threads and coroutines run on), and of `Reclaim` (RQ's
maintenance is periodic). Clients, timeouts, crashes and aborts are free. A generation ends
because the number of its chunks is bounded, as the token limit of the model server bounds it.
The waiter's polls are weakly fair, as the event loop runs them; its deadline is free. Aborted
API calls are left out of this run: a cancellation that dies after its `LREM` leaves a job in no
list with status `queued`, which nothing in the code repairs.

`gateway` assumes that the collector thread goes on (every read of the response returns or times
out, `llama_server_stream_timeout_seconds`) and that the reader, unless it leaves, is scheduled.
`chat` assumes that the API goes on with a request it has (each of its waits for a job has a
deadline) and that a handler takes what has arrived. It assumes nothing of the user and the
connection: a response that stalls is one on which the API is still at work, and the Web UI's
own read timeout is `Break`, which need not happen. `login` states no fairness: it checks safety
only.

### What the runs found

* `cancel_queued`: `cancel_llm_call` decides on the RQ status, which stays `queued` after the
  worker has popped the job. It then removes nothing, reports the job as cancelled, and the
  worker goes on. `docs/queue.md:129` says "Queued jobs can be cancelled immediately."
* `labels`: `_stream_handler_response` labels an event with the mode the shared session is in
  when the event is sent. A request for another mode relabels the rest of a running stream, where
  `src/app/interfaces/api/routes.py:277` shows events with the mode of the request.
* `cancel_stream`: the worker writes its copy of the call when it turns to `processing` and
  `streaming`. A request stored since its last check is lost, and the stream runs to its end.
  `docs/queue.md:129` says streaming jobs "stop between generated chunks when possible."

## Proofs

Every safety property and every action property that a run checks is also a theorem, for every
value of the constants their modules assume. The type invariants of `JobReaders`, `AgentSession` and
`WebLogin` are theorems only. Each proof follows the same plan: an inductive
invariant, found by strengthening the property until TLC finds no step that breaks it, one lemma
per action, and the property as a consequence.

### The queue

`LLMQueueProofs` proves, for any set of jobs, retry budget, queue size and numbers of chunks and
crashes:

* `TypeCorrect`: `TypeOK`, and `PayloadKept`: a job whose id a client knows has its payload in
  Redis for good. This is what makes `get_job_result` total for clients.
* `OneHolderAlways`: the list, the intermediate list and the registry hold a job at most once.
  The inductive invariant adds `UnpushedIsNowhere`: before its push, a job is nowhere and has no
  RQ status. Most steps do not touch the lists (`LocalKeepsPlace`, `CancelKeepsPlace`).
* `GoneForGoodAlways`: no step brings back a job that left RQ, from the same invariant.
* `StatusKeepsTrackAlways`: a job that RQ calls queued or started is in its hands, unless a
  cancellation took it off the list and has yet to say so, or died there; one that RQ calls ended
  is not. `Tracked`, the same of one job, is inductive with the invariant above. So no crash,
  timeout or failure loses a job; only a cancellation that is cut off can
  (`queue_service.py:116`).
* `ExecutionsBoundedAlways`: at most `MaxRetries + 1` executions. `BudgetInv` adds what makes it
  inductive: executions so far, plus one if the job waits, never exceed the retries spent, plus
  one.
* `ExhaustedNeverRerunsAlways`: a job announced as failed for want of retries is never run
  again. The worker's `retry_count` travels in copies (meta, worker, cancellation, stored
  result), each possibly stale. `RetryInv` bounds every copy by `Counted`: the failures RQ has
  charged, plus the one the worker has counted but not yet reported. `FailedInv` says who may
  write `failed`: `HandleError` past the budget, `Reject` for structured jobs, and nobody else;
  a cancellation goes on only with a call it read as unfinished.

`LLMQueueResultsProofs` proves what reaches the outside of the queue:

* `BacklogBoundedAlways`. `check_backpressure` looks at the length of the list only, so `BacklogInv`
  counts all that RQ holds: the list, the worker's job, and at most one orphan per crash. That an
  admission is still true at the push needs `InEnqueue` to hold of one job at a time: the
  coroutine is not interrupted.
* `CompletedNeverCarriesCancelAlways`. `CallInv` says what the worker's copy may be at each of its
  positions, given whether the meta of its job is flagged and whether anybody asked to cancel the
  job; `CancelInv` does so for the copies of the cancellations, the meta and the results. The
  worker copies a request before it acts on it, and a canceller writes back only what it found
  unfinished.
* `ResultIsAnnouncedAlways` and `CompletedTextWasStreamedAlways`. `TextInv` says that the text
  joined so far stands on the stream as the ascending tokens after one opening, none of them
  beyond the worker's chunk, and that an end was announced before it is returned. A stream only
  grows, and only by what its writer may append as it stands (`MayAppend`, `Grows`); cancellations append to it in between.

`LLMQueuePromiseProofs` proves `PromiseKeptAlways`: the initial states of the queue map to those
of the promise, and each step of an action maps to one of its actions or to a stutter. Its
invariant says that a job RQ holds has no result and the RQ status of a held job, and that a job
with an RQ status that ends it is held nowhere; with `OneHolder` and `BudgetInv` from
`LLMQueueProofs`, this decides the phase before and after each step.

`JobReadersProofs` proves the clients' side. `QueueUnderReaders` says that the clients only read,
so everything proved of `LLMQueue` holds under them. On top of that:

* `WaiterGetsOutcomeAlways`: a poll reads the payload and RQ's status at different moments.
  `SettledInv` (a job that RQ calls ended has left its hands, a finished one with a result) and
  `AgreeInv` (of a job nobody cancels, the meta and the stored result say the same) make that
  harmless; `UnsavedInv` covers a worker that is faster than `enqueue_llm_call`.
* `StreamEndIsAnEndAlways` and `ReaderNeverMissesEndAlways`: `EndInv` says that an event closes a
  stream only with a final status, and a failure only once RQ has no retry left (`Spent`);
  `ReaderInv` that a reader has passed no end.
* `ReadersTypeCorrect`.

### The agent service

`AgentSessionProofs` proves, for any requests, modes and sizes of the memory: `SessionTypeCorrect`;
`OnlyAnswersRememberedAlways`; `RepliesInResolvedModeAlways`; `AnswersFromFreshStateAlways`;
`MemoryIsWindowAlways`. Every step moves one request that has not replied (`Steps`), to locals that
are sound by themselves (`Sound`), and logs at most that request, when it replies. So one lemma
(`StepsKeepInv`) carries the invariant, and each action only has to be shown to be such a step.
`WindowInv` says that the memory is a window of the log that ends with it, and each request's
history one that ended with the log at some moment. `FreshInv` says of the states what the answers
need: each was stored by a request that was resolved to its mode, and once a request has stored its
own, the state of its mode is none of those stored before.

### The gateway

`LlamaGatewayProofs` proves, for every text, every set of profiles and calls, and every way the
server may cut its text and end its response:

* `HiddenStaysHiddenAlways`, `NothingElseIsLostAlways` and `StreamAgreesWithFullAlways`. What
  `feed` does is defined by recursion, and the installed provers cannot use the induction theorems
  of the library. So induction is done with sets: a set of numbers that is not empty has a least
  member (`Least`), what holds of 0 and of successors holds of all (`Inductive`), and a recursive
  function on a finite ranked domain exists (`Recursion`), from the well-foundedness of `<`. With
  them, `InBlockIs`, `ScanIs` and `InOrderIs` give the equations of the three functions.
  The heart is `Ready(text, b, inside)`: the filter has decided all before b, is inside a block
  exactly if the text is, and no tag it waits for begins before b and ends at or after it.
  `FeedIs` says that `feed` goes from one such position to another: what it returns is what is
  visible between them, or nothing, when the chunk ended within a block; `FlushIs` is the same for the
  end. `HoldBack` is why `_overlap_suffix` holds back enough, and `PastTag` why a tag found is one of
  the text.
  `GatewayInv` carries this through the thread, its queue and the reader: `Delivered` (all that
  was delivered is visible, below the filter's position, and in order), `Whole` (nothing below it
  is missing, but what was swallowed), `AtEnd` and `LastItems`. `StripIs` computes what the full
  answer leaves before it is stripped, `StripPart` says that stripping leaves a part of it in order,
  and two ascending sequences with the same members are equal (`AscendingUnique`).
* `CompleteMeansSentAlways`, from `LastItems` (the error precedes the end in the queue) and `AtEnd`
  (a stream without an error has been sent to its end).
* `ReaderNeverStrandedAlways`: the thread has nothing but the queue to tell the event loop that it
  is gone. `EndedKeepsQueue` says that an ended thread sends no more, so the last item that
  `Finally` put stays last until the reader takes it (`LastItemStep`), behind the error.
* `ControlGivenOnceAlways`, from `PayloadInv`: what is sent is a call's messages after
  `ApplyPromptControl`; `ControlApplied` says what that does to any list of messages.
* `GatewayTypeCorrect`.

They assume `GatewayAssumption`: what `_parse_profile` and `load_model_profiles` let through, that
texts are sequences of characters, and that messages have a role and lines.

### Login and chat

`WebLoginProofs` proves, for any numbers of names, sign-ups, concurrent logins and refusals:

* `TypeCorrect`: `TypeOK`; the other proofs use its part `Typed`, without `seen`.
* `SignupToldTruthAlways`: `SignupInv` ties what the API has answered to whether the account of
  the name is the sign-up's own; `AccountsLast` says that no step takes an account away.
* `LoginAnswerWasRightAlways`: `SeenInv` adds that what the accounts now say of an attempt that
  waits for the API has been seen, whoever changed them last. `ResponseArrives` says that only
  `ApiLogin` gives an attempt its response, from the row as it then is.
* `LockIsEarnedAlways` and `RefusalsBoundedAlways`: `EarnedInv` bounds the counter plus the
  failures about to be counted by the refusals. `BoundInv` bounds the refusals of a window: while
  a name is not locked, by the limit and the attempts that are sure to lock it (`Pending`); once
  it is, those waiting for the API or its response (`Asking`) are all that can add to them, since a
  locked name is not asked about. The numbers are cardinalities of sets of attempts; `NumberMoves` and
  `GotoMoves` say how an attempt that moves changes them.
* `CounterExpiresAlways`, which is inductive with `Typed`.

`ChatUIProofs` proves, for any messages, modes and numbers of tokens: `ChatTypeCorrect`,
`TextAsReceivedAlways`, `AnswerIsWholeAlways`, `OneAnswerAlways`, `AskedAgainOnlyUnansweredAlways`
and `AnswerIsToComeAlways`. `ChatInv` is about one message at a time (`OneMessage`); its core is
`Flows`: what a handler has taken and what is on its way (`OnTheWay`: a status, tokens, one last
event) are the tokens the API sent, all of them as long as the connection holds, and again once the
last event has passed it. `ApiOK` says that the API records at most one turn, and that a second
request is only ever made for a message of which nothing was sent; `ModeOK` that a message whose
mode is not that of the chat has seen it switched. For `AnswerIsToCome`, `FullInv` adds what the
response to a full request can be (`AwaitsFull`): nothing yet while the API is at work, one event
and the end, or nothing any more after a break. It needs the first request of a message
(`HandleUserTextAsks`) and the second (`FallbackAsks`) to begin on a fresh response.

### What is only model-checked

`EveryJobSettles`, `WaiterAnswered`, `ReaderEnds` and `EveryMessageAnswered`: liveness under
fairness is out of the prover's reach. For three of them a theorem gives the safety half, that
whoever waits has what it waits for at hand or somebody at work on it: `StatusKeepsTrackAlways`
for `EveryJobSettles`, `ReaderNeverStrandedAlways` for `ReaderEnds`, `AnswerIsToComeAlways` for
`EveryMessageAnswered`; `ReaderNeverMissesEndAlways` does so for the reader of a job's stream. The
lemmas about sequences (`AppendRange`,
`RemoveAtProperties`, `PushInjective`, ...) state what a push, a pop and an `LREM` do to a list
without repetitions; those of `LlamaGatewayProofs` what a tag, a search and a filter are.

## Plan

In this order, the most important first:

1. `LLMQueue` with its runs and proofs (done).
2. `JobPromise`, implemented by `LLMQueue`, checked and proved (done).
3. `JobReaders` with its runs and proofs (done).
4. `AgentSession` with its runs and proofs (done).
5. `ThinkFilter` and `LlamaGateway` with their run and proofs (done).
6. `WebLogin` with its run and proofs (done).
7. `ChatUI` with its run and proofs (done).

The plan is done. What could follow: the routes of status and version and the resumption of an old
chat as a module of their own, and, with a prover for liveness, the four properties above from the
theorems about their safety half.

## Not modelled

* The reading of environment variables and of `model_profiles.yml`, and the fields of the API's
  schemas: they are read once or translate data without state.
* The status and version routes, the Web UI's status poll and feedback, and the resumption of an
  old chat: nothing the models relate reads what they do, except that a resumed chat sets its mode,
  which `SwitchMode` allows at any time.
* Deletion of an account and changes of its password, for which there is no code.
* Hashing of passwords, the wording of the password policy, and the session cookies of Chainlit.
* `SessionOrchestrator`, a console loop over the same handlers without concurrency.
* Pages, renderer, landing script, migrations and the API collection: layout, schema and samples.
* `docs/queue.md:115` says that FastAPI returns 429 for a saturated queue. `chat_full` does, and
  so does `chat_stream` for the jobs it awaits before its response begins, the classification and
  the update of the mode state (`agent_service.py:194`, `translation.py:31`). Its streaming job is
  enqueued after the status was sent, and a saturated queue then becomes an event of the stream.
  `ApiRejects` and `ApiLastEvent` of `ChatUI` have it so; no run of its own shows it.
