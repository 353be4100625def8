----------------------- MODULE LLMQueueResultsProofs -----------------------
(***************************************************************************)
(* What LLMQueue keeps in its hands and what it hands out, for every value *)
(* of its constants: the size of the backlog, and the agreement of the     *)
(* meta, the stored result and the stream of a job.                        *)
(***************************************************************************)
EXTENDS LLMQueuePromiseProofs, FiniteSetTheorems

-----------------------------------------------------------------------------
(* The backlog                                                              *)

HeldJobs == {j \in Jobs : Held(j)}

(* The jobs that dead workers left to RQ's maintenance.                     *)
Orphans == (intermediate \cup started) \ {worker.job}

BacklogInv ==
  /\ IsFiniteSet(HeldJobs)
  /\ Cardinality(Orphans) <= crashes
  /\ Cardinality(HeldJobs) <= MaxQueueSize + 1 + crashes
  /\ \A j \in Jobs : api[j] = "admitted" => Cardinality(HeldJobs) <= MaxQueueSize + crashes
  /\ \A j, k \in Jobs : InEnqueue(j) /\ InEnqueue(k) => j = k

(* A list has at most as many members as entries.                           *)
LEMMA RangeBounded ==
  ASSUME NEW S, NEW s \in Seq(S)
  PROVE  IsFiniteSet(Range(s)) /\ Cardinality(Range(s)) <= Len(s)
<1>1. Len(s) \in Nat /\ DOMAIN s = 1..Len(s)
  OBVIOUS
<1>2. IsFiniteSet(1..Len(s)) /\ Cardinality(1..Len(s)) = Len(s)
  BY <1>1, FS_Interval
<1>3. s \in Surjection(1..Len(s), Range(s))
  <2>1. s = [i \in 1..Len(s) |-> s[i]]
    BY <1>1
  <2>2. s \in [1..Len(s) -> Range(s)] /\ \A x \in Range(s) : \E i \in 1..Len(s) : s[i] = x
    BY <1>1, <2>1 DEF Range
  <2>3. QED
    BY <2>2 DEF Surjection
<1>4. QED
  BY <1>2, <1>3, FS_Surjection

(* Only a push adds to the backlog, and only a crash leaves an orphan.      *)
LEMMA BacklogMoves ==
  ASSUME TypeOK, HolderInv, RetryInv, [Next]_vars
  PROVE  /\ \A j \in HeldJobs' \ HeldJobs : Push(j)
         /\ ~Crash => Orphans' \subseteq Orphans
         /\ Crash => Orphans' \subseteq Orphans \cup {worker.job}
         /\ crashes' = IF Crash THEN crashes + 1 ELSE crashes
<1>0. /\ queue \in Seq(Jobs) /\ Injective(queue)
      /\ Running => worker.job \in started
      /\ worker.pc = "popped" => worker.job \in intermediate
      /\ \A k \in Jobs : k \in Range(queue) => k \notin intermediate /\ k \notin started
      /\ intermediate \subseteq Jobs /\ started \subseteq Jobs
      /\ ~At("idle") => worker.job \in Jobs
  BY HolderAsSets DEF HolderInv, TypeOK
<1>i. /\ At("idle") => worker.job = NoJob
      /\ IdleWorker.job = NoJob /\ NoJob \notin Jobs
  BY JobsAssumption DEF RetryInv, IdleWorker
<1>1. \A j \in HeldJobs' \ HeldJobs : Push(j)
  BY StatusKept DEF HeldJobs
<1>2. CASE LocalStep
  BY <1>1, <1>2, LocalKeepsPlace DEF rqVars, Orphans, Crash
<1>3. CASE Dequeue
  <2>1. /\ UNCHANGED <<started, crashes>> /\ At("idle")
        /\ Head(queue) \in Range(queue)
        /\ intermediate' = intermediate \cup {Head(queue)} /\ worker'.job = Head(queue)
    BY <1>0, <1>3, PopInjective DEF Dequeue, IdleWorker
  <2>2. QED
    BY <1>0, <1>1, <1>i, <2>1 DEF Orphans, Crash
<1>4. CASE StartJob
  BY <1>0, <1>1, <1>4 DEF StartJob, At, Orphans, Crash, TypeOK, WorkerStates
<1>5. CASE Succeed \/ Fail
  <2>1. /\ UNCHANGED <<intermediate, crashes>> /\ started' = started \ {worker.job}
        /\ worker' = IdleWorker /\ worker.pc \in {"return", "raised"}
    BY <1>5 DEF Succeed, Fail, At
  <2>2. worker.job \in started /\ worker.job \notin intermediate
    BY <2>1 DEF HolderInv, OneHolder, Running
  <2>3. crashes \in Nat /\ ~Crash
    BY <2>1 DEF Crash, TypeOK
  <2>4. QED
    BY <1>0, <1>1, <1>i, <2>1, <2>2, <2>3 DEF Orphans
<1>6. CASE Crash
  BY <1>0, <1>1, <1>6 DEF Crash, rqVars, Orphans
<1>7. ASSUME NEW k \in Jobs,
             \/ Admit(k) \/ Refuse(k) \/ Abort(k) \/ Push(k) \/ SavePayload(k)
             \/ AnnounceQueued(k) \/ CancelStep(k)
      PROVE  UNCHANGED <<intermediate, started, worker, crashes>>
  BY <1>7, CancelKeepsPlace DEF Admit, Refuse, Abort, Push, SavePayload, AnnounceQueued, rqVars,
    HolderInv
<1>8. ASSUME NEW k \in Jobs, Reclaim(k)
      PROVE  UNCHANGED <<worker, crashes>> /\ Orphans' \subseteq Orphans
  BY <1>8 DEF Reclaim, Orphans
<1>9. ASSUME UNCHANGED <<worker, crashes>>
      PROVE  ~Crash
  BY <1>9 DEF Crash, TypeOK
<1>10. CASE UNCHANGED vars
  BY <1>1, <1>9, <1>10 DEF vars, rqVars, Orphans
<1>11. QED
  BY <1>1, <1>2, <1>3, <1>4, <1>5, <1>6, <1>7, <1>8, <1>9, <1>10, NextCases DEF Orphans

(* RQ holds what waits in its list, the job of the worker, and orphans.     *)
LEMMA HeldCount ==
  ASSUME TypeOK, IsFiniteSet(Orphans)
  PROVE  /\ IsFiniteSet(HeldJobs)
         /\ Cardinality(HeldJobs) <= Len(queue) + Cardinality(Orphans) + 1
<1> DEFINE R == Range(queue)
           OW == Orphans \cup {worker.job}
           All == R \cup OW
<1>1. IsFiniteSet(R) /\ Cardinality(R) <= Len(queue) /\ Len(queue) \in Nat
  BY RangeBounded DEF TypeOK
<1>2. IsFiniteSet(OW) /\ Cardinality(OW) <= Cardinality(Orphans) + 1
  <2>1. Cardinality(Orphans) \in Nat
    BY FS_CardinalityType
  <2>2. QED
    BY <2>1, FS_AddElement
<1> HIDE DEF R, OW
<1>3. IsFiniteSet(All) /\ Cardinality(All) <= Cardinality(R) + Cardinality(OW)
  <2>1. /\ IsFiniteSet(R \cup OW)
        /\ Cardinality(R \cup OW) = Cardinality(R) + Cardinality(OW) - Cardinality(R \cap OW)
    BY <1>1, <1>2, FS_Union
  <2>2. R \cap OW \in SUBSET R
    OBVIOUS
  <2>3. IsFiniteSet(R \cap OW)
    BY <1>1, <2>2, FS_Subset
  <2>4. Cardinality(R) \in Nat /\ Cardinality(OW) \in Nat /\ Cardinality(R \cap OW) \in Nat
    BY <1>1, <1>2, <2>3, FS_CardinalityType
  <2>5. QED
    BY <2>1, <2>4
<1>4. HeldJobs \in SUBSET All
  BY DEF HeldJobs, Held, InQueue, Orphans, R, OW
<1> HIDE DEF All
<1>5. IsFiniteSet(HeldJobs) /\ Cardinality(HeldJobs) <= Cardinality(All)
  BY <1>3, <1>4, FS_Subset
<1>6. /\ Cardinality(HeldJobs) \in Nat /\ Cardinality(All) \in Nat
      /\ Cardinality(R) \in Nat /\ Cardinality(OW) \in Nat /\ Cardinality(Orphans) \in Nat
  BY <1>1, <1>2, <1>3, <1>5, FS_CardinalityType
<1>7. QED
  BY <1>1, <1>2, <1>3, <1>5, <1>6

(* The event loop admits a job only when no other enqueue_llm_call is half  *)
(* way, and a push ends the only admission there is.                        *)
LEMMA EnqueueMoves ==
  ASSUME TypeOK, HolderInv, [Next]_vars
  PROVE  \/ /\ \A j \in Jobs : api'[j] = "admitted" => api[j] = "admitted"
            /\ \A j \in Jobs : InEnqueue(j)' => InEnqueue(j)
         \/ \E k \in Jobs : /\ Admit(k)
                            /\ \A j \in Jobs : InEnqueue(j)' => j = k
<1>m. api \in [Jobs -> {"idle", "admitted", "pushed", "saved", "returned", "refused",
                        "aborted"}]
  BY DEF TypeOK
<1>1. CASE LocalStep
  BY <1>1, LocalKeepsPlace DEF InEnqueue
<1>2. CASE Dequeue \/ StartJob \/ Succeed \/ Fail \/ Crash
  BY <1>2 DEF Dequeue, StartJob, Succeed, Fail, Crash, InEnqueue
<1>3. CASE \E k \in Jobs : Admit(k)
  BY <1>m, <1>3 DEF Admit, EnqueueAt, InEnqueue
<1>4. ASSUME NEW k \in Jobs,
             Refuse(k) \/ Abort(k) \/ Push(k) \/ SavePayload(k) \/ AnnounceQueued(k)
      PROVE  /\ \A j \in Jobs : api'[j] = "admitted" => api[j] = "admitted"
             /\ \A j \in Jobs : InEnqueue(j)' => InEnqueue(j)
  BY <1>m, <1>4 DEF Refuse, Abort, Push, SavePayload, AnnounceQueued, EnqueueAt, InEnqueue
<1>5. CASE \E k \in Jobs : CancelStep(k)
  BY <1>5, CancelKeepsPlace DEF HolderInv, InEnqueue
<1>6. CASE \E k \in Jobs : Reclaim(k)
  BY <1>6 DEF Reclaim, InEnqueue
<1>7. CASE UNCHANGED vars
  BY <1>7 DEF vars, InEnqueue
<1>8. QED
  BY <1>1, <1>2, <1>3, <1>4, <1>5, <1>6, <1>7, NextCases

LEMMA BacklogStep ==
  TypeOK /\ TypeOK' /\ HolderInv /\ RetryInv /\ BacklogInv /\ [Next]_vars => BacklogInv'
<1> SUFFICES ASSUME TypeOK, TypeOK', HolderInv, RetryInv, BacklogInv, [Next]_vars
             PROVE  BacklogInv'
  OBVIOUS
<1>n. /\ crashes \in Nat /\ MaxQueueSize \in Nat
      /\ crashes' = IF Crash THEN crashes + 1 ELSE crashes
  BY BacklogMoves, BoundsAssumption DEF TypeOK
<1>f. /\ IsFiniteSet(HeldJobs) /\ Cardinality(HeldJobs) \in Nat
      /\ IsFiniteSet(Orphans) /\ Cardinality(Orphans) \in Nat
  <2>1. Orphans \in SUBSET HeldJobs
    BY DEF Orphans, HeldJobs, Held, TypeOK
  <2>2. QED
    BY <2>1, FS_Subset, FS_CardinalityType DEF BacklogInv
<1>o. IsFiniteSet(Orphans') /\ Cardinality(Orphans') <= crashes'
  <2>1. CASE Crash
    <3>1. Orphans' \in SUBSET (Orphans \cup {worker.job}) /\ crashes' = crashes + 1
      BY <1>n, <2>1, BacklogMoves
    <3>2. /\ IsFiniteSet(Orphans \cup {worker.job})
          /\ Cardinality(Orphans \cup {worker.job}) <= Cardinality(Orphans) + 1
          /\ Cardinality(Orphans \cup {worker.job}) \in Nat
      BY <1>f, FS_AddElement, FS_CardinalityType
    <3>3. IsFiniteSet(Orphans') /\ Cardinality(Orphans') \in Nat
          /\ Cardinality(Orphans') <= Cardinality(Orphans \cup {worker.job})
      BY <3>1, <3>2, FS_Subset, FS_CardinalityType
    <3>4. QED
      BY <1>f, <1>n, <3>1, <3>2, <3>3 DEF BacklogInv
  <2>2. CASE ~Crash
    <3>1. Orphans' \in SUBSET Orphans /\ crashes' = crashes
      BY <1>n, <2>2, BacklogMoves
    <3>2. IsFiniteSet(Orphans') /\ Cardinality(Orphans') \in Nat
          /\ Cardinality(Orphans') <= Cardinality(Orphans)
      BY <1>f, <3>1, FS_Subset, FS_CardinalityType
    <3>3. QED
      BY <1>f, <1>n, <3>1, <3>2 DEF BacklogInv
  <2>3. QED
    BY <2>1, <2>2
<1>1. CASE \E k \in Jobs : Push(k)
  <2>1. PICK k \in Jobs : Push(k)
    BY <1>1
  <2>2. \A j \in Jobs \ {k} : ~Push(j)
    BY <2>1 DEF Push, EnqueueAt, BacklogInv, InEnqueue
  <2>3. HeldJobs' \in SUBSET (HeldJobs \cup {k})
    BY <2>2, BacklogMoves DEF HeldJobs
  <2>4. /\ api[k] = "admitted" /\ crashes' = crashes
        /\ \A j \in Jobs : api'[j] # "admitted"
        /\ \A j \in Jobs : InEnqueue(j)' => InEnqueue(j)
    BY <2>1 DEF Push, EnqueueAt, BacklogInv, InEnqueue, TypeOK
  <2>5. /\ IsFiniteSet(HeldJobs \cup {k})
        /\ Cardinality(HeldJobs \cup {k}) <= Cardinality(HeldJobs) + 1
        /\ Cardinality(HeldJobs \cup {k}) \in Nat
    <3>1. /\ IsFiniteSet(HeldJobs \cup {k})
          /\ Cardinality(HeldJobs \cup {k})
               = IF k \in HeldJobs THEN Cardinality(HeldJobs) ELSE Cardinality(HeldJobs) + 1
      BY <1>f, FS_AddElement
    <3>2. QED
      BY <1>f, <3>1
  <2>6. IsFiniteSet(HeldJobs') /\ Cardinality(HeldJobs') \in Nat
        /\ Cardinality(HeldJobs') <= Cardinality(HeldJobs \cup {k})
    BY <2>3, <2>5, FS_Subset, FS_CardinalityType
  <2>7. Cardinality(HeldJobs') <= MaxQueueSize + 1 + crashes'
    BY <1>f, <1>n, <2>4, <2>5, <2>6 DEF BacklogInv
  <2>8. \A i, j \in Jobs : InEnqueue(i)' /\ InEnqueue(j)' => i = j
    BY <2>4 DEF BacklogInv
  <2>9. QED
    BY <1>o, <2>4, <2>6, <2>7, <2>8 DEF BacklogInv
<1>2. CASE \A k \in Jobs : ~Push(k)
  <2>1. HeldJobs' \in SUBSET HeldJobs
    BY <1>2, BacklogMoves DEF HeldJobs
  <2>2. /\ IsFiniteSet(HeldJobs') /\ Cardinality(HeldJobs') \in Nat
        /\ Cardinality(HeldJobs') <= Cardinality(HeldJobs)
    BY <1>f, <2>1, FS_Subset, FS_CardinalityType
  <2>3. crashes' >= crashes /\ crashes' \in Nat
    BY <1>n
  <2>4. Cardinality(HeldJobs') <= MaxQueueSize + 1 + crashes'
    BY <1>f, <1>n, <2>2, <2>3 DEF BacklogInv
  <2>5. CASE /\ \A j \in Jobs : api'[j] = "admitted" => api[j] = "admitted"
             /\ \A j \in Jobs : InEnqueue(j)' => InEnqueue(j)
    <3>1. \A j \in Jobs : api'[j] = "admitted"
                            => Cardinality(HeldJobs') <= MaxQueueSize + crashes'
      BY <1>f, <1>n, <2>2, <2>3, <2>5 DEF BacklogInv
    <3>2. \A i, j \in Jobs : InEnqueue(i)' /\ InEnqueue(j)' => i = j
      BY <2>5 DEF BacklogInv
    <3>3. QED
      BY <1>o, <2>2, <2>4, <3>1, <3>2 DEF BacklogInv
  <2>6. CASE \E k \in Jobs : Admit(k) /\ \A j \in Jobs : InEnqueue(j)' => j = k
    <3>1. PICK k \in Jobs : Admit(k) /\ \A j \in Jobs : InEnqueue(j)' => j = k
      BY <2>6
    <3>2. Len(queue) < MaxQueueSize /\ Len(queue) \in Nat
      BY <3>1 DEF Admit, TypeOK
    <3>3. Cardinality(HeldJobs) <= MaxQueueSize + crashes
      BY <1>f, <1>n, <3>2, HeldCount DEF BacklogInv
    <3>4. Cardinality(HeldJobs') <= MaxQueueSize + crashes'
      BY <1>f, <1>n, <2>2, <2>3, <3>3
    <3>5. \A i, j \in Jobs : InEnqueue(i)' /\ InEnqueue(j)' => i = j
      BY <3>1
    <3>6. QED
      BY <1>o, <2>2, <2>4, <3>4, <3>5 DEF BacklogInv
  <2>7. QED
    BY <2>5, <2>6, EnqueueMoves
<1>3. QED
  BY <1>1, <1>2

(* RQ never holds more than LLM_MAX_QUEUE_SIZE + 1 jobs and the ones that   *)
(* crashed workers left, although check_backpressure looks at the length of *)
(* the list alone: admission and push are one uninterrupted coroutine.      *)
THEOREM BacklogBoundedAlways == Spec => []BacklogBounded
<1>1. Init => BacklogInv
  <2> SUFFICES ASSUME Init PROVE BacklogInv
    OBVIOUS
  <2>1. HeldJobs = {} /\ Orphans = {}
    BY DEF Init, HeldJobs, Orphans, Held, InQueue, Range
  <2>2. IsFiniteSet(HeldJobs) /\ Cardinality(HeldJobs) = 0 /\ Cardinality(Orphans) = 0
    BY <2>1, FS_EmptySet
  <2>3. QED
    BY <2>2, BoundsAssumption DEF Init, BacklogInv, InEnqueue
<1>2. TypeOK /\ TypeOK' /\ HolderInv /\ RetryInv /\ BacklogInv /\ [Next]_vars => BacklogInv'
  BY BacklogStep
<1>3. BacklogInv => BacklogBounded
  BY DEF BacklogInv, BacklogBounded, HeldJobs
<1>4. QED
  BY <1>1, <1>2, <1>3, TypeCorrect, HolderAlways, RetryAlways, PTL DEF Spec

-----------------------------------------------------------------------------
(* The call that process_llm_call works on                                  *)

(* Not both completed and cancel_requested.                                 *)
Sound(call) == ~(call.status = "completed" /\ call.cancel)

(* No trace of a cancellation.                                              *)
Clean(call) == ~call.cancel /\ call.status # "cancelled"

(* Past the check for a cancellation, and before it finds one.              *)
Going ==
  {"process", "announce", "try", "generate", "open", "opened", "chunk", "check", "finish",
   "complete", "completed"}

(* What worker w knows of its call; flagged is the cancel_requested of the  *)
(* meta of its job, touched whether anybody asked to cancel the job.        *)
CallOK(w, flagged, touched) ==
  /\ w.pc = "announce" => w.call.status = "processing"
  /\ w.pc \in {"opened", "chunk", "check"} => w.call.status = "streaming"
  /\ w.pc = "completed" => w.call.status = "completed"
  /\ w.pc = "cancelled" => w.call.status = "cancelled"
  /\ w.pc = "excepted" => w.call.status \in {"queued", "failed"}
  /\ w.pc \in Going => ~w.call.cancel
  /\ Sound(w.mem)
  /\ w.pc = "return" => Sound(w.call)
  /\ w.pc \in {"popped", "precheck"} /\ ~flagged => ~w.mem.cancel /\ ~w.call.cancel
  /\ ~touched => Clean(w.mem) /\ Clean(w.call) /\ w.pc \notin {"finalize", "cancelled"}

CallInv == ~At("idle") => CallOK(worker, meta[worker.job].cancel, cancel[worker.job].pc # "none")

(* The copies in Redis and in the cancellations.                            *)
CancelInv ==
  \A j \in Jobs :
    /\ Sound(meta[j]) /\ Sound(result[j])
    /\ cancel[j].pc = "none" => Clean(meta[j]) /\ Clean(result[j])
    /\ cancel[j].pc \in {"remove", "store", "status", "announce", "request", "notify"}
         => cancel[j].call.cancel
    /\ cancel[j].pc \in {"request", "notify"} => cancel[j].call.status \notin Terminal
    /\ cancel[j].pc \in {"status", "announce"} => cancel[j].call.status = "cancelled"

(* The worker finds the request of a cancellation wherever it looks for it. *)
LEMMA LocalCall ==
  ASSUME TypeOK, LocalStep, NEW touched \in BOOLEAN,
         result[worker.job] = NoCall, meta[worker.job].cancel => touched,
         CallOK(worker, meta[worker.job].cancel, touched)
  PROVE  \A flagged \in BOOLEAN : CallOK(worker', flagged, touched)
<1> USE DEF At
<1>0. /\ worker \in WorkerStates
      /\ worker.pc \notin {"idle", "popped"} => worker.call \in Calls
  BY DEF TypeOK, Running
<1>j. JobResult(worker.job) = meta[worker.job]
      /\ CancelRequested(worker.job) = meta[worker.job].cancel
  BY DEF JobResult, CancelRequested
<1>c. CallOK(worker, meta[worker.job].cancel, touched)
  OBVIOUS
<1>s. ASSUME NEW status \in Statuses, NEW there \in WorkerPC, Store(status, there),
             worker.pc \notin {"idle", "popped"}
      PROVE  /\ worker'.pc = there /\ worker'.mem = worker'.call
             /\ worker'.call.status = status /\ worker'.call.cancel = worker.call.cancel
  BY <1>0, <1>s DEF Store, WorkerStates, Calls
<1>1. CASE Precheck
  <2>1. CASE JobResult(worker.job) = NoCall
    BY <1>0, <1>1, <1>c, <2>1 DEF Precheck, WorkerStates, CallOK, Going
  <2>2. CASE JobResult(worker.job) # NoCall /\ CancelRequested(worker.job)
    <3>1. worker' = [worker EXCEPT !.pc = "finalize", !.call = [worker.call EXCEPT !.cancel = TRUE]]
      BY <1>0, <1>1, <2>2 DEF Precheck, WorkerStates
    <3>2. touched
      BY <1>j, <2>2
    <3>3. QED
      BY <1>0, <1>c, <3>1, <3>2 DEF WorkerStates, CallOK, Going
  <2>3. CASE JobResult(worker.job) # NoCall /\ ~CancelRequested(worker.job)
    BY <1>0, <1>1, <1>c, <1>j, <2>3 DEF Precheck, WorkerStates, CallOK, Going
  <2>4. QED
    BY <2>1, <2>2, <2>3
<1>2. CASE Process
  BY <1>2, <1>c, <1>s DEF Process, WorkerPC, Statuses, CallOK, Sound, Clean, Going
<1>3. CASE AnnounceProcessing
  BY <1>0, <1>3, <1>c DEF AnnounceProcessing, Announce, Goto, WorkerStates, CallOK, Going
<1>4. CASE EnterTry
  BY <1>0, <1>4, <1>c DEF EnterTry, WorkerStates, CallOK, Going
<1>5. CASE Generate
  BY <1>0, <1>5, <1>c DEF Generate, Goto, WorkerStates, CallOK, Going
<1>6. CASE OpenStream
  BY <1>6, <1>c, <1>s DEF OpenStream, WorkerPC, Statuses, CallOK, Sound, Clean, Going
<1>7. CASE AnnounceStreaming
  BY <1>0, <1>7, <1>c DEF AnnounceStreaming, Announce, Goto, WorkerStates, CallOK, Going
<1>8. CASE Token
  BY <1>0, <1>8, <1>c DEF Token, WorkerStates, CallOK, Going
<1>9. CASE EmptyChunk
  BY <1>0, <1>9, <1>c DEF EmptyChunk, WorkerStates, CallOK, Going
<1>10. CASE EndOfStream
  <2>1. worker' = [worker EXCEPT !.pc = "finish", !.call = [worker.call EXCEPT !.text = worker.text]]
        /\ worker.pc = "chunk" /\ worker.call \in Calls
    BY <1>0, <1>10 DEF EndOfStream, WorkerStates
  <2>2. worker'.call.status = worker.call.status /\ worker'.call.cancel = worker.call.cancel
        /\ worker'.mem = worker.mem /\ worker'.pc = "finish"
    BY <1>0, <2>1 DEF WorkerStates, Calls
  <2>3. QED
    BY <1>c, <2>1, <2>2 DEF CallOK, Clean, Going
<1>11. CASE StreamError
  BY <1>0, <1>11, <1>c DEF StreamError, WorkerStates, CallOK, Going
<1>12. CASE CheckChunk \/ CheckResult
  <2>1. worker.pc \in {"check", "finish"} /\ worker.call \in Calls
    BY <1>0, <1>12 DEF CheckChunk, CheckResult
  <2>2. CASE CancelRequested(worker.job)
    <3>1. /\ worker'.pc = "finalize" /\ worker'.mem = worker.mem
          /\ worker'.call.status = worker.call.status
      <4>1. worker' \in
              {[worker EXCEPT !.pc = "finalize", !.call = [worker.call EXCEPT !.cancel = TRUE]],
               [worker EXCEPT !.pc = "finalize", !.call = [worker.call EXCEPT !.cancel = TRUE],
                              !.inTry = FALSE]}
        BY <1>0, <1>12, <2>2 DEF CheckChunk, CheckResult, WorkerStates
      <4>2. /\ worker'.pc = "finalize" /\ worker'.mem = worker.mem
            /\ worker'.call = [worker.call EXCEPT !.cancel = TRUE]
        BY <1>0, <4>1 DEF WorkerStates
      <4>3. QED
        BY <2>1, <4>2 DEF Calls
    <3>2. touched
      BY <1>j, <2>2
    <3>3. QED
      BY <1>c, <2>1, <3>1, <3>2 DEF CallOK, Going
  <2>3. CASE ~CancelRequested(worker.job)
    BY <1>0, <1>12, <1>c, <2>3 DEF CheckChunk, CheckResult, WorkerStates, CallOK, Going
  <2>4. QED
    BY <2>2, <2>3
<1>13. CASE Complete
  BY <1>13, <1>c, <1>s DEF Complete, WorkerPC, Statuses, Terminal, CallOK, Sound, Clean, Going
<1>14. CASE AnnounceCompleted
  BY <1>0, <1>14, <1>c DEF AnnounceCompleted, Announce, Goto, WorkerStates, CallOK, Sound, Going
<1>15. CASE Finalize
  BY <1>15, <1>c, <1>s DEF Finalize, WorkerPC, Statuses, Terminal, CallOK, Sound, Going
<1>16. CASE AnnounceCancelled
  BY <1>0, <1>16, <1>c DEF AnnounceCancelled, Announce, Goto, WorkerStates, CallOK, Sound, Going
<1>17. CASE Reject
  BY <1>17, <1>c, <1>s DEF Reject, WorkerPC, Statuses, Terminal, CallOK, Sound, Clean, Going
<1>18. CASE HandleError
  <2> DEFINE retry == worker.call.retry + 1
             status == IF retry <= MaxRetries THEN "queued" ELSE "failed"
             call == [worker.call EXCEPT !.retry = retry, !.status = status]
  <2>1. worker.pc = "except" /\ worker.call \in Calls
    BY <1>0, <1>18 DEF HandleError
  <2>2. call.status \in {"queued", "failed"} /\ call.cancel = worker.call.cancel
    BY <2>1 DEF Calls
  <2>3. worker'.mem = call /\ worker'.call = call /\ worker'.pc \in {"excepted", "raised"}
    BY <1>0, <1>18 DEF HandleError, WorkerStates
  <2>4. QED
    BY <1>c, <2>1, <2>2, <2>3 DEF CallOK, Sound, Clean, Going
<1>19. CASE AnnounceError
  BY <1>0, <1>19, <1>c DEF AnnounceError, Announce, Goto, WorkerStates, CallOK, Going
<1>20. CASE Timeout
  BY <1>0, <1>20, <1>c DEF Timeout, WorkerStates, CallOK, Going
<1>21. QED
  BY <1>1, <1>2, <1>3, <1>4, <1>5, <1>6, <1>7, <1>8, <1>9, <1>10, <1>11, <1>12,
    <1>13, <1>14, <1>15, <1>16, <1>17, <1>18, <1>19, <1>20
  DEF LocalStep

(* A cancellation thread marks its call before it writes it, and a call it  *)
(* found unfinished is still unfinished when it writes it.                  *)
LEMMA CancelCall ==
  ASSUME TypeOK, HolderInv, CancelInv, NEW k \in Jobs, CancelStep(k)
  PROVE  /\ cancel'[k].pc # "none"
         /\ \/ meta'[k] = meta[k]
            \/ meta'[k].cancel /\ meta'[k].status # "completed"
         /\ cancel'[k].pc \in {"remove", "store", "status", "announce", "request", "notify"}
              => cancel'[k].call.cancel
         /\ cancel'[k].pc \in {"request", "notify"} => cancel'[k].call.status \notin Terminal
         /\ cancel'[k].pc \in {"status", "announce"} => cancel'[k].call.status = "cancelled"
<1> USE DEF CancelAt, CancelGoto
<1>0. /\ meta \in [Jobs -> MaybeCalls] /\ cancel \in [Jobs -> CancelStates]
      /\ cancel[k] \in CancelStates
      /\ cancel[k].pc \notin {"none", "fetched", "aborted"} => cancel[k].call \in Calls
  BY DEF TypeOK
<1>c. /\ cancel[k].pc \in {"remove", "store", "status", "announce", "request", "notify"}
           => cancel[k].call.cancel
      /\ cancel[k].pc \in {"request", "notify"} => cancel[k].call.status \notin Terminal
      /\ cancel[k].pc \in {"status", "announce"} => cancel[k].call.status = "cancelled"
  BY DEF CancelInv
<1>1. CASE CancelFetch(k)
  BY <1>0, <1>1 DEF CancelFetch, CancelStates
<1>2. CASE CancelLoad(k)
  BY <1>0, <1>2 DEF CancelLoad, CancelStates
<1>3. CASE CancelDecide(k)
  <2>1. meta' = meta /\ cancel[k].call \in Calls
    BY <1>0, <1>3 DEF CancelDecide
  <2>2. CASE cancel[k].call.status \in Terminal
    BY <1>0, <1>3, <2>1, <2>2 DEF CancelDecide, CancelStates
  <2>3. CASE cancel[k].call.status \notin Terminal
    <3>1. cancel' = [cancel EXCEPT ![k] =
            [cancel[k] EXCEPT !.pc = IF rq[k] = "queued" THEN "remove" ELSE "request",
                              !.call = [cancel[k].call EXCEPT !.cancel = TRUE]]]
      BY <1>0, <1>3, <2>1, <2>3 DEF CancelDecide, CancelStates
    <3>2. QED
      BY <1>0, <2>1, <2>3, <3>1 DEF CancelStates, Calls
  <2>4. QED
    BY <2>2, <2>3
<1>4. CASE CancelRemove(k)
  BY <1>0, <1>c, <1>4 DEF CancelRemove, CancelStates
<1>5. ASSUME NEW status, cancel[k].call \in Calls
      PROVE  /\ CancelPayload(k, status).status = status
             /\ CancelPayload(k, status).cancel = cancel[k].call.cancel
  BY <1>5 DEF CancelPayload, Calls
<1>6. CASE CancelStore(k)
  <2>1. cancel[k].call \in Calls /\ cancel[k].pc = "store"
    BY <1>0, <1>6 DEF CancelStore
  <2>2. cancel' = [cancel EXCEPT ![k] =
          [cancel[k] EXCEPT !.pc = "status",
                            !.call = [cancel[k].call EXCEPT !.status = "cancelled"]]]
    BY <1>0, <1>6, <2>1 DEF CancelStore, CancelStates
  <2>3. meta'[k] = CancelPayload(k, "cancelled")
    BY <1>0, <1>6 DEF CancelStore, SaveMeta
  <2>4. meta'[k].status = "cancelled" /\ meta'[k].cancel
    BY <1>c, <1>5, <2>1, <2>3
  <2>5. QED
    BY <1>0, <1>c, <2>1, <2>2, <2>4 DEF CancelStates, Calls
<1>7. CASE CancelSetStatus(k) \/ CancelAnnounce(k) \/ CancelNotify(k) \/ CancelAbort(k)
  <2>1. meta' = meta
    BY <1>7 DEF CancelSetStatus, CancelAnnounce, CancelNotify, CancelAbort
  <2>2. CASE cancel' = [cancel EXCEPT ![k].pc = "announce"] /\ cancel[k].pc = "status"
    BY <1>0, <1>c, <2>1, <2>2 DEF CancelStates
  <2>3. CASE cancel' = [cancel EXCEPT ![k].pc = "replied"]
    BY <1>0, <2>1, <2>3 DEF CancelStates
  <2>4. CASE cancel' = [cancel EXCEPT ![k].pc = "aborted"]
    BY <1>0, <2>1, <2>4 DEF CancelStates
  <2>5. QED
    BY <1>7, <2>2, <2>3, <2>4 DEF CancelSetStatus, CancelAnnounce, CancelNotify, CancelAbort
<1>8. CASE CancelRequest(k)
  <2>1. cancel[k].call \in Calls /\ cancel[k].pc = "request"
    BY <1>0, <1>8 DEF CancelRequest
  <2>2. cancel' = [cancel EXCEPT ![k] = [cancel[k] EXCEPT !.pc = "notify"]]
    BY <1>0, <1>8 DEF CancelRequest, CancelStates
  <2>3. meta'[k] = CancelPayload(k, cancel[k].call.status)
    BY <1>0, <1>8 DEF CancelRequest, SaveMeta
  <2>4. meta'[k].status = cancel[k].call.status /\ meta'[k].cancel
    BY <1>c, <1>5, <2>1, <2>3
  <2>5. QED
    BY <1>0, <1>c, <2>1, <2>2, <2>4 DEF CancelStates, Terminal
<1>9. QED
  BY <1>1, <1>2, <1>3, <1>4, <1>6, <1>7, <1>8 DEF CancelStep, Cancel

(* What the worker found of a cancellation only grows under its hands.      *)
LEMMA CallMonotone ==
  ASSUME NEW w, NEW flagged \in BOOLEAN, NEW touched \in BOOLEAN,
         NEW flagged2 \in BOOLEAN, NEW touched2 \in BOOLEAN,
         CallOK(w, flagged, touched), flagged => flagged2, touched => touched2
  PROVE  CallOK(w, flagged2, touched2)
BY DEF CallOK

LEMMA CallStep ==
  TypeOK /\ TypeOK' /\ HolderInv /\ HolderInv' /\ RetryInv /\ RetryInv' /\ PromiseInv
  /\ CallInv /\ CancelInv /\ [Next]_vars => CallInv' /\ CancelInv'
<1> SUFFICES ASSUME TypeOK, TypeOK', HolderInv, HolderInv', RetryInv, RetryInv', PromiseInv,
                    CallInv, CancelInv, [Next]_vars
             PROVE  CallInv' /\ CancelInv'
  OBVIOUS
<1>0. /\ meta \in [Jobs -> MaybeCalls] /\ result \in [Jobs -> MaybeCalls]
      /\ cancel \in [Jobs -> CancelStates] /\ worker \in WorkerStates
      /\ meta' \in [Jobs -> MaybeCalls] /\ cancel' \in [Jobs -> CancelStates]
      /\ ~At("idle") => worker.job \in Jobs
      /\ Running => worker.job \in started
      /\ worker.pc = "popped" => worker.job \in intermediate
  BY DEF TypeOK, HolderInv, OneHolder
<1>b. \A j \in Jobs : meta[j].cancel \in BOOLEAN /\ meta'[j].cancel \in BOOLEAN
  <2>1. \A call \in Calls : call.cancel \in BOOLEAN
    BY DEF Calls
  <2>2. NoCall.cancel \in BOOLEAN
    BY DEF NoCall
  <2>3. \A call \in MaybeCalls : call.cancel \in BOOLEAN
    BY <2>1, <2>2, Zenon DEF MaybeCalls
  <2>4. \A j \in Jobs : meta[j] \in MaybeCalls /\ meta'[j] \in MaybeCalls
    BY <1>0
  <2>5. QED
    BY <2>3, <2>4, Zenon
<1>n. /\ Sound(NoCall) /\ Clean(NoCall) /\ Sound(NewCall) /\ Clean(NewCall)
      /\ ~NoCall.cancel /\ ~NewCall.cancel
  BY DEF Sound, Clean, NoCall, NewCall
<1>i. IdleWorker.pc = "idle"
  BY DEF IdleWorker
<1>h. ~At("idle") => result[worker.job] = NoCall
  BY <1>0 DEF PromiseInv, Held, Running, At
<1>c. /\ \A j \in Jobs :
           /\ Sound(meta[j]) /\ Sound(result[j])
           /\ cancel[j].pc = "none" => Clean(meta[j]) /\ Clean(result[j])
      /\ \A j \in Jobs : meta[j].cancel => cancel[j].pc # "none"
      /\ ~At("idle") => CallOK(worker, meta[worker.job].cancel, cancel[worker.job].pc # "none")
  BY DEF CancelInv, CallInv, Clean
(* Steps that leave the copies in Redis alone, but for one of them.         *)
<1>k. ASSUME UNCHANGED <<result, cancel>>,
             NEW j \in Jobs, NEW m, meta' \in {meta, [meta EXCEPT ![j] = m]},
             Sound(m), cancel[j].pc = "none" => Clean(m)
      PROVE  CancelInv'
  BY <1>0, <1>k DEF CancelInv
<1>1. CASE LocalStep
  <2>1. /\ UNCHANGED <<result, cancel>> /\ worker'.job = worker.job
        /\ worker.pc # "idle" /\ worker'.pc # "idle" /\ worker.job \in Jobs
    BY <1>0, <1>1, LocalKeepsPlace DEF rqVars, Running, At
  <2>2. CallOK(worker', meta'[worker.job].cancel, cancel[worker.job].pc # "none")
    BY <1>1, <1>b, <1>c, <1>h, <2>1, LocalCall DEF At
  <2>3. meta' \in {meta, [meta EXCEPT ![worker.job] = worker'.mem]}
    <3>1. CASE HandleError
      BY <3>1, <1>0 DEF HandleError, SaveMeta, WorkerStates
    <3>2. CASE ~HandleError
      BY <1>1, <3>2, LocalRetry
    <3>3. QED
      BY <3>1, <3>2
  <2>4. Sound(worker'.mem) /\ (cancel[worker.job].pc = "none" => Clean(worker'.mem))
    BY <2>2 DEF CallOK
  <2>5. CancelInv'
    BY <1>k, <2>1, <2>3, <2>4
  <2>6. CallInv'
    BY <2>1, <2>2 DEF CallInv
  <2>7. QED
    BY <2>5, <2>6
<1>2. CASE Dequeue
  <2>1. /\ UNCHANGED <<meta, result, cancel>> /\ worker'.pc = "popped"
        /\ worker'.job = Head(queue) /\ worker'.mem = meta[Head(queue)] /\ worker'.call = NoCall
        /\ Head(queue) \in Jobs
    BY <1>0, <1>2, HeadTailProperties DEF Dequeue, IdleWorker, TypeOK
  <2>2. CallOK(worker', meta'[worker'.job].cancel, cancel'[worker'.job].pc # "none")
    BY <1>c, <1>n, <2>1 DEF CallOK, Going
  <2>3. CancelInv'
    BY <2>1 DEF CancelInv
  <2>4. QED
    BY <2>2, <2>3 DEF CallInv
<1>3. CASE StartJob
  <2>1. /\ UNCHANGED <<meta, result, cancel>> /\ worker.pc = "popped" /\ worker'.pc = "precheck"
        /\ worker'.job = worker.job /\ worker'.mem = worker.mem
        /\ worker'.call \in {NewCall, worker.mem}
    BY <1>0, <1>3 DEF StartJob, At, WorkerStates
  <2>2. CallOK(worker', meta'[worker'.job].cancel, cancel'[worker'.job].pc # "none")
    BY <1>c, <1>n, <2>1 DEF CallOK, Going, At
  <2>3. CancelInv'
    BY <2>1 DEF CancelInv
  <2>4. QED
    BY <2>2, <2>3 DEF CallInv
<1>4. CASE Succeed
  <2>1. /\ UNCHANGED <<meta, cancel>> /\ worker' = IdleWorker /\ worker.pc = "return"
        /\ result' = [result EXCEPT ![worker.job] = worker.call]
    BY <1>4 DEF Succeed, At
  <2>2. Sound(worker.call) /\ (cancel[worker.job].pc = "none" => Clean(worker.call))
    BY <1>c, <2>1 DEF CallOK, At
  <2>3. CancelInv'
    BY <1>0, <2>1, <2>2 DEF CancelInv
  <2>4. QED
    BY <1>i, <2>1, <2>3 DEF CallInv, At
<1>5. CASE Fail
  <2>1. /\ UNCHANGED <<result, cancel>> /\ worker' = IdleWorker /\ worker.pc = "raised"
        /\ meta' \in {meta, [meta EXCEPT ![worker.job] = worker.mem]}
    BY <1>5 DEF Fail, At, SaveMeta
  <2>2. Sound(worker.mem) /\ (cancel[worker.job].pc = "none" => Clean(worker.mem))
    BY <1>c, <2>1 DEF CallOK, At
  <2>3. CancelInv'
    BY <1>0, <1>k, <2>1, <2>2 DEF At
  <2>4. QED
    BY <1>i, <2>1, <2>3 DEF CallInv, At
<1>6. CASE Crash
  <2>1. UNCHANGED <<meta, result, cancel>> /\ worker' = IdleWorker
    BY <1>6 DEF Crash, rqVars
  <2>2. QED
    BY <1>i, <2>1 DEF CallInv, CancelInv, At
<1>7. CASE UNCHANGED <<worker, meta, result, cancel>>
  BY <1>7 DEF CallInv, CancelInv, At
<1>8. CASE \E k \in Jobs : \/ Admit(k) \/ Refuse(k) \/ Abort(k) \/ Push(k)
                           \/ AnnounceQueued(k) \/ Reclaim(k)
  BY <1>7, <1>8 DEF Admit, Refuse, Abort, Push, AnnounceQueued, Reclaim, rqVars
<1>9. ASSUME NEW k \in Jobs, SavePayload(k) PROVE CallInv' /\ CancelInv'
  <2>1. /\ UNCHANGED <<worker, result, cancel>> /\ meta' = [meta EXCEPT ![k] = NewCall]
        /\ api[k] # "returned"
    BY <1>9 DEF SavePayload, SaveMeta, EnqueueAt, rqVars
  <2>2. cancel[k].pc = "none" /\ ~meta[k].cancel
    BY <1>c, <2>1 DEF HolderInv, UnpushedIsNowhere
  <2>3. CancelInv'
    <3>1. UNCHANGED <<result, cancel>> /\ meta' \in {meta, [meta EXCEPT ![k] = NewCall]}
      BY <2>1
    <3>2. QED
      BY <1>k, <1>n, <3>1
  <2>4. ~At("idle") => meta'[worker.job].cancel = meta[worker.job].cancel
    BY <1>0, <1>b, <1>n, <2>1, <2>2
  <2>5. QED
    BY <1>c, <2>1, <2>3, <2>4 DEF CallInv, At
<1>10. ASSUME NEW k \in Jobs, CancelStep(k) PROVE CallInv' /\ CancelInv'
  <2>1. UNCHANGED <<worker, result>> /\ \A j \in Jobs \ {k} : cancel'[j] = cancel[j] /\ meta'[j] = meta[j]
    BY <1>10, CancelKeepsPlace, CancelEffect DEF HolderInv
  <2>2. /\ cancel'[k].pc # "none"
        /\ \/ meta'[k] = meta[k]
           \/ meta'[k].cancel /\ meta'[k].status # "completed"
        /\ cancel'[k].pc \in {"remove", "store", "status", "announce", "request", "notify"}
             => cancel'[k].call.cancel
        /\ cancel'[k].pc \in {"request", "notify"} => cancel'[k].call.status \notin Terminal
        /\ cancel'[k].pc \in {"status", "announce"} => cancel'[k].call.status = "cancelled"
    BY <1>10, CancelCall
  <2>3. CancelInv'
    BY <2>1, <2>2 DEF CancelInv, Sound
  <2>4. ~At("idle") => /\ meta[worker.job].cancel => meta'[worker.job].cancel
                       /\ cancel[worker.job].pc # "none" => cancel'[worker.job].pc # "none"
    BY <1>0, <2>1, <2>2
  <2>5. ~At("idle") => CallOK(worker, meta'[worker.job].cancel, cancel'[worker.job].pc # "none")
    BY <1>0, <1>b, <1>c, <2>4, CallMonotone
  <2>6. QED
    BY <2>1, <2>3, <2>5 DEF CallInv, At
<1>11. CASE UNCHANGED vars
  BY <1>7, <1>11 DEF vars, rqVars
<1>12. QED
  BY <1>1, <1>2, <1>3, <1>4, <1>5, <1>6, <1>8, <1>9, <1>10, <1>11, NextCases

LEMMA CallAlways == Spec => [](CallInv /\ CancelInv)
<1>1. Init => CallInv /\ CancelInv
  BY DEF Init, CallInv, CancelInv, IdleWorker, NoCancel, NoCall, Sound, Clean, At
<1>2. TypeOK /\ TypeOK' /\ HolderInv /\ HolderInv' /\ RetryInv /\ RetryInv' /\ PromiseInv
      /\ CallInv /\ CancelInv /\ [Next]_vars => (CallInv /\ CancelInv)'
  BY CallStep
<1>3. QED
  BY <1>1, <1>2, TypeCorrect, HolderAlways, RetryAlways, PromiseInvAlways, PTL DEF Spec

(* Whatever order the worker's and the canceller's writes of the dictionary *)
(* come in, no one reads a job that is completed and marked for             *)
(* cancellation: the worker copies a request before it acts on it, and the  *)
(* canceller writes back only a call it found unfinished.                   *)
THEOREM CompletedNeverCarriesCancelAlways == Spec => []CompletedNeverCarriesCancel
<1>1. CancelInv => CompletedNeverCarriesCancel
  BY DEF CancelInv, CompletedNeverCarriesCancel, Sound
<1>2. QED
  BY <1>1, CallAlways, PTL

-----------------------------------------------------------------------------
(* Streams                                                                  *)

(* An event that tells a reader neither a token nor that an attempt began.  *)
Plain(e) == e.token = 0 /\ ~IsOpening(e)

(* An event that the queue, the worker or a cancellation may append to the  *)
(* stream of j, as they stand.                                              *)
MayAppend(j, e) ==
  /\ e.done => e.status \in Terminal
  /\ e.status = "failed" => worker.job = j /\ worker.pc = "excepted" /\ worker.call.status = "failed"
  /\ \/ Plain(e)
     \/ worker.job = j /\ AnnounceStreaming /\ IsOpening(e)
     \/ worker.job = j /\ Token /\ e.token = worker.chunks + 1 /\ ~e.done

Grows(j) ==
  \/ stream'[j] = stream[j]
  \/ \E e \in Events : stream'[j] = Append(stream[j], e) /\ MayAppend(j, e)

(* Appending an event to a stream.                                          *)
LEMMA Emitted ==
  ASSUME NEW j \in Jobs, NEW e \in Events, stream \in [Jobs -> Seq(Events)], Emit(j, e)
  PROVE  /\ stream'[j] = Append(stream[j], e)
         /\ \A k \in Jobs \ {j} : stream'[k] = stream[k]
         /\ stream' # stream
<1>1. /\ stream'[j] = Append(stream[j], e)
      /\ \A k \in Jobs \ {j} : stream'[k] = stream[k]
  BY DEF Emit
<1>2. Len(stream'[j]) = Len(stream[j]) + 1 /\ Len(stream[j]) \in Nat
  BY <1>1, AppendProperties
<1>3. QED
  BY <1>1, <1>2

(* The events of process_llm_call.                                          *)
LEMMA LocalStream ==
  ASSUME TypeOK, LocalStep, CallInv
  PROVE  /\ \A j \in Jobs \ {worker.job} : stream'[j] = stream[j]
         /\ \/ UNCHANGED stream
            \/ \E e \in Events : /\ stream'[worker.job] = Append(stream[worker.job], e)
                                 /\ MayAppend(worker.job, e)
                                 /\ AnnounceCompleted \/ AnnounceCancelled
                                      => e.done /\ e.status = worker.call.status
         /\ AnnounceCompleted \/ AnnounceCancelled => stream' # stream
<1>0. /\ worker \in WorkerStates /\ worker.job \in Jobs /\ worker.call \in Calls
      /\ stream \in [Jobs -> Seq(Events)]
      /\ CallOK(worker, meta[worker.job].cancel, cancel[worker.job].pc # "none")
  BY LocalKeepsPlace DEF TypeOK, Running, At, CallInv
<1>s. worker.call.status \in Statuses /\ worker.call.cancel \in BOOLEAN
  BY <1>0 DEF Calls
<1>1. CASE UNCHANGED stream /\ ~At("completed") /\ ~At("cancelled")
  BY <1>1 DEF AnnounceCompleted, AnnounceCancelled
<1>2. CASE \/ Precheck \/ Process \/ EnterTry \/ Generate \/ OpenStream \/ EmptyChunk
           \/ EndOfStream \/ StreamError \/ CheckChunk \/ CheckResult \/ Complete
           \/ Finalize \/ Reject \/ HandleError
  BY <1>1, <1>2 DEF Precheck, Process, EnterTry, Generate, OpenStream, EmptyChunk,
     EndOfStream, StreamError, CheckChunk, CheckResult, Complete, Finalize, Reject,
     HandleError, Store, At
<1>3. CASE AnnounceProcessing
  <2> DEFINE e == StreamEvent(worker.call, FALSE, 0)
  <2>1. Emit(worker.job, e) /\ At("announce")
    BY <1>3 DEF AnnounceProcessing, Announce
  <2>2. worker.call.status = "processing"
    BY <1>0, <2>1 DEF At, CallOK
  <2>3. /\ e \in Events
        /\ e.status = "processing" /\ e.token = 0 /\ ~e.done
    BY <1>0, <1>s, <2>2 DEF StreamEvent, Events, WorkerStates
  <2> HIDE DEF e
  <2>4. /\ stream'[worker.job] = Append(stream[worker.job], e)
        /\ \A j \in Jobs \ {worker.job} : stream'[j] = stream[j]
        /\ stream' # stream
    BY <1>0, <2>1, <2>3, Emitted
  <2>5. MayAppend(worker.job, e)
    BY <2>3 DEF MayAppend, Plain, IsOpening
  <2>6. QED
    BY <2>1, <2>3, <2>4, <2>5 DEF AnnounceCompleted, AnnounceCancelled, At
<1>4. CASE AnnounceStreaming
  <2> DEFINE e == StreamEvent(worker.call, FALSE, 0)
  <2>1. Emit(worker.job, e) /\ At("opened")
    BY <1>4 DEF AnnounceStreaming, Announce
  <2>2. worker.call.status = "streaming" /\ ~worker.call.cancel
    BY <1>0, <2>1 DEF At, CallOK, Going
  <2>3. /\ e \in Events
        /\ e.status = "streaming" /\ ~e.cancel /\ e.token = 0 /\ ~e.done
    BY <1>0, <1>s, <2>2 DEF StreamEvent, Events, WorkerStates
  <2> HIDE DEF e
  <2>4. /\ stream'[worker.job] = Append(stream[worker.job], e)
        /\ \A j \in Jobs \ {worker.job} : stream'[j] = stream[j]
        /\ stream' # stream
    BY <1>0, <2>1, <2>3, Emitted
  <2>5. MayAppend(worker.job, e)
    BY <1>4, <2>3 DEF MayAppend, IsOpening
  <2>6. QED
    BY <2>1, <2>3, <2>4, <2>5 DEF AnnounceCompleted, AnnounceCancelled, At
<1>5. CASE Token
  <2> DEFINE e == StreamEvent(worker.call, FALSE, worker.chunks + 1)
  <2>1. Emit(worker.job, e) /\ At("chunk")
    BY <1>5 DEF Token
  <2>2. worker.call.status = "streaming"
    BY <1>0, <2>1 DEF At, CallOK
  <2>3. /\ e \in Events
        /\ e.status = "streaming" /\ e.token = worker.chunks + 1 /\ ~e.done
    BY <1>0, <1>s, <2>2 DEF StreamEvent, Events, WorkerStates
  <2> HIDE DEF e
  <2>4. /\ stream'[worker.job] = Append(stream[worker.job], e)
        /\ \A j \in Jobs \ {worker.job} : stream'[j] = stream[j]
        /\ stream' # stream
    BY <1>0, <2>1, <2>3, Emitted
  <2>5. MayAppend(worker.job, e)
    BY <1>5, <2>3 DEF MayAppend
  <2>6. QED
    BY <2>1, <2>3, <2>4, <2>5 DEF AnnounceCompleted, AnnounceCancelled, At
<1>6. CASE AnnounceCompleted \/ AnnounceCancelled
  <2> DEFINE e == StreamEvent(worker.call, TRUE, 0)
  <2>1. Emit(worker.job, e) /\ (At("completed") \/ At("cancelled"))
    BY <1>6 DEF AnnounceCompleted, AnnounceCancelled, Announce
  <2>2. worker.call.status \in {"completed", "cancelled"}
    BY <1>0, <2>1 DEF At, CallOK
  <2>3. /\ e \in Events
        /\ e.status = worker.call.status /\ e.token = 0 /\ e.done
    BY <1>0, <1>s, <2>2 DEF StreamEvent, Events, WorkerStates
  <2> HIDE DEF e
  <2>4. /\ stream'[worker.job] = Append(stream[worker.job], e)
        /\ \A j \in Jobs \ {worker.job} : stream'[j] = stream[j]
        /\ stream' # stream
    BY <1>0, <2>1, <2>3, Emitted
  <2>5. MayAppend(worker.job, e)
    BY <2>2, <2>3 DEF MayAppend, Plain, IsOpening, Terminal
  <2>6. QED
    BY <2>3, <2>4, <2>5
<1>7. CASE AnnounceError
  <2> DEFINE e == StreamEvent(worker.call, worker.call.status = "failed", 0)
  <2>1. Emit(worker.job, e) /\ At("excepted")
    BY <1>7 DEF AnnounceError, Announce
  <2>2. worker.call.status \in {"queued", "failed"}
    BY <1>0, <2>1 DEF At, CallOK
  <2>3. /\ e \in Events
        /\ e.status = worker.call.status /\ e.token = 0 /\ (e.done <=> worker.call.status = "failed")
    BY <1>0, <1>s, <2>2 DEF StreamEvent, Events, WorkerStates
  <2> HIDE DEF e
  <2>4. /\ stream'[worker.job] = Append(stream[worker.job], e)
        /\ \A j \in Jobs \ {worker.job} : stream'[j] = stream[j]
        /\ stream' # stream
    BY <1>0, <2>1, <2>3, Emitted
  <2>5. MayAppend(worker.job, e)
    BY <2>1, <2>2, <2>3 DEF MayAppend, Plain, IsOpening, Terminal, At
  <2>6. QED
    BY <2>1, <2>3, <2>4, <2>5 DEF AnnounceCompleted, AnnounceCancelled, At
<1>8. CASE Timeout
  <2>1. CASE At("completed") \/ At("cancelled")
    <3>1. worker' # [worker EXCEPT !.pc = "return"] /\ UNCHANGED stream
      BY <1>0, <1>8, <2>1 DEF Timeout, WorkerStates, At
    <3>2. ~AnnounceCompleted /\ ~AnnounceCancelled
      BY <3>1 DEF AnnounceCompleted, AnnounceCancelled, Announce, Goto
    <3>3. QED
      BY <3>1, <3>2
  <2>2. CASE ~(At("completed") \/ At("cancelled"))
    BY <1>1, <1>8, <2>2 DEF Timeout
  <2>3. QED
    BY <2>1, <2>2
<1>9. QED
  BY <1>2, <1>3, <1>4, <1>5, <1>6, <1>7, <1>8 DEF LocalStep

(* publish_stream_event with status and cancel_requested of the call.       *)
LEMMA CancelStream ==
  ASSUME TypeOK, CancelInv, NEW k \in Jobs, CancelStep(k)
  PROVE  \A j \in Jobs : Grows(j)
<1>0. /\ stream \in [Jobs -> Seq(Events)]
      /\ cancel[k].pc \notin {"none", "fetched", "aborted"} => cancel[k].call \in Calls
      /\ cancel[k].pc \in {"remove", "store", "status", "announce", "request", "notify"}
           => cancel[k].call.cancel
      /\ cancel[k].pc \in {"request", "notify"} => cancel[k].call.status \notin Terminal
      /\ cancel[k].pc \in {"status", "announce"} => cancel[k].call.status = "cancelled"
  BY DEF TypeOK, CancelInv
<1>1. CASE CancelAnnounce(k)
  <2> DEFINE e == StreamEvent(cancel[k].call, TRUE, 0)
  <2>1. cancel[k].call \in Calls /\ Emit(k, e) /\ cancel[k].call.status = "cancelled"
    BY <1>0, <1>1 DEF CancelAnnounce, CancelAt
  <2>2. e \in Events /\ e.status = "cancelled" /\ e.token = 0
    BY <2>1 DEF StreamEvent, Events, Calls
  <2> HIDE DEF e
  <2>3. MayAppend(k, e)
    BY <2>2 DEF MayAppend, Plain, IsOpening, Terminal
  <2>4. QED
    BY <1>0, <2>1, <2>2, <2>3, Emitted DEF Grows
<1>2. CASE CancelNotify(k)
  <2> DEFINE e == StreamEvent(cancel[k].call, FALSE, 0)
  <2>1. /\ cancel[k].call \in Calls /\ Emit(k, e) /\ cancel[k].call.status \notin Terminal
        /\ cancel[k].call.cancel
    BY <1>0, <1>2 DEF CancelNotify, CancelAt
  <2>2. e \in Events /\ e.status \notin Terminal /\ e.token = 0 /\ ~e.done /\ e.cancel
    BY <2>1 DEF StreamEvent, Events, Calls
  <2> HIDE DEF e
  <2>3. MayAppend(k, e)
    BY <2>2 DEF MayAppend, Plain, IsOpening, Terminal
  <2>4. QED
    BY <1>0, <2>1, <2>2, <2>3, Emitted DEF Grows
<1>3. CASE ~CancelAnnounce(k) /\ ~CancelNotify(k)
  <2>1. UNCHANGED stream
    BY <1>3 DEF CancelStep, Cancel, CancelFetch, CancelAbort, CancelLoad, CancelDecide,
       CancelRemove, CancelStore, CancelSetStatus, CancelRequest
  <2>2. QED
    BY <2>1 DEF Grows
<1>4. QED
  BY <1>1, <1>2, <1>3

(* A stream only grows, by events that close it only with the end of a job. *)
LEMMA StreamGrows ==
  ASSUME TypeOK, HolderInv, CallInv, CancelInv, [Next]_vars
  PROVE  \A j \in Jobs : Grows(j)
<1>1. CASE LocalStep
  <2>1. \A j \in Jobs \ {worker.job} : Grows(j)
    BY <1>1, LocalStream DEF Grows
  <2>2. Grows(worker.job)
    BY <1>1, LocalStream DEF Grows
  <2>3. QED
    BY <2>1, <2>2
<1>2. ASSUME NEW k \in Jobs, AnnounceQueued(k) PROVE \A j \in Jobs : Grows(j)
  <2> DEFINE e == StreamEvent(NewCall, FALSE, 0)
  <2>1. NewCall \in Calls /\ NewCall.status = "queued" /\ Emit(k, e) /\ stream \in [Jobs -> Seq(Events)]
    BY <1>2, CallTypes DEF AnnounceQueued, NewCall, NoCall, TypeOK
  <2>2. e \in Events /\ e.status = "queued" /\ e.token = 0 /\ ~e.done
    BY <2>1 DEF StreamEvent, Events, Calls
  <2> HIDE DEF e
  <2>3. MayAppend(k, e)
    BY <2>2 DEF MayAppend, Plain, IsOpening
  <2>4. QED
    BY <2>1, <2>2, <2>3, Emitted DEF Grows
<1>3. CASE UNCHANGED stream
  BY <1>3 DEF Grows
<1>4. CASE Dequeue \/ StartJob \/ Succeed \/ Fail \/ Crash
  BY <1>3, <1>4 DEF Dequeue, StartJob, Succeed, Fail, Crash
<1>5. CASE \E k \in Jobs : \/ Admit(k) \/ Refuse(k) \/ Abort(k) \/ Push(k)
                           \/ SavePayload(k) \/ Reclaim(k)
  BY <1>3, <1>5 DEF Admit, Refuse, Abort, Push, SavePayload, Reclaim
<1>6. CASE UNCHANGED vars
  BY <1>3, <1>6 DEF vars
<1>7. QED
  BY <1>1, <1>2, <1>4, <1>5, <1>6, CancelStream, NextCases

(* What was published stays, whatever comes after it.                       *)
LEMMA AppendKeeps ==
  ASSUME NEW S, NEW s \in Seq(S), NEW e \in S
  PROVE  /\ Append(s, e) \in Seq(S)
         /\ Len(s) \in Nat /\ Len(Append(s, e)) = Len(s) + 1
         /\ DOMAIN s = 1..Len(s) /\ DOMAIN Append(s, e) = 1..(Len(s) + 1)
         /\ \A i \in 1..Len(s) : Append(s, e)[i] = s[i]
         /\ Append(s, e)[Len(s) + 1] = e
<1>1. /\ Append(s, e) \in Seq(S)
      /\ Len(Append(s, e)) = Len(s) + 1
      /\ \A i \in 1..Len(s) : Append(s, e)[i] = s[i]
      /\ Append(s, e)[Len(s) + 1] = e
  BY AppendProperties
<1>2. QED
  BY <1>1

(* The tokens published since the opening at i, when one more event comes.  *)
LEMMA TokensOfAppend ==
  ASSUME NEW s \in Seq(Events), NEW e \in Events, NEW i \in DOMAIN s
  PROVE  {Append(s, e)[k].token : k \in (i + 1)..Len(Append(s, e))}
           = {s[k].token : k \in (i + 1)..Len(s)} \cup {e.token}
<1> DEFINE t == Append(s, e)
           new == {t[k].token : k \in (i + 1)..Len(t)}
           old == {s[k].token : k \in (i + 1)..Len(s)}
<1>1. /\ Len(s) \in Nat /\ Len(t) = Len(s) + 1 /\ DOMAIN s = 1..Len(s)
      /\ \A k \in 1..Len(s) : t[k] = s[k]
      /\ t[Len(s) + 1] = e
  BY AppendKeeps
<1>2. i \in 1..Len(s)
  BY <1>1
<1>3. /\ \A k \in (i + 1)..Len(s) : k \in (i + 1)..Len(t) /\ t[k] = s[k]
      /\ Len(s) + 1 \in (i + 1)..Len(t)
      /\ \A k \in (i + 1)..Len(t) : k \in (i + 1)..Len(s) \/ k = Len(s) + 1
  BY <1>1, <1>2
<1> HIDE DEF t
<1>4. \A x : x \in new <=> \E k \in (i + 1)..Len(t) : x = t[k].token
  OBVIOUS
<1>5. \A x : x \in old <=> \E k \in (i + 1)..Len(s) : x = s[k].token
  OBVIOUS
<1> HIDE DEF new, old
<1>6. \A x : x \in new <=> x \in old \/ x = e.token
  <2>1. ASSUME NEW x \in new PROVE x \in old \/ x = e.token
    <3>1. PICK k \in (i + 1)..Len(t) : x = t[k].token
      BY <1>4
    <3>2. CASE k \in (i + 1)..Len(s)
      BY <1>3, <1>5, <3>1, <3>2
    <3>3. CASE k = Len(s) + 1
      BY <1>1, <3>1, <3>3
    <3>4. QED
      BY <1>3, <3>2, <3>3
  <2>2. ASSUME NEW x \in old PROVE x \in new
    <3>1. PICK k \in (i + 1)..Len(s) : x = s[k].token
      BY <1>5
    <3>2. QED
      BY <1>3, <1>4, <3>1
  <2>3. e.token \in new
    BY <1>1, <1>3, <1>4
  <2>4. QED
    BY <2>1, <2>2, <2>3
<1>7. new = old \cup {e.token}
  BY <1>6
<1>8. QED
  BY <1>7 DEF new, old, t

LEMMA StreamedPlain ==
  ASSUME NEW s \in Seq(Events), NEW e \in Events, NEW i \in DOMAIN s, NEW text,
         Streamed(s, i, text), Plain(e)
  PROVE  i \in DOMAIN Append(s, e) /\ Streamed(Append(s, e), i, text)
<1> DEFINE t == Append(s, e)
<1>1. /\ Len(s) \in Nat /\ Len(t) = Len(s) + 1
      /\ DOMAIN s = 1..Len(s) /\ DOMAIN t = 1..(Len(s) + 1)
      /\ \A k \in 1..Len(s) : t[k] = s[k]
      /\ t[Len(s) + 1] = e
  BY AppendKeeps
<1>2. {t[k].token : k \in (i + 1)..Len(t)} = {s[k].token : k \in (i + 1)..Len(s)} \cup {0}
  BY TokensOfAppend DEF Plain
<1> HIDE DEF t
<1>3. i \in DOMAIN t /\ IsOpening(t[i]) /\ \A k \in DOMAIN t : k > i => ~IsOpening(t[k])
  BY <1>1 DEF Streamed, Plain
<1>4. \A m, n \in DOMAIN t :
        i < m /\ m < n /\ t[m].token # 0 /\ t[n].token # 0 => t[m].token < t[n].token
  BY <1>1 DEF Streamed, Plain
<1>5. Range(text) = {t[k].token : k \in (i + 1)..Len(t)} \ {0}
  BY <1>2 DEF Streamed
<1>6. QED
  BY <1>3, <1>4, <1>5 DEF Streamed, t

LEMMA StreamedOpening ==
  ASSUME NEW s \in Seq(Events), NEW e \in Events, IsOpening(e)
  PROVE  /\ Len(s) + 1 \in DOMAIN Append(s, e)
         /\ Streamed(Append(s, e), Len(s) + 1, <<>>)
         /\ \A k \in DOMAIN Append(s, e) : ~(k > Len(s) + 1)
<1> DEFINE t == Append(s, e)
<1>1. /\ Len(s) \in Nat /\ Len(t) = Len(s) + 1
      /\ DOMAIN t = 1..(Len(s) + 1)
      /\ t[Len(s) + 1] = e
  BY AppendKeeps
<1> HIDE DEF t
<1>2. /\ Len(s) + 1 \in DOMAIN t
      /\ \A k \in DOMAIN t : ~(k > Len(s) + 1)
      /\ (Len(s) + 1 + 1)..Len(t) = {}
  BY <1>1
<1>3. Ascending(<<>>) /\ Range(<<>>) = {}
  BY DEF Ascending, Range
<1>4. {t[k].token : k \in (Len(s) + 1 + 1)..Len(t)} = {}
  BY <1>2
<1>5. Streamed(t, Len(s) + 1, <<>>)
  BY <1>1, <1>2, <1>3, <1>4 DEF Streamed
<1>6. QED
  BY <1>2, <1>5 DEF t

LEMMA StreamedToken ==
  ASSUME NEW s \in Seq(Events), NEW e \in Events, NEW i \in DOMAIN s, NEW text \in Seq(Nat),
         Streamed(s, i, text), NEW n \in Nat, e.token = n + 1,
         \A k \in DOMAIN s : k > i => s[k].token <= n,
         ~IsOpening(e)
  PROVE  /\ i \in DOMAIN Append(s, e)
         /\ Streamed(Append(s, e), i, Append(text, n + 1))
         /\ \A k \in DOMAIN Append(s, e) : k > i => Append(s, e)[k].token <= n + 1
<1> DEFINE t == Append(s, e)
           longer == Append(text, n + 1)
           tokens == {s[k].token : k \in (i + 1)..Len(s)}
<1>1. /\ Len(s) \in Nat /\ Len(t) = Len(s) + 1
      /\ DOMAIN s = 1..Len(s) /\ DOMAIN t = 1..(Len(s) + 1)
      /\ \A k \in 1..Len(s) : t[k] = s[k]
      /\ t[Len(s) + 1] = e
  BY AppendKeeps
<1>2. /\ Len(text) \in Nat
      /\ DOMAIN text = 1..Len(text) /\ DOMAIN longer = 1..(Len(text) + 1)
      /\ \A k \in 1..Len(text) : longer[k] = text[k]
      /\ longer[Len(text) + 1] = n + 1
      /\ \A k \in 1..Len(text) : text[k] \in Nat
  BY AppendKeeps
<1>3. {t[k].token : k \in (i + 1)..Len(t)} = tokens \cup {n + 1}
  BY TokensOfAppend
<1>4. \A k \in 1..Len(s) : s[k] \in Events
  OBVIOUS
<1>5. \A k \in 1..Len(s) : s[k].token \in Nat
  BY <1>4 DEF Events
<1>6. Range(longer) = Range(text) \cup {n + 1}
  BY AppendRange
<1> HIDE DEF t, longer
<1>7. /\ i \in DOMAIN t /\ IsOpening(t[i]) /\ \A k \in DOMAIN t : k > i => ~IsOpening(t[k])
      /\ \A k \in DOMAIN t : k > i => t[k].token <= n + 1
  <2>1. i \in 1..Len(s) /\ i # Len(s) + 1 /\ t[i] = s[i]
    BY <1>1
  <2>2. IsOpening(t[i]) /\ \A k \in 1..Len(s) : k > i => ~IsOpening(s[k])
    BY <1>1, <2>1 DEF Streamed
  <2>3. \A k \in DOMAIN t : k > i => ~IsOpening(t[k])
    BY <1>1, <2>2
  <2>4. \A k \in DOMAIN t : k > i => t[k].token <= n + 1
    <3> SUFFICES ASSUME NEW k \in DOMAIN t, k > i PROVE t[k].token <= n + 1
      OBVIOUS
    <3>1. CASE k = Len(s) + 1
      BY <1>1, <3>1
    <3>2. CASE k # Len(s) + 1
      <4>1. k \in 1..Len(s) /\ t[k] = s[k]
        BY <1>1, <3>2
      <4>2. s[k].token <= n /\ s[k].token \in Nat
        BY <1>1, <1>5, <4>1
      <4>3. QED
        BY <4>1, <4>2
    <3>3. QED
      BY <3>1, <3>2
  <2>5. QED
    BY <1>1, <2>1, <2>2, <2>3, <2>4
<1>8. \A m, k \in DOMAIN t :
        i < m /\ m < k /\ t[m].token # 0 /\ t[k].token # 0 => t[m].token < t[k].token
  <2> SUFFICES ASSUME NEW m \in DOMAIN t, NEW k \in DOMAIN t, i < m, m < k,
                      t[m].token # 0, t[k].token # 0
               PROVE  t[m].token < t[k].token
    OBVIOUS
  <2>1. m \in 1..Len(s) /\ t[m] = s[m] /\ s[m].token <= n /\ s[m].token \in Nat
    BY <1>1, <1>5
  <2>2. CASE k \in 1..Len(s)
    BY <1>1, <2>1, <2>2 DEF Streamed
  <2>3. CASE k = Len(s) + 1
    BY <1>1, <2>1, <2>3
  <2>4. QED
    BY <1>1, <2>2, <2>3
<1>9. Range(longer) = {t[k].token : k \in (i + 1)..Len(t)} \ {0}
  <2>1. Range(text) = tokens \ {0}
    BY DEF Streamed
  <2>2. n + 1 # 0
    OBVIOUS
  <2> DEFINE later == {t[k].token : k \in (i + 1)..Len(t)}
  <2>3. later = tokens \cup {n + 1}
    BY <1>3
  <2> HIDE DEF tokens, later
  <2>4. Range(longer) = later \ {0}
    BY <1>6, <2>1, <2>2, <2>3
  <2>5. QED
    BY <2>4 DEF later
<1>10. \A k \in 1..Len(text) : text[k] <= n
  <2> SUFFICES ASSUME NEW k \in 1..Len(text) PROVE text[k] <= n
    OBVIOUS
  <2>1. text[k] \in Range(text)
    BY <1>2 DEF Range
  <2>2. text[k] \in tokens
    BY <2>1 DEF Streamed
  <2>3. PICK m \in (i + 1)..Len(s) : text[k] = s[m].token
    BY <2>2
  <2>4. m \in DOMAIN s /\ m > i
    BY <1>1, <2>3
  <2>5. QED
    BY <2>3, <2>4
<1>11. Ascending(longer)
  BY <1>2, <1>10 DEF Streamed, Ascending
<1>12. Streamed(t, i, longer)
  BY <1>7, <1>8, <1>9, <1>11 DEF Streamed
<1>13. QED
  BY <1>7, <1>12 DEF t, longer

(* Before the stream is opened, while it is read, once it is joined, and    *)
(* when the job function returns: worker w, and the stream s of its job.    *)
Fresh == {"popped", "precheck", "process", "announce", "try", "open", "opened"}

Joined(w) ==
  \/ w.pc \in {"finish", "complete", "completed"}
  \/ w.pc = "return" /\ w.call.status = "completed"

Published(s, text) == \E i \in DOMAIN s : Streamed(s, i, text)

PublishedUpTo(s, text, n) ==
  \E i \in DOMAIN s : Streamed(s, i, text) /\ \A k \in DOMAIN s : k > i => s[k].token <= n

ClosedAs(s, status) == \E i \in DOMAIN s : s[i].done /\ s[i].status = status

TextOK(w, s) ==
  /\ w.pc \in Fresh => w.text = <<>> /\ w.chunks = 0
  /\ w.pc \in {"chunk", "check"} => PublishedUpTo(s, w.text, w.chunks)
  /\ w.job \in Streaming /\ Joined(w) => Published(s, w.call.text)
  /\ w.job \in Streaming /\ w.pc = "return" => ClosedAs(s, w.call.status)
  /\ w.pc = "generate" => w.job \notin Streaming
  /\ w.pc = "reject" => w.job \notin Streaming

TextInv ==
  /\ ~At("idle") => TextOK(worker, stream[worker.job])
  /\ \A j \in Streaming : result[j] # NoCall =>
       /\ ClosedAs(stream[j], result[j].status)
       /\ result[j].status = "completed" => Published(stream[j], result[j].text)

LEMMA PublishedPlain ==
  ASSUME NEW s \in Seq(Events), NEW e \in Events, Plain(e), NEW text
  PROVE  /\ Published(s, text) => Published(Append(s, e), text)
         /\ \A n \in Nat : PublishedUpTo(s, text, n) => PublishedUpTo(Append(s, e), text, n)
<1>1. Published(s, text) => Published(Append(s, e), text)
  BY StreamedPlain DEF Published
<1>2. ASSUME NEW n \in Nat, PublishedUpTo(s, text, n)
      PROVE  PublishedUpTo(Append(s, e), text, n)
  <2>1. PICK i \in DOMAIN s : /\ Streamed(s, i, text)
                              /\ \A k \in DOMAIN s : k > i => s[k].token <= n
    BY <1>2 DEF PublishedUpTo
  <2>2. i \in DOMAIN Append(s, e) /\ Streamed(Append(s, e), i, text)
    BY <2>1, StreamedPlain
  <2>3. \A k \in DOMAIN Append(s, e) : k > i => Append(s, e)[k].token <= n
    BY <2>1, AppendKeeps DEF Plain
  <2>4. QED
    BY <2>2, <2>3 DEF PublishedUpTo
<1>3. QED
  BY <1>1, <1>2

LEMMA ClosedStays ==
  ASSUME NEW s \in Seq(Events), NEW e \in Events, NEW status
  PROVE  /\ ClosedAs(s, status) => ClosedAs(Append(s, e), status)
         /\ e.done => ClosedAs(Append(s, e), e.status)
<1> DEFINE t == Append(s, e)
<1>1. /\ Len(s) \in Nat
      /\ DOMAIN s = 1..Len(s) /\ DOMAIN t = 1..(Len(s) + 1)
      /\ \A i \in 1..Len(s) : t[i] = s[i]
      /\ t[Len(s) + 1] = e
  BY AppendKeeps
<1> HIDE DEF t
<1>2. Len(s) + 1 \in DOMAIN t /\ \A i \in DOMAIN s : i \in DOMAIN t
  BY <1>1
<1>3. ClosedAs(s, status) => ClosedAs(t, status)
  BY <1>1, <1>2 DEF ClosedAs
<1>4. e.done => ClosedAs(t, e.status)
  BY <1>1, <1>2 DEF ClosedAs
<1>5. QED
  BY <1>3, <1>4 DEF t

LEMMA TextLocal ==
  ASSUME TypeOK, LocalStep, CallInv, TextOK(worker, stream[worker.job])
  PROVE  TextOK(worker', stream'[worker.job])
<1> DEFINE job == worker.job
<1>0. /\ worker \in WorkerStates /\ job \in Jobs /\ worker.call \in Calls
      /\ stream \in [Jobs -> Seq(Events)] /\ stream[job] \in Seq(Events)
      /\ worker'.job = job
      /\ CallOK(worker, meta[job].cancel, cancel[job].pc # "none")
      /\ worker.text \in Seq(Nat) /\ worker.chunks \in Nat
  BY LocalKeepsPlace DEF TypeOK, Running, At, CallInv, WorkerStates
<1>s. worker.call.status \in Statuses /\ worker.call.cancel \in BOOLEAN
  BY <1>0 DEF Calls
<1>t. TextOK(worker, stream[job]) /\ worker.job = job
  OBVIOUS
<1> SUFFICES TextOK(worker', stream'[job])
  OBVIOUS
<1> HIDE DEF job
<1> USE DEF At
<1>1. CASE Precheck \/ Process \/ EnterTry \/ OpenStream \/ AnnounceProcessing
  <2>1. /\ worker.pc \in Fresh /\ worker'.text = worker.text /\ worker'.chunks = worker.chunks
        /\ worker'.pc \in {"raised", "finalize", "process", "announce", "try", "open",
                           "generate", "opened"}
    BY <1>0, <1>1 DEF Precheck, Process, EnterTry, OpenStream, AnnounceProcessing, Announce,
       Goto, Store, Fresh, WorkerStates
  <2>2. worker'.pc = "generate" => job \notin Streaming
    BY <1>0, <1>1 DEF Precheck, Process, EnterTry, OpenStream, AnnounceProcessing, Announce,
       Goto, Store, WorkerStates, job
  <2>3. QED
    BY <1>0, <1>t, <2>1, <2>2 DEF TextOK, Joined, Fresh
<1>2. CASE Generate
  <2>1. worker.pc = "generate" /\ worker'.pc \in {"finish", "reject", "except"}
    BY <1>0, <1>2 DEF Generate, Goto, WorkerStates
  <2>2. QED
    BY <1>0, <1>t, <2>1 DEF TextOK, Joined, Fresh
<1>3. CASE AnnounceStreaming
  <2> DEFINE e == StreamEvent(worker.call, FALSE, 0)
  <2>1. Emit(job, e) /\ worker.pc = "opened"
    BY <1>3 DEF AnnounceStreaming, Announce, job
  <2>2. worker.call.status = "streaming" /\ ~worker.call.cancel
    BY <1>0, <2>1 DEF CallOK, Going
  <2>3. e \in Events /\ IsOpening(e)
    BY <1>s, <2>2 DEF StreamEvent, Events, IsOpening
  <2> HIDE DEF e
  <2>4. stream'[job] = Append(stream[job], e)
    BY <1>0, <2>1, <2>3, Emitted
  <2>5. /\ worker'.pc = "chunk" /\ worker'.text = <<>> /\ worker'.chunks = 0
    BY <1>0, <1>3, <1>t, <2>1 DEF AnnounceStreaming, Announce, Goto, WorkerStates, TextOK, Fresh
  <2>6. PublishedUpTo(stream'[job], <<>>, 0)
    BY <1>0, <2>3, <2>4, StreamedOpening DEF PublishedUpTo
  <2>7. QED
    BY <2>5, <2>6 DEF TextOK, Joined, Fresh
<1>4. CASE Token
  <2> DEFINE n == worker.chunks + 1
             e == StreamEvent(worker.call, FALSE, n)
  <2>1. Emit(job, e) /\ worker.pc = "chunk" /\ n \in Nat
    <3>1. Emit(job, e) /\ worker.pc = "chunk"
      BY <1>4 DEF Token, job
    <3>2. n \in Nat
      BY <1>0
    <3>3. QED
      BY <3>1, <3>2, Zenon
  <2>2. worker.call.status = "streaming"
    BY <1>0, <2>1 DEF CallOK
  <2>3. e \in Events /\ e.token = n /\ ~IsOpening(e)
    BY <1>0, <1>s, <2>1, <2>2 DEF StreamEvent, Events, IsOpening
  <2> HIDE DEF e
  <2>4. stream'[job] = Append(stream[job], e)
    BY <1>0, <2>1, <2>3, Emitted
  <2>5. /\ worker'.pc = "check" /\ worker'.chunks = n /\ worker'.text = Append(worker.text, n)
    BY <1>0, <1>4 DEF Token, WorkerStates
  <2>6. PICK i \in DOMAIN stream[job] :
          /\ Streamed(stream[job], i, worker.text)
          /\ \A k \in DOMAIN stream[job] : k > i => stream[job][k].token <= worker.chunks
    BY <1>t, <2>1 DEF TextOK, PublishedUpTo
  <2>7. /\ i \in DOMAIN stream'[job] /\ Streamed(stream'[job], i, Append(worker.text, n))
        /\ \A k \in DOMAIN stream'[job] : k > i => stream'[job][k].token <= n
    BY <1>0, <2>3, <2>4, <2>6, StreamedToken
  <2> HIDE DEF n
  <2>8. PublishedUpTo(stream'[job], worker'.text, worker'.chunks)
    BY <2>5, <2>7 DEF PublishedUpTo
  <2>9. QED
    BY <2>5, <2>8 DEF TextOK, Joined, Fresh
<1>5. CASE EmptyChunk
  <2>1. /\ worker.pc = "chunk" /\ worker'.pc = "check" /\ worker'.chunks = worker.chunks + 1
        /\ worker'.text = worker.text /\ stream' = stream
    BY <1>0, <1>5 DEF EmptyChunk, WorkerStates
  <2>2. PICK i \in DOMAIN stream[job] :
          /\ Streamed(stream[job], i, worker.text)
          /\ \A k \in DOMAIN stream[job] : k > i => stream[job][k].token <= worker.chunks
    BY <1>t, <2>1 DEF TextOK, PublishedUpTo
  <2>3. \A k \in DOMAIN stream[job] : stream[job][k] \in Events
    BY <1>0
  <2>4. \A k \in DOMAIN stream[job] : stream[job][k].token \in Nat
    BY <2>3 DEF Events
  <2>5. \A k \in DOMAIN stream[job] : k > i => stream[job][k].token <= worker.chunks + 1
    BY <1>0, <2>2, <2>4
  <2>6. PublishedUpTo(stream'[job], worker'.text, worker'.chunks)
    BY <2>1, <2>2, <2>5 DEF PublishedUpTo
  <2>7. QED
    BY <2>1, <2>6 DEF TextOK, Joined, Fresh
<1>6. CASE EndOfStream
  <2>1. /\ worker.pc = "chunk" /\ worker'.pc = "finish" /\ stream' = stream
        /\ worker'.call.text = worker.text
    BY <1>0, <1>6 DEF EndOfStream, WorkerStates, Calls
  <2>2. Published(stream'[job], worker'.call.text)
    BY <1>t, <2>1 DEF TextOK, PublishedUpTo, Published
  <2>3. QED
    BY <2>1, <2>2 DEF TextOK, Fresh
<1>7. CASE CheckChunk
  <2>1. /\ worker.pc = "check" /\ worker'.pc \in {"finalize", "chunk"} /\ stream' = stream
        /\ worker'.text = worker.text /\ worker'.chunks = worker.chunks
    BY <1>0, <1>7 DEF CheckChunk, WorkerStates
  <2>2. QED
    BY <1>t, <2>1 DEF TextOK, Joined, Fresh
<1>8. CASE CheckResult
  <2>1. worker.pc = "finish" /\ stream' = stream /\ worker'.pc \in {"finalize", "complete"}
    BY <1>0, <1>8 DEF CheckResult, WorkerStates
  <2>2. worker'.pc = "complete" => worker'.call = worker.call
    BY <1>0, <1>8 DEF CheckResult, WorkerStates
  <2>3. QED
    BY <1>0, <1>t, <2>1, <2>2 DEF TextOK, Joined, Fresh
<1>9. CASE Complete
  <2>1. /\ worker.pc = "complete" /\ stream' = stream
        /\ worker'.pc = IF job \in Streaming THEN "completed" ELSE "return"
        /\ worker'.call.text = worker.call.text
    BY <1>0, <1>9 DEF Complete, Store, WorkerStates, Calls, job
  <2>2. QED
    BY <1>0, <1>t, <2>1 DEF TextOK, Joined, Fresh
<1>10. CASE AnnounceCompleted \/ AnnounceCancelled
  <2> DEFINE e == StreamEvent(worker.call, TRUE, 0)
  <2>1. Emit(job, e) /\ worker.pc \in {"completed", "cancelled"} /\ worker'.pc = "return"
        /\ worker'.call = worker.call
    BY <1>0, <1>10 DEF AnnounceCompleted, AnnounceCancelled, Announce, Goto, WorkerStates, job
  <2>2. /\ worker.pc = "completed" => worker.call.status = "completed"
        /\ worker.pc = "cancelled" => worker.call.status = "cancelled"
    BY <1>0 DEF CallOK
  <2>3. e \in Events /\ e.done /\ e.status = worker.call.status /\ Plain(e)
    BY <1>s, <2>1, <2>2 DEF StreamEvent, Events, Plain, IsOpening
  <2> HIDE DEF e
  <2>4. stream'[job] = Append(stream[job], e)
    BY <1>0, <2>1, <2>3, Emitted
  <2>5. ClosedAs(stream'[job], worker'.call.status)
    BY <1>0, <2>1, <2>3, <2>4, ClosedStays
  <2>6. job \in Streaming /\ worker'.call.status = "completed" => Published(stream'[job], worker'.call.text)
    BY <1>0, <1>t, <2>1, <2>2, <2>3, <2>4, PublishedPlain DEF TextOK, Joined
  <2>7. QED
    BY <1>0, <2>1, <2>5, <2>6 DEF TextOK, Joined, Fresh
<1>11. CASE Reject
  <2>1. worker.pc = "reject" /\ worker'.pc = "return"
    BY <1>0, <1>11 DEF Reject, Store, WorkerStates
  <2>2. QED
    BY <1>0, <1>t, <2>1 DEF TextOK, Joined, Fresh
<1>12. CASE StreamError \/ Finalize \/ HandleError \/ AnnounceError \/ Timeout
  <2>1. worker'.pc \in {"except", "cancelled", "excepted", "raised"}
    BY <1>0, <1>12 DEF StreamError, Finalize, Store, HandleError, AnnounceError, Announce,
       Goto, Timeout, WorkerStates
  <2>2. QED
    BY <2>1 DEF TextOK, Joined, Fresh
<1>13. QED
  BY <1>1, <1>2, <1>3, <1>4, <1>5, <1>6, <1>7, <1>8, <1>9, <1>10, <1>11, <1>12 DEF LocalStep

(* Nothing but a token or the begin of an attempt disturbs what a worker    *)
(* has published.                                                           *)
LEMMA TextPlain ==
  ASSUME NEW w \in WorkerStates, NEW s \in Seq(Events), NEW e \in Events, Plain(e), TextOK(w, s)
  PROVE  TextOK(w, Append(s, e))
<1>1. w.chunks \in Nat
  BY DEF WorkerStates
<1>2. QED
  BY <1>1, PublishedPlain, ClosedStays DEF TextOK

LEMMA TextStep ==
  TypeOK /\ HolderInv /\ HolderInv' /\ RetryInv /\ PromiseInv /\ PromiseInv' /\ CallInv
  /\ CancelInv /\ TextInv /\ [Next]_vars => TextInv'
<1> SUFFICES ASSUME TypeOK, HolderInv, HolderInv', RetryInv, PromiseInv, PromiseInv', CallInv,
                    CancelInv, TextInv, [Next]_vars
             PROVE  TextInv'
  OBVIOUS
<1>0. /\ worker \in WorkerStates /\ stream \in [Jobs -> Seq(Events)]
      /\ ~At("idle") => worker.job \in Jobs
      /\ \A j \in Jobs : stream[j] \in Seq(Events)
      /\ result \in [Jobs -> MaybeCalls]
      /\ Streaming \subseteq Jobs
      /\ Running => worker.job \in started
  BY JobsAssumption DEF TypeOK, HolderInv, OneHolder
<1>i. IdleWorker.pc = "idle"
  BY DEF IdleWorker
<1>h. Running => result[worker.job] = NoCall
  BY <1>0 DEF PromiseInv, Held, Running, At
(* What the stream of a job with a result still gets is plain.              *)
<1>p. ASSUME NEW s \in Seq(Events), NEW t, NEW call,
             t = s \/ \E e \in Events : t = Append(s, e) /\ Plain(e),
             ClosedAs(s, call.status), call.status = "completed" => Published(s, call.text)
      PROVE  ClosedAs(t, call.status) /\ (call.status = "completed" => Published(t, call.text))
  BY <1>p, ClosedStays, PublishedPlain
<1>1. CASE LocalStep
  <2>1. /\ UNCHANGED result /\ worker'.job = worker.job /\ Running
        /\ worker.job \in Jobs
        /\ \A j \in Jobs \ {worker.job} : stream'[j] = stream[j]
    BY <1>0, <1>1, LocalKeepsPlace, LocalStream DEF rqVars, Running, At
  <2>2. TextOK(worker', stream'[worker'.job])
    BY <1>1, <2>1, TextLocal DEF TextInv, Running, At
  <2>3. \A j \in Streaming : result'[j] # NoCall => j \in Jobs \ {worker.job}
    BY <1>0, <1>h, <2>1
  <2>4. QED
    BY <2>1, <2>2, <2>3 DEF TextInv
<1>2. CASE Dequeue \/ StartJob
  <2>1. /\ UNCHANGED <<result, stream>> /\ worker'.pc \in {"popped", "precheck"}
        /\ worker'.text = <<>> /\ worker'.chunks = 0
    <3>1. CASE Dequeue
      BY <3>1 DEF Dequeue, IdleWorker
    <3>2. CASE StartJob
      BY <1>0, <3>2 DEF StartJob, WorkerStates, TextInv, TextOK, Fresh, At
    <3>3. QED
      BY <1>2, <3>1, <3>2
  <2>2. TextOK(worker', stream'[worker'.job])
    BY <2>1 DEF TextOK, Joined, Fresh
  <2>3. QED
    BY <2>1, <2>2 DEF TextInv
<1>3. CASE Succeed
  <2>1. /\ UNCHANGED stream /\ worker' = IdleWorker /\ worker.pc = "return"
        /\ result' = [result EXCEPT ![worker.job] = worker.call] /\ worker.job \in Jobs
    BY <1>0, <1>3 DEF Succeed, At
  <2>2. worker.job \in Streaming =>
          /\ ClosedAs(stream[worker.job], worker.call.status)
          /\ worker.call.status = "completed" => Published(stream[worker.job], worker.call.text)
    BY <2>1 DEF TextInv, TextOK, Joined, At
  <2>3. \A j \in Streaming : result'[j] = IF j = worker.job THEN worker.call ELSE result[j]
    BY <1>0, <2>1
  <2>4. QED
    BY <1>i, <2>1, <2>2, <2>3 DEF TextInv, At
<1>4. CASE Fail \/ Crash
  <2>1. UNCHANGED <<result, stream>> /\ worker' = IdleWorker
    BY <1>4 DEF Fail, Crash, rqVars
  <2>2. QED
    BY <1>i, <2>1 DEF TextInv, At
(* While the worker waits, its job's stream gets plain events.              *)
<1>5. ASSUME UNCHANGED <<worker, result>>, \A j \in Jobs : Grows(j) PROVE TextInv'
  <2>1. ~AnnounceStreaming /\ ~Token
    <3>1. ASSUME AnnounceStreaming PROVE FALSE
      <4>1. worker.pc = "opened" /\ worker'.pc = "chunk"
        BY <1>0, <3>1 DEF AnnounceStreaming, Announce, Goto, At, WorkerStates
      <4>2. QED
        BY <1>5, <4>1
    <3>2. ASSUME Token PROVE FALSE
      <4>1. worker.pc = "chunk" /\ worker'.pc = "check"
        BY <1>0, <3>2 DEF Token, At, WorkerStates
      <4>2. QED
        BY <1>5, <4>1
    <3>3. QED
      BY <3>1, <3>2
  <2>2. \A j \in Jobs :
          stream'[j] = stream[j] \/ \E e \in Events : stream'[j] = Append(stream[j], e) /\ Plain(e)
    BY <1>5, <2>1 DEF Grows, MayAppend
  <2>3. ~At("idle") => TextOK(worker, stream'[worker.job])
    BY <1>0, <2>2, TextPlain DEF TextInv
  <2>4. \A j \in Streaming : result[j] # NoCall =>
          /\ ClosedAs(stream'[j], result[j].status)
          /\ result[j].status = "completed" => Published(stream'[j], result[j].text)
    BY <1>0, <1>p, <2>2 DEF TextInv
  <2>5. QED
    BY <1>5, <2>3, <2>4 DEF TextInv, At
<1>6. CASE \E k \in Jobs : \/ Admit(k) \/ Refuse(k) \/ Abort(k) \/ Push(k) \/ SavePayload(k)
                           \/ AnnounceQueued(k) \/ Reclaim(k) \/ CancelStep(k)
  <2>1. UNCHANGED <<worker, result>>
    BY <1>6, CancelKeepsPlace DEF Admit, Refuse, Abort, Push, SavePayload, AnnounceQueued,
       Reclaim, rqVars, HolderInv
  <2>2. QED
    BY <1>5, <2>1, StreamGrows
<1>7. CASE UNCHANGED vars
  BY <1>5, <1>7, StreamGrows DEF vars, rqVars
<1>8. QED
  BY <1>1, <1>2, <1>3, <1>4, <1>6, <1>7, NextCases

LEMMA TextAlways == Spec => []TextInv
<1>1. Init => TextInv
  <2>1. Init => /\ worker.pc = "idle"
                /\ \A j \in Jobs : result[j] = NoCall
    BY DEF Init, IdleWorker
  <2>2. QED
    BY <2>1, JobsAssumption DEF TextInv, At
<1>2. TypeOK /\ HolderInv /\ HolderInv' /\ RetryInv /\ PromiseInv /\ PromiseInv' /\ CallInv
      /\ CancelInv /\ TextInv /\ [Next]_vars => TextInv'
  BY TextStep
<1>3. QED
  BY <1>1, <1>2, TypeCorrect, HolderAlways, RetryAlways, PromiseInvAlways, CallAlways, PTL DEF Spec

(* A poller and a reader of the same streaming job learn the same end: the  *)
(* closing event is in the stream, with the status of the result, before RQ *)
(* stores the result.                                                       *)
THEOREM ResultIsAnnouncedAlways == Spec => []ResultIsAnnounced
<1>1. TextInv => ResultIsAnnounced
  BY DEF TextInv, ResultIsAnnounced, ClosedAs
<1>2. QED
  BY <1>1, TextAlways, PTL

(* The text stored for a completed streaming job is what its last attempt   *)
(* published, token by token, in order and with nothing from the attempts   *)
(* that failed before it.                                                   *)
THEOREM CompletedTextWasStreamedAlways == Spec => []CompletedTextWasStreamed
<1>1. TextInv => CompletedTextWasStreamed
  BY DEF TextInv, CompletedTextWasStreamed, Published, NoCall
<1>2. QED
  BY <1>1, TextAlways, PTL

=============================================================================
