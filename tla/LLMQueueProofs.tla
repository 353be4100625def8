--------------------------- MODULE LLMQueueProofs ---------------------------
(***************************************************************************)
(* Theorems about LLMQueue, for every value of its constants.              *)
(***************************************************************************)
EXTENDS LLMQueue, SequenceTheorems, TLAPS

-----------------------------------------------------------------------------
(* Lemmas about the operators of the model                                  *)

(* Appending to the list of RQ adds one job to it.                          *)
LEMMA AppendRange ==
  ASSUME NEW S, NEW s \in Seq(S), NEW e \in S
  PROVE  /\ Append(s, e) \in Seq(S)
         /\ Range(Append(s, e)) = Range(s) \cup {e}
<1>1. /\ Append(s, e) \in Seq(S)
      /\ Len(Append(s, e)) = Len(s) + 1
      /\ \A i \in 1..Len(s) : Append(s, e)[i] = s[i]
      /\ Append(s, e)[Len(s) + 1] = e
  BY AppendProperties
<1>2. DOMAIN Append(s, e) = 1..(Len(s) + 1) /\ DOMAIN s = 1..Len(s) /\ Len(s) \in Nat
  BY <1>1
<1>3. QED
  BY <1>1, <1>2 DEF Range

(* Removing the element at position i shifts the ones after it.             *)
LEMMA RemoveAtProperties ==
  ASSUME NEW S, NEW s \in Seq(S), NEW i \in 1..Len(s)
  PROVE  /\ RemoveAt(s, i) \in Seq(S)
         /\ Len(RemoveAt(s, i)) = Len(s) - 1
         /\ \A k \in 1..(Len(s) - 1) :
              RemoveAt(s, i)[k] = IF k < i THEN s[k] ELSE s[k + 1]
<1> DEFINE t == SubSeq(s, 1, i - 1)
           u == SubSeq(s, i + 1, Len(s))
<1>1. Len(s) \in Nat /\ i \in Nat /\ i >= 1 /\ i <= Len(s) /\ \A k \in 1..Len(s) : s[k] \in S
  OBVIOUS
<1>2. /\ t \in Seq(S) /\ Len(t) = i - 1
      /\ \A k \in 1..(i - 1) : t[k] = s[k]
  <2>1. \A k \in 1..(i - 1) : s[k] \in S
    BY <1>1
  <2>2. /\ t \in Seq(S)
        /\ Len(t) = IF 1 <= i - 1 THEN i - 1 - 1 + 1 ELSE 0
        /\ \A k \in 1..(i - 1 - 1 + 1) : t[k] = s[1 + k - 1]
    BY <1>1, <2>1, SubSeqProperties
  <2>3. QED
    BY <1>1, <2>2
<1>3. /\ u \in Seq(S) /\ Len(u) = Len(s) - i
      /\ \A k \in 1..(Len(s) - i) : u[k] = s[i + k]
  <2>1. \A k \in (i + 1)..Len(s) : s[k] \in S
    BY <1>1
  <2>2. /\ u \in Seq(S)
        /\ Len(u) = IF i + 1 <= Len(s) THEN Len(s) - (i + 1) + 1 ELSE 0
        /\ \A k \in 1..(Len(s) - (i + 1) + 1) : u[k] = s[i + 1 + k - 1]
    BY <1>1, <2>1, SubSeqProperties
  <2>3. QED
    BY <1>1, <2>2
<1> HIDE DEF t, u
<1>4. /\ t \o u \in Seq(S)
      /\ Len(t \o u) = Len(s) - 1
      /\ \A k \in 1..(Len(s) - 1) :
           (t \o u)[k] = IF k < i THEN t[k] ELSE u[k - (i - 1)]
  BY <1>1, <1>2, <1>3, ConcatProperties
<1>5. \A k \in 1..(Len(s) - 1) : (t \o u)[k] = IF k < i THEN s[k] ELSE s[k + 1]
  BY <1>1, <1>2, <1>3, <1>4
<1>6. QED
  BY <1>4, <1>5 DEF RemoveAt, t, u

Injective(s) == \A m, n \in 1..Len(s) : s[m] = s[n] => m = n

(* The three ways the list of RQ changes, seen as a set of jobs: a push of  *)
(* a job that is not in it, a pop, and a removal.                           *)
LEMMA PushInjective ==
  ASSUME NEW S, NEW s \in Seq(S), NEW e \in S, Injective(s), e \notin Range(s)
  PROVE  Injective(Append(s, e)) /\ Range(Append(s, e)) = Range(s) \cup {e}
<1>1. /\ Len(s) \in Nat
      /\ Len(Append(s, e)) = Len(s) + 1
      /\ \A i \in 1..Len(s) : Append(s, e)[i] = s[i]
      /\ Append(s, e)[Len(s) + 1] = e
  BY AppendProperties
<1>2. \A i \in 1..Len(s) : s[i] # e
  BY DEF Range
<1>3. Injective(Append(s, e))
  BY <1>1, <1>2 DEF Injective
<1>4. QED
  BY <1>3, AppendRange

LEMMA PopInjective ==
  ASSUME NEW S, NEW s \in Seq(S), s # <<>>, Injective(s)
  PROVE  /\ Head(s) \in S /\ Head(s) \in Range(s)
         /\ Injective(Tail(s)) /\ Range(Tail(s)) = Range(s) \ {Head(s)}
<1>1. /\ Len(s) \in Nat /\ Len(s) >= 1 /\ Head(s) = s[1]
      /\ Tail(s) \in Seq(S)
      /\ Len(Tail(s)) = Len(s) - 1
      /\ \A i \in 1..Len(Tail(s)) : Tail(s)[i] = s[i + 1]
  BY HeadTailProperties
<1>2. Injective(Tail(s))
  BY <1>1 DEF Injective
<1>3. Range(Tail(s)) = {s[i] : i \in 2..Len(s)}
  <2>1. DOMAIN Tail(s) = 1..(Len(s) - 1)
    BY <1>1
  <2>2. \A i \in 2..Len(s) : i - 1 \in 1..(Len(s) - 1) /\ Tail(s)[i - 1] = s[i]
    BY <1>1
  <2>3. \A i \in 1..(Len(s) - 1) : i + 1 \in 2..Len(s) /\ Tail(s)[i] = s[i + 1]
    BY <1>1
  <2>4. Range(Tail(s)) \subseteq {s[i] : i \in 2..Len(s)}
    BY <2>1, <2>3 DEF Range
  <2>5. {s[i] : i \in 2..Len(s)} \subseteq Range(Tail(s))
    <3>1. SUFFICES ASSUME NEW i \in 2..Len(s) PROVE s[i] \in Range(Tail(s))
      OBVIOUS
    <3>2. i - 1 \in DOMAIN Tail(s) /\ Tail(s)[i - 1] = s[i]
      BY <2>1, <2>2
    <3>3. QED
      BY <3>2 DEF Range
  <2>6. QED
    BY <2>4, <2>5
<1>4. Range(s) = {s[i] : i \in 2..Len(s)} \cup {s[1]}
  BY <1>1 DEF Range
<1>5. s[1] \notin {s[i] : i \in 2..Len(s)}
  BY <1>1 DEF Injective
<1>6. QED
  BY <1>1, <1>2, <1>3, <1>4, <1>5

LEMMA RemoveInjective ==
  ASSUME NEW S, NEW s \in Seq(S), NEW i \in 1..Len(s), Injective(s)
  PROVE  Injective(RemoveAt(s, i)) /\ Range(RemoveAt(s, i)) = Range(s) \ {s[i]}
<1> DEFINE t == RemoveAt(s, i)
<1>1. /\ Len(s) \in Nat /\ t \in Seq(S) /\ Len(t) = Len(s) - 1
      /\ \A k \in 1..(Len(s) - 1) : t[k] = IF k < i THEN s[k] ELSE s[k + 1]
  BY RemoveAtProperties
<1> HIDE DEF t
<1>2. Injective(t)
  BY <1>1 DEF Injective
<1>3. Range(t) \subseteq Range(s) \ {s[i]}
  <2>1. SUFFICES ASSUME NEW k \in 1..(Len(s) - 1) PROVE t[k] \in Range(s) \ {s[i]}
    BY <1>1 DEF Range
  <2>2. CASE k < i
    BY <1>1, <2>2 DEF Injective, Range
  <2>3. CASE ~(k < i)
    <3>1. k + 1 \in 1..Len(s) /\ k + 1 # i /\ t[k] = s[k + 1]
      BY <1>1, <2>3
    <3>2. QED
      BY <3>1 DEF Injective, Range
  <2>4. QED
    BY <2>2, <2>3
<1>4. Range(s) \ {s[i]} \subseteq Range(t)
  <2>1. SUFFICES ASSUME NEW k \in 1..Len(s), s[k] # s[i] PROVE s[k] \in Range(t)
    BY <1>1 DEF Range
  <2>2. CASE k < i
    <3>1. k \in 1..(Len(s) - 1) /\ t[k] = s[k]
      BY <1>1, <2>2
    <3>2. QED
      BY <1>1, <3>1 DEF Range
  <2>3. CASE ~(k < i)
    <3>1. k # i
      BY <2>1
    <3>2. k - 1 \in 1..(Len(s) - 1) /\ ~(k - 1 < i) /\ t[k - 1] = s[k - 1 + 1]
      BY <1>1, <2>3, <3>1
    <3>3. t[k - 1] = s[k] /\ k - 1 \in DOMAIN t
      BY <1>1, <3>2
    <3>4. QED
      BY <3>3 DEF Range
  <2>4. QED
    BY <2>2, <2>3
<1>5. QED
  BY <1>2, <1>3, <1>4 DEF t

-----------------------------------------------------------------------------
(* Type correctness                                                         *)

LEMMA CallTypes ==
  /\ <<>> \in Seq(Nat)
  /\ NoCall \notin Calls /\ NoCall \in MaybeCalls
  /\ NewCall \in Calls
  /\ IdleWorker \in WorkerStates
  /\ NoCancel \in CancelStates
<1>1. <<>> \in Seq(Nat)
  OBVIOUS
<1>2. NoCall \notin Calls /\ NoCall \in MaybeCalls
  BY DEF NoCall, Calls, MaybeCalls, Statuses, Terminal
<1>3. NewCall \in Calls
  BY <1>1 DEF NewCall, NoCall, Calls, Statuses
<1>4. QED
  BY <1>1, <1>2, <1>3 DEF IdleWorker, NoCancel, WorkerPC, CancelPC, WorkerStates,
    CancelStates

LEMMA InitType == Init => TypeOK /\ PayloadKept
BY CallTypes, JobsAssumption, BoundsAssumption
DEF Init, TypeOK, PayloadKept, At, Running, IdleWorker, NoCancel

(* RQ's retry budget only shrinks.                                          *)
LEMMA RetryType ==
  ASSUME TypeOK, NEW j \in Jobs, RetryOrFail(j)
  PROVE  /\ queue' \in Seq(Jobs)
         /\ rq' \in [Jobs -> {"none", "queued", "started", "finished", "failed", "canceled"}]
         /\ retriesLeft' \in [Jobs -> 0..MaxRetries]
<1>1. CASE retriesLeft[j] > 0
  <2>1. retriesLeft[j] - 1 \in 0..MaxRetries
    BY <1>1, BoundsAssumption DEF TypeOK
  <2>2. Append(queue, j) \in Seq(Jobs)
    BY AppendProperties DEF TypeOK
  <2>3. /\ queue' = Append(queue, j)
        /\ rq' = [rq EXCEPT ![j] = "queued"]
        /\ retriesLeft' = [retriesLeft EXCEPT ![j] = retriesLeft[j] - 1]
    BY <1>1 DEF RetryOrFail
  <2>4. QED
    BY <2>1, <2>2, <2>3 DEF TypeOK
<1>2. CASE ~(retriesLeft[j] > 0)
  BY <1>2 DEF TypeOK, RetryOrFail
<1>3. QED
  BY <1>1, <1>2

(* What a cancel writes back is a call again.                               *)
LEMMA PayloadType ==
  ASSUME TypeOK, NEW j \in Jobs, cancel[j].call \in Calls, NEW status \in Statuses
  PROVE  CancelPayload(j, status) \in Calls
<1>1. cancel[j].mem.retry \in Nat
  <2>1. cancel[j].mem \in MaybeCalls
    BY DEF TypeOK, CancelStates
  <2>2. QED
    BY <2>1 DEF MaybeCalls, NoCall, Calls
<1>2. CancelPayload(j, status) =
        [[cancel[j].call EXCEPT !.status = status] EXCEPT
           !.retry = IF cancel[j].mem.retry > 0 THEN cancel[j].mem.retry
                     ELSE cancel[j].call.retry]
  BY DEF CancelPayload, Calls
<1>3. QED
  BY <1>1, <1>2 DEF Calls

(* Type correctness is not inductive alone: a cancel works on a call because *)
(* the payload is there when it loads it.                                   *)
LEMMA TypeStep ==
  TypeOK /\ PayloadKept /\ [Next]_vars => TypeOK' /\ PayloadKept'
<1> SUFFICES ASSUME TypeOK, PayloadKept, [Next]_vars PROVE TypeOK' /\ PayloadKept'
  OBVIOUS
<1> USE DEF TypeOK, PayloadKept, At, Running, WorkerUnchanged, rqVars, WorkerPC
<1>1. CASE Dequeue
  <2>1. Head(queue) \in Jobs /\ Tail(queue) \in Seq(Jobs)
    BY <1>1, HeadTailProperties DEF Dequeue
  <2>2. worker' \in WorkerStates /\ worker'.pc = "popped" /\ worker'.job \in Jobs
    <3>1. meta[Head(queue)] \in MaybeCalls
      BY <2>1
    <3>2. worker' = [IdleWorker EXCEPT !.pc = "popped", !.job = Head(queue),
                                       !.mem = meta[Head(queue)]]
      BY <1>1 DEF Dequeue
    <3>3. QED
      BY <2>1, <3>1, <3>2, CallTypes DEF IdleWorker, WorkerStates
  <2>3. QED
    BY <1>1, <2>1, <2>2 DEF Dequeue
<1>2. CASE StartJob
  <2>1. worker.job \in Jobs /\ worker.mem \in MaybeCalls
    BY <1>2 DEF StartJob, WorkerStates
  <2>2. (IF worker.mem = NoCall THEN NewCall ELSE worker.mem) \in Calls
    BY <2>1, CallTypes DEF MaybeCalls
  <2>3. worker' \in WorkerStates /\ worker'.job = worker.job /\ worker'.call \in Calls
    BY <1>2, <2>1, <2>2, BoundsAssumption DEF StartJob, WorkerStates, MaybeCalls
  <2>4. QED
    BY <1>2, <2>1, <2>3 DEF StartJob
(* A step of the worker's own, a Store and an event, whatever the place.     *)
<1>w. ASSUME Running, worker' \in WorkerStates, worker'.job = worker.job,
             worker'.call \in Calls, UNCHANGED <<meta, stream>>, WorkerUnchanged
      PROVE  TypeOK' /\ PayloadKept'
  BY <1>w
<1>s. ASSUME NEW status \in Statuses, NEW there \in WorkerPC, Running, Store(status, there),
             WorkerUnchanged
      PROVE  TypeOK' /\ PayloadKept'
  <2> DEFINE call == [worker.call EXCEPT !.status = status]
  <2>1. worker.job \in Jobs /\ call \in Calls
    BY <1>s DEF Calls
  <2>2. /\ worker' = [worker EXCEPT !.pc = there, !.call = call, !.mem = call]
        /\ meta' = [meta EXCEPT ![worker.job] = call] /\ stream' = stream
    BY <1>s DEF Store, SaveMeta
  <2> HIDE DEF call
  <2>3. call \in MaybeCalls
    BY <2>1 DEF MaybeCalls
  <2>4. worker' \in WorkerStates /\ worker'.job = worker.job /\ worker'.call \in Calls
    BY <2>1, <2>2, <2>3 DEF WorkerStates
  <2>5. /\ meta' \in [Jobs -> MaybeCalls]
        /\ \A j \in Jobs : meta[j] \in Calls => meta'[j] \in Calls
    BY <2>1, <2>2, <2>3
  <2>6. QED
    BY <1>s, <2>1, <2>2, <2>4, <2>5
<1>e. ASSUME NEW e \in Events, NEW there \in WorkerPC, Running, Emit(worker.job, e),
             Goto(there), UNCHANGED meta, WorkerUnchanged
      PROVE  TypeOK' /\ PayloadKept'
  <2>1. worker.job \in Jobs /\ worker.call \in Calls
    BY <1>e
  <2>2. worker' \in WorkerStates /\ worker'.job = worker.job /\ worker'.call = worker.call
    BY <1>e DEF Goto, WorkerStates
  <2>3. Append(stream[worker.job], e) \in Seq(Events)
    BY <2>1, AppendProperties
  <2>4. stream' \in [Jobs -> Seq(Events)]
    BY <1>e, <2>1, <2>3 DEF Emit
  <2>5. QED
    BY <1>e, <2>1, <2>2, <2>4
<1>c. Running => worker.job \in Jobs /\ worker.call \in Calls
  OBVIOUS
<1>3. CASE Precheck
  <2>1. /\ worker' \in WorkerStates /\ worker'.job = worker.job /\ worker'.call \in Calls
        /\ Running /\ UNCHANGED <<meta, stream>> /\ WorkerUnchanged
    BY <1>3, <1>c DEF Precheck, WorkerStates, Calls, MaybeCalls
  <2>2. QED
    BY <1>w, <2>1
<1>4. CASE Process
  <2>1. PICK there \in {"announce", "try"} : Store("processing", there)
    BY <1>4 DEF Process
  <2>2. Running /\ WorkerUnchanged /\ "processing" \in Statuses /\ there \in WorkerPC
    BY <1>4 DEF Process, Statuses, Terminal
  <2>3. QED
    BY <1>s, <2>1, <2>2
<1>5. CASE AnnounceProcessing
  <2>1. /\ Running /\ WorkerUnchanged /\ UNCHANGED meta /\ Goto("try")
        /\ Emit(worker.job, StreamEvent(worker.call, FALSE, 0))
    BY <1>5 DEF AnnounceProcessing, Announce
  <2>2. StreamEvent(worker.call, FALSE, 0) \in Events /\ "try" \in WorkerPC
    BY <1>c, <2>1 DEF StreamEvent, Events, Calls
  <2>3. QED
    BY <1>e, <2>1, <2>2
<1>6. CASE EnterTry
  <2>1. /\ worker' \in WorkerStates /\ worker'.job = worker.job /\ worker'.call \in Calls
        /\ Running /\ UNCHANGED <<meta, stream>> /\ WorkerUnchanged
    BY <1>6, <1>c DEF EnterTry, WorkerStates, Calls, MaybeCalls
  <2>2. QED
    BY <1>w, <2>1
<1>7. CASE Generate
  <2>1. /\ worker' \in WorkerStates /\ worker'.job = worker.job /\ worker'.call \in Calls
        /\ Running /\ UNCHANGED <<meta, stream>> /\ WorkerUnchanged
    <3>1. Running /\ UNCHANGED <<meta, stream>> /\ WorkerUnchanged
      BY <1>7 DEF Generate
    <3>2. PICK pc \in {"finish", "reject", "except"}, in \in BOOLEAN :
            worker' = [worker EXCEPT !.pc = pc, !.inTry = in]
      <4>1. CASE Goto("finish")
        <5>1. worker' = [worker EXCEPT !.pc = "finish", !.inTry = worker.inTry]
          BY <4>1 DEF Goto, WorkerStates
        <5>2. QED
          BY <5>1 DEF WorkerStates
      <4>2. CASE worker' = [worker EXCEPT !.pc = "reject", !.inTry = FALSE]
        BY <4>2
      <4>3. CASE worker' = [worker EXCEPT !.pc = "except", !.inTry = FALSE]
        BY <4>3
      <4>4. QED
        BY <1>7, <4>1, <4>2, <4>3 DEF Generate
    <3>3. QED
      BY <1>c, <3>1, <3>2 DEF WorkerStates
  <2>2. QED
    BY <1>w, <2>1
<1>8. CASE OpenStream
  <2>1. PICK there \in {"opened"} : Store("streaming", there)
    BY <1>8 DEF OpenStream
  <2>2. Running /\ WorkerUnchanged /\ "streaming" \in Statuses /\ there \in WorkerPC
    BY <1>8 DEF OpenStream, Statuses, Terminal
  <2>3. QED
    BY <1>s, <2>1, <2>2
<1>9. CASE AnnounceStreaming
  <2>1. /\ Running /\ WorkerUnchanged /\ UNCHANGED meta /\ Goto("chunk")
        /\ Emit(worker.job, StreamEvent(worker.call, FALSE, 0))
    BY <1>9 DEF AnnounceStreaming, Announce
  <2>2. StreamEvent(worker.call, FALSE, 0) \in Events /\ "chunk" \in WorkerPC
    BY <1>c, <2>1 DEF StreamEvent, Events, Calls
  <2>3. QED
    BY <1>e, <2>1, <2>2
<1>10. CASE Token
  <2>1. worker.job \in Jobs /\ worker.call \in Calls /\ worker.chunks + 1 \in Nat
    BY <1>10 DEF Token, WorkerStates
  <2>2. Append(worker.text, worker.chunks + 1) \in Seq(Nat)
    BY <2>1, AppendProperties DEF WorkerStates
  <2>3. worker' \in WorkerStates /\ worker'.job = worker.job /\ worker'.call = worker.call
    BY <1>10, <2>1, <2>2 DEF Token, WorkerStates
  <2>4. stream' \in [Jobs -> Seq(Events)]
    BY <1>10, <2>1, AppendProperties DEF Token, Emit, StreamEvent, Events, Calls
  <2>5. QED
    BY <1>10, <2>1, <2>3, <2>4 DEF Token
<1>11. CASE EmptyChunk
  <2>1. worker.chunks + 1 \in Nat
    BY DEF WorkerStates
  <2>2. worker' \in WorkerStates /\ worker'.job = worker.job /\ worker'.call = worker.call
    BY <1>11, <2>1 DEF EmptyChunk, WorkerStates
  <2>3. QED
    BY <1>11, <2>2 DEF EmptyChunk
<1>12. CASE EndOfStream
  <2>1. /\ worker' \in WorkerStates /\ worker'.job = worker.job /\ worker'.call \in Calls
        /\ Running /\ UNCHANGED <<meta, stream>> /\ WorkerUnchanged
    BY <1>12, <1>c DEF EndOfStream, WorkerStates, Calls, MaybeCalls
  <2>2. QED
    BY <1>w, <2>1
<1>13. CASE StreamError
  <2>1. /\ worker' \in WorkerStates /\ worker'.job = worker.job /\ worker'.call \in Calls
        /\ Running /\ UNCHANGED <<meta, stream>> /\ WorkerUnchanged
    BY <1>13, <1>c DEF StreamError, WorkerStates, Calls, MaybeCalls
  <2>2. QED
    BY <1>w, <2>1
<1>14. CASE CheckChunk
  <2>1. /\ worker' \in WorkerStates /\ worker'.job = worker.job /\ worker'.call \in Calls
        /\ Running /\ UNCHANGED <<meta, stream>> /\ WorkerUnchanged
    BY <1>14, <1>c DEF CheckChunk, WorkerStates, Calls, MaybeCalls
  <2>2. QED
    BY <1>w, <2>1
<1>15. CASE CheckResult
  <2>1. /\ worker' \in WorkerStates /\ worker'.job = worker.job /\ worker'.call \in Calls
        /\ Running /\ UNCHANGED <<meta, stream>> /\ WorkerUnchanged
    BY <1>15, <1>c DEF CheckResult, WorkerStates, Calls, MaybeCalls
  <2>2. QED
    BY <1>w, <2>1
<1>16. CASE Complete
  <2>1. PICK there \in {"completed", "return"} : Store("completed", there)
    BY <1>16 DEF Complete
  <2>2. Running /\ WorkerUnchanged /\ "completed" \in Statuses /\ there \in WorkerPC
    BY <1>16 DEF Complete, Statuses, Terminal
  <2>3. QED
    BY <1>s, <2>1, <2>2
<1>17. CASE AnnounceCompleted
  <2>1. /\ Running /\ WorkerUnchanged /\ UNCHANGED meta /\ Goto("return")
        /\ Emit(worker.job, StreamEvent(worker.call, TRUE, 0))
    BY <1>17 DEF AnnounceCompleted, Announce
  <2>2. StreamEvent(worker.call, TRUE, 0) \in Events /\ "return" \in WorkerPC
    BY <1>c, <2>1 DEF StreamEvent, Events, Calls
  <2>3. QED
    BY <1>e, <2>1, <2>2
<1>18. CASE Finalize
  <2>1. PICK there \in {"cancelled"} : Store("cancelled", there)
    BY <1>18 DEF Finalize
  <2>2. Running /\ WorkerUnchanged /\ "cancelled" \in Statuses /\ there \in WorkerPC
    BY <1>18 DEF Finalize, Statuses, Terminal
  <2>3. QED
    BY <1>s, <2>1, <2>2
<1>19. CASE AnnounceCancelled
  <2>1. /\ Running /\ WorkerUnchanged /\ UNCHANGED meta /\ Goto("return")
        /\ Emit(worker.job, StreamEvent(worker.call, TRUE, 0))
    BY <1>19 DEF AnnounceCancelled, Announce
  <2>2. StreamEvent(worker.call, TRUE, 0) \in Events /\ "return" \in WorkerPC
    BY <1>c, <2>1 DEF StreamEvent, Events, Calls
  <2>3. QED
    BY <1>e, <2>1, <2>2
<1>20. CASE Reject
  <2>1. PICK there \in {"return"} : Store("failed", there)
    BY <1>20 DEF Reject
  <2>2. Running /\ WorkerUnchanged /\ "failed" \in Statuses /\ there \in WorkerPC
    BY <1>20 DEF Reject, Statuses, Terminal
  <2>3. QED
    BY <1>s, <2>1, <2>2
<1>21. CASE HandleError
  <2>1. worker.job \in Jobs /\ worker.call \in Calls
    BY <1>21 DEF HandleError
  <2> DEFINE retry == worker.call.retry + 1
             call == [worker.call EXCEPT
                        !.retry = retry,
                        !.status = IF retry <= MaxRetries THEN "queued" ELSE "failed"]
  <2>2. call \in Calls
    <3>1. retry \in Nat
      BY <2>1 DEF Calls
    <3>2. QED
      BY <2>1, <3>1 DEF Calls, Statuses, Terminal
  <2>3. /\ worker' = [worker EXCEPT
                        !.pc = IF worker.job \in Streaming THEN "excepted" ELSE "raised",
                        !.call = call, !.mem = call]
        /\ meta' = [meta EXCEPT ![worker.job] = call]
    BY <1>21 DEF HandleError, SaveMeta
  <2> HIDE DEF call
  <2>4. worker' \in WorkerStates /\ worker'.job = worker.job /\ worker'.call \in Calls
    BY <2>1, <2>2, <2>3 DEF WorkerStates, MaybeCalls
  <2>5. QED
    BY <1>21, <2>1, <2>2, <2>3, <2>4 DEF HandleError, MaybeCalls
<1>22. CASE AnnounceError
  BY <1>22, AppendProperties
  DEF AnnounceError, Announce, Emit, StreamEvent, Goto, Events, Calls,
    MaybeCalls, WorkerStates, Statuses, Terminal
<1>23. CASE Succeed
  <2>1. worker.job \in Jobs /\ worker.call \in MaybeCalls
    BY <1>23, <1>c DEF Succeed, MaybeCalls
  <2>2. /\ result' \in [Jobs -> MaybeCalls] /\ started' \in SUBSET Jobs
        /\ rq' \in [Jobs -> {"none", "queued", "started", "finished", "failed", "canceled"}]
    BY <1>23, <2>1 DEF Succeed
  <2>3. worker' \in WorkerStates /\ worker'.pc = "idle"
    BY <1>23, CallTypes DEF Succeed, IdleWorker
  <2>4. QED
    BY <1>23, <2>2, <2>3 DEF Succeed
<1>24. CASE Fail
  <2>1. worker.job \in Jobs /\ worker.mem \in MaybeCalls
    BY <1>24 DEF Fail, WorkerStates
  <2>2. /\ queue' \in Seq(Jobs)
        /\ rq' \in [Jobs -> {"none", "queued", "started", "finished", "failed", "canceled"}]
        /\ retriesLeft' \in [Jobs -> 0..MaxRetries]
    BY <1>24, <2>1, RetryType DEF Fail
  <2>3. /\ meta' \in [Jobs -> MaybeCalls]
        /\ \A j \in Jobs : meta[j] \in Calls => meta'[j] \in Calls
    BY <1>24, <2>1 DEF Fail, SaveMeta, MaybeCalls
  <2>4. worker' \in WorkerStates /\ worker'.pc = "idle"
    BY <1>24, CallTypes DEF Fail, IdleWorker
  <2>5. QED
    BY <1>24, <2>1, <2>2, <2>3, <2>4 DEF Fail
<1>25. CASE Timeout
  <2>1. worker' \in WorkerStates /\ worker'.job = worker.job /\ worker'.call = worker.call
    BY <1>25 DEF Timeout, WorkerStates
  <2>2. QED
    BY <1>25, <2>1 DEF Timeout
<1>26. CASE Crash
  BY <1>26, CallTypes, BoundsAssumption
  DEF Crash, IdleWorker
<1>27. ASSUME NEW j \in Jobs, Admit(j) PROVE TypeOK' /\ PayloadKept'
  BY <1>27
  DEF Admit, EnqueueAt
<1>28. ASSUME NEW j \in Jobs, Refuse(j) PROVE TypeOK' /\ PayloadKept'
  BY <1>28
  DEF Refuse, EnqueueAt
<1>29. ASSUME NEW j \in Jobs, Abort(j) PROVE TypeOK' /\ PayloadKept'
  BY <1>29
  DEF Abort
<1>30. ASSUME NEW j \in Jobs, CancelFetch(j) PROVE TypeOK' /\ PayloadKept'
  <2>1. cancel[j] \in CancelStates /\ meta[j] \in Calls
    BY <1>30 DEF CancelFetch
  <2>2. /\ cancel' \in [Jobs -> CancelStates]
        /\ cancel'[j].pc = "fetched"
        /\ \A k \in Jobs \ {j} : cancel'[k] = cancel[k]
    BY <1>30, <2>1 DEF CancelFetch, CancelStates, CancelPC, MaybeCalls
  <2>3. QED
    BY <1>30, <2>1, <2>2 DEF CancelFetch, CancelUnchanged
<1>31. ASSUME NEW j \in Jobs, CancelAbort(j) PROVE TypeOK' /\ PayloadKept'
  BY <1>31
  DEF CancelAbort, CancelGoto, CancelStates, CancelPC, CancelUnchanged
<1>32. ASSUME NEW j \in Jobs, Push(j) PROVE TypeOK' /\ PayloadKept'
  BY <1>32, BoundsAssumption, AppendProperties
  DEF Push, EnqueueAt
<1>33. ASSUME NEW j \in Jobs, SavePayload(j) PROVE TypeOK' /\ PayloadKept'
  BY <1>33, CallTypes
  DEF SavePayload, EnqueueAt, SaveMeta, MaybeCalls
<1>34. ASSUME NEW j \in Jobs, AnnounceQueued(j) PROVE TypeOK' /\ PayloadKept'
  <2> DEFINE e == StreamEvent(NewCall, FALSE, 0)
  <2>1. e \in Events
    BY CallTypes DEF StreamEvent, Events, Calls
  <2>2. /\ api[j] = "saved" /\ api' = [api EXCEPT ![j] = "returned"]
        /\ stream' = [stream EXCEPT ![j] = Append(stream[j], e)]
        /\ UNCHANGED <<rqVars, meta, worker, cancel, attempts, crashes>>
    BY <1>34 DEF AnnounceQueued, EnqueueAt, Emit
  <2> HIDE DEF e
  <2>3. Append(stream[j], e) \in Seq(Events)
    BY <2>1, AppendProperties
  <2>4. stream' \in [Jobs -> Seq(Events)]
    BY <2>2, <2>3
  <2>5. QED
    BY <2>2, <2>4
<1>35. ASSUME NEW j \in Jobs, CancelLoad(j) PROVE TypeOK' /\ PayloadKept'
  <2>1. cancel[j] \in CancelStates /\ meta[j] \in Calls /\ result[j] \in MaybeCalls
    BY <1>35 DEF CancelLoad, CancelAt
  <2>2. JobResult(j) \in Calls
    BY <2>1 DEF JobResult, MaybeCalls
  <2>3. /\ cancel' \in [Jobs -> CancelStates]
        /\ cancel'[j].call \in Calls
        /\ \A k \in Jobs \ {j} : cancel'[k] = cancel[k]
    BY <1>35, <2>1, <2>2 DEF CancelLoad, CancelStates, CancelPC, MaybeCalls
  <2>4. QED
    BY <1>35, <2>1, <2>3 DEF CancelLoad, CancelUnchanged
<1>36. ASSUME NEW j \in Jobs, CancelDecide(j) PROVE TypeOK' /\ PayloadKept'
  <2>1. cancel[j] \in CancelStates /\ cancel[j].call \in Calls /\ meta[j] \in Calls
    BY <1>36 DEF CancelDecide, CancelAt
  <2>2. [cancel[j].call EXCEPT !.cancel = TRUE] \in Calls
    BY <2>1 DEF Calls
  <2>3. /\ cancel' \in [Jobs -> CancelStates]
        /\ cancel'[j].call \in Calls
        /\ \A k \in Jobs \ {j} : cancel'[k] = cancel[k]
    <3>1. CASE cancel[j].call.status \in Terminal
      BY <1>36, <2>1, <3>1 DEF CancelDecide, CancelStates, CancelPC
    <3>2. CASE cancel[j].call.status \notin Terminal
      <4>1. cancel' = [cancel EXCEPT ![j] =
              [cancel[j] EXCEPT !.pc = IF rq[j] = "queued" THEN "remove" ELSE "request",
                                !.call = [cancel[j].call EXCEPT !.cancel = TRUE]]]
        BY <1>36, <2>1, <3>2 DEF CancelDecide, CancelStates
      <4>2. QED
        BY <2>1, <2>2, <4>1 DEF CancelStates, CancelPC, MaybeCalls
    <3>3. QED
      BY <3>1, <3>2
  <2>4. QED
    BY <1>36, <2>1, <2>3 DEF CancelDecide, CancelUnchanged
<1>37. ASSUME NEW j \in Jobs, CancelRemove(j) PROVE TypeOK' /\ PayloadKept'
  <2>1. cancel[j] \in CancelStates /\ cancel[j].call \in Calls /\ meta[j] \in Calls
    BY <1>37 DEF CancelRemove, CancelAt
  <2>2. queue' \in Seq(Jobs)
    BY <1>37, RemoveAtProperties DEF CancelRemove
  <2>3. /\ cancel' \in [Jobs -> CancelStates]
        /\ cancel'[j].call = cancel[j].call
        /\ \A k \in Jobs \ {j} : cancel'[k] = cancel[k]
    BY <1>37, <2>1 DEF CancelRemove, CancelGoto, CancelStates, CancelPC
  <2>4. QED
    BY <1>37, <2>1, <2>2, <2>3 DEF CancelRemove, CancelUnchanged
<1>38. ASSUME NEW j \in Jobs, CancelStore(j) PROVE TypeOK' /\ PayloadKept'
  <2>1. cancel[j] \in CancelStates /\ cancel[j].call \in Calls /\ meta[j] \in Calls
    BY <1>38 DEF CancelStore, CancelAt
  <2>2. /\ CancelPayload(j, "cancelled") \in Calls
        /\ [cancel[j].call EXCEPT !.status = "cancelled"] \in Calls
    BY <2>1, PayloadType DEF Calls, Statuses, Terminal
  <2>3. /\ cancel' \in [Jobs -> CancelStates]
        /\ cancel'[j].call \in Calls
        /\ \A k \in Jobs \ {j} : cancel'[k] = cancel[k]
    <3>1. cancel' = [cancel EXCEPT ![j] =
            [cancel[j] EXCEPT !.pc = "status",
                              !.call = [cancel[j].call EXCEPT !.status = "cancelled"]]]
      BY <1>38, <2>1 DEF CancelStore, CancelStates
    <3>2. QED
      BY <2>1, <2>2, <3>1 DEF CancelStates, CancelPC, MaybeCalls
  <2>4. QED
    BY <1>38, <2>1, <2>2, <2>3 DEF CancelStore, CancelUnchanged, SaveMeta, MaybeCalls
<1>39. ASSUME NEW j \in Jobs, CancelSetStatus(j) PROVE TypeOK' /\ PayloadKept'
  BY <1>39
  DEF CancelSetStatus, CancelAt, CancelGoto, CancelUnchanged, CancelStates,
    CancelPC
<1>40. ASSUME NEW j \in Jobs, CancelAnnounce(j) PROVE TypeOK' /\ PayloadKept'
  <2>1. cancel[j] \in CancelStates /\ cancel[j].call \in Calls /\ meta[j] \in Calls
    BY <1>40 DEF CancelAnnounce, CancelAt
  <2>2. stream' \in [Jobs -> Seq(Events)]
    BY <1>40, <2>1, AppendProperties DEF CancelAnnounce, Emit, StreamEvent, Events, Calls
  <2>3. /\ cancel' \in [Jobs -> CancelStates]
        /\ cancel'[j].call = cancel[j].call
        /\ \A k \in Jobs \ {j} : cancel'[k] = cancel[k]
    BY <1>40, <2>1 DEF CancelAnnounce, CancelGoto, CancelStates, CancelPC
  <2>4. QED
    BY <1>40, <2>1, <2>2, <2>3 DEF CancelAnnounce, CancelUnchanged
<1>41. ASSUME NEW j \in Jobs, CancelRequest(j) PROVE TypeOK' /\ PayloadKept'
  <2>1. cancel[j] \in CancelStates /\ cancel[j].call \in Calls /\ meta[j] \in Calls
    BY <1>41 DEF CancelRequest, CancelAt
  <2>2. CancelPayload(j, cancel[j].call.status) \in Calls
    BY <2>1, PayloadType DEF Calls
  <2>3. /\ cancel' \in [Jobs -> CancelStates]
        /\ cancel'[j].call = cancel[j].call
        /\ \A k \in Jobs \ {j} : cancel'[k] = cancel[k]
    BY <1>41, <2>1 DEF CancelRequest, CancelGoto, CancelStates, CancelPC
  <2>4. QED
    BY <1>41, <2>1, <2>2, <2>3 DEF CancelRequest, CancelUnchanged, SaveMeta, MaybeCalls
<1>42. ASSUME NEW j \in Jobs, CancelNotify(j) PROVE TypeOK' /\ PayloadKept'
  <2>1. cancel[j] \in CancelStates /\ cancel[j].call \in Calls /\ meta[j] \in Calls
    BY <1>42 DEF CancelNotify, CancelAt
  <2>2. stream' \in [Jobs -> Seq(Events)]
    BY <1>42, <2>1, AppendProperties DEF CancelNotify, Emit, StreamEvent, Events, Calls
  <2>3. /\ cancel' \in [Jobs -> CancelStates]
        /\ cancel'[j].call = cancel[j].call
        /\ \A k \in Jobs \ {j} : cancel'[k] = cancel[k]
    BY <1>42, <2>1 DEF CancelNotify, CancelGoto, CancelStates, CancelPC
  <2>4. QED
    BY <1>42, <2>1, <2>2, <2>3 DEF CancelNotify, CancelUnchanged
<1>43. ASSUME NEW j \in Jobs, Reclaim(j) PROVE TypeOK' /\ PayloadKept'
  <2>1. /\ queue' \in Seq(Jobs)
        /\ rq' \in [Jobs -> {"none", "queued", "started", "finished", "failed", "canceled"}]
        /\ retriesLeft' \in [Jobs -> 0..MaxRetries]
    BY <1>43, RetryType DEF Reclaim
  <2>2. QED
    BY <1>43, <2>1 DEF Reclaim
<1>44. CASE UNCHANGED vars
  BY <1>44 DEF vars
<1>45. QED
  BY <1>1, <1>2, <1>3, <1>4, <1>5, <1>6, <1>7, <1>8, <1>9, <1>10, <1>11,
    <1>12, <1>13, <1>14, <1>15, <1>16, <1>17, <1>18, <1>19, <1>20, <1>21,
    <1>22, <1>23, <1>24, <1>25, <1>26, <1>27, <1>28, <1>29, <1>30, <1>31,
    <1>32, <1>33, <1>34, <1>35, <1>36, <1>37, <1>38, <1>39, <1>40, <1>41,
    <1>42, <1>43, <1>44
  DEF Next, Worker, Enqueue, Cancel

(* The API, the worker, the cancellations and RQ keep every variable of the *)
(* queue within its type, and a job whose id is known has a payload.        *)
THEOREM TypeCorrect == Spec => [](TypeOK /\ PayloadKept)
<1>1. Init => TypeOK /\ PayloadKept
  BY InitType
<1>2. TypeOK /\ PayloadKept /\ [Next]_vars => (TypeOK /\ PayloadKept)'
  BY TypeStep
<1>3. QED
  BY <1>1, <1>2, PTL DEF Spec

-----------------------------------------------------------------------------
(* The steps of process_llm_call, and where a job is                        *)

(* The steps inside process_llm_call, and the timeout that interrupts it.   *)
LocalStep ==
  \/ Precheck \/ Process \/ AnnounceProcessing \/ EnterTry \/ Generate
  \/ OpenStream \/ AnnounceStreaming \/ Token \/ EmptyChunk \/ EndOfStream
  \/ StreamError \/ CheckChunk \/ CheckResult \/ Complete
  \/ AnnounceCompleted \/ Finalize \/ AnnounceCancelled \/ Reject
  \/ HandleError \/ AnnounceError \/ Timeout

CancelStep(j) == Cancel(j) \/ CancelFetch(j) \/ CancelAbort(j)

(* Every step is one of these; the proofs below go through them.            *)
LEMMA NextCases ==
  [Next]_vars =>
    \/ LocalStep \/ Dequeue \/ StartJob \/ Succeed \/ Fail \/ Crash
    \/ \E j \in Jobs : \/ Admit(j) \/ Refuse(j) \/ Abort(j) \/ Push(j)
                       \/ SavePayload(j) \/ AnnounceQueued(j)
                       \/ CancelStep(j) \/ Reclaim(j)
    \/ UNCHANGED vars
BY DEF Next, Worker, LocalStep, Enqueue, CancelStep

(* While process_llm_call runs, RQ keeps the job where it is.               *)
LEMMA LocalKeepsPlace ==
  ASSUME TypeOK, LocalStep
  PROVE  /\ UNCHANGED <<api, rqVars, cancel, attempts, crashes>>
         /\ worker'.job = worker.job
         /\ Running /\ Running'
<1> USE DEF TypeOK, WorkerStates, WorkerUnchanged, At, Running
<1>1. CASE Precheck
  BY <1>1 DEF Precheck
<1>2. CASE Process
  BY <1>2 DEF Process, Store
<1>3. CASE AnnounceProcessing
  BY <1>3 DEF AnnounceProcessing, Announce, Goto
<1>4. CASE EnterTry
  BY <1>4 DEF EnterTry
<1>5. CASE Generate
  BY <1>5 DEF Generate, Goto
<1>6. CASE OpenStream
  BY <1>6 DEF OpenStream, Store
<1>7. CASE AnnounceStreaming
  BY <1>7 DEF AnnounceStreaming, Announce, Goto
<1>8. CASE Token
  BY <1>8 DEF Token
<1>9. CASE EmptyChunk
  BY <1>9 DEF EmptyChunk
<1>10. CASE EndOfStream
  BY <1>10 DEF EndOfStream
<1>11. CASE StreamError
  BY <1>11 DEF StreamError
<1>12. CASE CheckChunk
  BY <1>12 DEF CheckChunk
<1>13. CASE CheckResult
  BY <1>13 DEF CheckResult
<1>14. CASE Complete
  BY <1>14 DEF Complete, Store
<1>15. CASE AnnounceCompleted
  BY <1>15 DEF AnnounceCompleted, Announce, Goto
<1>16. CASE Finalize
  BY <1>16 DEF Finalize, Store
<1>17. CASE AnnounceCancelled
  BY <1>17 DEF AnnounceCancelled, Announce, Goto
<1>18. CASE Reject
  BY <1>18 DEF Reject, Store
<1>19. CASE HandleError
  BY <1>19 DEF HandleError
<1>20. CASE AnnounceError
  BY <1>20 DEF AnnounceError, Announce, Goto
<1>21. CASE Timeout
  BY <1>21 DEF Timeout
<1>22. QED
  BY <1>1, <1>2, <1>3, <1>4, <1>5, <1>6, <1>7, <1>8, <1>9, <1>10, <1>11,
    <1>12, <1>13, <1>14, <1>15, <1>16, <1>17, <1>18, <1>19, <1>20, <1>21
  DEF LocalStep

(* A cancellation only ever takes its own job off the list.                 *)
LEMMA CancelKeepsPlace ==
  ASSUME TypeOK, OneHolder, NEW j \in Jobs, CancelStep(j)
  PROVE  /\ UNCHANGED <<api, worker, attempts, crashes>>
         /\ UNCHANGED <<intermediate, started, retriesLeft, result>>
         /\ queue' \in Seq(Jobs) /\ Injective(queue')
         /\ Range(queue') \in {Range(queue), Range(queue) \ {j}}
         /\ rq' \in {rq, [rq EXCEPT ![j] = "canceled"]}
<1> USE DEF CancelUnchanged, rqVars
<1>0. queue \in Seq(Jobs) /\ Injective(queue)
  BY DEF TypeOK, OneHolder, Injective
<1>1. CASE CancelRemove(j)
  <2>1. CASE \E i \in 1..Len(queue) : queue[i] = j /\ queue' = RemoveAt(queue, i)
    <3>1. PICK i \in 1..Len(queue) : queue[i] = j /\ queue' = RemoveAt(queue, i)
      BY <2>1
    <3>2. /\ queue' \in Seq(Jobs) /\ Injective(queue')
          /\ Range(queue') = Range(queue) \ {j}
      BY <1>0, <3>1, RemoveAtProperties, RemoveInjective
    <3>3. QED
      BY <1>1, <3>2 DEF CancelRemove
  <2>2. CASE UNCHANGED queue
    BY <1>0, <1>1, <2>2 DEF CancelRemove
  <2>3. QED
    BY <1>1, <2>1, <2>2 DEF CancelRemove
<1>2. CASE CancelSetStatus(j)
  BY <1>0, <1>2 DEF CancelSetStatus
<1>3. CASE CancelLoad(j) \/ CancelDecide(j) \/ CancelStore(j) \/ CancelAnnounce(j)
  BY <1>0, <1>3 DEF CancelLoad, CancelDecide, CancelStore, CancelAnnounce
<1>4. CASE CancelRequest(j) \/ CancelNotify(j) \/ CancelFetch(j) \/ CancelAbort(j)
  BY <1>0, <1>4 DEF CancelRequest, CancelNotify, CancelFetch, CancelAbort
<1>5. QED
  BY <1>1, <1>2, <1>3, <1>4 DEF CancelStep, Cancel

(* A job nobody pushed has no place and no status in RQ, and nobody cancels *)
(* a job whose id enqueue_llm_call has not returned.                        *)
Unpushed(j) == api[j] \in {"idle", "admitted", "refused"}
UnpushedIsNowhere ==
  /\ \A j \in Jobs : Unpushed(j) => ~Held(j) /\ rq[j] = "none"
  /\ \A j \in Jobs : cancel[j].pc # "none" => api[j] = "returned"

(* The inductive invariant behind OneHolder.                                *)
HolderInv == OneHolder /\ UnpushedIsNowhere

LEMMA HolderInit == Init => HolderInv
<1>1. Range(<<>>) = {}
  BY DEF Range
<1>2. QED
  BY <1>1 DEF Init, HolderInv, OneHolder, UnpushedIsNowhere, Held, InQueue, Running,
    IdleWorker, NoCancel

(* OneHolder in terms of the set of jobs in the queue.                      *)
LEMMA HolderAsSets ==
  OneHolder <=>
    /\ Injective(queue)
    /\ \A j \in Jobs : j \in Range(queue) => j \notin intermediate /\ j \notin started
    /\ intermediate \cap started = {}
    /\ worker.pc = "popped" => worker.job \in intermediate
    /\ Running => worker.job \in started
BY DEF OneHolder, Injective, InQueue

LEMMA RetryMoves ==
  ASSUME NEW j \in Jobs, queue \in Seq(Jobs), Injective(queue), j \notin Range(queue),
         RetryOrFail(j)
  PROVE  /\ Injective(queue')
         /\ Range(queue') \in {Range(queue), Range(queue) \cup {j}}
         /\ rq' \in {[rq EXCEPT ![j] = "queued"], [rq EXCEPT ![j] = "failed"]}
<1>1. CASE retriesLeft[j] > 0
  <2>1. queue' = Append(queue, j) /\ rq' = [rq EXCEPT ![j] = "queued"]
    BY <1>1 DEF RetryOrFail
  <2>2. QED
    BY <2>1, PushInjective
<1>2. CASE ~(retriesLeft[j] > 0)
  BY <1>2 DEF RetryOrFail
<1>3. QED
  BY <1>1, <1>2

LEMMA HolderStep == TypeOK /\ HolderInv /\ [Next]_vars => HolderInv'
<1> SUFFICES ASSUME TypeOK, HolderInv, [Next]_vars PROVE HolderInv'
  OBVIOUS
<1> USE DEF HolderInv, UnpushedIsNowhere, Unpushed, Held, InQueue
<1>0. /\ queue \in Seq(Jobs) /\ Injective(queue)
      /\ \A j \in Jobs : j \in Range(queue) => j \notin intermediate /\ j \notin started
      /\ intermediate \cap started = {}
      /\ worker.pc = "popped" => worker.job \in intermediate
      /\ Running => worker.job \in started
  BY HolderAsSets DEF TypeOK
<1> DEFINE Sets == /\ Injective(queue)
                   /\ \A j \in Jobs : j \in Range(queue) =>
                        j \notin intermediate /\ j \notin started
                   /\ intermediate \cap started = {}
                   /\ worker.pc = "popped" => worker.job \in intermediate
                   /\ Running => worker.job \in started
<1>1. Sets' => OneHolder'
  BY DEF OneHolder, Injective
<1>2. CASE LocalStep
  BY <1>0, <1>1, <1>2, LocalKeepsPlace DEF rqVars, Running
<1>3. CASE Dequeue
  <2>1. /\ Injective(queue') /\ Range(queue') = Range(queue) \ {Head(queue)}
        /\ Head(queue) \in Jobs /\ Head(queue) \in Range(queue)
    BY <1>0, <1>3, PopInjective DEF Dequeue
  <2>2. worker'.pc = "popped" /\ worker'.job = Head(queue)
    BY <1>3 DEF Dequeue, IdleWorker
  <2>3. QED
    BY <1>0, <1>1, <1>3, <2>1, <2>2 DEF Dequeue, Running
<1>4. CASE StartJob
  <2>1. worker'.pc = "precheck" /\ worker'.job = worker.job
    BY <1>4 DEF StartJob, TypeOK, WorkerStates
  <2>2. QED
    BY <1>0, <1>1, <1>4, <2>1 DEF StartJob, Running, At, TypeOK
<1>5. CASE Succeed
  BY <1>0, <1>1, <1>5 DEF Succeed, Running, At, IdleWorker, TypeOK
<1>6. CASE Fail
  <2>1. worker.job \in Jobs /\ worker.job \in started /\ worker.job \notin Range(queue)
    BY <1>0, <1>6 DEF Fail, At, Running, TypeOK
  <2>2. /\ Injective(queue')
        /\ Range(queue') \in {Range(queue), Range(queue) \cup {worker.job}}
        /\ rq' \in {[rq EXCEPT ![worker.job] = "queued"],
                    [rq EXCEPT ![worker.job] = "failed"]}
    BY <1>0, <1>6, <2>1, RetryMoves DEF Fail
  <2>3. QED
    BY <1>0, <1>1, <1>6, <2>1, <2>2 DEF Fail, Running, IdleWorker, TypeOK
<1>7. CASE Crash
  BY <1>0, <1>1, <1>7 DEF Crash, Running, IdleWorker, rqVars
<1>8. ASSUME NEW j \in Jobs,
             Admit(j) \/ Refuse(j) \/ Abort(j) \/ SavePayload(j) \/ AnnounceQueued(j)
      PROVE  HolderInv'
  <2>1. UNCHANGED <<rqVars, worker, cancel>>
    BY <1>8 DEF Admit, Refuse, Abort, SavePayload, AnnounceQueued
  <2>2. \A k \in Jobs : Unpushed(k)' => Unpushed(k)
    BY <1>8 DEF Admit, Refuse, Abort, SavePayload, AnnounceQueued, EnqueueAt, InEnqueue,
      TypeOK
  <2>3. \A k \in Jobs : api[k] = "returned" => api'[k] = "returned"
    BY <1>8 DEF Admit, Refuse, Abort, SavePayload, AnnounceQueued, EnqueueAt, InEnqueue,
      TypeOK
  <2>4. QED
    BY <1>0, <1>1, <2>1, <2>2, <2>3 DEF rqVars, Running
<1>9. ASSUME NEW j \in Jobs, Push(j) PROVE HolderInv'
  <2>1. j \notin Range(queue) /\ j \notin intermediate /\ j \notin started
    BY <1>9 DEF Push, EnqueueAt
  <2>2. Injective(queue') /\ Range(queue') = Range(queue) \cup {j}
    BY <1>0, <1>9, <2>1, PushInjective DEF Push
  <2>3. QED
    BY <1>0, <1>1, <1>9, <2>1, <2>2 DEF Push, EnqueueAt, Running, TypeOK
<1>10. ASSUME NEW j \in Jobs, CancelStep(j) PROVE HolderInv'
  <2>1. api[j] = "returned"
    BY <1>10 DEF CancelStep, Cancel, CancelAt, CancelFetch, CancelAbort, CancelLoad,
      CancelDecide, CancelRemove, CancelStore, CancelSetStatus, CancelAnnounce,
      CancelRequest, CancelNotify
  <2>2. \A k \in Jobs \ {j} : cancel'[k] = cancel[k]
    BY <1>10 DEF CancelStep, Cancel, CancelGoto, CancelFetch, CancelAbort, CancelLoad,
      CancelDecide, CancelRemove, CancelStore, CancelSetStatus, CancelAnnounce,
      CancelRequest, CancelNotify, TypeOK
  <2>3. /\ UNCHANGED <<api, worker, intermediate, started>>
        /\ Injective(queue')
        /\ Range(queue') \in {Range(queue), Range(queue) \ {j}}
        /\ rq' \in {rq, [rq EXCEPT ![j] = "canceled"]}
    BY <1>10, CancelKeepsPlace
  <2>4. QED
    BY <1>0, <1>1, <2>1, <2>2, <2>3 DEF Running, TypeOK
<1>11. ASSUME NEW j \in Jobs, Reclaim(j) PROVE HolderInv'
  <2>1. j \notin Range(queue) /\ j # worker.job
    BY <1>0, <1>11 DEF Reclaim
  <2>2. /\ Injective(queue')
        /\ Range(queue') \in {Range(queue), Range(queue) \cup {j}}
        /\ rq' \in {[rq EXCEPT ![j] = "queued"], [rq EXCEPT ![j] = "failed"]}
    BY <1>0, <1>11, <2>1, RetryMoves DEF Reclaim
  <2>3. QED
    BY <1>0, <1>1, <1>11, <2>1, <2>2 DEF Reclaim, Running, TypeOK
<1>12. CASE UNCHANGED vars
  BY <1>0, <1>1, <1>12 DEF vars, rqVars, Running
<1>13. QED
  BY <1>2, <1>3, <1>4, <1>5, <1>6, <1>7, <1>8, <1>9, <1>10, <1>11, <1>12, NextCases

(* No two executors hold a job, and none waits while it runs: one list, one *)
(* intermediate list and one registry, shared by enqueue_llm_call, the      *)
(* worker, RQ's maintenance and cancel_llm_call.                            *)
THEOREM OneHolderAlways == Spec => []OneHolder
<1>1. Init => HolderInv
  BY HolderInit
<1>2. TypeOK /\ HolderInv /\ [Next]_vars => HolderInv'
  BY HolderStep
<1>3. HolderInv => OneHolder
  BY DEF HolderInv
<1>4. QED
  BY <1>1, <1>2, <1>3, TypeCorrect, PTL DEF Spec

LEMMA HolderAlways == Spec => []HolderInv
<1>1. Init => HolderInv
  BY HolderInit
<1>2. TypeOK /\ HolderInv /\ [Next]_vars => HolderInv'
  BY HolderStep
<1>3. QED
  BY <1>1, <1>2, TypeCorrect, PTL DEF Spec

(* Only a push brings a job into RQ's hands, and it does so once.           *)
LEMMA GoneStep ==
  TypeOK /\ HolderInv /\ [Next]_vars =>
    \A j \in Jobs : rq[j] # "none" /\ ~Held(j) => ~Held(j)'
<1> SUFFICES ASSUME TypeOK, HolderInv, [Next]_vars,
                    NEW j \in Jobs, rq[j] # "none", ~Held(j)
             PROVE  ~Held(j)'
  OBVIOUS
<1> USE DEF Held, InQueue
<1>0. /\ queue \in Seq(Jobs) /\ Injective(queue)
      /\ Running => worker.job \in started
      /\ worker.pc = "popped" => worker.job \in intermediate
      /\ \A k \in Jobs : k \in Range(queue) => k \notin intermediate /\ k \notin started
  BY HolderAsSets DEF HolderInv, TypeOK
<1>1. CASE LocalStep
  BY <1>1, LocalKeepsPlace DEF rqVars
<1>2. CASE Dequeue
  BY <1>0, <1>2, PopInjective DEF Dequeue
<1>3. CASE StartJob
  BY <1>0, <1>3 DEF StartJob, At
<1>4. CASE Succeed
  BY <1>4 DEF Succeed
<1>5. CASE Fail
  <2>1. worker.job \in Jobs /\ worker.job \in started /\ worker.job \notin Range(queue)
    BY <1>0, <1>5 DEF Fail, At, Running, TypeOK
  <2>2. Range(queue') \in {Range(queue), Range(queue) \cup {worker.job}}
    BY <1>0, <1>5, <2>1, RetryMoves DEF Fail
  <2>3. QED
    BY <1>5, <2>1, <2>2 DEF Fail
<1>6. CASE Crash
  BY <1>6 DEF Crash, rqVars
<1>7. ASSUME NEW k \in Jobs,
             Admit(k) \/ Refuse(k) \/ Abort(k) \/ SavePayload(k) \/ AnnounceQueued(k)
      PROVE  ~Held(j)'
  BY <1>7 DEF Admit, Refuse, Abort, SavePayload, AnnounceQueued, rqVars
<1>8. ASSUME NEW k \in Jobs, Push(k) PROVE ~Held(j)'
  <2>1. Unpushed(k)
    BY <1>8 DEF Push, EnqueueAt, Unpushed
  <2>2. k # j
    BY <2>1 DEF HolderInv, UnpushedIsNowhere
  <2>3. QED
    BY <1>0, <1>8, <2>2, AppendRange DEF Push
<1>9. ASSUME NEW k \in Jobs, CancelStep(k) PROVE ~Held(j)'
  BY <1>9, CancelKeepsPlace DEF HolderInv
<1>10. ASSUME NEW k \in Jobs, Reclaim(k) PROVE ~Held(j)'
  <2>1. k \notin Range(queue) /\ k # j
    BY <1>0, <1>10 DEF Reclaim
  <2>2. Range(queue') \in {Range(queue), Range(queue) \cup {k}}
    BY <1>0, <1>10, <2>1, RetryMoves DEF Reclaim
  <2>3. QED
    BY <1>10, <2>1, <2>2 DEF Reclaim
<1>11. CASE UNCHANGED vars
  BY <1>11 DEF vars, rqVars
<1>12. QED
  BY <1>1, <1>2, <1>3, <1>4, <1>5, <1>6, <1>7, <1>8, <1>9, <1>10, <1>11, NextCases

(* A finished, failed or removed job is never executed again.               *)
THEOREM GoneForGoodAlways == Spec => GoneForGood
<1>1. TypeOK /\ HolderInv /\ [Next]_vars =>
        [\A j \in Jobs : rq[j] # "none" /\ ~Held(j) => ~Held(j)']_vars
  BY GoneStep
<1>2. QED
  BY <1>1, TypeCorrect, HolderAlways, PTL DEF Spec, GoneForGood

-----------------------------------------------------------------------------
(* RQ's status and the place of a job                                       *)

(* The place of a job and where its cancellation stands, as a step that     *)
(* neither starts, ends nor retries it leaves them.                         *)
Tracked(j) ==
  /\ rq[j] \in {"finished", "failed"} => ~Held(j)
  /\ rq[j] \in {"queued", "started"} /\ ~Held(j) =>
       cancel[j].pc \in {"store", "status", "aborted"}

LEMMA TrackedStays ==
  ASSUME NEW j \in Jobs, Tracked(j), rq'[j] = rq[j], cancel'[j] = cancel[j],
         Held(j)' <=> Held(j)
  PROVE  Tracked(j)'
BY DEF Tracked

(* RQ retries a job or gives it up, and the others stay where they are.     *)
LEMMA TrackedRetry ==
  ASSUME TypeOK, NEW j \in Jobs, Tracked(j), UNCHANGED cancel,
         NEW k \in Jobs, RetryOrFail(k), k \notin Range(queue),
         intermediate' = intermediate \ {k}, started' = started \ {k}
  PROVE  Tracked(j)'
<1>0. queue \in Seq(Jobs)
      /\ rq \in [Jobs -> {"none", "queued", "started", "finished", "failed", "canceled"}]
  BY DEF TypeOK
<1>1. CASE retriesLeft[k] > 0
  <2>1. queue' = Append(queue, k) /\ rq' = [rq EXCEPT ![k] = "queued"]
    BY <1>1 DEF RetryOrFail
  <2>2. Range(queue') = Range(queue) \cup {k}
    BY <1>0, <2>1, AppendRange
  <2>3. CASE j = k
    <3>1. rq'[j] = "queued" /\ Held(j)'
      BY <1>0, <2>1, <2>2, <2>3 DEF Held, InQueue
    <3>2. QED
      BY <3>1 DEF Tracked
  <2>4. CASE j # k
    <3>1. rq'[j] = rq[j]
      BY <1>0, <2>1, <2>4
    <3>2. Held(j)' <=> Held(j)
      BY <2>2, <2>4 DEF Held, InQueue
    <3>3. QED
      BY <3>1, <3>2, TrackedStays
  <2>5. QED
    BY <2>3, <2>4
<1>2. CASE ~(retriesLeft[k] > 0)
  <2>1. queue' = queue /\ rq' = [rq EXCEPT ![k] = "failed"]
    BY <1>2 DEF RetryOrFail
  <2>2. CASE j = k
    <3>1. rq'[j] = "failed" /\ ~Held(j)'
      BY <1>0, <2>1, <2>2 DEF Held, InQueue
    <3>2. QED
      BY <3>1 DEF Tracked
  <2>3. CASE j # k
    <3>1. rq'[j] = rq[j]
      BY <1>0, <2>1, <2>3
    <3>2. Held(j)' <=> Held(j)
      BY <2>1, <2>3 DEF Held, InQueue
    <3>3. QED
      BY <3>1, <3>2, TrackedStays
  <2>4. QED
    BY <2>2, <2>3
<1>3. QED
  BY <1>1, <1>2

(* A cancellation that takes its job off the list answers for it until the  *)
(* status is set.                                                           *)
LEMMA TrackedCancel ==
  ASSUME TypeOK, HolderInv, NEW j \in Jobs, Tracked(j), NEW k \in Jobs, CancelStep(k)
  PROVE  Tracked(j)'
<1>0. /\ rq \in [Jobs -> {"none", "queued", "started", "finished", "failed", "canceled"}]
      /\ cancel \in [Jobs -> CancelStates]
  BY DEF TypeOK
<1>1. /\ UNCHANGED <<intermediate, started>>
      /\ Range(queue') \in {Range(queue), Range(queue) \ {k}}
      /\ rq' \in {rq, [rq EXCEPT ![k] = "canceled"]}
  BY CancelKeepsPlace DEF HolderInv
<1>2. \A i \in Jobs \ {k} : cancel'[i] = cancel[i]
  BY <1>0 DEF CancelStep, Cancel, CancelGoto, CancelFetch, CancelAbort, CancelLoad,
    CancelDecide, CancelRemove, CancelStore, CancelSetStatus, CancelAnnounce,
    CancelRequest, CancelNotify
<1>3. CASE j # k
  <2>1. rq'[j] = rq[j] /\ cancel'[j] = cancel[j]
    BY <1>0, <1>1, <1>2, <1>3
  <2>2. Held(j)' <=> Held(j)
    BY <1>1, <1>3 DEF Held, InQueue
  <2>3. QED
    BY <2>1, <2>2, TrackedStays
<1>4. CASE j = k /\ CancelRemove(k)
  <2>1. rq'[j] = rq[j] /\ cancel'[j].pc = "store"
    BY <1>0, <1>4 DEF CancelRemove, CancelGoto, CancelStates
  <2>2. Held(j)' => Held(j)
    BY <1>1 DEF Held, InQueue
  <2>3. QED
    BY <2>1, <2>2 DEF Tracked
<1>5. CASE j = k /\ CancelSetStatus(k)
  <2>1. rq'[j] = "canceled"
    BY <1>0, <1>5 DEF CancelSetStatus
  <2>2. QED
    BY <2>1 DEF Tracked
<1>6. CASE j = k /\ ~CancelRemove(k) /\ ~CancelSetStatus(k)
  <2>1. UNCHANGED <<queue, rq>>
    BY <1>6 DEF CancelStep, Cancel, CancelFetch, CancelAbort, CancelLoad, CancelDecide,
      CancelStore, CancelAnnounce, CancelRequest, CancelNotify, rqVars
  <2>2. cancel[j].pc \in {"store", "status", "aborted"} =>
          cancel'[j].pc \in {"store", "status", "aborted"}
    <3>1. CASE CancelFetch(k) \/ CancelLoad(k) \/ CancelDecide(k)
      BY <1>6, <3>1 DEF CancelFetch, CancelLoad, CancelDecide, CancelAt
    <3>2. CASE CancelStore(k)
      BY <1>0, <1>6, <3>2 DEF CancelStore, CancelStates
    <3>3. CASE CancelAnnounce(k) \/ CancelRequest(k) \/ CancelNotify(k)
      BY <1>6, <3>3 DEF CancelAnnounce, CancelRequest, CancelNotify, CancelAt
    <3>4. CASE CancelAbort(k)
      BY <1>0, <1>6, <3>4 DEF CancelAbort, CancelGoto, CancelStates
    <3>5. QED
      BY <1>6, <3>1, <3>2, <3>3, <3>4 DEF CancelStep, Cancel
  <2>3. Held(j)' <=> Held(j)
    BY <1>1, <2>1 DEF Held, InQueue
  <2>4. QED
    BY <2>1, <2>2, <2>3 DEF Tracked
<1>7. QED
  BY <1>3, <1>4, <1>5, <1>6

LEMMA TrackedStep ==
  ASSUME TypeOK, HolderInv, [Next]_vars, NEW j \in Jobs, Tracked(j)
  PROVE  Tracked(j)'
<1>0. /\ queue \in Seq(Jobs) /\ Injective(queue)
      /\ Running => worker.job \in started
      /\ worker.pc = "popped" => worker.job \in intermediate
      /\ \A k \in Jobs : k \in Range(queue) => k \notin intermediate /\ k \notin started
      /\ intermediate \cap started = {}
      /\ ~At("idle") => worker.job \in Jobs
  BY HolderAsSets DEF HolderInv, TypeOK
<1>m. rq \in [Jobs -> {"none", "queued", "started", "finished", "failed", "canceled"}]
  BY DEF TypeOK
<1>s. ASSUME UNCHANGED <<queue, intermediate, started, rq, cancel>> PROVE Tracked(j)'
  BY <1>s DEF Tracked, Held, InQueue
<1>1. CASE LocalStep
  BY <1>1, <1>s, LocalKeepsPlace DEF rqVars
<1>2. CASE Dequeue
  <2>1. /\ UNCHANGED <<started, rq, cancel>>
        /\ Range(queue') = Range(queue) \ {Head(queue)} /\ Head(queue) \in Range(queue)
        /\ intermediate' = intermediate \cup {Head(queue)}
    BY <1>0, <1>2, PopInjective DEF Dequeue
  <2>2. Held(j)' <=> Held(j)
    BY <2>1 DEF Held, InQueue
  <2>3. QED
    BY <2>1, <2>2, TrackedStays
<1>3. CASE StartJob
  <2>0. PICK k \in Jobs : k = worker.job
    BY <1>0, <1>3 DEF StartJob, At
  <2>1. /\ k \in intermediate /\ UNCHANGED <<queue, cancel>>
        /\ intermediate' = intermediate \ {k} /\ started' = started \cup {k}
        /\ rq' = [rq EXCEPT ![k] = "started"]
    BY <1>0, <1>3, <2>0 DEF StartJob, At
  <2>2. Held(j)' <=> Held(j)
    BY <2>1 DEF Held, InQueue
  <2>3. CASE j = k
    <3>1. rq'[j] = "started" /\ Held(j)'
      BY <1>m, <2>1, <2>3 DEF Held
    <3>2. QED
      BY <3>1 DEF Tracked
  <2>4. CASE j # k
    BY <1>m, <2>1, <2>2, <2>4, TrackedStays
  <2>5. QED
    BY <2>3, <2>4
<1>4. CASE Succeed
  <2>0. PICK k \in Jobs : k = worker.job
    BY <1>0, <1>4 DEF Succeed, At
  <2>1. /\ k \in started /\ UNCHANGED <<queue, intermediate, cancel>>
        /\ started' = started \ {k} /\ rq' = [rq EXCEPT ![k] = "finished"]
    BY <1>0, <1>4, <2>0 DEF Succeed, At, Running
  <2>2. CASE j = k
    <3>1. rq'[j] = "finished" /\ ~Held(j)'
      BY <1>0, <1>m, <2>1, <2>2 DEF Held, InQueue
    <3>2. QED
      BY <3>1 DEF Tracked
  <2>3. CASE j # k
    <3>1. Held(j)' <=> Held(j)
      BY <2>1, <2>3 DEF Held, InQueue
    <3>2. QED
      BY <1>m, <2>1, <2>3, <3>1, TrackedStays
  <2>4. QED
    BY <2>2, <2>3
<1>5. CASE Fail
  <2>0. PICK k \in Jobs : k = worker.job
    BY <1>0, <1>5 DEF Fail, At
  <2>1. /\ k \in started /\ k \notin intermediate /\ k \notin Range(queue)
        /\ RetryOrFail(k) /\ UNCHANGED <<intermediate, cancel>> /\ started' = started \ {k}
    BY <1>0, <1>5, <2>0 DEF Fail, At, Running
  <2>2. intermediate' = intermediate \ {k}
    BY <2>1
  <2>3. QED
    BY <2>1, <2>2, TrackedRetry
<1>6. CASE Crash
  BY <1>6, <1>s DEF Crash, rqVars
<1>7. ASSUME NEW k \in Jobs,
             Admit(k) \/ Refuse(k) \/ Abort(k) \/ SavePayload(k) \/ AnnounceQueued(k)
      PROVE  Tracked(j)'
  BY <1>7, <1>s DEF Admit, Refuse, Abort, SavePayload, AnnounceQueued, rqVars
<1>8. ASSUME NEW k \in Jobs, Push(k) PROVE Tracked(j)'
  <2>1. /\ queue' = Append(queue, k) /\ UNCHANGED <<intermediate, started, cancel>>
        /\ rq' = [rq EXCEPT ![k] = "queued"]
    BY <1>8 DEF Push
  <2>2. Range(queue') = Range(queue) \cup {k}
    BY <1>0, <2>1, AppendRange
  <2>3. CASE j = k
    <3>1. rq'[j] = "queued" /\ Held(j)'
      BY <1>m, <2>1, <2>2, <2>3 DEF Held, InQueue
    <3>2. QED
      BY <3>1 DEF Tracked
  <2>4. CASE j # k
    <3>1. Held(j)' <=> Held(j)
      BY <2>1, <2>2, <2>4 DEF Held, InQueue
    <3>2. QED
      BY <1>m, <2>1, <2>4, <3>1, TrackedStays
  <2>5. QED
    BY <2>3, <2>4
<1>9. ASSUME NEW k \in Jobs, CancelStep(k) PROVE Tracked(j)'
  BY <1>9, TrackedCancel
<1>10. ASSUME NEW k \in Jobs, Reclaim(k) PROVE Tracked(j)'
  <2>1. k \notin Range(queue) /\ RetryOrFail(k) /\ UNCHANGED cancel
        /\ intermediate' = intermediate \ {k} /\ started' = started \ {k}
    BY <1>0, <1>10 DEF Reclaim
  <2>2. QED
    BY <2>1, TrackedRetry
<1>11. CASE UNCHANGED vars
  BY <1>11, <1>s DEF vars, rqVars
<1>12. QED
  BY <1>1, <1>2, <1>3, <1>4, <1>5, <1>6, <1>7, <1>8, <1>9, <1>10, <1>11, NextCases

(* No job is lost: one that RQ calls queued or started waits, runs or is    *)
(* there to be reclaimed, unless a cancellation took it off the list and    *)
(* has not set its status, or never will; one that is finished or failed is *)
(* out of RQ's hands.                                                       *)
THEOREM StatusKeepsTrackAlways == Spec => []StatusKeepsTrack
<1>1. Init => StatusKeepsTrack
  BY DEF Init, StatusKeepsTrack
<1>2. StatusKeepsTrack <=> \A j \in Jobs : Tracked(j)
  BY DEF StatusKeepsTrack, Tracked
<1>3. TypeOK /\ HolderInv /\ StatusKeepsTrack /\ [Next]_vars => StatusKeepsTrack'
  BY <1>2, TrackedStep DEF StatusKeepsTrack, Tracked
<1>4. QED
  BY <1>1, <1>3, TypeCorrect, HolderAlways, PTL DEF Spec

-----------------------------------------------------------------------------
(* Retries                                                                  *)

Waiting(j) == InQueue(j) \/ j \in intermediate

(* Executions done, retries left, and the execution a waiting job will get, *)
(* stay within one budget.                                                  *)
BudgetInv ==
  \A j \in Jobs :
    /\ attempts[j] + retriesLeft[j] + (IF Waiting(j) THEN 1 ELSE 0) <= MaxRetries + 1
    /\ Unpushed(j) => attempts[j] = 0 /\ retriesLeft[j] = 0

LEMMA BudgetStep == TypeOK /\ HolderInv /\ BudgetInv /\ [Next]_vars => BudgetInv'
<1> SUFFICES ASSUME TypeOK, HolderInv, BudgetInv, [Next]_vars, NEW j \in Jobs
             PROVE  /\ attempts'[j] + retriesLeft'[j] + (IF Waiting(j)' THEN 1 ELSE 0)
                        <= MaxRetries + 1
                    /\ Unpushed(j)' => attempts'[j] = 0 /\ retriesLeft'[j] = 0
  BY DEF BudgetInv
<1>0. /\ queue \in Seq(Jobs) /\ Injective(queue)
      /\ Running => worker.job \in started
      /\ worker.pc = "popped" => worker.job \in intermediate
      /\ \A k \in Jobs : k \in Range(queue) => k \notin intermediate /\ k \notin started
      /\ intermediate \cap started = {}
  BY HolderAsSets DEF HolderInv, TypeOK
<1>b. /\ attempts[j] \in Nat /\ retriesLeft[j] \in Nat /\ retriesLeft[j] <= MaxRetries
      /\ MaxRetries \in Nat
      /\ attempts[j] + retriesLeft[j] + (IF Waiting(j) THEN 1 ELSE 0) <= MaxRetries + 1
      /\ Unpushed(j) => attempts[j] = 0 /\ retriesLeft[j] = 0
      /\ Unpushed(j) => ~Waiting(j)
  BY BoundsAssumption DEF TypeOK, BudgetInv, HolderInv, UnpushedIsNowhere, Held, Waiting
<1> USE DEF Waiting, InQueue, Unpushed
(* The steps that leave the place of every job and its retries alone.       *)
<1>1. CASE UNCHANGED <<queue, intermediate, attempts, retriesLeft>> /\ (Unpushed(j)' => Unpushed(j))
  BY <1>1, <1>b
<1>2. CASE LocalStep
  BY <1>1, <1>2, LocalKeepsPlace DEF rqVars
<1>3. CASE Dequeue
  BY <1>0, <1>b, <1>3, PopInjective DEF Dequeue
<1>4. CASE StartJob
  <2>1. CASE worker.job = j
    BY <1>0, <1>b, <1>4, <2>1 DEF StartJob, At, TypeOK
  <2>2. CASE worker.job # j
    BY <1>0, <1>b, <1>4, <2>2 DEF StartJob, At, TypeOK
  <2>3. QED
    BY <2>1, <2>2
<1>5. CASE Succeed
  BY <1>1, <1>5 DEF Succeed
<1>6. ASSUME NEW k \in Jobs, k \notin Range(queue), RetryOrFail(k),
             intermediate' = intermediate \ {k}, UNCHANGED <<api, attempts>>,
             ~Unpushed(k)
      PROVE  /\ attempts'[j] + retriesLeft'[j] + (IF Waiting(j)' THEN 1 ELSE 0)
                 <= MaxRetries + 1
             /\ Unpushed(j)' => attempts'[j] = 0 /\ retriesLeft'[j] = 0
  <2>1. CASE retriesLeft[k] > 0
    <3>1. /\ retriesLeft' = [retriesLeft EXCEPT ![k] = @ - 1]
          /\ Range(queue') = Range(queue) \cup {k}
      BY <1>0, <1>6, <2>1, AppendRange DEF RetryOrFail
    <3>2. CASE k = j
      BY <1>0, <1>b, <1>6, <2>1, <3>1, <3>2 DEF TypeOK
    <3>3. CASE k # j
      BY <1>0, <1>b, <1>6, <2>1, <3>1, <3>3 DEF TypeOK
    <3>4. QED
      BY <3>2, <3>3
  <2>2. CASE ~(retriesLeft[k] > 0)
    BY <1>0, <1>b, <1>6, <2>2 DEF RetryOrFail
  <2>3. QED
    BY <2>1, <2>2
<1>7. CASE Fail
  <2>1. worker.job \in Jobs /\ worker.job \in started
    BY <1>0, <1>7 DEF Fail, At, Running, TypeOK
  <2>2. ~Unpushed(worker.job)
    BY <2>1 DEF HolderInv, UnpushedIsNowhere, Held
  <2>3. worker.job \notin Range(queue) /\ worker.job \notin intermediate
    BY <1>0, <2>1
  <2>4. QED
    BY <1>6, <1>7, <2>1, <2>2, <2>3 DEF Fail
<1>8. CASE Crash
  BY <1>1, <1>8 DEF Crash, rqVars
<1>9. ASSUME NEW k \in Jobs,
             Admit(k) \/ Refuse(k) \/ Abort(k) \/ SavePayload(k) \/ AnnounceQueued(k)
      PROVE  /\ UNCHANGED <<queue, intermediate, attempts, retriesLeft>>
             /\ Unpushed(j)' => Unpushed(j)
  BY <1>9 DEF Admit, Refuse, Abort, SavePayload, AnnounceQueued, EnqueueAt, InEnqueue,
    rqVars, TypeOK
<1>10. ASSUME NEW k \in Jobs, Push(k)
       PROVE  /\ attempts'[j] + retriesLeft'[j] + (IF Waiting(j)' THEN 1 ELSE 0)
                  <= MaxRetries + 1
              /\ Unpushed(j)' => attempts'[j] = 0 /\ retriesLeft'[j] = 0
  <2>1. Range(queue') = Range(queue) \cup {k}
    BY <1>0, <1>10, AppendRange DEF Push
  <2>2. CASE k = j
    BY <1>b, <1>10, <2>1, <2>2 DEF Push, EnqueueAt, TypeOK
  <2>3. CASE k # j
    BY <1>b, <1>10, <2>1, <2>3 DEF Push, EnqueueAt, TypeOK
  <2>4. QED
    BY <2>2, <2>3
<1>11. ASSUME NEW k \in Jobs, CancelStep(k)
       PROVE  /\ attempts'[j] + retriesLeft'[j] + (IF Waiting(j)' THEN 1 ELSE 0)
                  <= MaxRetries + 1
              /\ Unpushed(j)' => attempts'[j] = 0 /\ retriesLeft'[j] = 0
  <2>1. /\ UNCHANGED <<api, attempts, intermediate, retriesLeft>>
        /\ Range(queue') \in {Range(queue), Range(queue) \ {k}}
    BY <1>11, CancelKeepsPlace DEF HolderInv
  <2>2. QED
    BY <1>b, <2>1
<1>12. ASSUME NEW k \in Jobs, Reclaim(k)
       PROVE  /\ attempts'[j] + retriesLeft'[j] + (IF Waiting(j)' THEN 1 ELSE 0)
                  <= MaxRetries + 1
              /\ Unpushed(j)' => attempts'[j] = 0 /\ retriesLeft'[j] = 0
  <2>1. k \notin Range(queue) /\ ~Unpushed(k)
    BY <1>0, <1>12 DEF Reclaim, HolderInv, UnpushedIsNowhere, Held
  <2>2. QED
    BY <1>6, <1>12, <2>1 DEF Reclaim
<1>13. CASE UNCHANGED vars
  BY <1>1, <1>13 DEF vars, rqVars
<1>14. QED
  BY <1>1, <1>2, <1>3, <1>4, <1>5, <1>7, <1>8, <1>9, <1>10, <1>11, <1>12, <1>13, NextCases

LEMMA BudgetAlways == Spec => []BudgetInv
<1>1. Init => BudgetInv
  BY BoundsAssumption DEF Init, BudgetInv, Waiting, InQueue, Range
<1>2. TypeOK /\ HolderInv /\ BudgetInv /\ [Next]_vars => BudgetInv'
  BY BudgetStep
<1>3. QED
  BY <1>1, <1>2, TypeCorrect, HolderAlways, PTL DEF Spec

(* docs/queue.md, Retries: no mix of errors, timeouts, crashes, reclaims    *)
(* and cancellations makes process_llm_call run a job more than             *)
(* LLM_JOB_MAX_RETRIES + 1 times.                                           *)
THEOREM ExecutionsBoundedAlways == Spec => []ExecutionsBounded
<1>1. TypeOK /\ BudgetInv => ExecutionsBounded
  <2> SUFFICES ASSUME TypeOK, BudgetInv, NEW j \in Jobs
               PROVE  attempts[j] <= MaxRetries + 1
    BY DEF ExecutionsBounded
  <2>1. attempts[j] \in Nat /\ retriesLeft[j] \in Nat /\ MaxRetries \in Nat
    BY BoundsAssumption DEF TypeOK
  <2>2. QED
    BY <2>1 DEF BudgetInv
<1>2. QED
  BY <1>1, TypeCorrect, BudgetAlways, PTL

-----------------------------------------------------------------------------
(* The two counters of retries                                              *)

(* RQ has not yet been told of a failure of the present execution, and the  *)
(* worker has not counted one.                                              *)
Uncounted(j) ==
  Waiting(j) \/ (worker.job = j /\ worker.pc \notin {"excepted", "raised"})

(* How many failures process_llm_call may have counted by now.              *)
Counted(j) == MaxRetries - retriesLeft[j] + (IF Uncounted(j) THEN 0 ELSE 1)

(* No copy of the retry_count of a job, however stale, is ahead of n.       *)
CopiesBounded(j, n) ==
  /\ meta[j].retry <= n /\ result[j].retry <= n
  /\ cancel[j].mem.retry <= n /\ cancel[j].call.retry <= n
  /\ worker.job = j => worker.mem.retry <= n /\ worker.call.retry <= n

RetryInv ==
  /\ \A j \in Jobs : CopiesBounded(j, Counted(j))
  /\ \A j \in Jobs : Unpushed(j) => /\ meta[j] = NoCall /\ result[j] = NoCall
                                    /\ cancel[j] = NoCancel
  /\ worker.pc \in {"popped", "precheck", "except", "excepted", "raised"} => ~worker.inTry
  /\ At("idle") => worker = IdleWorker

(* A step inside process_llm_call copies retry counts and writes its own;   *)
(* only HandleError counts, and it leaves the try block for good.           *)
LEMMA LocalRetry ==
  ASSUME TypeOK, RetryInv, LocalStep
  PROVE  /\ \/ /\ meta' \in {meta, [meta EXCEPT ![worker.job] = worker'.mem]}
               /\ worker'.mem.retry \in {worker.mem.retry, worker.call.retry}
               /\ worker'.call.retry = worker.call.retry
               /\ worker.pc \in {"excepted", "raised"} => worker'.pc \in {"excepted", "raised"}
            \/ HandleError
         /\ worker'.pc \in {"popped", "precheck", "except", "excepted", "raised"} => ~worker'.inTry
<1> USE DEF TypeOK, WorkerStates, WorkerUnchanged, At, Running, RetryInv, Calls
<1>0. Running => worker.call \in Calls
  OBVIOUS
<1>1. CASE Precheck
  <2>1. ~worker.inTry /\ meta' = meta /\ worker.pc = "precheck"
    BY <1>1 DEF Precheck
  <2>2. CASE JobResult(worker.job) = NoCall
    BY <1>1, <2>1, <2>2 DEF Precheck
  <2>3. CASE JobResult(worker.job) # NoCall /\ CancelRequested(worker.job)
    <3>1. worker' = [worker EXCEPT !.pc = "finalize", !.call = [@ EXCEPT !.cancel = TRUE]]
      BY <1>1, <2>3 DEF Precheck
    <3>2. QED
      BY <2>1, <3>1
  <2>4. CASE JobResult(worker.job) # NoCall /\ ~CancelRequested(worker.job)
    BY <1>1, <2>1, <2>4 DEF Precheck
  <2>5. QED
    BY <2>2, <2>3, <2>4
<1>2. CASE Process
  BY <1>2 DEF Process, Store, SaveMeta
<1>3. CASE AnnounceProcessing
  BY <1>3 DEF AnnounceProcessing, Announce, Goto
<1>4. CASE EnterTry
  BY <1>4 DEF EnterTry
<1>5. CASE Generate
  BY <1>5 DEF Generate, Goto
<1>6. CASE OpenStream
  BY <1>6 DEF OpenStream, Store, SaveMeta
<1>7. CASE AnnounceStreaming
  BY <1>7 DEF AnnounceStreaming, Announce, Goto
<1>8. CASE Token
  BY <1>8 DEF Token
<1>9. CASE EmptyChunk
  BY <1>9 DEF EmptyChunk
<1>10. CASE EndOfStream
  BY <1>10 DEF EndOfStream
<1>11. CASE StreamError
  BY <1>11 DEF StreamError
<1>12. CASE CheckChunk
  BY <1>12 DEF CheckChunk
<1>13. CASE CheckResult
  BY <1>13 DEF CheckResult
<1>14. CASE Complete
  BY <1>14 DEF Complete, Store, SaveMeta
<1>15. CASE AnnounceCompleted
  BY <1>15 DEF AnnounceCompleted, Announce, Goto
<1>16. CASE Finalize
  BY <1>16 DEF Finalize, Store, SaveMeta
<1>17. CASE AnnounceCancelled
  BY <1>17 DEF AnnounceCancelled, Announce, Goto
<1>18. CASE Reject
  BY <1>18 DEF Reject, Store, SaveMeta
<1>19. CASE HandleError
  BY <1>19 DEF HandleError
<1>20. CASE AnnounceError
  BY <1>20 DEF AnnounceError, Announce, Goto
<1>21. CASE Timeout
  BY <1>21 DEF Timeout
<1>22. QED
  BY <1>1, <1>2, <1>3, <1>4, <1>5, <1>6, <1>7, <1>8, <1>9, <1>10, <1>11,
    <1>12, <1>13, <1>14, <1>15, <1>16, <1>17, <1>18, <1>19, <1>20, <1>21
  DEF LocalStep

(* A cancellation copies retry counts between its own copies, the result    *)
(* and the meta. It writes no failure of its own, and goes on to request a  *)
(* cancellation only of a call it found unfinished.                         *)
LEMMA CancelEffect ==
  ASSUME TypeOK, HolderInv, NEW k \in Jobs, CancelStep(k)
  PROVE  /\ api[k] = "returned"
         /\ \A i \in Jobs \ {k} : cancel'[i] = cancel[i] /\ meta'[i] = meta[i]
         /\ cancel'[k].mem.retry \in {cancel[k].mem.retry, meta[k].retry}
         /\ cancel'[k].call.retry \in
              {cancel[k].call.retry, meta[k].retry, result[k].retry}
         /\ cancel'[k].pc = "request" => cancel'[k].call.status \notin Terminal
         /\ \/ meta'[k] = meta[k]
            \/ /\ meta'[k].retry \in {cancel[k].mem.retry, cancel[k].call.retry}
               /\ \/ meta'[k].status = "cancelled"
                  \/ cancel[k].pc = "request" /\ meta'[k].status = cancel[k].call.status
<1> USE DEF CancelAt, CancelGoto
<1>0. /\ meta \in [Jobs -> MaybeCalls] /\ cancel \in [Jobs -> CancelStates]
      /\ cancel[k] \in CancelStates
      /\ cancel[k].pc \notin {"none", "fetched", "aborted"} => cancel[k].call \in Calls
      /\ cancel[k].pc # "none" => api[k] = "returned"
  BY DEF TypeOK, HolderInv, UnpushedIsNowhere
<1>1. CASE CancelFetch(k)
  BY <1>0, <1>1 DEF CancelFetch, CancelStates
<1>2. CASE CancelLoad(k)
  BY <1>0, <1>2 DEF CancelLoad, JobResult, CancelStates
<1>3. CASE CancelDecide(k)
  <2>1. meta' = meta /\ cancel[k].call \in Calls /\ api[k] = "returned"
    BY <1>0, <1>3 DEF CancelDecide
  <2>2. CASE cancel[k].call.status \in Terminal
    BY <1>0, <1>3, <2>1, <2>2 DEF CancelDecide, CancelStates
  <2>3. CASE cancel[k].call.status \notin Terminal
    <3>1. cancel' = [cancel EXCEPT ![k] =
            [cancel[k] EXCEPT !.pc = IF rq[k] = "queued" THEN "remove" ELSE "request",
                              !.call = [cancel[k].call EXCEPT !.cancel = TRUE]]]
      BY <1>0, <1>3, <2>1, <2>3 DEF CancelDecide, CancelStates
    <3>2. QED
      BY <1>0, <2>1, <2>3, <3>1 DEF CancelStates, Calls
  <2>4. QED
    BY <2>2, <2>3
<1>4. CASE CancelRemove(k)
  BY <1>0, <1>4 DEF CancelRemove, CancelStates
<1>5. ASSUME NEW status, cancel[k].call \in Calls
      PROVE  /\ CancelPayload(k, status).status = status
             /\ CancelPayload(k, status).retry
                  \in {cancel[k].mem.retry, cancel[k].call.retry}
  BY <1>5 DEF CancelPayload, Calls
<1>6. CASE CancelStore(k)
  <2>1. cancel[k].call \in Calls /\ api[k] = "returned"
    BY <1>0, <1>6 DEF CancelStore
  <2>2. cancel' = [cancel EXCEPT ![k] =
          [cancel[k] EXCEPT !.pc = "status",
                            !.call = [cancel[k].call EXCEPT !.status = "cancelled"]]]
    BY <1>0, <1>6, <2>1 DEF CancelStore, CancelStates
  <2>3. meta' = [meta EXCEPT ![k] = CancelPayload(k, "cancelled")]
    BY <1>6 DEF CancelStore, SaveMeta
  <2>4. /\ CancelPayload(k, "cancelled").status = "cancelled"
        /\ CancelPayload(k, "cancelled").retry
             \in {cancel[k].mem.retry, cancel[k].call.retry}
    BY <1>5, <2>1
  <2>5. QED
    BY <1>0, <2>1, <2>2, <2>3, <2>4 DEF CancelStates, Calls
<1>7. CASE CancelSetStatus(k)
  BY <1>0, <1>7 DEF CancelSetStatus, CancelStates
<1>8. CASE CancelAnnounce(k)
  BY <1>0, <1>8 DEF CancelAnnounce, CancelStates
<1>9. CASE CancelNotify(k)
  BY <1>0, <1>9 DEF CancelNotify, CancelStates
<1>10. CASE CancelRequest(k)
  <2>1. cancel[k].call \in Calls
    BY <1>0, <1>10 DEF CancelRequest
  <2>2. meta' = [meta EXCEPT ![k] = CancelPayload(k, cancel[k].call.status)]
    BY <1>10 DEF CancelRequest, SaveMeta
  <2>3. /\ CancelPayload(k, cancel[k].call.status).status = cancel[k].call.status
        /\ CancelPayload(k, cancel[k].call.status).retry
             \in {cancel[k].mem.retry, cancel[k].call.retry}
    BY <1>5, <2>1
  <2>4. cancel' = [cancel EXCEPT ![k] = [cancel[k] EXCEPT !.pc = "notify"]]
    BY <1>0, <1>10 DEF CancelRequest, CancelStates
  <2>5. QED
    BY <1>0, <1>10, <2>2, <2>3, <2>4 DEF CancelRequest, CancelStates
<1>11. CASE CancelAbort(k)
  BY <1>0, <1>11 DEF CancelAbort, CancelStates
<1>12. QED
  BY <1>1, <1>2, <1>3, <1>4, <1>6, <1>7, <1>8, <1>9, <1>10, <1>11 DEF CancelStep, Cancel

LEMMA RetryTypes ==
  ASSUME TypeOK, NEW j \in Jobs
  PROVE  /\ meta[j].retry \in Nat /\ result[j].retry \in Nat
         /\ cancel[j].mem.retry \in Nat /\ cancel[j].call.retry \in Nat
         /\ worker.mem.retry \in Nat /\ worker.call.retry \in Nat
         /\ retriesLeft[j] \in Nat /\ retriesLeft[j] <= MaxRetries /\ MaxRetries \in Nat
         /\ Counted(j) \in Nat
<1>1. \A c \in MaybeCalls : c.retry \in Nat
  BY DEF MaybeCalls, Calls, NoCall
<1>2. /\ meta[j] \in MaybeCalls /\ result[j] \in MaybeCalls
      /\ cancel[j].mem \in MaybeCalls /\ cancel[j].call \in MaybeCalls
      /\ worker.mem \in MaybeCalls /\ worker.call \in MaybeCalls
  BY DEF TypeOK, CancelStates, WorkerStates
<1>3. retriesLeft[j] \in Nat /\ retriesLeft[j] <= MaxRetries /\ MaxRetries \in Nat
  BY BoundsAssumption DEF TypeOK
<1>4. QED
  BY <1>1, <1>2, <1>3 DEF Counted

(* A step that gives RQ no retry back and moves no counted execution back   *)
(* to an uncounted one keeps the bound.                                     *)
LEMMA CountedGrows ==
  ASSUME TypeOK, TypeOK', NEW j \in Jobs, retriesLeft'[j] = retriesLeft[j],
         Uncounted(j)' => Uncounted(j)
  PROVE  Counted(j)' >= Counted(j)
<1>1. retriesLeft[j] \in Nat /\ MaxRetries \in Nat
  BY BoundsAssumption DEF TypeOK
<1>2. QED
  BY <1>1 DEF Counted

LEMMA CopiesMonotone ==
  ASSUME TypeOK, TypeOK', NEW j \in Jobs, CopiesBounded(j, Counted(j)),
         Counted(j)' >= Counted(j),
         meta'[j] = meta[j], result'[j] = result[j], cancel'[j] = cancel[j],
         worker'.job = j =>
           \/ worker' = worker
           \/ worker.job = j
              /\ worker'.mem.retry \in {worker.mem.retry, worker.call.retry}
              /\ worker'.call.retry = worker.call.retry
  PROVE  CopiesBounded(j, Counted(j))'
<1>0. /\ retriesLeft[j] \in Nat /\ retriesLeft[j] <= MaxRetries
      /\ retriesLeft'[j] \in Nat /\ retriesLeft'[j] <= MaxRetries /\ MaxRetries \in Nat
  BY BoundsAssumption DEF TypeOK
<1>1. Counted(j) \in Nat /\ Counted(j)' \in Nat
  BY <1>0 DEF Counted
<1>2. QED
  BY <1>1, RetryTypes DEF CopiesBounded

LEMMA RetryStep ==
  TypeOK /\ TypeOK' /\ HolderInv /\ HolderInv' /\ RetryInv /\ [Next]_vars
    => \A j \in Jobs : CopiesBounded(j, Counted(j))'
<1> SUFFICES ASSUME TypeOK, TypeOK', HolderInv, HolderInv', RetryInv, [Next]_vars,
                    NEW j \in Jobs
             PROVE  CopiesBounded(j, Counted(j))'
  OBVIOUS
<1>0. /\ queue \in Seq(Jobs) /\ Injective(queue)
      /\ Running => worker.job \in started
      /\ worker.pc = "popped" => worker.job \in intermediate
      /\ \A k \in Jobs : k \in Range(queue) => k \notin intermediate /\ k \notin started
      /\ intermediate \cap started = {}
      /\ ~At("idle") => worker.job \in Jobs
  BY HolderAsSets DEF HolderInv, TypeOK
<1>t. /\ meta[j].retry \in Nat /\ result[j].retry \in Nat
      /\ cancel[j].mem.retry \in Nat /\ cancel[j].call.retry \in Nat
      /\ worker.mem.retry \in Nat /\ worker.call.retry \in Nat
      /\ retriesLeft[j] \in Nat /\ retriesLeft[j] <= MaxRetries /\ MaxRetries \in Nat
      /\ Counted(j) \in Nat
  BY RetryTypes
<1>v. retriesLeft'[j] \in Nat /\ retriesLeft'[j] <= MaxRetries
  BY <1>t DEF TypeOK
<1>u. retriesLeft'[j] \in Nat /\ retriesLeft'[j] <= MaxRetries /\ Counted(j)' \in Nat
  BY <1>t, <1>v DEF Counted
<1>m. meta \in [Jobs -> MaybeCalls] /\ result \in [Jobs -> MaybeCalls]
      /\ retriesLeft \in [Jobs -> 0..MaxRetries]
  BY DEF TypeOK
<1>b. CopiesBounded(j, Counted(j))
  BY DEF RetryInv
<1>n. NoCall.retry = 0 /\ NewCall.retry = 0 /\ NoCancel.mem = NoCall /\ NoCancel.call = NoCall
  BY DEF NoCall, NewCall, NoCancel
<1>i. /\ IdleWorker.job = NoJob /\ IdleWorker.call = NoCall /\ IdleWorker.pc = "idle"
      /\ NoJob \notin Jobs
  BY JobsAssumption DEF IdleWorker
<1>1. CASE LocalStep
  <2>1. /\ UNCHANGED <<api, queue, intermediate, started, rq, retriesLeft, result, cancel>>
        /\ worker'.job = worker.job /\ Running /\ worker.job \in Jobs
    BY <1>0, <1>1, LocalKeepsPlace DEF rqVars, At, Running
  <2>2. CASE HandleError
    <3>1. /\ worker.pc = "except" /\ worker.job \in started
          /\ worker'.pc \in {"excepted", "raised"}
          /\ worker'.mem = worker'.call
          /\ worker'.call.retry = worker.call.retry + 1
          /\ meta' = [meta EXCEPT ![worker.job] = worker'.call]
      BY <1>0, <2>1, <2>2 DEF HandleError, At, SaveMeta, TypeOK, WorkerStates, Calls, Running
    <3>2. CASE worker.job = j
      <4>1. Counted(j)' = Counted(j) + 1
        BY <1>0, <1>t, <2>1, <3>1, <3>2 DEF Counted, Uncounted, Waiting, InQueue
      <4>2. QED
        <5>1. meta'[j] = worker'.call /\ worker'.mem = worker'.call
          BY <1>m, <3>1, <3>2
        <5>2. UNCHANGED <<result, cancel>> /\ worker.call.retry + 1 <= Counted(j)'
          BY <1>b, <1>t, <2>1, <3>2, <4>1 DEF CopiesBounded
        <5>3. QED
          BY <1>b, <1>t, <3>1, <4>1, <5>1, <5>2 DEF CopiesBounded
    <3>3. CASE worker.job # j
      <4>1. Counted(j)' = Counted(j)
        BY <2>1, <3>3 DEF Counted, Uncounted, Waiting, InQueue
      <4>2. QED
        BY <1>b, <1>t, <2>1, <3>1, <3>3, <4>1, <1>m DEF CopiesBounded
    <3>4. QED
      BY <3>2, <3>3
  <2>3. CASE ~HandleError
    <3>1. /\ meta' \in {meta, [meta EXCEPT ![worker.job] = worker'.mem]}
          /\ worker'.mem.retry \in {worker.mem.retry, worker.call.retry}
          /\ worker'.call.retry = worker.call.retry
          /\ worker.pc \in {"excepted", "raised"} => worker'.pc \in {"excepted", "raised"}
      BY <1>1, <2>3, LocalRetry
    <3>2. Counted(j)' >= Counted(j)
      BY <2>1, <3>1, CountedGrows DEF Uncounted, Waiting, InQueue
    <3>3. QED
      <4>1. CASE worker.job = j
        <5>1. worker.mem.retry <= Counted(j)' /\ worker.call.retry <= Counted(j)'
          BY <1>b, <1>t, <1>u, <3>2, <4>1 DEF CopiesBounded
        <5>2. meta'[j] = meta[j] \/ meta'[j] = worker'.mem
          BY <1>m, <3>1
        <5>3. QED
          BY <1>b, <1>t, <1>u, <2>1, <3>1, <3>2, <5>1, <5>2 DEF CopiesBounded
      <4>2. CASE worker.job # j
        <5>1. meta'[j] = meta[j]
          BY <1>m, <3>1, <4>2
        <5>2. QED
          BY <1>b, <2>1, <3>2, <4>2, <5>1, CopiesMonotone
      <4>3. QED
        BY <4>1, <4>2
  <2>4. QED
    BY <2>2, <2>3
<1>2. CASE Dequeue
  <2>1. /\ UNCHANGED <<retriesLeft, result, meta, cancel>>
        /\ intermediate' = intermediate \cup {Head(queue)}
        /\ Range(queue') = Range(queue) \ {Head(queue)} /\ Head(queue) \in Range(queue)
        /\ worker'.job = Head(queue) /\ worker'.mem = meta[Head(queue)]
        /\ worker'.call = NoCall /\ worker'.pc = "popped"
        /\ worker.job = NoJob
    BY <1>0, <1>2, <1>i, PopInjective DEF Dequeue, IdleWorker, RetryInv
  <2>2. Counted(j)' >= Counted(j)
    BY <1>i, <2>1, CountedGrows DEF Uncounted, Waiting, InQueue
  <2>3. QED
    BY <1>b, <1>t, <1>u, <1>n, <2>1, <2>2 DEF CopiesBounded
<1>3. CASE StartJob
  <2>1. /\ UNCHANGED <<queue, retriesLeft, result, meta, cancel>>
        /\ worker.job \in intermediate /\ intermediate' = intermediate \ {worker.job}
        /\ worker'.job = worker.job /\ worker'.mem = worker.mem
        /\ worker'.call \in {NewCall, worker.mem} /\ worker'.pc = "precheck"
    BY <1>0, <1>3 DEF StartJob, At, TypeOK, WorkerStates
  <2>2. Counted(j)' >= Counted(j)
    BY <2>1, CountedGrows DEF Uncounted, Waiting, InQueue
  <2>3. QED
    BY <1>b, <1>t, <1>u, <1>n, <2>1, <2>2 DEF CopiesBounded
<1>4. CASE Succeed
  <2>1. /\ UNCHANGED <<queue, intermediate, retriesLeft, meta, cancel>>
        /\ result' = [result EXCEPT ![worker.job] = worker.call]
        /\ worker' = IdleWorker /\ worker.job \in Jobs
    BY <1>0, <1>4 DEF Succeed, At
  <2>2. Counted(j)' >= Counted(j)
    BY <1>i, <2>1, CountedGrows DEF Uncounted, Waiting, InQueue
  <2>3. QED
    <3>1. CASE worker.job = j
      <4>1. result'[j] = worker.call
        BY <1>m, <2>1, <3>1
      <4>2. QED
        BY <1>b, <1>t, <1>u, <1>i, <2>1, <2>2, <3>1, <4>1 DEF CopiesBounded
    <3>2. CASE worker.job # j
      <4>1. result'[j] = result[j]
        BY <1>m, <2>1, <3>2
      <4>2. QED
        BY <1>b, <1>i, <2>1, <2>2, <4>1, CopiesMonotone
    <3>3. QED
      BY <3>1, <3>2
(* RQ pays for the failure with a retry, or has none left.                  *)
<1>5. ASSUME NEW k \in Jobs, RetryOrFail(k), k \notin Range(queue),
             intermediate' = intermediate \ {k}, UNCHANGED <<result, cancel>>,
             k \in intermediate \/ worker.pc \in {"excepted", "raised"} \/ worker.job # k,
             worker' \in {worker, IdleWorker}, worker'.job # k,
             meta' \in {meta, [meta EXCEPT ![k] = worker.mem]},
             meta' # meta => worker.job = k
      PROVE  CopiesBounded(j, Counted(j))'
  <2>1. Counted(j)' >= Counted(j)
    <3>1. CASE retriesLeft[k] > 0
      <4>1. /\ retriesLeft' = [retriesLeft EXCEPT ![k] = @ - 1]
            /\ Range(queue') = Range(queue) \cup {k}
        BY <1>0, <1>5, <3>1, AppendRange DEF RetryOrFail
      <4>2. CASE j = k
        <5>1. retriesLeft'[j] = retriesLeft[j] - 1
          BY <1>m, <4>1, <4>2
        <5>2. Uncounted(j)'
          BY <4>1, <4>2 DEF Uncounted, Waiting, InQueue
        <5>3. retriesLeft[j] \in Int /\ MaxRetries \in Int
          BY <1>m, BoundsAssumption DEF TypeOK
        <5>4. QED
          BY <5>1, <5>2, <5>3 DEF Counted
      <4>3. CASE j # k
        <5>1. retriesLeft'[j] = retriesLeft[j]
          BY <1>m, <4>1, <4>3
        <5>2. Uncounted(j)' => Uncounted(j)
          BY <1>i, <1>5, <4>1, <4>3 DEF Uncounted, Waiting, InQueue
        <5>3. QED
          BY <5>1, <5>2, CountedGrows
      <4>4. QED
        BY <4>2, <4>3
    <3>2. CASE ~(retriesLeft[k] > 0)
      <4>1. UNCHANGED <<retriesLeft, queue>>
        BY <1>5, <3>2 DEF RetryOrFail
      <4>2. Uncounted(j)' => Uncounted(j)
        BY <1>i, <1>5, <4>1 DEF Uncounted, Waiting, InQueue
      <4>3. QED
        BY <4>1, <4>2, CountedGrows
    <3>3. QED
      BY <3>1, <3>2
  <2>2. QED
    <3>1. meta'[j] = meta[j] \/ (worker.job = j /\ meta'[j] = worker.mem)
      BY <1>m, <1>5
    <3>2. worker'.job = j => worker' = worker
      BY <1>i, <1>5
    <3>3. QED
      BY <1>b, <1>t, <1>u, <1>5, <2>1, <3>1, <3>2 DEF CopiesBounded
<1>6. CASE Fail
  <2>1. /\ worker.job \in Jobs /\ worker.job \in started /\ worker.pc = "raised"
        /\ RetryOrFail(worker.job) /\ worker' = IdleWorker
        /\ UNCHANGED <<intermediate, result, cancel>>
        /\ meta' \in {meta, [meta EXCEPT ![worker.job] = worker.mem]}
    BY <1>0, <1>6 DEF Fail, At, Running, SaveMeta
  <2>2. /\ worker.job \notin Range(queue) /\ worker.job \notin intermediate
        /\ intermediate' = intermediate \ {worker.job}
    BY <1>0, <2>1
  <2>3. QED
    BY <1>5, <1>i, <2>1, <2>2
<1>7. ASSUME NEW k \in Jobs, Reclaim(k) PROVE CopiesBounded(j, Counted(j))'
  <2>1. k \notin Range(queue) /\ worker.job # k /\ RetryOrFail(k)
    BY <1>0, <1>7 DEF Reclaim
  <2>2. UNCHANGED <<result, meta, worker, cancel>> /\ intermediate' = intermediate \ {k}
    BY <1>7 DEF Reclaim
  <2>3. QED
    BY <1>5, <2>1, <2>2
<1>8. CASE Crash
  <2>1. UNCHANGED <<queue, intermediate, retriesLeft, result, meta, cancel>> /\ worker' = IdleWorker
    BY <1>8 DEF Crash, rqVars
  <2>2. Counted(j)' >= Counted(j)
    BY <1>i, <2>1, CountedGrows DEF Uncounted, Waiting, InQueue
  <2>3. QED
    BY <1>b, <1>t, <1>u, <1>i, <2>1, <2>2 DEF CopiesBounded
<1>9. ASSUME UNCHANGED <<queue, intermediate, retriesLeft, result, meta, worker, cancel>>
      PROVE  CopiesBounded(j, Counted(j))'
  BY <1>b, <1>9 DEF CopiesBounded, Counted, Uncounted, Waiting, InQueue
<1>10. ASSUME NEW k \in Jobs, Admit(k) \/ Refuse(k) \/ Abort(k) \/ AnnounceQueued(k)
       PROVE  CopiesBounded(j, Counted(j))'
  BY <1>9, <1>10 DEF Admit, Refuse, Abort, AnnounceQueued, rqVars
<1>11. ASSUME NEW k \in Jobs, SavePayload(k) PROVE CopiesBounded(j, Counted(j))'
  <2>1. /\ UNCHANGED <<queue, intermediate, retriesLeft, result, worker, cancel>>
        /\ meta' = [meta EXCEPT ![k] = NewCall]
    BY <1>11 DEF SavePayload, SaveMeta, rqVars
  <2>2. Counted(j)' = Counted(j)
    BY <2>1 DEF Counted, Uncounted, Waiting, InQueue
  <2>3. QED
    BY <1>b, <1>t, <1>n, <2>1, <2>2 DEF CopiesBounded, TypeOK
<1>12. ASSUME NEW k \in Jobs, Push(k) PROVE CopiesBounded(j, Counted(j))'
  <2>1. /\ UNCHANGED <<intermediate, result, meta, worker, cancel>>
        /\ retriesLeft' = [retriesLeft EXCEPT ![k] = MaxRetries]
        /\ Range(queue') = Range(queue) \cup {k}
        /\ Unpushed(k)
    BY <1>0, <1>12, AppendRange DEF Push, EnqueueAt, Unpushed
  <2>2. CASE j = k
    <3>1. meta[k] = NoCall /\ result[k] = NoCall /\ cancel[k] = NoCancel
      BY <2>1 DEF RetryInv
    <3>2. worker.job # k
      BY <1>0, <1>i, <2>1 DEF HolderInv, UnpushedIsNowhere, Held, RetryInv, At, Running
    <3>3. QED
      BY <1>t, <1>u, <1>n, <2>1, <2>2, <3>1, <3>2 DEF CopiesBounded
  <2>3. CASE j # k
    <3>1. Counted(j)' = Counted(j)
      BY <2>1, <2>3 DEF Counted, Uncounted, Waiting, InQueue, TypeOK
    <3>2. QED
      BY <1>b, <2>1, <3>1 DEF CopiesBounded
  <2>4. QED
    BY <2>2, <2>3
<1>13. ASSUME NEW k \in Jobs, CancelStep(k) PROVE CopiesBounded(j, Counted(j))'
  <2>1. /\ UNCHANGED <<worker, intermediate, retriesLeft, result>>
        /\ Range(queue') \in {Range(queue), Range(queue) \ {k}}
    BY <1>13, CancelKeepsPlace DEF HolderInv
  <2>2. Counted(j)' >= Counted(j)
    BY <2>1, CountedGrows DEF Uncounted, Waiting, InQueue
  <2>3. CASE j = k
    <3>1. /\ cancel'[j].mem.retry \in {cancel[j].mem.retry, meta[j].retry}
          /\ cancel'[j].call.retry \in {cancel[j].call.retry, meta[j].retry, result[j].retry}
          /\ meta'[j].retry \in {meta[j].retry, cancel[j].mem.retry, cancel[j].call.retry}
      BY <1>13, <2>3, CancelEffect
    <3>2. QED
      BY <1>b, <1>t, <1>u, <2>1, <2>2, <3>1 DEF CopiesBounded
  <2>4. CASE j # k
    <3>1. cancel'[j] = cancel[j] /\ meta'[j] = meta[j]
      BY <1>13, <2>4, CancelEffect
    <3>2. QED
      BY <1>b, <1>t, <1>u, <2>1, <2>2, <3>1 DEF CopiesBounded
  <2>5. QED
    BY <2>3, <2>4
<1>14. CASE UNCHANGED vars
  BY <1>9, <1>14 DEF vars, rqVars
<1>15. QED
  BY <1>1, <1>2, <1>3, <1>4, <1>6, <1>7, <1>8, <1>10, <1>11, <1>12, <1>13, <1>14, NextCases

(* The other parts of RetryInv: nothing is stored about a job before its    *)
(* push, and a worker past its try block, or idle, is so in every field.    *)
LEMMA RetryFrame ==
  ASSUME TypeOK, HolderInv, RetryInv, [Next]_vars
  PROVE  /\ \A j \in Jobs : Unpushed(j)' => /\ meta'[j] = NoCall /\ result'[j] = NoCall
                                            /\ cancel'[j] = NoCancel
         /\ worker'.pc \in {"popped", "precheck", "except", "excepted", "raised"}
              => ~worker'.inTry
         /\ At("idle")' => worker' = IdleWorker
<1>0. /\ \A j \in Jobs : Unpushed(j) => ~Held(j)
      /\ Running => Held(worker.job)
      /\ ~At("idle") => worker.job \in Jobs
  BY DEF HolderInv, UnpushedIsNowhere, OneHolder, TypeOK, Held
<1>m. /\ meta \in [Jobs -> MaybeCalls] /\ result \in [Jobs -> MaybeCalls]
      /\ worker \in WorkerStates
      /\ api \in [Jobs -> {"idle", "admitted", "pushed", "saved", "returned", "refused",
                           "aborted"}]
  BY DEF TypeOK
<1>r. /\ \A j \in Jobs : Unpushed(j) => /\ meta[j] = NoCall /\ result[j] = NoCall
                                        /\ cancel[j] = NoCancel
      /\ worker.pc \in {"popped", "precheck", "except", "excepted", "raised"} => ~worker.inTry
      /\ At("idle") => worker = IdleWorker
  BY DEF RetryInv
<1>i. IdleWorker.pc = "idle" /\ ~IdleWorker.inTry
  BY DEF IdleWorker
<1>1. CASE LocalStep
  <2>1. /\ UNCHANGED <<api, result, cancel>> /\ Running /\ Running'
        /\ worker.job \in Jobs /\ Held(worker.job)
    BY <1>0, <1>1, LocalKeepsPlace DEF rqVars, Running, At
  <2>2. \A j \in Jobs : j # worker.job => meta'[j] = meta[j]
    <3>1. CASE HandleError
      BY <1>m, <3>1 DEF HandleError, SaveMeta
    <3>2. CASE ~HandleError
      BY <1>m, <1>1, <3>2, LocalRetry
    <3>3. QED
      BY <3>1, <3>2
  <2>3. worker'.pc \in {"popped", "precheck", "except", "excepted", "raised"} => ~worker'.inTry
    BY <1>1, LocalRetry
  <2>4. QED
    BY <1>0, <1>r, <2>1, <2>2, <2>3 DEF Unpushed, Running, At
<1>2. CASE Dequeue
  <2>1. UNCHANGED <<api, result, meta, cancel>>
    BY <1>2 DEF Dequeue
  <2>2. worker'.pc = "popped" /\ ~worker'.inTry
    BY <1>2 DEF Dequeue, IdleWorker
  <2>3. QED
    BY <1>r, <2>1, <2>2 DEF Unpushed, At
<1>3. CASE StartJob
  <2>1. UNCHANGED <<api, result, meta, cancel>>
    BY <1>3 DEF StartJob
  <2>2. worker'.pc = "precheck" /\ ~worker'.inTry
    BY <1>3, <1>m, <1>r DEF StartJob, WorkerStates, At
  <2>3. QED
    BY <1>r, <2>1, <2>2 DEF Unpushed, At
<1>4. CASE Succeed
  <2>1. /\ UNCHANGED <<api, meta, cancel>> /\ worker' = IdleWorker
        /\ result' = [result EXCEPT ![worker.job] = worker.call]
        /\ Held(worker.job)
    BY <1>0, <1>4 DEF Succeed, Running, At
  <2>2. QED
    BY <1>0, <1>m, <1>r, <1>i, <2>1 DEF Unpushed, At
<1>5. CASE Fail
  <2>1. /\ UNCHANGED <<api, result, cancel>> /\ worker' = IdleWorker
        /\ meta' \in {meta, [meta EXCEPT ![worker.job] = worker.mem]}
        /\ Held(worker.job)
    BY <1>0, <1>5 DEF Fail, Running, At, SaveMeta
  <2>2. QED
    BY <1>0, <1>m, <1>r, <1>i, <2>1 DEF Unpushed, At
<1>6. CASE Crash
  BY <1>6, <1>r, <1>i DEF Crash, rqVars, Unpushed, At
<1>7. ASSUME NEW k \in Jobs, Admit(k) \/ Refuse(k) \/ Abort(k) \/ Push(k)
                             \/ AnnounceQueued(k) \/ Reclaim(k)
      PROVE  /\ UNCHANGED <<worker, meta, result, cancel>>
             /\ \A j \in Jobs : Unpushed(j)' => Unpushed(j)
  <2>1. UNCHANGED <<worker, meta, result, cancel>>
    BY <1>7 DEF Admit, Refuse, Abort, Push, AnnounceQueued, Reclaim, rqVars
  <2>2. \A j \in Jobs : Unpushed(j)' => Unpushed(j)
    BY <1>7, <1>m DEF Admit, Refuse, Abort, Push, AnnounceQueued, Reclaim, EnqueueAt,
      InEnqueue, Unpushed
  <2>3. QED
    BY <2>1, <2>2
<1>8. ASSUME NEW k \in Jobs, SavePayload(k)
      PROVE  /\ UNCHANGED <<worker, result, cancel>>
             /\ \A j \in Jobs : Unpushed(j)' => Unpushed(j) /\ meta'[j] = meta[j]
  BY <1>8, <1>m DEF SavePayload, SaveMeta, EnqueueAt, Unpushed, rqVars
<1>9. ASSUME NEW k \in Jobs, CancelStep(k)
      PROVE  /\ UNCHANGED <<worker, result, api>>
             /\ \A j \in Jobs : Unpushed(j) => meta'[j] = meta[j] /\ cancel'[j] = cancel[j]
  <2>1. UNCHANGED <<worker, result, api>>
    BY <1>9, CancelKeepsPlace DEF HolderInv
  <2>2. /\ api[k] = "returned"
        /\ \A j \in Jobs \ {k} : cancel'[j] = cancel[j] /\ meta'[j] = meta[j]
    BY <1>9, CancelEffect
  <2>3. QED
    BY <2>1, <2>2 DEF Unpushed
<1>10. CASE UNCHANGED vars
  BY <1>10, <1>r DEF vars, rqVars, Unpushed, At
<1>11. CASE \E k \in Jobs : Admit(k) \/ Refuse(k) \/ Abort(k) \/ Push(k)
                            \/ AnnounceQueued(k) \/ Reclaim(k)
  BY <1>11, <1>7, <1>r DEF Unpushed, At
<1>12. CASE \E k \in Jobs : SavePayload(k)
  BY <1>12, <1>8, <1>r DEF Unpushed, At
<1>13. CASE \E k \in Jobs : CancelStep(k)
  BY <1>13, <1>9, <1>r DEF Unpushed, At
<1>14. QED
  BY <1>1, <1>2, <1>3, <1>4, <1>5, <1>6, <1>10, <1>11, <1>12, <1>13, NextCases

LEMMA RetryAlways == Spec => []RetryInv
<1>1. Init => RetryInv
  <2> SUFFICES ASSUME Init PROVE RetryInv
    OBVIOUS
  <2>1. IdleWorker.pc = "idle" /\ IdleWorker.job = NoJob /\ NoCall.retry = 0
        /\ NoCancel.mem = NoCall /\ NoCancel.call = NoCall
    BY DEF IdleWorker, NoCall, NoCancel
  <2>2. ASSUME NEW j \in Jobs PROVE CopiesBounded(j, Counted(j))
    <3>1. Counted(j) \in Nat
      BY BoundsAssumption DEF Init, Counted
    <3>2. QED
      BY <2>1, <3>1, JobsAssumption DEF Init, CopiesBounded
  <2>3. QED
    BY <2>1, <2>2 DEF Init, RetryInv, At
<1>2. TypeOK /\ TypeOK' /\ HolderInv /\ HolderInv' /\ RetryInv /\ [Next]_vars => RetryInv'
  BY RetryStep, RetryFrame DEF RetryInv, At, Unpushed
<1>3. QED
  BY <1>1, <1>2, TypeCorrect, HolderAlways, PTL DEF Spec

(* Only a job whose retries are used up is written as failed, unless it is  *)
(* a rejected structured answer.                                            *)
Exhausted(call) == call.status = "failed" => call.retry > MaxRetries

FailedInv ==
  /\ \A j \in Jobs \ Structured :
       /\ Exhausted(meta[j])
       /\ worker.job = j => Exhausted(worker.mem) /\ Exhausted(worker.call)
       /\ cancel[j].pc = "request" => cancel[j].call.status \notin Terminal
  /\ At("reject") => worker.job \in Structured

LEMMA LocalStatus ==
  ASSUME TypeOK, LocalStep, At("reject") => worker.job \in Structured
  PROVE  /\ meta' \in {meta, [meta EXCEPT ![worker.job] = worker'.mem]}
         /\ At("reject")' => worker'.job \in Structured
         /\ \/ Reject
            \/ Exhausted(worker.mem) /\ Exhausted(worker.call)
                 => Exhausted(worker'.mem) /\ Exhausted(worker'.call)
<1> USE DEF WorkerUnchanged, At
<1>0. /\ worker \in WorkerStates /\ (worker.pc \notin {"idle", "popped"} => worker.call \in Calls)
      /\ MaxRetries \in Nat
  BY BoundsAssumption DEF TypeOK, Running
(* set_job_payload with a status other than "failed".                       *)
<1>s. ASSUME NEW status, NEW there \in WorkerPC, Store(status, there),
             worker.pc \notin {"idle", "popped"}, there # "reject",
             status # "failed" \/ Reject
      PROVE  /\ meta' \in {meta, [meta EXCEPT ![worker.job] = worker'.mem]}
             /\ worker'.pc = there
             /\ Reject \/ (Exhausted(worker'.mem) /\ Exhausted(worker'.call))
  BY <1>0, <1>s DEF Store, SaveMeta, Exhausted, WorkerStates, Calls
<1>1. CASE Precheck
  <2>1. meta' = meta /\ worker.pc = "precheck"
    BY <1>1 DEF Precheck
  <2>2. CASE JobResult(worker.job) = NoCall
    BY <1>0, <1>1, <2>1, <2>2 DEF Precheck, Exhausted, WorkerStates
  <2>3. CASE JobResult(worker.job) # NoCall /\ CancelRequested(worker.job)
    <3>1. worker' = [worker EXCEPT !.pc = "finalize", !.call = [worker.call EXCEPT !.cancel = TRUE]]
      BY <1>0, <1>1, <2>3 DEF Precheck, WorkerStates
    <3>2. QED
      BY <1>0, <2>1, <3>1 DEF Exhausted, WorkerStates, Calls
  <2>4. CASE JobResult(worker.job) # NoCall /\ ~CancelRequested(worker.job)
    BY <1>0, <1>1, <2>1, <2>4 DEF Precheck, Exhausted, WorkerStates
  <2>5. QED
    BY <2>2, <2>3, <2>4
<1>2. CASE Process
  BY <1>2, <1>s DEF Process, WorkerPC
<1>3. CASE AnnounceProcessing \/ AnnounceStreaming \/ AnnounceCompleted
           \/ AnnounceCancelled \/ AnnounceError
  BY <1>0, <1>3 DEF AnnounceProcessing, AnnounceStreaming, AnnounceCompleted,
    AnnounceCancelled, AnnounceError, Announce, Goto, Exhausted, WorkerStates
<1>4. CASE EnterTry
  BY <1>0, <1>4 DEF EnterTry, Exhausted, WorkerStates
<1>5. CASE Generate
  BY <1>0, <1>5 DEF Generate, Goto, Exhausted, WorkerStates
<1>6. CASE OpenStream
  BY <1>6, <1>s DEF OpenStream, WorkerPC
<1>7. CASE Token
  BY <1>0, <1>7 DEF Token, Exhausted, WorkerStates
<1>8. CASE EmptyChunk
  BY <1>0, <1>8 DEF EmptyChunk, Exhausted, WorkerStates
<1>9. CASE EndOfStream
  <2>1. worker' = [worker EXCEPT !.pc = "finish", !.call = [worker.call EXCEPT !.text = worker.text]]
    BY <1>0, <1>9 DEF EndOfStream, WorkerStates
  <2>2. QED
    BY <1>0, <1>9, <2>1 DEF EndOfStream, Exhausted, WorkerStates, Calls
<1>10. CASE StreamError
  BY <1>0, <1>10 DEF StreamError, Exhausted, WorkerStates
<1>11. CASE CheckChunk
  <2>1. meta' = meta /\ worker.pc = "check" /\ worker.call \in Calls
    BY <1>0, <1>11 DEF CheckChunk
  <2>2. CASE CancelRequested(worker.job)
    <3>1. worker' = [worker EXCEPT !.pc = "finalize",
            !.call = [worker.call EXCEPT !.cancel = TRUE],
            !.inTry = FALSE]
      BY <1>0, <1>11, <2>2 DEF CheckChunk, WorkerStates
    <3>2. QED
      BY <1>0, <2>1, <3>1 DEF Exhausted, WorkerStates, Calls
  <2>3. CASE ~CancelRequested(worker.job)
    <3>1. worker' = [worker EXCEPT !.pc = "chunk"]
      BY <1>11, <2>3 DEF CheckChunk
    <3>2. QED
      BY <1>0, <2>1, <3>1 DEF Exhausted, WorkerStates
  <2>4. QED
    BY <2>2, <2>3
<1>12. CASE CheckResult
  <2>1. meta' = meta /\ worker.pc = "finish" /\ worker.call \in Calls
    BY <1>0, <1>12 DEF CheckResult
  <2>2. CASE CancelRequested(worker.job)
    <3>1. worker' = [worker EXCEPT !.pc = "finalize",
            !.call = [worker.call EXCEPT !.cancel = TRUE]]
      BY <1>0, <1>12, <2>2 DEF CheckResult, WorkerStates
    <3>2. QED
      BY <1>0, <2>1, <3>1 DEF Exhausted, WorkerStates, Calls
  <2>3. CASE ~CancelRequested(worker.job)
    <3>1. worker' = [worker EXCEPT !.pc = "complete"]
      BY <1>12, <2>3 DEF CheckResult
    <3>2. QED
      BY <1>0, <2>1, <3>1 DEF Exhausted, WorkerStates
  <2>4. QED
    BY <2>2, <2>3
<1>13. CASE Complete
  BY <1>13, <1>s DEF Complete, WorkerPC
<1>14. CASE Finalize
  BY <1>14, <1>s DEF Finalize, WorkerPC
<1>15. CASE Reject
  BY <1>15, <1>s DEF Reject, WorkerPC
<1>16. CASE HandleError
  <2> DEFINE retry == worker.call.retry + 1
             status == IF retry <= MaxRetries THEN "queued" ELSE "failed"
             call == [worker.call EXCEPT !.retry = retry, !.status = status]
  <2>1. worker.call \in Calls
    BY <1>0, <1>16 DEF HandleError
  <2>2. call.retry = retry /\ call.status = status
    BY <2>1 DEF Calls
  <2>3. retry \in Nat /\ (status = "failed" => retry > MaxRetries)
    BY <1>0, <2>1 DEF Calls
  <2>4. /\ worker'.mem = call /\ worker'.call = call /\ worker'.pc \in {"excepted", "raised"}
        /\ meta' = [meta EXCEPT ![worker.job] = call]
    BY <1>0, <1>16 DEF HandleError, SaveMeta, WorkerStates
  <2>5. QED
    BY <2>2, <2>3, <2>4 DEF Exhausted
<1>17. CASE Timeout
  BY <1>0, <1>17 DEF Timeout, Exhausted, WorkerStates
<1>18. QED
  BY <1>1, <1>2, <1>3, <1>4, <1>5, <1>6, <1>7, <1>8, <1>9, <1>10, <1>11,
    <1>12, <1>13, <1>14, <1>15, <1>16, <1>17
  DEF LocalStep

LEMMA FailedStep ==
  TypeOK /\ HolderInv /\ RetryInv /\ FailedInv /\ [Next]_vars => FailedInv'
<1> SUFFICES ASSUME TypeOK, HolderInv, RetryInv, FailedInv, [Next]_vars
             PROVE  FailedInv'
  OBVIOUS
<1>0. /\ meta \in [Jobs -> MaybeCalls]
      /\ Running => worker.job \in started
      /\ ~At("idle") => worker.job \in Jobs
  BY DEF HolderInv, OneHolder, TypeOK
<1>f. /\ \A j \in Jobs \ Structured :
           /\ Exhausted(meta[j])
           /\ worker.job = j => Exhausted(worker.mem) /\ Exhausted(worker.call)
           /\ cancel[j].pc = "request" => cancel[j].call.status \notin Terminal
      /\ At("reject") => worker.job \in Structured
  BY DEF FailedInv
<1>n. /\ Exhausted(NoCall) /\ Exhausted(NewCall)
      /\ IdleWorker.pc = "idle" /\ IdleWorker.job \notin Jobs
  BY JobsAssumption DEF Exhausted, NoCall, NewCall, IdleWorker
<1>1. CASE LocalStep
  <2>1. UNCHANGED cancel /\ worker'.job = worker.job /\ worker.job \in Jobs
    BY <1>0, <1>1, LocalKeepsPlace DEF At, Running
  <2>2. /\ meta' \in {meta, [meta EXCEPT ![worker.job] = worker'.mem]}
        /\ At("reject")' => worker'.job \in Structured
        /\ Reject \/ (Exhausted(worker.mem) /\ Exhausted(worker.call)
                        => Exhausted(worker'.mem) /\ Exhausted(worker'.call))
    BY <1>1, <1>f, LocalStatus
  <2>3. Reject => worker.job \in Structured
    BY <1>f DEF Reject
  <2>4. ASSUME NEW j \in Jobs \ Structured
        PROVE  /\ Exhausted(meta'[j])
               /\ worker'.job = j => Exhausted(worker'.mem) /\ Exhausted(worker'.call)
    <3>1. CASE worker.job = j
      <4>1. Exhausted(worker'.mem) /\ Exhausted(worker'.call)
        BY <1>f, <2>2, <2>3, <2>4, <3>1
      <4>2. meta'[j] \in {meta[j], worker'.mem}
        BY <1>0, <2>2, <3>1
      <4>3. QED
        BY <1>f, <2>4, <4>1, <4>2
    <3>2. CASE worker.job # j
      BY <1>0, <1>f, <2>1, <2>2, <2>4, <3>2
    <3>3. QED
      BY <3>1, <3>2
  <2>5. QED
    BY <1>f, <2>1, <2>2, <2>4 DEF FailedInv, Exhausted
<1>2. CASE Dequeue
  <2>1. /\ UNCHANGED <<meta, cancel>> /\ worker'.pc = "popped"
        /\ worker'.mem = meta[worker'.job] /\ worker'.call = NoCall
    BY <1>2 DEF Dequeue, IdleWorker
  <2>2. QED
    BY <1>f, <1>n, <2>1 DEF FailedInv, Exhausted, At
<1>3. CASE StartJob
  <2>1. /\ UNCHANGED <<meta, cancel>> /\ worker'.pc = "precheck" /\ worker'.job = worker.job
        /\ worker'.mem = worker.mem /\ worker'.call \in {NewCall, worker.mem}
    BY <1>3 DEF StartJob, TypeOK, WorkerStates
  <2>2. QED
    BY <1>f, <1>n, <2>1 DEF FailedInv, Exhausted, At
<1>4. CASE Succeed \/ Crash
  <2>1. UNCHANGED <<meta, cancel>> /\ worker' = IdleWorker
    BY <1>4 DEF Succeed, Crash
  <2>2. QED
    BY <1>f, <1>n, <2>1 DEF FailedInv, Exhausted, At
<1>5. CASE Fail
  <2>1. /\ UNCHANGED cancel /\ worker' = IdleWorker
        /\ meta' \in {meta, [meta EXCEPT ![worker.job] = worker.mem]}
    BY <1>5 DEF Fail, SaveMeta
  <2>2. \A j \in Jobs \ Structured : Exhausted(meta'[j])
    BY <1>0, <1>f, <2>1
  <2>3. QED
    BY <1>f, <1>n, <2>1, <2>2 DEF FailedInv, Exhausted, At
<1>6. CASE \E k \in Jobs : \/ Admit(k) \/ Refuse(k) \/ Abort(k) \/ Push(k)
                           \/ AnnounceQueued(k) \/ Reclaim(k)
  <2>1. UNCHANGED <<meta, cancel, worker>>
    BY <1>6 DEF Admit, Refuse, Abort, Push, AnnounceQueued, Reclaim
  <2>2. QED
    BY <1>f, <2>1 DEF FailedInv, Exhausted, At
<1>7. ASSUME NEW k \in Jobs, SavePayload(k) PROVE FailedInv'
  <2>1. UNCHANGED <<cancel, worker>> /\ meta' = [meta EXCEPT ![k] = NewCall]
    BY <1>7 DEF SavePayload, SaveMeta
  <2>2. \A j \in Jobs \ Structured : Exhausted(meta'[j])
    BY <1>0, <1>f, <1>n, <2>1
  <2>3. QED
    BY <1>f, <2>1, <2>2 DEF FailedInv, Exhausted, At
<1>8. ASSUME NEW k \in Jobs, CancelStep(k) PROVE FailedInv'
  <2>1. UNCHANGED worker
    BY <1>8, CancelKeepsPlace DEF HolderInv
  <2>2. ASSUME NEW j \in Jobs \ Structured
        PROVE  /\ Exhausted(meta'[j])
               /\ cancel'[j].pc = "request" => cancel'[j].call.status \notin Terminal
    <3>1. CASE j = k
      <4>1. /\ cancel'[k].pc = "request" => cancel'[k].call.status \notin Terminal
            /\ \/ meta'[k] = meta[k]
               \/ meta'[k].status = "cancelled"
               \/ cancel[k].pc = "request" /\ meta'[k].status = cancel[k].call.status
        BY <1>8, CancelEffect
      <4>2. QED
        BY <1>f, <2>2, <3>1, <4>1 DEF Exhausted, Terminal
    <3>2. CASE j # k
      <4>1. cancel'[j] = cancel[j] /\ meta'[j] = meta[j]
        BY <1>8, <3>2, CancelEffect
      <4>2. QED
        BY <1>f, <2>2, <4>1
    <3>3. QED
      BY <3>1, <3>2
  <2>3. QED
    BY <1>f, <2>1, <2>2 DEF FailedInv, Exhausted, At
<1>9. CASE UNCHANGED vars
  BY <1>9, <1>f DEF vars, FailedInv, Exhausted, At
<1>10. QED
  BY <1>1, <1>2, <1>3, <1>4, <1>5, <1>6, <1>7, <1>8, <1>9, NextCases

LEMMA FailedAlways == Spec => []FailedInv
<1>1. Init => FailedInv
  BY JobsAssumption DEF Init, FailedInv, Exhausted, NoCall, NoCancel, IdleWorker, At
<1>2. QED
  BY <1>1, FailedStep, TypeCorrect, HolderAlways, RetryAlways, PTL DEF Spec

(* Once the worker announces a job as failed for want of retries, RQ has    *)
(* none left and never runs it again. Every copy of the retry_count in      *)
(* flight (meta, worker, cancellation, result) is bounded by the failures   *)
(* RQ was told of, plus the one the worker is about to report.              *)
THEOREM ExhaustedNeverRerunsAlways == Spec => []ExhaustedNeverReruns
<1>1. TypeOK /\ HolderInv /\ RetryInv /\ FailedInv => ExhaustedNeverReruns
  <2> SUFFICES ASSUME TypeOK, HolderInv, RetryInv, FailedInv,
                      NEW j \in Jobs \ Structured, meta[j].status = "failed"
               PROVE  retriesLeft[j] = 0 /\ ~InQueue(j) /\ j \notin intermediate
    BY DEF ExhaustedNeverReruns
  <2>1. meta[j].retry > MaxRetries /\ meta[j].retry <= Counted(j)
    BY DEF FailedInv, Exhausted, RetryInv, CopiesBounded
  <2>2. /\ meta[j].retry \in Nat /\ Counted(j) \in Nat
        /\ retriesLeft[j] \in Nat /\ retriesLeft[j] <= MaxRetries /\ MaxRetries \in Nat
    BY RetryTypes
  <2>3. ~Uncounted(j) /\ retriesLeft[j] = 0
    BY <2>1, <2>2 DEF Counted
  <2>4. QED
    BY <2>3 DEF Uncounted, Waiting, InQueue
<1>2. QED
  BY <1>1, TypeCorrect, HolderAlways, RetryAlways, FailedAlways, PTL

=============================================================================
