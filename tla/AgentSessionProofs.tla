------------------------- MODULE AgentSessionProofs -------------------------
(***************************************************************************)
(* Theorems about AgentSession, for every value of its constants.          *)
(***************************************************************************)
EXTENDS AgentSession, SequenceTheorems, TLAPS

-----------------------------------------------------------------------------
(* The memory                                                               *)

(* Appending to a log adds one request to it.                               *)
LEMMA AppendToLog ==
  ASSUME NEW S, NEW s \in Seq(S), NEW e \in S
  PROVE  /\ Append(s, e) \in Seq(S)
         /\ Range(Append(s, e)) = Range(s) \cup {e}
<1>1. /\ Append(s, e) \in Seq(S)
      /\ Len(Append(s, e)) = Len(s) + 1
      /\ \A i \in 1..Len(s) : Append(s, e)[i] = s[i]
      /\ Append(s, e)[Len(s) + 1] = e
  BY AppendProperties
<1>2. DOMAIN Append(s, e) = 1..(Len(s) + 1) /\ DOMAIN s = 1..Len(s) /\ Len(s) \in Nat
  BY <1>1
<1>3. QED
  BY <1>1, <1>2 DEF Range

(* Adding a turn keeps the memory a sequence of requests, and puts the      *)
(* request, and nothing else, in the log.                                   *)
LEMMA AddTurnProperties ==
  ASSUME TypeOK, NEW r \in Requests, AddTurn(r)
  PROVE  /\ turns' \in Seq(Requests)
         /\ log' \in Seq(Requests)
         /\ Range(log') = Range(log) \cup {r}
<1> DEFINE added == Append(turns, r)
<1>1. turns \in Seq(Requests) /\ log \in Seq(Requests) /\ MaxTurns \in Nat \ {0}
  BY SessionAssumption DEF TypeOK
<1>2. added \in Seq(Requests) /\ Len(added) \in Nat
  BY <1>1, AppendToLog
<1>3. log' \in Seq(Requests) /\ Range(log') = Range(log) \cup {r}
  BY <1>1, AppendToLog DEF AddTurn
<1>4. CASE Len(added) > MaxTurns
  <2>1. SubSeq(added, Len(added) - MaxTurns + 1, Len(added)) \in Seq(Requests)
    <3>1. Len(added) - MaxTurns + 1 \in 1..(Len(added) + 1) /\ Len(added) \in 0..Len(added)
      BY <1>1, <1>2, <1>4
    <3>2. \A i \in (Len(added) - MaxTurns + 1)..Len(added) : added[i] \in Requests
      BY <1>1, <1>2, <1>4
    <3>3. QED
      BY <1>1, <1>2, <3>1, <3>2, SubSeqProperties
  <2>2. QED
    BY <1>3, <1>4, <2>1 DEF AddTurn
<1>5. CASE ~(Len(added) > MaxTurns)
  BY <1>2, <1>3, <1>5 DEF AddTurn
<1>6. QED
  BY <1>4, <1>5

-----------------------------------------------------------------------------
(* What a step does                                                         *)

(* A supplied mode, like a routed one, is a mode.                           *)
LEMMA ModeAfterTyped ==
  ASSUME TypeOK, NEW intent \in Intents
  PROVE  ModeAfter(intent) \in Modes
BY DEF TypeOK, ModeAfter, Switches, Intents

(* A supplied mode is the mode of the session as soon as it is applied.     *)
LEMMA SuppliedApplies ==
  ASSUME NEW r \in Requests, Supplied[r] # NoMode
  PROVE  /\ SuppliedIntent(r) \in Intents
         /\ ModeAfter(SuppliedIntent(r)) = Supplied[r]
BY SessionAssumption DEF SuppliedIntent, Intents, ModeAfter, Switches

(* The locals of a stream that sent a fixed text.                           *)
Fixed(r, local) == r \in Streamed /\ local.job = "unknown" /\ local.labels # {}

(* Where a request is that may have added its turn.                         *)
Told == {"telling", "replied", "gone"}

(* What holds of the locals of a request by itself: where it can be, which  *)
(* mode it has, and for /chat how it labels its answer.                     *)
Sound(r, local) ==
  /\ local.pc \in {"updating", "handling", "ready", "streaming", "sent"}
       => local.resolved \in Handlers
  /\ local.pc \in {"static", "telling"} => local.resolved \in Modes
  /\ local.pc \in {"static", "telling"} => r \in Streamed
  /\ local.pc = "classifying" => Supplied[r] = NoMode
  /\ local.pc \notin {"new", "classifying", "failed"} /\ Supplied[r] # NoMode
       => local.resolved = Supplied[r]
  /\ local.pc \in {"new", "classifying", "static"} => local.job = "unknown"
  /\ Fixed(r, local) => local.pc \in Told
  /\ r \notin Streamed =>
       /\ local.pc \notin {"ready", "static", "telling", "streaming", "sent", "gone"}
       /\ local.pc = "replied" => local.labels = {local.resolved}

(* The log and the requests that have added their turn.                     *)
LogInv ==
  \A r \in Requests :
    /\ r \in Range(log) => At(r, "replied") \/ Fixed(r, req[r])
    /\ Fixed(r, req[r]) => r \in Range(log)
    /\ r \notin Streamed /\ At(r, "replied") => r \in Range(log)

SessionInv ==
  /\ TypeOK
  /\ \A r \in Requests : Sound(r, req[r])
  /\ LogInv

SessionTyped ==
  /\ active \in Modes
  /\ previous \in Modes \cup {NoMode}
  /\ states \in [Handlers -> Requests \cup {Nobody}]
  /\ written \subseteq Requests

(* What every step has in common: one request that has not replied moves,   *)
(* to sound locals, and the log gains at most this request, when it replies *)
(* or sends a fixed text.                                                   *)
MovesTo(r, local) ==
  /\ local \in Locals
  /\ Sound(r, local)
  /\ req' = [req EXCEPT ![r] = local]

Logs(r, local) ==
  /\ turns' \in Seq(Requests)
  /\ log' \in Seq(Requests)
  /\ \/ /\ log' = log
        /\ local.pc = "replied" => r \in Streamed
        /\ Fixed(r, local) <=> Fixed(r, req[r])
     \/ Range(log') = Range(log) \cup {r} /\ (local.pc = "replied" \/ Fixed(r, local))

Steps(r) ==
  /\ ~At(r, "replied")
  /\ SessionTyped'
  /\ \E local \in Locals : MovesTo(r, local) /\ Logs(r, local)

(* Such a step keeps the invariant.                                         *)
LEMMA StepsKeepInv ==
  ASSUME SessionInv, NEW r \in Requests, Steps(r)
  PROVE  SessionInv'
<1>1. PICK local \in Locals : MovesTo(r, local) /\ Logs(r, local)
  BY DEF Steps
<1>2. /\ req' \in [Requests -> Locals]
      /\ req'[r] = local
      /\ \A q \in Requests : q # r => req'[q] = req[q]
  BY <1>1 DEF MovesTo, SessionInv, TypeOK
<1>3. \A q \in Requests : Sound(q, req'[q])
  BY <1>1, <1>2 DEF MovesTo, SessionInv
<1>4. TypeOK'
  BY <1>1, <1>2, <1>3 DEF TypeOK, Steps, SessionTyped, Logs, Sound
<1>5. LogInv'
  BY <1>1, <1>2 DEF SessionInv, LogInv, Logs, Steps, At
<1>6. QED
  BY <1>3, <1>4, <1>5 DEF SessionInv

(* A step that touches neither session nor memory.                          *)
LEMMA LocalSteps ==
  ASSUME SessionInv, NEW r \in Requests, ~At(r, "replied"), NEW local,
         UNCHANGED <<session, memory>>, MovesTo(r, local),
         local.pc = "replied" => r \in Streamed,
         Fixed(r, local) <=> Fixed(r, req[r])
  PROVE  Steps(r)
BY DEF SessionInv, TypeOK, Steps, SessionTyped, Logs, MovesTo, session, memory

(* A step with which a request adds its turn.                               *)
LEMMA ReplySteps ==
  ASSUME SessionInv, NEW r \in Requests, ~At(r, "replied"), NEW local,
         UNCHANGED session, AddTurn(r), MovesTo(r, local),
         local.pc = "replied" \/ Fixed(r, local)
  PROVE  Steps(r)
BY AddTurnProperties DEF SessionInv, TypeOK, Steps, SessionTyped, Logs, MovesTo, session

-----------------------------------------------------------------------------
(* The actions                                                              *)

LEMMA ResolveSteps ==
  ASSUME SessionInv, NEW r \in Requests, NEW intent \in Intents,
         NEW history \in Seq(Requests), req[r].pc \in {"new", "classifying"},
         Resolve(r, intent, history),
         Supplied[r] # NoMode => ModeAfter(intent) = Supplied[r]
  PROVE  Steps(r)
<1> DEFINE mode == ModeAfter(intent)
           static == intent.clarify \/ mode = General
           base == [req[r] EXCEPT !.history = history, !.resolved = mode]
           local == IF ~static THEN [base EXCEPT !.pc = "updating"]
                    ELSE IF r \in Streamed THEN [base EXCEPT !.pc = "static"]
                    ELSE [base EXCEPT !.pc = "replied", !.labels = {mode}]
<1>1. mode \in Modes /\ req[r] \in Locals
  BY ModeAfterTyped DEF SessionInv, TypeOK
<1>2. req' = [req EXCEPT ![r] = local]
  BY DEF Resolve, Static
<1>3. local \in Locals
  BY <1>1 DEF Locals, PCs
<1>4. /\ local.resolved = mode
      /\ local.job = req[r].job
      /\ ~(static /\ r \notin Streamed) => local.labels = req[r].labels
      /\ local.pc = IF ~static THEN "updating" ELSE IF r \in Streamed THEN "static" ELSE "replied"
      /\ local.pc = "replied" => local.labels = {mode}
  BY <1>1 DEF Locals
<1>5. ~static => mode \in Handlers
  BY <1>1 DEF Modes
<1> HIDE DEF local
<1>0. Sound(r, req[r]) /\ req[r].pc \in {"new", "classifying"}
  BY DEF SessionInv
<1>10. req[r].job = "unknown" /\ ~Fixed(r, req[r])
  BY <1>0 DEF Sound, Told
<1>11. ~Fixed(r, local)
  BY <1>4, <1>10 DEF Fixed
<1>6. Sound(r, local)
  BY <1>0, <1>1, <1>4, <1>5, <1>10, <1>11 DEF Sound
<1>7. SessionTyped'
  BY <1>1 DEF Resolve, Static, SessionTyped, SessionInv, TypeOK
<1>8. Logs(r, local)
  <2>1. CASE static /\ r \notin Streamed
    BY <1>4, <2>1, AddTurnProperties DEF Resolve, Static, Logs, SessionInv
  <2>2. CASE ~(static /\ r \notin Streamed)
    BY <1>4, <1>10, <1>11, <2>2 DEF Resolve, Static, Logs, SessionInv, TypeOK, memory
  <2>3. QED
    BY <2>1, <2>2
<1>9. QED
  BY <1>0, <1>2, <1>3, <1>6, <1>7, <1>8 DEF Steps, MovesTo, At

LEMMA BeginSuppliedSteps ==
  ASSUME SessionInv, NEW r \in Requests, BeginSupplied(r)
  PROVE  Steps(r)
<1>1. turns \in Seq(Requests) /\ req[r].pc \in {"new", "classifying"}
  BY DEF SessionInv, TypeOK, BeginSupplied, At
<1>2. QED
  BY <1>1, SuppliedApplies, ResolveSteps DEF BeginSupplied

LEMMA ClassifiedSteps ==
  ASSUME SessionInv, NEW r \in Requests, Classified(r)
  PROVE  Steps(r)
<1>1. PICK intent \in Intents : Resolve(r, intent, req[r].history)
  BY DEF Classified
<1>2. /\ req[r].history \in Seq(Requests)
      /\ req[r].pc \in {"new", "classifying"}
      /\ Supplied[r] = NoMode
  BY DEF SessionInv, TypeOK, Locals, Classified, At, Sound
<1>3. QED
  BY <1>1, <1>2, ResolveSteps

(* The update of a mode state: chat_full goes on to its answer with it,     *)
(* chat_stream leaves it to the generator.                                  *)
LEMMA UpdatedSteps ==
  ASSUME SessionInv, NEW r \in Requests, Updated(r)
  PROVE  Steps(r)
<1> DEFINE base == [req[r] EXCEPT !.older = written]
           local == IF r \in Streamed THEN [base EXCEPT !.pc = "ready"]
                    ELSE [base EXCEPT !.pc = "handling", !.used = states'[req[r].resolved]]
<1>1. req[r] \in Locals /\ Sound(r, req[r]) /\ req[r].pc = "updating" /\ written \subseteq Requests
  BY DEF SessionInv, TypeOK, Updated, At
<1>2. states' \in [Handlers -> Requests \cup {Nobody}] /\ states'[req[r].resolved] = r
  BY <1>1 DEF Updated, SessionInv, TypeOK, Sound
<1>3. local \in Locals /\ req' = [req EXCEPT ![r] = local]
  BY <1>1, <1>2 DEF Locals, PCs, Updated, Prepared
<1>4. Sound(r, local) /\ (Fixed(r, local) <=> Fixed(r, req[r])) /\ local.pc # "replied"
  BY <1>1 DEF Sound, Locals, Fixed, Told
<1>5. SessionTyped'
  BY <1>1, <1>2 DEF Updated, SessionTyped, SessionInv, TypeOK
<1>6. Logs(r, local)
  BY <1>1, <1>4 DEF Updated, Logs, SessionInv, TypeOK, memory
<1>7. QED
  BY <1>1, <1>3, <1>4, <1>5, <1>6 DEF Steps, MovesTo, At

LEMMA HandledSteps ==
  ASSUME SessionInv, NEW r \in Requests, Handled(r)
  PROVE  Steps(r)
<1> DEFINE local == [req[r] EXCEPT !.pc = "replied", !.labels = {req[r].resolved}]
<1>1. req[r] \in Locals /\ Sound(r, req[r]) /\ req[r].pc = "handling"
  BY DEF SessionInv, TypeOK, Handled, At
<1>2. req[r].resolved \in Modes
  BY <1>1 DEF Sound, Modes
<1>3. local \in Locals /\ req' = [req EXCEPT ![r] = local] /\ local.pc = "replied"
  BY <1>1, <1>2 DEF Locals, PCs, Handled
<1>4. Sound(r, local)
  BY <1>1 DEF Sound, Locals, Fixed, Told
<1>5. QED
  BY <1>1, <1>3, <1>4, ReplySteps DEF MovesTo, Handled, At

LEMMA StaticReplySteps ==
  ASSUME SessionInv, NEW r \in Requests, StaticReply(r)
  PROVE  Steps(r)
<1> DEFINE local == [req[r] EXCEPT !.pc = "telling", !.labels = {req[r].resolved}]
<1>1. req[r] \in Locals /\ Sound(r, req[r]) /\ req[r].pc = "static"
  BY DEF SessionInv, TypeOK, StaticReply, At
<1>2. local \in Locals /\ req' = [req EXCEPT ![r] = local]
  BY <1>1 DEF Locals, PCs, StaticReply, Sound
<1>3. Sound(r, local) /\ Fixed(r, local)
  BY <1>1 DEF Sound, Locals, Fixed, Told
<1>4. QED
  BY <1>1, <1>2, <1>3, ReplySteps DEF MovesTo, StaticReply, At

(* The locals of a stream after an event.                                   *)
LEMMA EventTyped ==
  ASSUME NEW local \in Locals, NEW events \in Nat, NEW tokens \in BOOLEAN,
         NEW labels \in SUBSET Modes
  PROVE  [local EXCEPT !.events = events, !.tokens = tokens,
                       !.job = "known", !.labels = labels] \in Locals
BY DEF Locals

(* The steps that leave session and memory alone.                           *)
LEMMA QuietSteps ==
  ASSUME SessionInv, NEW r \in Requests,
         \/ BeginRouted(r) \/ Fail(r) \/ OpenStream(r) \/ StreamEvent(r)
         \/ StaticDone(r) \/ StreamDone(r) \/ StreamFails(r) \/ Disconnect(r)
  PROVE  Steps(r)
<1>1. /\ req[r] \in Locals
      /\ Sound(r, req[r])
      /\ active \in Modes
      /\ turns \in Seq(Requests)
      /\ states \in [Handlers -> Requests \cup {Nobody}]
  BY DEF SessionInv, TypeOK
<1>2. CASE BeginRouted(r)
  <2> DEFINE local == [req[r] EXCEPT !.pc = "classifying", !.history = turns]
  <2>1. local \in Locals /\ req' = [req EXCEPT ![r] = local]
    BY <1>1, <1>2 DEF Locals, PCs, BeginRouted
  <2>2. Sound(r, local) /\ (Fixed(r, local) <=> Fixed(r, req[r]))
    BY <1>1, <1>2 DEF Sound, Fixed, Told, Locals, BeginRouted, At
  <2>3. QED
    BY <1>1, <1>2, <2>1, <2>2, LocalSteps DEF MovesTo, BeginRouted, At, Locals
<1>3. CASE Fail(r) \/ StreamFails(r)
  <2> DEFINE local == [req[r] EXCEPT !.pc = "failed"]
  <2>1. local \in Locals /\ req' = [req EXCEPT ![r] = local]
    BY <1>1, <1>3 DEF Locals, PCs, Fail, StreamFails
  <2>4. ~Fixed(r, req[r])
    BY <1>1, <1>3 DEF Sound, Told, Fail, StreamFails, At
  <2>2. Sound(r, local) /\ (Fixed(r, local) <=> Fixed(r, req[r]))
    BY <1>1, <2>4 DEF Sound, Fixed, Locals
  <2>3. QED
    BY <1>1, <1>3, <2>1, <2>2, LocalSteps DEF MovesTo, Fail, StreamFails, At, Locals
<1>4. CASE OpenStream(r)
  <2> DEFINE local == [req[r] EXCEPT !.pc = "streaming", !.used = states[req[r].resolved]]
  <2>1. local \in Locals /\ req' = [req EXCEPT ![r] = local]
    BY <1>1, <1>4 DEF Locals, PCs, OpenStream, Sound, At
  <2>2. Sound(r, local) /\ (Fixed(r, local) <=> Fixed(r, req[r]))
    BY <1>1, <1>4 DEF Sound, Fixed, Told, Locals, OpenStream, At
  <2>3. QED
    BY <1>1, <1>4, <2>1, <2>2, LocalSteps DEF MovesTo, OpenStream, At, Locals
<1>5. CASE StreamEvent(r)
  <2>1. PICK token \in BOOLEAN :
          req' = [req EXCEPT ![r].events = @ + 1, ![r].tokens = @ \/ token,
                             ![r].job = "known", ![r].labels = @ \cup {active}]
    BY <1>5 DEF StreamEvent
  <2> DEFINE local == [req[r] EXCEPT !.events = @ + 1, !.tokens = @ \/ token,
                                     !.job = "known", !.labels = @ \cup {active}]
  <2>2. local \in Locals /\ req' = [req EXCEPT ![r] = local]
    <3> DEFINE tokens == req[r].tokens \/ token
               seen == req[r].labels \cup {active}
    <3>1. tokens \in BOOLEAN
      OBVIOUS
    <3>2. seen \in SUBSET Modes /\ req[r].events + 1 \in Nat
      BY <1>1 DEF Locals
    <3>3. local \in Locals
      BY <1>1, <3>1, <3>2, EventTyped, Zenon
    <3>4. req' = [req EXCEPT ![r] = local]
      BY <2>1, Zenon
    <3>5. QED
      BY <3>3, <3>4
  <2>3. Sound(r, local) /\ (Fixed(r, local) <=> Fixed(r, req[r]))
    BY <1>1, <1>5 DEF Sound, Fixed, Told, Locals, StreamEvent, At
  <2>4. QED
    BY <1>1, <1>5, <2>2, <2>3, LocalSteps DEF MovesTo, StreamEvent, At, Locals
<1>6. CASE StreamDone(r)
  <2> DEFINE local == LastEvent(r)
  <2>1. local \in Locals /\ req' = [req EXCEPT ![r] = local]
    BY <1>1, <1>6 DEF Locals, PCs, StreamDone, LastEvent
  <2>2. Sound(r, local) /\ (Fixed(r, local) <=> Fixed(r, req[r]))
    BY <1>1, <1>6 DEF Sound, Fixed, Told, Locals, StreamDone, At, LastEvent
  <2>3. QED
    BY <1>1, <1>6, <2>1, <2>2, LocalSteps DEF MovesTo, StreamDone, At, Locals, LastEvent
<1>7. CASE Disconnect(r)
  <2>1. PICK inside \in BOOLEAN :
          req' = [req EXCEPT ![r].pc = "gone",
                             ![r].job = IF inside /\ @ = "known" THEN "cancelled" ELSE @]
    BY <1>7 DEF Disconnect, At
  <2> DEFINE local == [req[r] EXCEPT !.pc = "gone",
                         !.job = IF inside /\ @ = "known" THEN "cancelled" ELSE @]
  <2>2. local \in Locals /\ req' = [req EXCEPT ![r] = local]
    BY <1>1, <2>1 DEF Locals, PCs
  <2>3. Sound(r, local) /\ (Fixed(r, local) <=> Fixed(r, req[r]))
    BY <1>1, <1>7 DEF Sound, Fixed, Told, Locals, Disconnect
  <2>4. QED
    BY <1>1, <1>7, <2>2, <2>3, LocalSteps DEF MovesTo, Disconnect, At, Locals
<1>9. CASE StaticDone(r)
  <2> DEFINE local == [req[r] EXCEPT !.pc = "replied"]
  <2>1. local \in Locals /\ req' = [req EXCEPT ![r] = local] /\ req[r].pc = "telling"
    BY <1>1, <1>9 DEF Locals, PCs, StaticDone, At
  <2>2. r \in Streamed /\ Sound(r, local) /\ (Fixed(r, local) <=> Fixed(r, req[r]))
    BY <1>1, <2>1 DEF Sound, Fixed, Told, Locals
  <2>3. QED
    BY <1>1, <1>9, <2>1, <2>2, LocalSteps DEF MovesTo, StaticDone, At, Locals
<1>8. QED
  BY <1>2, <1>3, <1>4, <1>5, <1>6, <1>7, <1>9

LEMMA RecordSteps ==
  ASSUME SessionInv, NEW r \in Requests, Record(r)
  PROVE  Steps(r)
<1> DEFINE local == [req[r] EXCEPT !.pc = "replied"]
<1>1. req[r] \in Locals /\ Sound(r, req[r]) /\ req[r].pc = "sent"
  BY DEF SessionInv, TypeOK, Record, At
<1>2. r \in Streamed
  BY <1>1 DEF Sound
<1>3. local \in Locals /\ req' = [req EXCEPT ![r] = local] /\ local.pc = "replied"
  BY <1>1 DEF Locals, PCs, Record
<1>4. Sound(r, local) /\ (Fixed(r, local) <=> Fixed(r, req[r]))
  BY <1>1, <1>2 DEF Sound, Locals, Fixed, Told
<1>5. CASE req[r].tokens
  BY <1>1, <1>3, <1>4, <1>5, ReplySteps DEF MovesTo, Record, At
<1>6. CASE ~req[r].tokens
  BY <1>1, <1>2, <1>3, <1>4, <1>6, LocalSteps DEF MovesTo, Record, At
<1>7. QED
  BY <1>5, <1>6

-----------------------------------------------------------------------------
(* The theorems                                                             *)

LEMMA SessionInvInit == Init => SessionInv
<1> SUFFICES ASSUME Init PROVE SessionInv
  OBVIOUS
<1>1. NewRequest \in Locals /\ \A r \in Requests : req[r] = NewRequest
  BY DEF NewRequest, Locals, PCs, Init
<1>2. TypeOK
  BY <1>1, SessionAssumption DEF Init, TypeOK, Modes, NewRequest
<1>3. \A r \in Requests : Sound(r, req[r])
  BY <1>1 DEF Sound, NewRequest, Fixed
<1>4. LogInv
  BY <1>1 DEF LogInv, Init, At, NewRequest, Range, Fixed
<1>5. QED
  BY <1>2, <1>3, <1>4 DEF SessionInv

LEMMA SessionInvNext == SessionInv /\ [Next]_vars => SessionInv'
<1> SUFFICES ASSUME SessionInv, [Next]_vars PROVE SessionInv'
  OBVIOUS
<1>1. CASE Next
  <2>1. PICK r \in Requests :
          \/ BeginSupplied(r) \/ BeginRouted(r) \/ Classified(r) \/ Updated(r) \/ Handled(r)
          \/ Fail(r) \/ StaticReply(r) \/ StaticDone(r) \/ OpenStream(r) \/ StreamEvent(r)
          \/ StreamDone(r) \/ Record(r) \/ StreamFails(r) \/ Disconnect(r)
    BY <1>1 DEF Next
  <2>2. Steps(r)
    BY <2>1, BeginSuppliedSteps, ClassifiedSteps, UpdatedSteps, HandledSteps,
       StaticReplySteps, RecordSteps, QuietSteps
  <2>3. QED
    BY <2>2, StepsKeepInv
<1>2. CASE UNCHANGED vars
  BY <1>2 DEF vars, session, memory, SessionInv, TypeOK, LogInv, At
<1>3. QED
  BY <1>1, <1>2

(* The inductive invariant of AgentService.                                 *)
THEOREM SessionInvariant == Spec => []SessionInv
BY SessionInvInit, SessionInvNext, PTL DEF Spec

(* The session, the memory and the requests of AgentService keep their      *)
(* types; a request at a handler has resolved a mode that has one.          *)
THEOREM SessionTypeCorrect == Spec => []TypeOK
<1>1. SessionInv => TypeOK
  BY DEF SessionInv
<1>2. QED
  BY <1>1, SessionInvariant, PTL

(* Only requests that replied, and streams that sent a fixed text, also if  *)
(* their client left then, are in the memory's log; each of those streams   *)
(* and every reply of chat_full is.                                         *)
THEOREM OnlyAnswersRememberedAlways == Spec => []OnlyAnswersRemembered
<1>1. SessionInv => OnlyAnswersRemembered
  BY DEF SessionInv, LogInv, OnlyAnswersRemembered, FixedTextSent, Fixed
<1>2. QED
  BY <1>1, SessionInvariant, PTL

(* chat_full answers in the mode it resolved for the request, however many  *)
(* others switch the shared session meanwhile.                              *)
THEOREM RepliesInResolvedModeAlways == Spec => []RepliesInResolvedMode
<1>1. SessionInv => RepliesInResolvedMode
  BY DEF SessionInv, Sound, RepliesInResolvedMode, At
<1>2. QED
  BY <1>1, SessionInvariant, PTL

-----------------------------------------------------------------------------
(* The memory is a window of the log                                        *)

(* Window says of t, element by element, what IsWindow says of it with n.   *)
Window(t, whole, n) ==
  /\ Len(t) <= MaxTurns
  /\ n \in Len(t)..Len(whole)
  /\ \A k \in 1..Len(t) : t[k] = whole[n - Len(t) + k]
  /\ Len(t) < MaxTurns => Len(t) = n

(* The entries of a log up to one of them, as many as one likes.            *)
LEMMA LatestEntries ==
  ASSUME NEW S, NEW s \in Seq(S), NEW n \in 0..Len(s), NEW m \in 0..n
  PROVE  /\ SubSeq(s, n - m + 1, n) \in Seq(S)
         /\ Len(SubSeq(s, n - m + 1, n)) = m
         /\ \A k \in 1..m : SubSeq(s, n - m + 1, n)[k] = s[n - m + k]
<1> DEFINE first == n - m + 1
<1>1. Len(s) \in Nat /\ n \in Int /\ m \in Int /\ first \in Int /\ first >= 1
  OBVIOUS
<1>2. \A i \in first..n : s[i] \in S
  BY <1>1
<1> HIDE DEF first
<1>3. /\ SubSeq(s, first, n) \in Seq(S)
      /\ Len(SubSeq(s, first, n)) = IF first <= n THEN n - first + 1 ELSE 0
      /\ \A i \in 1..(n - first + 1) : SubSeq(s, first, n)[i] = s[first + i - 1]
  BY <1>1, <1>2, SubSeqProperties
<1>4. QED
  BY <1>1, <1>3 DEF first

(* A sequence that agrees with the entries of a log is those entries.       *)
LEMMA WindowIsSubSeq ==
  ASSUME NEW S, NEW t \in Seq(S), NEW whole \in Seq(S), NEW n, Window(t, whole, n)
  PROVE  t = SubSeq(whole, n - Len(t) + 1, n)
<1> DEFINE latest == SubSeq(whole, n - Len(t) + 1, n)
<1>1. Len(t) \in Nat /\ Len(whole) \in Nat
  OBVIOUS
<1>2. n \in 0..Len(whole) /\ Len(t) \in 0..n
  BY <1>1 DEF Window
<1>3. /\ latest \in Seq(S)
      /\ Len(latest) = Len(t)
      /\ \A k \in 1..Len(t) : latest[k] = whole[n - Len(t) + k]
  BY <1>2, LatestEntries
<1> HIDE DEF latest
<1>4. \A k \in 1..Len(t) : t[k] = latest[k]
  BY <1>3 DEF Window
<1>5. t = latest
  BY <1>3, <1>4, SeqEqual
<1>6. QED
  BY <1>5 DEF latest

(* A window of the log is a window of the log with another turn.            *)
LEMMA WindowStays ==
  ASSUME NEW t \in Seq(Requests), NEW whole \in Seq(Requests), NEW n,
         NEW e \in Requests, Window(t, whole, n)
  PROVE  Window(t, Append(whole, e), n)
<1>1. /\ Len(Append(whole, e)) = Len(whole) + 1
      /\ \A i \in 1..Len(whole) : Append(whole, e)[i] = whole[i]
  BY AppendProperties
<1>2. Len(t) \in Nat /\ Len(whole) \in Nat /\ n \in Nat /\ Len(t) <= n /\ n <= Len(whole)
  BY DEF Window
<1>3. \A k \in 1..Len(t) : n - Len(t) + k \in 1..Len(whole)
  BY <1>2
<1>4. QED
  BY <1>1, <1>2, <1>3 DEF Window

(* Adding a turn keeps the memory the latest turns of the log.              *)
LEMMA AddTurnWindow ==
  ASSUME TypeOK, NEW r \in Requests, AddTurn(r), Window(turns, log, Len(log))
  PROVE  Window(turns', log', Len(log'))
<1> DEFINE added == Append(turns, r)
<1>1. turns \in Seq(Requests) /\ log \in Seq(Requests) /\ MaxTurns \in Nat \ {0}
  BY SessionAssumption DEF TypeOK
<1>2. /\ added \in Seq(Requests)
      /\ Len(added) = Len(turns) + 1
      /\ \A i \in 1..Len(turns) : added[i] = turns[i]
      /\ added[Len(turns) + 1] = r
  BY <1>1, AppendProperties
<1>3. /\ log' \in Seq(Requests)
      /\ Len(log') = Len(log) + 1
      /\ \A i \in 1..Len(log) : log'[i] = log[i]
      /\ log'[Len(log) + 1] = r
  BY <1>1, AppendProperties DEF AddTurn
<1>4. /\ Len(turns) \in Nat /\ Len(log) \in Nat
      /\ Len(turns) <= Len(log)
      /\ Len(turns) <= MaxTurns
      /\ Len(turns) < MaxTurns => Len(turns) = Len(log)
      /\ \A k \in 1..Len(turns) : turns[k] = log[Len(log) - Len(turns) + k]
  BY <1>1 DEF Window
<1>5. turns' = IF Len(added) > MaxTurns
               THEN SubSeq(added, Len(added) - MaxTurns + 1, Len(added)) ELSE added
  BY DEF AddTurn
<1> HIDE DEF added
<1>6. \A k \in 1..Len(added) : added[k] = log'[Len(log') - Len(added) + k]
  <2> SUFFICES ASSUME NEW k \in 1..Len(added)
               PROVE  added[k] = log'[Len(log') - Len(added) + k]
    OBVIOUS
  <2>1. CASE k \in 1..Len(turns)
    <3>1. Len(log) - Len(turns) + k \in 1..Len(log)
      BY <1>4, <2>1
    <3>2. Len(log') - Len(added) + k = Len(log) - Len(turns) + k
      BY <1>2, <1>3, <1>4
    <3>3. QED
      BY <1>2, <1>3, <1>4, <2>1, <3>1, <3>2
  <2>2. CASE k = Len(turns) + 1
    <3>1. Len(log') - Len(added) + k = Len(log) + 1
      BY <1>2, <1>3, <1>4, <2>2
    <3>2. QED
      BY <1>2, <1>3, <2>2, <3>1
  <2>3. QED
    BY <1>2, <1>4, <2>1, <2>2
<1>7. CASE Len(added) > MaxTurns
  <2>1. Len(added) \in 0..Len(added) /\ MaxTurns \in 0..Len(added) /\ Len(turns) = MaxTurns
    BY <1>1, <1>2, <1>4, <1>7
  <2>2. /\ turns' \in Seq(Requests)
        /\ Len(turns') = MaxTurns
        /\ \A k \in 1..MaxTurns : turns'[k] = added[Len(added) - MaxTurns + k]
    BY <1>2, <1>5, <1>7, <2>1, LatestEntries
  <2>3. \A k \in 1..MaxTurns : turns'[k] = log'[Len(log') - MaxTurns + k]
    <3> SUFFICES ASSUME NEW k \in 1..MaxTurns
                 PROVE  turns'[k] = log'[Len(log') - MaxTurns + k]
      OBVIOUS
    <3> DEFINE i == Len(added) - MaxTurns + k
    <3>1. i \in 1..Len(added)
      BY <1>1, <1>2, <1>4, <2>1
    <3>2. turns'[k] = added[i]
      BY <2>2
    <3>3. Len(log') - Len(added) + i = Len(log') - MaxTurns + k
      BY <1>1, <1>2, <1>3, <1>4
    <3>4. added[i] = log'[Len(log') - Len(added) + i]
      BY <1>6, <3>1
    <3>5. QED
      BY <3>2, <3>3, <3>4
  <2>4. QED
    BY <1>1, <1>3, <1>4, <2>1, <2>2, <2>3 DEF Window
<1>8. CASE ~(Len(added) > MaxTurns)
  <2>1. turns' = added /\ Len(added) = Len(log') /\ Len(added) <= MaxTurns
    BY <1>1, <1>2, <1>3, <1>4, <1>5, <1>8
  <2>2. QED
    BY <1>2, <1>3, <1>4, <1>6, <2>1 DEF Window
<1>9. QED
  BY <1>7, <1>8

(* What a step does to the memory and to the histories: a request that has  *)
(* not told its answer may add its turn, and a request may read the memory.         *)
Remembers ==
  /\ \/ UNCHANGED memory
     \/ \E r \in Requests : req[r].pc \notin Told /\ AddTurn(r)
  /\ \A q \in Requests : req'[q].history \in {req[q].history, turns}

(* Every step does no more than that.                                       *)
LEMMA StepRemembers ==
  ASSUME SessionInv, [Next]_vars
  PROVE  Remembers
<1>1. req \in [Requests -> Locals]
  BY DEF SessionInv, TypeOK
<1>2. CASE UNCHANGED vars
  BY <1>2 DEF vars, Remembers
<1>3. ASSUME NEW r \in Requests, NEW intent, NEW history \in {req[r].history, turns},
             req[r].pc \in {"new", "classifying"}, Resolve(r, intent, history)
      PROVE  Remembers
  <2>1. \A q \in Requests : req'[q].history \in {req[q].history, turns}
    BY <1>1, <1>3 DEF Resolve, Locals
  <2>2. QED
    BY <1>3, <2>1 DEF Remembers, Resolve, Told
<1>4. ASSUME NEW r \in Requests, BeginSupplied(r) PROVE Remembers
  BY <1>3, <1>4 DEF BeginSupplied, At
<1>5. ASSUME NEW r \in Requests, Classified(r) PROVE Remembers
  BY <1>3, <1>5 DEF Classified, At
<1>6. ASSUME NEW r \in Requests, Handled(r) \/ StaticReply(r) \/ Record(r)
      PROVE  Remembers
  <2>1. \A q \in Requests : req'[q].history = req[q].history
    <3>1. CASE Handled(r)
      BY <1>1, <3>1 DEF Handled, Locals
    <3>2. CASE StaticReply(r)
      BY <1>1, <3>2 DEF StaticReply, Locals
    <3>3. CASE Record(r)
      BY <1>1, <3>3 DEF Record, Locals
    <3>4. QED
      BY <1>6, <3>1, <3>2, <3>3
  <2>2. req[r].pc \notin Told /\ (AddTurn(r) \/ UNCHANGED memory)
    BY <1>6 DEF Handled, StaticReply, Record, At, Told
  <2>3. QED
    BY <2>1, <2>2 DEF Remembers
<1>7. ASSUME NEW r \in Requests,
             \/ BeginRouted(r) \/ Updated(r) \/ Fail(r) \/ StaticDone(r) \/ OpenStream(r)
             \/ StreamDone(r) \/ StreamFails(r) \/ Disconnect(r)
      PROVE  Remembers
  <2>1. CASE BeginRouted(r)
    BY <1>1, <2>1 DEF BeginRouted, Remembers, Locals
  <2>2. CASE Updated(r)
    BY <1>1, <2>2 DEF Updated, Prepared, Remembers, Locals
  <2>3. CASE Fail(r)
    BY <1>1, <2>3 DEF Fail, Remembers, Locals
  <2>4. CASE OpenStream(r)
    BY <1>1, <2>4 DEF OpenStream, Remembers, Locals
  <2>5. CASE StreamDone(r)
    BY <1>1, <2>5 DEF StreamDone, LastEvent, Remembers, Locals
  <2>6. CASE Disconnect(r)
    BY <1>1, <2>6 DEF Disconnect, Remembers, Locals
  <2>7. CASE StreamFails(r)
    BY <1>1, <2>7 DEF StreamFails, Remembers, Locals
  <2>8. CASE StaticDone(r)
    BY <1>1, <2>8 DEF StaticDone, Remembers, Locals
  <2>9. QED
    BY <1>7, <2>1, <2>2, <2>3, <2>4, <2>5, <2>6, <2>7, <2>8
<1>8. ASSUME NEW r \in Requests, StreamEvent(r) PROVE Remembers
  BY <1>1, <1>8 DEF StreamEvent, Remembers, Locals
<1>9. QED
  BY <1>2, <1>4, <1>5, <1>6, <1>7, <1>8 DEF Next

(* The memory is the latest turns of the log, every history was the memory  *)
(* when the log had its first n turns, and no request is in the log twice.  *)
WindowInv ==
  /\ Window(turns, log, Len(log))
  /\ \A r \in Requests : \E n \in Nat : Window(req[r].history, log, n)
  /\ IsInjective(log)

(* At the start everything is empty.                                        *)
LEMMA WindowInvInit == Init => WindowInv
<1> SUFFICES ASSUME Init PROVE WindowInv
  OBVIOUS
<1>1. Window(<<>>, <<>>, 0) /\ Len(<<>>) = 0
  BY SessionAssumption DEF Window
<1>2. \A r \in Requests : req[r].history = <<>>
  BY DEF Init, NewRequest
<1>3. QED
  BY <1>1, <1>2 DEF WindowInv, Init, IsInjective

(* A turn is added once: only a request that has not told its answer adds   *)
(* one, and those in the log have.                                          *)
LEMMA WindowInvNext == SessionInv /\ WindowInv /\ [Next]_vars => WindowInv'
<1> SUFFICES ASSUME SessionInv, WindowInv, [Next]_vars PROVE WindowInv'
  OBVIOUS
<1>1. Remembers
  BY StepRemembers
<1>2. /\ turns \in Seq(Requests) /\ log \in Seq(Requests)
      /\ \A q \in Requests : req[q].history \in Seq(Requests)
      /\ Len(log) \in Nat
  BY DEF SessionInv, TypeOK, Locals
<1>3. CASE UNCHANGED memory
  <2>1. turns' = turns /\ log' = log
    BY <1>3 DEF memory
  <2>2. QED
    BY <1>1, <1>2, <2>1 DEF Remembers, WindowInv
<1>4. CASE \E r \in Requests : req[r].pc \notin Told /\ AddTurn(r)
  <2>1. PICK r \in Requests : req[r].pc \notin Told /\ AddTurn(r)
    BY <1>4
  <2>2. log' = Append(log, r)
    BY <2>1 DEF AddTurn
  <2>3. Window(turns', log', Len(log'))
    BY <2>1, AddTurnWindow DEF SessionInv, WindowInv
  <2>4. \A q \in Requests : \E n \in Nat : Window(req'[q].history, log', n)
    <3> SUFFICES ASSUME NEW q \in Requests
                 PROVE  \E n \in Nat : Window(req'[q].history, log', n)
      OBVIOUS
    <3>1. req'[q].history \in Seq(Requests)
      BY <1>1, <1>2 DEF Remembers
    <3>2. PICK n \in Nat : Window(req'[q].history, log, n)
      BY <1>1, <1>2 DEF Remembers, WindowInv
    <3>3. QED
      BY <1>2, <2>2, <3>1, <3>2, WindowStays
  <2>5. r \notin Range(log)
    BY <2>1 DEF SessionInv, LogInv, Sound, Told, At
  <2>6. IsInjective(log')
    <3>1. /\ Len(log') = Len(log) + 1
          /\ \A i \in 1..Len(log) : log'[i] = log[i]
          /\ log'[Len(log) + 1] = r
          /\ DOMAIN log = 1..Len(log)
          /\ DOMAIN log' = 1..(Len(log) + 1)
      BY <1>2, <2>2, AppendProperties
    <3>2. \A i \in 1..Len(log) : log[i] # r
      BY <2>5, <3>1 DEF Range
    <3>3. QED
      BY <1>2, <3>1, <3>2 DEF WindowInv, IsInjective
  <2>7. QED
    BY <2>3, <2>4, <2>6 DEF WindowInv
<1>5. QED
  BY <1>1, <1>3, <1>4 DEF Remembers

(* However the requests interleave at their awaits, the memory holds the    *)
(* latest turns of one log, in which no request is twice, and the history   *)
(* in the prompts of a request is what the memory was at one moment.        *)
THEOREM MemoryIsWindowAlways == Spec => []MemoryIsWindow
<1>1. ASSUME NEW t \in Seq(Requests), NEW whole \in Seq(Requests), NEW n \in Nat,
             Window(t, whole, n)
      PROVE  IsWindow(t, whole)
  <2>1. t = SubSeq(whole, n - Len(t) + 1, n)
    BY <1>1, WindowIsSubSeq
  <2>2. QED
    BY <1>1, <2>1 DEF Window, IsWindow
<1>2. SessionInv /\ WindowInv => MemoryIsWindow
  <2> SUFFICES ASSUME SessionInv, WindowInv PROVE MemoryIsWindow
    OBVIOUS
  <2>1. /\ turns \in Seq(Requests) /\ log \in Seq(Requests)
        /\ \A q \in Requests : req[q].history \in Seq(Requests)
        /\ Len(log) \in Nat
    BY DEF SessionInv, TypeOK, Locals
  <2>2. IsWindow(turns, log) /\ turns = SubSeq(log, Len(log) - Len(turns) + 1, Len(log))
    BY <1>1, <2>1, WindowIsSubSeq DEF WindowInv
  <2>3. \A r \in Requests : IsWindow(req[r].history, log)
    BY <1>1, <2>1 DEF WindowInv
  <2>4. QED
    BY <2>2, <2>3 DEF WindowInv, MemoryIsWindow
<1>3. QED
  BY <1>2, SessionInvariant, WindowInvInit, WindowInvNext, PTL DEF Spec

-----------------------------------------------------------------------------
(* The states of the modes                                                  *)

(* Where a request is that has stored no state yet.                         *)
Before == {"new", "classifying", "updating", "static", "telling"}

(* Where it is once it has, as long as it is at its handler.                *)
After == {"handling", "ready", "streaming", "sent"}

(* What a request knows of the states: what it read was written for its     *)
(* mode, and not before its own update.                                     *)
Reads(q, local) ==
  /\ local.older \subseteq written
  /\ local.pc \in Before => q \notin written
  /\ local.pc \in After => q \in written
  /\ local.pc \in After \ {"ready"} => local.used # Nobody
  /\ local.used # Nobody =>
       /\ q \in written
       /\ local.used \in written \ local.older
       /\ req[local.used].resolved = local.resolved
  /\ q \notin Streamed => local.used \in {Nobody, q}

(* The state of a mode is of the last request that wrote it, which is in    *)
(* this mode: for no other one that wrote it was it there before.           *)
StatesInv ==
  /\ \A m \in Handlers : states[m] # Nobody =>
       states[m] \in written /\ req[states[m]].resolved = m
  /\ \A q \in written :
       /\ req[q].resolved \in Handlers
       /\ states[req[q].resolved] \in written \ req[q].older

FreshInv ==
  /\ StatesInv
  /\ \A q \in Requests : Reads(q, req[q])

LEMMA FreshInvInit == Init => FreshInv
<1> SUFFICES ASSUME Init PROVE FreshInv
  OBVIOUS
<1>1. \A q \in Requests : req[q] = NewRequest
  BY DEF Init
<1>2. written = {} /\ \A m \in Handlers : states[m] = Nobody
  BY DEF Init
<1>3. QED
  BY <1>1, <1>2 DEF FreshInv, StatesInv, Reads, NewRequest, After

(* A step that writes no state, and after which the request has read what   *)
(* it had, or the state of its mode.                                        *)
LEMMA FreshKept ==
  ASSUME SessionInv, FreshInv, NEW r \in Requests, NEW local \in Locals,
         req' = [req EXCEPT ![r] = local], UNCHANGED <<states, written>>,
         local.older = req[r].older,
         local.resolved = req[r].resolved \/ r \notin written,
         \/ local.used = req[r].used
         \/ r \in written /\ r \in Streamed /\ local.used = states[req[r].resolved],
         local.pc \in Before => req[r].pc \in Before,
         local.pc \in After => req[r].pc \in After,
         local.pc \in After \ {"ready"} =>
           req[r].pc \in After \ {"ready"} \/ local.used = states[req[r].resolved]
  PROVE  FreshInv'
<1>1. /\ req \in [Requests -> Locals]
      /\ written \subseteq Requests
      /\ req'[r] = local
      /\ \A q \in Requests : q # r => req'[q] = req[q]
      /\ Nobody \notin Requests
  BY SessionAssumption DEF SessionInv, TypeOK
<1>2. \A q \in written : req'[q].resolved = req[q].resolved
  BY <1>1
<1>3. \A q \in Requests : req'[q].older = req[q].older
  BY <1>1
<1>4. StatesInv'
  BY <1>1, <1>2, <1>3 DEF FreshInv, StatesInv
<1>5. ASSUME NEW q \in Requests \ {r} PROVE Reads(q, req[q])'
  <2>1. Reads(q, req[q]) /\ req'[q] = req[q]
    BY <1>1, <1>5 DEF FreshInv
  <2>2. req[q].used # Nobody => req'[req[q].used].resolved = req[req[q].used].resolved
    BY <1>2, <2>1 DEF Reads
  <2>3. QED
    BY <2>1, <2>2 DEF Reads
<1>6. Reads(r, req[r])'
  <2>1. Reads(r, req[r])
    BY DEF FreshInv
  <2>2. r \in written => states[req[r].resolved] \in written \ req[r].older
                         /\ req[states[req[r].resolved]].resolved = req[r].resolved
    BY <1>1 DEF FreshInv, StatesInv
  <2>3. CASE r \in written
    <3>1. local.used # Nobody =>
            local.used \in written \ local.older /\ req[local.used].resolved = local.resolved
      BY <2>1, <2>2, <2>3 DEF Reads
    <3>2. local.used # Nobody => req'[local.used].resolved = local.resolved
      BY <1>2, <3>1
    <3>3. local.pc \in After \ {"ready"} => local.used # Nobody
      BY <1>1, <2>1, <2>2, <2>3 DEF Reads
    <3>4. QED
      BY <1>1, <2>1, <2>3, <3>1, <3>2, <3>3 DEF Reads
  <2>4. CASE r \notin written
    <3>1. local.used = Nobody /\ local.pc \notin After
      BY <2>1, <2>4 DEF Reads
    <3>2. QED
      BY <1>1, <2>1, <2>4, <3>1 DEF Reads
  <2>5. QED
    BY <2>3, <2>4
<1>7. QED
  BY <1>4, <1>5, <1>6 DEF FreshInv

(* The update of a mode state: none of the requests that wrote before has   *)
(* this one among those before it.                                          *)
LEMMA FreshUpdated ==
  ASSUME SessionInv, FreshInv, NEW r \in Requests, Updated(r)
  PROVE  FreshInv'
<1>1. /\ req \in [Requests -> Locals]
      /\ written \subseteq Requests
      /\ req[r].pc = "updating"
      /\ req[r].resolved \in Handlers
      /\ states \in [Handlers -> Requests \cup {Nobody}]
      /\ Nobody \notin Requests
  BY SessionAssumption DEF SessionInv, TypeOK, Sound, Updated, At
<1>2. r \notin written /\ req[r].used = Nobody
  BY <1>1 DEF FreshInv, Reads, Before
<1>3. /\ states' = [states EXCEPT ![req[r].resolved] = r]
      /\ written' = written \cup {r}
  BY DEF Updated
<1>4. PICK local \in Locals :
        /\ req' = [req EXCEPT ![r] = local]
        /\ local.older = written /\ local.resolved = req[r].resolved
        /\ IF r \in Streamed THEN local.pc = "ready" /\ local.used = Nobody
           ELSE local.pc = "handling" /\ local.used = r
  <2> DEFINE base == [req[r] EXCEPT !.older = written]
             local == IF r \in Streamed THEN [base EXCEPT !.pc = "ready"]
                      ELSE [base EXCEPT !.pc = "handling", !.used = states'[req[r].resolved]]
  <2>1. states'[req[r].resolved] = r
    BY <1>1, <1>3
  <2>5. req[r] \in Locals
    BY <1>1
  <2>6. local \in Locals
    BY <1>1, <2>1, <2>5 DEF Locals, PCs
  <2>7. req' = [req EXCEPT ![r] = local]
    BY DEF Updated, Prepared
  <2>2. local \in Locals /\ req' = [req EXCEPT ![r] = local]
    BY <2>6, <2>7
  <2>3. /\ local.older = written /\ local.resolved = req[r].resolved
        /\ IF r \in Streamed THEN local.pc = "ready" /\ local.used = Nobody
           ELSE local.pc = "handling" /\ local.used = r
    BY <1>1, <1>2, <2>1 DEF Locals
  <2>4. QED
    BY <2>2, <2>3
<1>5. req'[r] = local /\ \A q \in Requests : q # r => req'[q] = req[q]
  BY <1>1, <1>4
<1>6. \A q \in Requests : req'[q].resolved = req[q].resolved
  BY <1>4, <1>5
<1>7. \A m \in Handlers : states'[m] = IF m = req[r].resolved THEN r ELSE states[m]
  BY <1>1, <1>3
<1>8. StatesInv'
  <2>1. ASSUME NEW m \in Handlers, states'[m] # Nobody
        PROVE  states'[m] \in written' /\ req'[states'[m]].resolved = m
    BY <1>1, <1>3, <1>6, <1>7, <2>1 DEF FreshInv, StatesInv
  <2>2. ASSUME NEW q \in written'
        PROVE  /\ req'[q].resolved \in Handlers
               /\ states'[req'[q].resolved] \in written' \ req'[q].older
    <3>1. CASE q = r
      BY <1>1, <1>2, <1>3, <1>4, <1>5, <1>7, <3>1
    <3>2. CASE q # r
      <4>1. q \in written /\ q \in Requests /\ req'[q] = req[q] /\ r \notin req[q].older
        BY <1>1, <1>2, <1>3, <1>5, <2>2, <3>2 DEF FreshInv, Reads
      <4>2. /\ req[q].resolved \in Handlers
            /\ states[req[q].resolved] \in written \ req[q].older
        BY <4>1 DEF FreshInv, StatesInv
      <4>3. QED
        BY <1>3, <1>7, <4>1, <4>2
    <3>3. QED
      BY <3>1, <3>2
  <2>3. QED
    BY <2>1, <2>2 DEF StatesInv
<1>9. ASSUME NEW q \in Requests PROVE Reads(q, req[q])'
  <2>1. CASE q = r
    BY <1>1, <1>2, <1>3, <1>4, <1>5, <1>6, <2>1 DEF Reads, Before, After
  <2>2. CASE q # r
    <3>1. Reads(q, req[q]) /\ req'[q] = req[q]
      BY <1>5, <2>2 DEF FreshInv
    <3>2. req[q].used # Nobody => req'[req[q].used].resolved = req[req[q].used].resolved
      BY <1>1, <1>6, <3>1 DEF Reads
    <3>3. QED
      BY <1>3, <2>2, <3>1, <3>2 DEF Reads
  <2>3. QED
    BY <2>1, <2>2
<1>10. QED
  BY <1>8, <1>9 DEF FreshInv

(* The request that moves, by its locals after the step.                    *)
LEMMA FreshSteps ==
  ASSUME SessionInv, FreshInv, NEW r \in Requests,
         \/ BeginSupplied(r) \/ BeginRouted(r) \/ Classified(r) \/ Handled(r)
         \/ Fail(r) \/ StaticReply(r) \/ StaticDone(r) \/ OpenStream(r) \/ StreamEvent(r)
         \/ StreamDone(r) \/ Record(r) \/ StreamFails(r) \/ Disconnect(r)
  PROVE  FreshInv'
<1>1. req \in [Requests -> Locals] /\ req[r] \in Locals /\ Reads(r, req[r])
  BY DEF SessionInv, TypeOK, FreshInv
<1>2. UNCHANGED <<states, written>>
  BY DEF BeginSupplied, BeginRouted, Classified, Resolve, Handled, Fail, StaticReply, StaticDone,
         OpenStream, StreamEvent, StreamDone, Record, StreamFails, Disconnect, session
<1>3. Steps(r)
  BY BeginSuppliedSteps, ClassifiedSteps, HandledSteps, StaticReplySteps, RecordSteps, QuietSteps
<1>4. PICK local \in Locals : req' = [req EXCEPT ![r] = local]
  BY <1>3 DEF Steps, MovesTo
<1>5. req'[r] = local
  BY <1>1, <1>4
<1>6. CASE OpenStream(r)
  <2>1. /\ req[r].pc = "ready" /\ r \in written /\ r \in Streamed
        /\ local.pc = "streaming" /\ local.used = states[req[r].resolved]
        /\ local.older = req[r].older /\ local.resolved = req[r].resolved
    BY <1>1, <1>5, <1>6 DEF OpenStream, At, Locals, Reads, After, Sound, SessionInv
  <2>2. QED
    BY <1>2, <1>4, <2>1, FreshKept DEF Before, After
<1>7. CASE BeginSupplied(r) \/ Classified(r)
  <2>1. PICK intent, history : Resolve(r, intent, history)
    BY <1>7 DEF BeginSupplied, Classified
  <2>2. req[r].pc \in {"new", "classifying"} /\ r \notin written
    BY <1>1, <1>7 DEF BeginSupplied, Classified, At, Reads, Before
  <2>3. /\ local.pc \in {"updating", "static", "replied"}
        /\ local.older = req[r].older /\ local.used = req[r].used
    BY <1>1, <1>5, <2>1 DEF Resolve, Locals
  <2>4. QED
    BY <1>2, <1>4, <2>2, <2>3, FreshKept DEF Before, After
<1>8. CASE BeginRouted(r) \/ StaticReply(r)
  <2>1. /\ req[r].pc \in {"new", "static"} /\ local.pc \in {"classifying", "telling"}
        /\ local.older = req[r].older /\ local.used = req[r].used
        /\ local.resolved = req[r].resolved
    BY <1>1, <1>5, <1>8 DEF BeginRouted, StaticReply, At, Locals
  <2>2. QED
    BY <1>2, <1>4, <2>1, FreshKept DEF Before, After
<1>9. CASE Handled(r) \/ Fail(r) \/ StaticDone(r) \/ Record(r) \/ StreamFails(r) \/ Disconnect(r)
  <2>1. /\ local.pc \in {"replied", "failed", "gone"}
        /\ local.older = req[r].older /\ local.used = req[r].used
        /\ local.resolved = req[r].resolved
    BY <1>1, <1>5, <1>9 DEF Handled, Fail, StaticDone, Record, StreamFails, Disconnect, Locals
  <2>2. QED
    BY <1>2, <1>4, <2>1, FreshKept DEF Before, After
<1>10. CASE StreamEvent(r)
  <2>1. PICK token \in BOOLEAN :
          req' = [req EXCEPT ![r].events = @ + 1, ![r].tokens = @ \/ token,
                             ![r].job = "known", ![r].labels = @ \cup {active}]
    BY <1>10 DEF StreamEvent
  <2>2. /\ local.pc = req[r].pc /\ local.older = req[r].older /\ local.used = req[r].used
        /\ local.resolved = req[r].resolved
    BY <1>1, <1>5, <2>1 DEF Locals
  <2>3. req[r].pc = "streaming"
    BY <1>10 DEF StreamEvent, At
  <2>4. QED
    BY <1>2, <1>4, <2>2, <2>3, FreshKept DEF Before, After
<1>12. CASE StreamDone(r)
  <2>1. /\ req[r].pc = "streaming" /\ local.pc = "sent"
        /\ local.older = req[r].older /\ local.used = req[r].used
        /\ local.resolved = req[r].resolved
    BY <1>1, <1>5, <1>12 DEF StreamDone, LastEvent, At, Locals
  <2>2. QED
    BY <1>2, <1>4, <2>1, FreshKept DEF Before, After
<1>11. QED
  BY <1>6, <1>7, <1>8, <1>9, <1>10, <1>12

LEMMA FreshInvNext == SessionInv /\ FreshInv /\ [Next]_vars => FreshInv'
<1> SUFFICES ASSUME SessionInv, FreshInv, [Next]_vars PROVE FreshInv'
  OBVIOUS
<1>step. CASE Next
  BY <1>step, FreshSteps, FreshUpdated DEF Next
<1>stutter. CASE UNCHANGED vars
  BY <1>stutter DEF vars, session, FreshInv, StatesInv, Reads
<1>done. QED
  BY <1>step, <1>stutter

(* However many requests write the states of the shared session: every      *)
(* answer is built from a state of the mode of its request, which is not    *)
(* older than the request's own update, and chat_full's from its own.       *)
THEOREM AnswersFromFreshStateAlways == Spec => []AnswersFromFreshState
<1>1. FreshInv => AnswersFromFreshState
  BY DEF FreshInv, Reads, After, AnswersFromFreshState
<1>2. QED
  BY <1>1, SessionInvariant, FreshInvInit, FreshInvNext, PTL DEF Spec

=============================================================================
