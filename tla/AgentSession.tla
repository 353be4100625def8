---------------------------- MODULE AgentSession ----------------------------
(***************************************************************************)
(* AgentService (app/application/agent_service.py) with its intent router, *)
(* mode handlers and conversation memory.                                  *)
(*                                                                         *)
(* One AgentService serves every request of the API process: the session   *)
(* state and the memory are shared, and a request gives way to the others  *)
(* at each await of a call to the language model and at each event it      *)
(* yields. An action is the code between two such points.                  *)
(***************************************************************************)
EXTENDS Naturals, Sequences, FiniteSets, SequencesExt

CONSTANTS
  Requests,   \* chat requests
  Streamed,   \* those of /chat/stream, the others being of /chat
  Handlers,   \* the modes that have a handler
  General,    \* the mode that has none, in which a session starts
  NoMode,     \* no mode
  Supplied,   \* the mode each request names, or NoMode
  Nobody,     \* who wrote the initial state of a mode
  MaxTurns,   \* max_turns of the memory
  MaxEvents   \* bound: events of one stream before its last

Modes == Handlers \cup {General}

ASSUME SessionAssumption ==
  /\ Streamed \subseteq Requests
  /\ General \notin Handlers
  /\ NoMode \notin Modes
  /\ Supplied \in [Requests -> Modes \cup {NoMode}]
  /\ Nobody \notin Requests
  /\ MaxTurns \in Nat \ {0}
  /\ MaxEvents \in Nat

VARIABLES
  active,     \* session_state.active_mode
  previous,   \* session_state.previous_mode
  states,     \* the state of each mode, as the request whose update it is
  turns,      \* memory.turns, as the requests they answered
  log,        \* history: every turn ever added
  written,    \* history: the requests whose update of a state was stored
  req         \* the requests: where each one awaits, and its local variables

session == <<active, previous, states, written>>
memory == <<turns, log>>
vars == <<session, memory, req>>

NewRequest ==
  [pc |-> "new", history |-> <<>>, resolved |-> NoMode, used |-> Nobody,
   older |-> {}, events |-> 0, tokens |-> FALSE, job |-> "unknown", labels |-> {}]

Init ==
  /\ active = General
  /\ previous = NoMode
  /\ states = [m \in Handlers |-> Nobody]
  /\ turns = <<>>
  /\ log = <<>>
  /\ written = {}
  /\ req = [r \in Requests |-> NewRequest]

At(r, pc) == req[r].pc = pc

-----------------------------------------------------------------------------
(* ConversationMemory                                                       *)

(* Mutant: the oldest turns are kept instead of the latest.                 *)
AddTurn_KeepsOldest(r) ==
  /\ log' = Append(log, r)
  /\ turns' = IF Len(turns) < MaxTurns THEN Append(turns, r) ELSE turns

AddTurn(r) ==
  LET added == Append(turns, r)
  IN  /\ log' = Append(log, r)
      /\ turns' = IF Len(added) > MaxTurns
                  THEN SubSeq(added, Len(added) - MaxTurns + 1, Len(added))
                  ELSE added

-----------------------------------------------------------------------------
(* chat_full and chat_stream, up to the first await of a handler            *)

(* What the model router may answer. A low confidence counts only together  *)
(* with a clarification question.                                           *)
Intents == [mode: Modes, switch: BOOLEAN, clarify: BOOLEAN]
SuppliedIntent(r) == [mode |-> Supplied[r], switch |-> TRUE, clarify |-> FALSE]

(* IntentRouter.apply_intent                                                *)
Switches(intent) == intent.switch /\ intent.mode # active
ModeAfter(intent) == IF Switches(intent) THEN intent.mode ELSE active

(* A clarification and the answer of the general mode need no handler.      *)
Static(intent) == intent.clarify \/ ModeAfter(intent) = General

(* apply_intent, then a clarification, the general answer, or the handler   *)
(* of the mode.                                                             *)
Resolve(r, intent, history) ==
  LET mode == ModeAfter(intent)
      local == [req[r] EXCEPT !.history = history, !.resolved = mode]
  IN  /\ active' = mode
      /\ previous' = IF Switches(intent) THEN active ELSE previous
      /\ UNCHANGED <<states, written>>
      /\ req' = [req EXCEPT ![r] =
                   IF ~Static(intent)
                   THEN [local EXCEPT !.pc = "updating"]
                   ELSE IF r \in Streamed THEN [local EXCEPT !.pc = "static"]
                   ELSE [local EXCEPT !.pc = "replied", !.labels = {mode}]]
      /\ IF Static(intent) /\ r \notin Streamed THEN AddTurn(r) ELSE UNCHANGED memory

(* A request that names its mode is resolved without an await.              *)
BeginSupplied(r) ==
  /\ At(r, "new")
  /\ Supplied[r] # NoMode
  /\ Resolve(r, SuppliedIntent(r), turns)

BeginRouted(r) ==
  /\ At(r, "new")
  /\ Supplied[r] = NoMode
  /\ req' = [req EXCEPT ![r].pc = "classifying", ![r].history = turns]
  /\ UNCHANGED <<session, memory>>

Classified(r) ==
  /\ At(r, "classifying")
  /\ \E intent \in Intents : Resolve(r, intent, req[r].history)

-----------------------------------------------------------------------------
(* The handler: state update, then the answer                               *)

(* With the state updated, chat_full reads it for the prompt of its answer  *)
(* in the same breath; chat_stream hands a generator to the server. The     *)
(* requests that have stored a state by then are kept for the properties.   *)
Prepared(r, updated) ==
  LET local == [req[r] EXCEPT !.older = written]
  IN  IF r \in Streamed THEN [local EXCEPT !.pc = "ready"]
      ELSE [local EXCEPT !.pc = "handling", !.used = updated[req[r].resolved]]

(* update_session_state returns.                                            *)
Updated(r) ==
  /\ At(r, "updating")
  /\ states' = [states EXCEPT ![req[r].resolved] = r]
  /\ req' = [req EXCEPT ![r] = Prepared(r, states')]
  /\ written' = written \cup {r}
  /\ UNCHANGED <<active, previous, memory>>

(* Mutant: the answer is labelled with the mode the session is in by then.  *)
Handled_ActiveMode(r) ==
  /\ At(r, "handling")
  /\ req' = [req EXCEPT ![r].pc = "replied", ![r].labels = {active}]
  /\ AddTurn(r)
  /\ UNCHANGED session

(* Mutant: the prompt is built from the session when the model takes it.    *)
Handled_LateState(r) ==
  /\ At(r, "handling")
  /\ req' = [req EXCEPT ![r].pc = "replied", ![r].labels = {req[r].resolved},
                        ![r].used = states[req[r].resolved]]
  /\ AddTurn(r)
  /\ UNCHANGED session

Handled(r) ==
  /\ At(r, "handling")
  /\ req' = [req EXCEPT ![r].pc = "replied", ![r].labels = {req[r].resolved}]
  /\ AddTurn(r)
  /\ UNCHANGED session

(* A call to the language model raises.                                     *)
Fail(r) ==
  /\ req[r].pc \in {"classifying", "updating", "handling"}
  /\ req' = [req EXCEPT ![r].pc = "failed"]
  /\ UNCHANGED <<session, memory>>

-----------------------------------------------------------------------------
(* The generators of a stream                                               *)

(* _stream_static_response is asked for its first event: it adds the turn   *)
(* and yields the answer ...                                                *)
StaticReply(r) ==
  /\ At(r, "static")
  /\ req' = [req EXCEPT ![r].pc = "telling", ![r].labels = {req[r].resolved}]
  /\ AddTurn(r)
  /\ UNCHANGED session

(* ... and then the event that closes the stream.                           *)
StaticDone(r) ==
  /\ At(r, "telling")
  /\ req' = [req EXCEPT ![r].pc = "replied"]
  /\ UNCHANGED <<session, memory>>

(* _stream_handler_response is asked for its first event.                   *)
OpenStream(r) ==
  /\ At(r, "ready")
  /\ req' = [req EXCEPT ![r].pc = "streaming", ![r].used = states[req[r].resolved]]
  /\ UNCHANGED <<session, memory>>

(* An event of the job, with a token or not: it names the job, and the mode *)
(* put beside it is the one the session is in.                              *)
StreamEvent(r) ==
  /\ At(r, "streaming")
  /\ req[r].events < MaxEvents
  /\ \E token \in BOOLEAN :
       req' = [req EXCEPT ![r].events = @ + 1, ![r].tokens = @ \/ token,
                          ![r].job = "known", ![r].labels = @ \cup {active}]
  /\ UNCHANGED <<session, memory>>

LastEvent(r) ==
  [req[r] EXCEPT !.pc = "sent", !.job = "known", !.labels = @ \cup {active}]

(* Mutant: the turn is added before the closing event is passed on.         *)
StreamDone_RecordsFirst(r) ==
  /\ At(r, "streaming")
  /\ req' = [req EXCEPT ![r] = LastEvent(r)]
  /\ IF req[r].tokens THEN AddTurn(r) ELSE UNCHANGED memory
  /\ UNCHANGED session

(* The event that closes the stream, of a job that completed, failed or was *)
(* cancelled alike, is passed on ...                                        *)
StreamDone(r) ==
  /\ At(r, "streaming")
  /\ req' = [req EXCEPT ![r] = LastEvent(r)]
  /\ UNCHANGED <<session, memory>>

(* ... and then the turn is added, if there were tokens.                    *)
Record(r) ==
  /\ At(r, "sent")
  /\ req' = [req EXCEPT ![r].pc = "replied"]
  /\ IF req[r].tokens THEN AddTurn(r) ELSE UNCHANGED memory
  /\ UNCHANGED session

(* A stream that cannot be opened, or times out, ends with an error event,  *)
(* which carries no mode.                                                   *)
StreamFails(r) ==
  /\ At(r, "streaming")
  /\ req' = [req EXCEPT ![r].pc = "failed"]
  /\ UNCHANGED <<session, memory>>

(* The client leaves. The server cancels the request: inside the generator  *)
(* this arrives as CancelledError, on which it cancels the job if an event  *)
(* has named it; a generator that is not running is just closed.            *)
Disconnect(r) ==
  /\ req[r].pc \in {"static", "telling", "ready", "streaming", "sent"}
  /\ \E inside \in {FALSE, At(r, "streaming")} :
       req' = [req EXCEPT ![r].pc = "gone",
                          ![r].job = IF inside /\ @ = "known" THEN "cancelled" ELSE @]
  /\ UNCHANGED <<session, memory>>

Next ==
  \E r \in Requests :
    \/ BeginSupplied(r) \/ BeginRouted(r) \/ Classified(r) \/ Updated(r) \/ Handled(r)
    \/ Fail(r) \/ StaticReply(r) \/ StaticDone(r) \/ OpenStream(r) \/ StreamEvent(r)
    \/ StreamDone(r) \/ Record(r) \/ StreamFails(r) \/ Disconnect(r)

Spec == Init /\ [][Next]_vars

-----------------------------------------------------------------------------
(* Properties                                                               *)

PCs == {"new", "classifying", "updating", "handling", "ready", "static", "telling",
        "streaming", "sent", "replied", "failed", "gone"}

Locals ==
  [pc: PCs, history: Seq(Requests), resolved: Modes \cup {NoMode},
   used: Requests \cup {Nobody}, older: SUBSET Requests, events: Nat, tokens: BOOLEAN,
   job: {"unknown", "known", "cancelled"}, labels: SUBSET Modes]

(* The session and the requests are what the code makes them; a request     *)
(* past the router knows its mode, and one at a handler has one.            *)
TypeOK ==
  /\ active \in Modes
  /\ previous \in Modes \cup {NoMode}
  /\ states \in [Handlers -> Requests \cup {Nobody}]
  /\ turns \in Seq(Requests)
  /\ log \in Seq(Requests)
  /\ written \subseteq Requests
  /\ req \in [Requests -> Locals]
  /\ \A r \in Requests :
       /\ req[r].pc \in {"updating", "handling", "ready", "streaming", "sent"}
            => req[r].resolved \in Handlers
       /\ req[r].pc \in {"static", "telling"} => req[r].resolved \in Modes

(* A window of a log: its latest MaxTurns entries as of some moment.        *)
IsWindow(seq, whole) ==
  /\ Len(seq) <= MaxTurns
  /\ \E n \in Len(seq)..Len(whole) :
       /\ seq = SubSeq(whole, n - Len(seq) + 1, n)
       /\ Len(seq) < MaxTurns => Len(seq) = n

(* However the requests interleave: the memory holds the latest MaxTurns    *)
(* turns of one log, no request is in the log twice, and the history in the *)
(* prompts of a request is what the memory was at one moment.               *)
MemoryIsWindow ==
  /\ IsWindow(turns, log)
  /\ turns = SubSeq(log, Len(log) - Len(turns) + 1, Len(log))
  /\ \A r \in Requests : IsWindow(req[r].history, log)
  /\ IsInjective(log)

(* A stream that sent a fixed text, for which there is no job.              *)
FixedTextSent(r) == r \in Streamed /\ req[r].job = "unknown" /\ req[r].labels # {}

(* A request that raised, or whose client left before the end of a stream   *)
(* of the model's answer, leaves no turn in the history of the others, and  *)
(* every answer of /chat leaves one. (A stream closed by the failure of its *)
(* job does leave the text it had.) A stream of a fixed text leaves its     *)
(* turn from its first event on, also if the client leaves there.           *)
OnlyAnswersRemembered ==
  \A r \in Requests :
    /\ r \in Range(log) => At(r, "replied") \/ FixedTextSent(r)
    /\ FixedTextSent(r) => r \in Range(log)
    /\ r \notin Streamed /\ At(r, "replied") => r \in Range(log)

(* app/interfaces/api/models.py:57, "Optional mode override. Omit to let    *)
(* intent routing choose.": /chat answers in the mode resolved for the      *)
(* request, although other requests may have moved the shared session to    *)
(* another mode meanwhile.                                                  *)
RepliesInResolvedMode ==
  \A r \in Requests \ Streamed :
    At(r, "replied") =>
      /\ req[r].labels = {req[r].resolved}
      /\ Supplied[r] # NoMode => req[r].resolved = Supplied[r]

(* All requests write the states of one session, and an await separates the *)
(* update of one from its streamed answer. Still every answer is built from *)
(* a state of the mode the request was resolved to, and never from one that *)
(* is older than its own update; and /chat, which has no await there, never *)
(* answers from the state another request wrote.                            *)
AnswersFromFreshState ==
  \A r \in Requests :
    LET used == req[r].used
    IN  /\ req[r].pc \in {"handling", "streaming", "sent"} => used # Nobody
        /\ used # Nobody =>
             used \in written \ req[r].older /\ req[used].resolved = req[r].resolved
        /\ r \notin Streamed => used \in {Nobody, r}

(* app/interfaces/api/routes.py:277, 'Events are emitted as data: {"mode":  *)
(* "translation", "token": "..."}': every event of a stream carries the     *)
(* mode the request was resolved to.                                        *)
StreamCarriesItsMode ==
  \A r \in Streamed : req[r].labels \subseteq {req[r].resolved}

=============================================================================
