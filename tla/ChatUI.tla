------------------------------- MODULE ChatUI -------------------------------
(***************************************************************************)
(* One chat of the Web UI (webui/ui_app.py, webui/client.py): a message is *)
(* sent to the API as a stream of events or as one full request, and what  *)
(* arrives becomes one answer. The API is what routes.py and               *)
(* agent_service.py let it send; the connection between the two is a       *)
(* sequence of events that may break anywhere. Handlers of one chat run    *)
(* concurrently and share its response mode.                               *)
(***************************************************************************)
EXTENDS Naturals, Sequences, FiniteSets

CONSTANTS
  Messages,        \* messages of the user, retries included
  Modes,           \* MODE_OPTIONS
  StreamingModes,  \* STREAMING_MODES
  StreamingEnabled,\* WEBUI_STREAMING_ENABLED
  NoMode,          \* no starter; no retry action
  MaxTokens        \* bound: tokens of the stream of each message

ASSUME ChatAssumption ==
  /\ "auto" \in Modes \ StreamingModes /\ StreamingModes \subseteq Modes
  /\ NoMode \notin Modes
  /\ MaxTokens \in [Messages -> Nat]

VARIABLES
  mode,  \* the chat's selected_mode
  ui,    \* per message: its handler
  net,   \* per message: the response that is arriving
  api    \* per message: the API at work on it

vars == <<mode, ui, net, api>>

(* Why a request fails: the response has an error status, or is no JSON or  *)
(* without a text to show, or none comes in time. Each has its own notice.  *)
Rejections == {"error_status", "unusable"}
Failures == Rejections \cup {"no_answer"}

(* The text of a full response; the tokens of a stream are 1, 2, ...        *)
FullText == <<0>>

NewResponse == [state |-> "open", events |-> <<>>]
Broken == [state |-> "broken", events |-> <<>>]
Ended == [state |-> "ended", events |-> <<>>]

Notices ==
  {"none", "cancelled", "error", "interrupted", "incomplete", "streaming error"} \cup Failures

NewHandler ==
  [pc |-> "new", mode |-> NoMode, visible |-> {}, streamed |-> <<>>, shown |-> <<>>,
   buffer |-> <<>>, done |-> FALSE, notice |-> "none", retry |-> NoMode, switched |-> FALSE]

Init ==
  /\ mode = "auto"
  /\ ui = [m \in Messages |-> NewHandler]
  /\ net = [m \in Messages |-> Broken]
  /\ api = [m \in Messages |-> [pc |-> "gone", sent |-> 0, outcome |-> "none", turns |-> 0, asked |-> 0]]

-----------------------------------------------------------------------------
(* The user                                                                 *)

(* The API is sent no mode for "auto", and routes the message itself.       *)
ApiModeValue(selected) == IF selected = "auto" THEN NoMode ELSE selected

ShouldStream(selected) == StreamingEnabled /\ selected \in StreamingModes

(* The mode of the chat changes while the handlers in `others` are at work. *)
Select(handlers, selected) ==
  /\ mode' = selected
  /\ ui' = [m \in Messages |->
              [handlers[m] EXCEPT !.switched =
                 @ \/ (selected # mode /\ ui[m].pc \in {"streaming", "full"})]]

Ask(m, kind) ==
  /\ net' = [net EXCEPT ![m] = NewResponse]
  /\ api' = [api EXCEPT ![m].pc = kind, ![m].asked = @ + 1]

(* handle_user_text, up to the request: the mode is the chat's.             *)
HandleUserText(m) ==
  LET pc == IF ShouldStream(ApiModeValue(mode)) THEN "streaming" ELSE "full"
  IN  /\ ui' = [ui EXCEPT ![m].pc = pc, ![m].mode = mode, ![m].visible = {"status"}]
      /\ Ask(m, pc)
      /\ UNCHANGED mode

(* The command or the text of a starter names one of the streaming modes.   *)
StarterModes == StreamingModes

(* on_message; the mode of a starter becomes the chat's before it is read   *)
(* there, and others may change it in between.                              *)
OnMessage(m) ==
  /\ ui[m].pc = "new"
  /\ \/ HandleUserText(m)
     \/ \E starter \in StarterModes :
          /\ Select([ui EXCEPT ![m].pc = "selecting"], starter)
          /\ UNCHANGED <<net, api>>

(* on_retry_response: the action is removed, its mode becomes the chat's.   *)
OnRetry(m, answered) ==
  /\ ui[m].pc = "new" /\ ui[answered].retry # NoMode
  /\ Select([ui EXCEPT ![m].pc = "selecting", ![answered].retry = NoMode], ui[answered].retry)
  /\ UNCHANGED <<net, api>>

OnSelected(m) ==
  /\ ui[m].pc = "selecting"
  /\ HandleUserText(m)

(* on_settings_update, on_set_mode, and on_chat_start for "auto".           *)
SwitchMode(selected) ==
  /\ Select(ui, selected)
  /\ UNCHANGED <<net, api>>

-----------------------------------------------------------------------------
(* The API                                                                  *)

Put(m, event, state) ==
  net' = [net EXCEPT ![m] =
            IF @.state = "open" THEN [state |-> state, events |-> Append(@.events, event)] ELSE @]

(* validate_api_key, the schema of the request, and what is raised before   *)
(* the response begins, 429 of a saturated queue included: by chat_full, or *)
(* by chat_stream, which awaits the jobs of the classification and of the   *)
(* state update before it has a status. The streaming job itself is only    *)
(* enqueued after the status.                                               *)
ApiRejects(m) ==
  /\ api[m].pc \in {"streaming", "full"} /\ api[m].sent = 0
  /\ \E failure \in Rejections : Put(m, failure, "ended")
  /\ api' = [api EXCEPT ![m].pc = "gone"]
  /\ UNCHANGED <<mode, ui>>

ApiStatus(m) ==
  /\ api[m].pc = "streaming"
  /\ Put(m, "status", "open")
  /\ api' = [api EXCEPT ![m].pc = "started"]
  /\ UNCHANGED <<mode, ui>>

ApiToken(m) ==
  /\ api[m].pc = "started" /\ api[m].sent < MaxTokens[m]
  /\ Put(m, "token", "open")
  /\ api' = [api EXCEPT ![m].sent = @ + 1]
  /\ UNCHANGED <<mode, ui>>

(* The last event of a job, or that of _stream_handler_response when the    *)
(* stream raises, which remembers no turn.                                  *)
ApiLastEvent(m) ==
  /\ api[m].pc = "started"
  /\ \E last \in {"done", "cancelled", "error"}, raised \in BOOLEAN :
       /\ raised => last = "error"
       /\ Put(m, last, "open")
       /\ api' = [api EXCEPT ![m].outcome = last,
                    ![m].pc = IF raised \/ api[m].sent = 0 THEN "closing" ELSE "recording"]
  /\ UNCHANGED <<mode, ui>>

(* Mutant: a response that ends without a turn to record is left open.      *)
ApiCloses_Recorded(m) ==
  /\ api[m].pc \in {"recording", "closing"}
  /\ net' = [net EXCEPT ![m].state = IF @ = "open" /\ api[m].pc = "recording" THEN "ended" ELSE @]
  /\ api' = [api EXCEPT ![m].pc = "gone",
               ![m].turns = IF api[m].pc = "recording" THEN @ + 1 ELSE @]
  /\ UNCHANGED <<mode, ui>>

ApiCloses(m) ==
  /\ api[m].pc \in {"recording", "closing"}
  /\ net' = [net EXCEPT ![m].state = IF @ = "open" THEN "ended" ELSE @]
  /\ api' = [api EXCEPT ![m].pc = "gone",
               ![m].turns = IF api[m].pc = "recording" THEN @ + 1 ELSE @]
  /\ UNCHANGED <<mode, ui>>

(* A response nobody reads any more is cancelled.                           *)
ApiCancelled(m) ==
  /\ api[m].pc \notin {"gone", "full"} /\ net[m].state = "broken"
  /\ api' = [api EXCEPT ![m].pc = "gone"]
  /\ UNCHANGED <<mode, ui, net>>

(* What the body of a response with status 200 may be to _json_response and *)
(* the renderer: a text to show, or nothing of use.                         *)
Answers == {"answer", "unusable"}

(* chat_full, with or without a text to show.                               *)
ApiAnswers(m) ==
  /\ api[m].pc = "full"
  /\ \E answer \in Answers : Put(m, answer, "ended")
  /\ api' = [api EXCEPT ![m].pc = "gone", ![m].turns = @ + 1]
  /\ UNCHANGED <<mode, ui>>

-----------------------------------------------------------------------------
(* The connection                                                           *)

(* It fails or a read times out: what the API sends from here on is lost.   *)
Break(m) ==
  /\ net[m].state = "open"
  /\ net' = [net EXCEPT ![m].state = "broken"]
  /\ UNCHANGED <<mode, ui, api>>

(* The response ends as if it were complete: the API's process goes away.   *)
EndEarly(m) ==
  /\ net[m].state = "open" /\ api[m].pc = "started"
  /\ net' = [net EXCEPT ![m].state = "ended"]
  /\ api' = [api EXCEPT ![m].pc = "gone"]
  /\ UNCHANGED <<mode, ui>>

-----------------------------------------------------------------------------
(* The handler                                                              *)

(* response_actions(user_text, get_selected_mode()): the answer is final,   *)
(* and the connection closed.                                               *)
Finish(m, shown, notice) ==
  /\ ui' = [ui EXCEPT ![m].pc = "answered", ![m].shown = shown, ![m].notice = notice,
              ![m].buffer = <<>>, ![m].retry = mode]
  /\ net' = [net EXCEPT ![m] = Broken]
  /\ UNCHANGED <<mode, api>>

Arrives(m, pc, event) ==
  /\ ui[m].pc = pc
  /\ net[m].events # <<>> /\ Head(net[m].events) = event

Taken(m) == net' = [net EXCEPT ![m].events = Tail(@)]

OnStatus(m) ==
  /\ Arrives(m, "streaming", "status")
  /\ Taken(m)
  /\ UNCHANGED <<mode, ui, api>>

(* should_flush_stream_buffer: its length, the end of a sentence and the    *)
(* fences of the text so far decide.                                        *)
MayFlush == BOOLEAN

(* Mutant: the buffer is kept after it was shown.                           *)
OnToken_KeepsBuffer(m) ==
  LET token == Len(ui[m].streamed) + 1
      buffer == Append(ui[m].buffer, token)
  IN  /\ Arrives(m, "streaming", "token")
      /\ Taken(m)
      /\ \E flush \in MayFlush :
           ui' = [ui EXCEPT ![m].visible = {"response"}, ![m].streamed = Append(@, token),
                    ![m].buffer = buffer, ![m].shown = IF flush THEN @ \o buffer ELSE @]
      /\ UNCHANGED <<mode, api>>

(* Mutant: the status message stays beside the response.                    *)
OnToken_KeepsStatus(m) ==
  /\ Arrives(m, "streaming", "token")
  /\ Taken(m)
  /\ ui' = [ui EXCEPT ![m].visible = @ \cup {"response"}, ![m].streamed = Append(@, Len(@) + 1),
               ![m].buffer = Append(@, Len(ui[m].streamed) + 1)]
  /\ UNCHANGED <<mode, api>>

(* The first token replaces the status message with the response.           *)
OnToken(m) ==
  LET token == Len(ui[m].streamed) + 1
      buffer == Append(ui[m].buffer, token)
  IN  /\ Arrives(m, "streaming", "token")
      /\ Taken(m)
      /\ \E flush \in MayFlush :
           ui' = [ui EXCEPT ![m].visible = {"response"}, ![m].streamed = Append(@, token),
                    ![m].buffer = IF flush THEN <<>> ELSE buffer,
                    ![m].shown = IF flush THEN @ \o buffer ELSE @]
      /\ UNCHANGED <<mode, api>>

OnDone(m) ==
  /\ Arrives(m, "streaming", "done")
  /\ Taken(m)
  /\ ui' = [ui EXCEPT ![m].done = TRUE]
  /\ UNCHANGED <<mode, api>>

(* The text so far and why there is no more.                                *)
OnFailedEvent(m) ==
  \E event \in {"cancelled", "error"} :
    /\ Arrives(m, "streaming", event)
    /\ Finish(m, ui[m].streamed, event)

(* The connection failed or a wait timed out.                               *)
Lost(m) == net[m] = Broken

(* Mutant: only a response that has begun is ended.                         *)
OnStreamError_TokensOnly(m) ==
  /\ ui[m].pc = "streaming" /\ Lost(m)
  /\ ui[m].streamed # <<>>
  /\ Finish(m, ui[m].streamed, "interrupted")

(* A BackendClientError in the stream: an error status, a broken connection *)
(* or a malformed event.                                                    *)
OnStreamError(m) ==
  /\ \/ \E failure \in Rejections : Arrives(m, "streaming", failure)
     \/ ui[m].pc = "streaming" /\ Lost(m)
  /\ Finish(m, ui[m].streamed, IF ui[m].streamed = <<>> THEN "streaming error" ELSE "interrupted")

StreamEnded(m) == ui[m].pc = "streaming" /\ net[m] = Ended

(* Mutant: the end of the response is the end of the answer.                *)
EndOfStream_Whole(m) ==
  /\ StreamEnded(m) /\ ui[m].streamed # <<>>
  /\ Finish(m, ui[m].shown \o ui[m].buffer, "none")

EndOfStream(m) ==
  /\ StreamEnded(m) /\ ui[m].streamed # <<>>
  /\ IF ui[m].done THEN Finish(m, ui[m].shown \o ui[m].buffer, "none")
                   ELSE Finish(m, ui[m].streamed, "incomplete")

(* Mutant: a stream that broke is asked for in full, too.                   *)
Fallback_Broken(m) ==
  /\ ui[m].pc = "streaming" /\ net[m].events = <<>> /\ net[m].state # "open"
  /\ ui[m].streamed = <<>>
  /\ ui' = [ui EXCEPT ![m].pc = "full", ![m].done = FALSE]
  /\ Ask(m, "full")
  /\ UNCHANGED mode

(* A stream without a token: the message is sent again as a full request.   *)
Fallback(m) ==
  /\ StreamEnded(m) /\ ui[m].streamed = <<>>
  /\ ui' = [ui EXCEPT ![m].pc = "full", ![m].done = FALSE]
  /\ Ask(m, "full")
  /\ UNCHANGED mode

OnAnswer(m) ==
  /\ Arrives(m, "full", "answer")
  /\ Finish(m, FullText, "none")

(* Mutant: the retry has the mode the API was sent, none for "auto".        *)
OnFullError_ApiMode(m) ==
  /\ ui[m].pc = "full" /\ Lost(m)
  /\ ui' = [ui EXCEPT ![m].pc = "answered", ![m].notice = "no_answer",
               ![m].retry = IF ui[m].mode = "auto" THEN "none" ELSE ui[m].mode]
  /\ UNCHANGED <<mode, net, api>>

(* send_full_backend_response raises; handle_user_text says so in the       *)
(* status message, whose retry has the mode of the request.                 *)
OnFullError(m) ==
  /\ \E failure \in Failures :
       /\ \/ Arrives(m, "full", failure)
          \/ /\ failure = "no_answer"
             /\ ui[m].pc = "full" /\ Lost(m)
       /\ ui' = [ui EXCEPT ![m].pc = "answered", ![m].notice = failure,
                   ![m].retry = ui[m].mode]
  /\ net' = [net EXCEPT ![m] = Broken]
  /\ UNCHANGED <<mode, api>>

-----------------------------------------------------------------------------
User ==
  \/ \E m \in Messages : OnMessage(m) \/ \E answered \in Messages : OnRetry(m, answered)
  \/ \E selected \in Modes : SwitchMode(selected)

Api(m) ==
  \/ ApiRejects(m) \/ ApiStatus(m) \/ ApiToken(m) \/ ApiLastEvent(m) \/ ApiCloses(m)
  \/ ApiCancelled(m) \/ ApiAnswers(m)

Handler(m) ==
  \/ OnSelected(m) \/ OnStatus(m) \/ OnToken(m) \/ OnDone(m) \/ OnFailedEvent(m) \/ OnStreamError(m)
  \/ EndOfStream(m) \/ Fallback(m) \/ OnAnswer(m) \/ OnFullError(m)

Next == User \/ \E m \in Messages : Api(m) \/ Handler(m) \/ Break(m) \/ EndEarly(m)

(* The API ends every request: each wait of it for a job has a deadline.    *)
Spec == Init /\ [][Next]_vars /\ \A m \in Messages : WF_vars(Api(m)) /\ WF_vars(Handler(m))

-----------------------------------------------------------------------------
Prefix(n) == [k \in 1..n |-> k]

TypeOK ==
  /\ mode \in Modes
  /\ \A m \in Messages :
       /\ ui[m].pc \in {"new", "selecting", "streaming", "full", "answered"}
       /\ ui[m].mode \in Modes \cup {NoMode} /\ ui[m].retry \in Modes \cup {NoMode}
       /\ ui[m].notice \in Notices
       /\ net[m].state \in {"open", "ended", "broken"}
       /\ api[m].pc \in {"streaming", "started", "recording", "closing", "full", "gone"}
       /\ api[m].sent \in 0..MaxTokens[m]
       /\ api[m].outcome \in {"none", "done", "cancelled", "error"}

(* What was flushed and what waits in the buffer are the tokens that came,  *)
(* each once and in order, and what came is the beginning of what was sent. *)
TextAsReceived ==
  \A m \in Messages :
    /\ ui[m].streamed = Prefix(Len(ui[m].streamed)) /\ Len(ui[m].streamed) <= api[m].sent
    /\ ui[m].pc = "streaming" => ui[m].shown \o ui[m].buffer = ui[m].streamed

(* An answer without a notice is the whole answer: every token of a stream  *)
(* the API has completed, or the one text of a full response. A notice says *)
(* that the answer was cancelled or failed only if it was.                  *)
AnswerIsWhole ==
  \A m \in Messages : ui[m].pc = "answered" =>
    /\ ui[m].notice = "none" /\ ui[m].shown # FullText =>
         api[m].outcome = "done" /\ ui[m].shown = Prefix(api[m].sent) /\ ui[m].shown # <<>>
    /\ ui[m].notice \in {"cancelled", "error"} => api[m].outcome = ui[m].notice
    /\ ui[m].notice \in {"interrupted", "incomplete"} => ui[m].shown = ui[m].streamed /\ ui[m].shown # <<>>

(* A message becomes one message of the chat: the status message until      *)
(* there is text, then the response; and what is left can be retried, in    *)
(* the mode it was asked in unless another one was selected meanwhile.      *)
OneAnswer ==
  \A m \in Messages :
    /\ ui[m].pc \notin {"new", "selecting"} => ui[m].visible = {IF ui[m].streamed = <<>> THEN "status" ELSE "response"}
    /\ ui[m].pc = "answered" /\ ui[m].retry \notin {NoMode, ui[m].mode} => ui[m].switched

(* The second request for a message does not make the API answer it twice:  *)
(* a turn is remembered at most once, and never before the message is asked *)
(* again.                                                                   *)
AskedAgainOnlyUnanswered ==
  \A m \in Messages :
    /\ api[m].asked <= 2 /\ api[m].turns <= 1
    /\ api[m].asked = 2 => ui[m].streamed = <<>> /\ api[m].sent = 0

(* What a handler waits for is there or still to come: an event of a kind   *)
(* that the request it made can bring, an end it reacts to, or the API at   *)
(* work on that request and a connection that can carry what it sends.      *)
ToCome(m, kinds, ends, working) ==
  \/ net[m].events # <<>> /\ Head(net[m].events) \in kinds \cup Rejections
  \/ net[m] \in ends
  \/ net[m] = NewResponse /\ api[m].pc \in working

(* No handler is left waiting: of a stream it understands every event that  *)
(* arrives and both ways it may end, of a full request the answer or the    *)
(* loss of it, and the API has gone only after it sent or closed something. *)
AnswerIsToCome ==
  \A m \in Messages :
    /\ ui[m].pc = "streaming" =>
         ToCome(m, {"status", "token", "done", "cancelled", "error"}, {Broken, Ended},
                {"streaming", "started", "recording", "closing"})
    /\ ui[m].pc = "full" => ToCome(m, Answers, {Broken}, {"full"})

(* Every message is answered.                                               *)
EveryMessageAnswered == \A m \in Messages : ui[m].pc # "new" ~> ui[m].pc = "answered"

=============================================================================
